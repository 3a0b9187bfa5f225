------------------------- MODULE SharedBudgetProofs -------------------------
(***************************************************************************)
(* Proofs about SharedBudget, for any processes and threads, any burst,    *)
(* rate and reserves, and any number of ticks and faults: one update at a  *)
(* time, denials that stand, and the refinement of RateBudget.             *)
(***************************************************************************)
EXTENDS SharedBudget, TLAPS

(* Everything the record may have given away by now, in ticks.             *)
Allowance == TicksPerToken * Burst + passed + reread

(* The thread between its guard and its answer holds the two locks.        *)
LockInv ==
    \A t \in Threads :
        /\ pc[t] \in {"advisory", "read"} \union Writing => guard[ProcessOf[t]] = t
        /\ Updating(t) => advisory = ProcessOf[t]

(* A reading of the clock is not ahead of it, nor older than the time that *)
(* passed.                                                                 *)
ReadingInv ==
    \A t \in Threads :
        pc[t] # "idle" => take[t].now <= wall /\ wall - take[t].now <= passed

(* An update in progress: what its file holds at each of its steps.        *)
StageInv ==
    \A t \in Threads :
        /\ pc[t] \in {"body", "commit"} => file.layout = "blanked"
        /\ pc[t] = "commit" => file.tokens = take[t].tokens /\ file.at = take[t].at

Spent(t) == IF take[t].grant THEN 1 ELSE 0

(* The credit argument.  What was granted, what the record (or the one an  *)
(* update is about to write) still holds, and the time it has not yet      *)
(* turned into tokens, are covered by the burst and the time there was.    *)
FileCovered ==
    /\ TicksPerToken * granted <= Allowance
    /\ file.layout = "empty" => granted = 0
    /\ file.layout = "current" => TicksPerToken * (granted + file.tokens) + Since(file.at) <= Allowance

TakeCovered(t) ==
    pc[t] \in Writing =>
        TicksPerToken * (granted + Spent(t) + take[t].tokens) + Since(take[t].at) <= Allowance + take[t].again

CreditInv == FileCovered /\ \A t \in Threads : TakeCovered(t)

IInv == TypeOK /\ LockInv /\ ReadingInv /\ StageInv /\ DenialStands /\ CreditInv

-----------------------------------------------------------------------------
(* Arithmetic.                                                             *)

(* Whole tokens earned by an interval never cost more than the interval.   *)
LEMMA EarnedIsPaid ==
    ASSUME NEW a \in Nat, NEW k \in Nat \ {0}
    PROVE  a \div k \in Nat /\ k * (a \div k) <= a
BY SMT

LEMMA ProductOfSum ==
    ASSUME NEW a \in Nat, NEW b \in Nat, NEW k \in Nat
    PROVE  k * (a + b) = k * a + k * b /\ k * a \in Nat
BY SMT

LEMMA ProductIsMonotone ==
    ASSUME NEW a \in Nat, NEW b \in Nat, NEW k \in Nat, a <= b
    PROVE  k * a <= k * b
BY SMT

LEMMA EarlierClock ==
    ASSUME NEW now \in Nat, NEW then \in Nat, then <= now, NEW at \in Nat
    PROVE  /\ (IF at < now THEN now - at ELSE 0) \in Nat
           /\ (IF at < then THEN then - at ELSE 0) \in Nat
           /\ (IF at < then THEN then - at ELSE 0) <= (IF at < now THEN now - at ELSE 0)
<1>1. CASE at < then
  <2>1. at < now
    BY <1>1
  <2> QED
    BY <1>1, <2>1
<1>2. CASE ~(at < then)
  BY <1>2
<1> QED
  BY <1>1, <1>2

LEMMA WritingIsUpdating ==
    ASSUME NEW t \in Threads, pc[t] \in Writing \union {"read"}
    PROVE  Updating(t)
BY DEF Updating, Writing

-----------------------------------------------------------------------------
(* What refill does to a record that is covered, by a reading of the clock *)
(* that is not ahead of it: it stays covered, up to the ticks that are     *)
(* counted again.                                                          *)
LEMMA LevelIsCovered ==
    ASSUME IInv, NEW t \in Threads, pc[t] = "read", file.layout # "newer"
    PROVE  /\ Level(t) \in [tokens : 0..Burst, at : Nat]
           /\ CountedAgain(take[t].now) \in Nat
           /\ TicksPerToken * (granted + Level(t).tokens) + Since(Level(t).at)
                <= Allowance + CountedAgain(take[t].now)
<1> DEFINE now == take[t].now
           s == ReadState(now)
<1>1. /\ now \in Nat /\ now <= wall /\ wall - now <= passed
      /\ wall \in Nat /\ passed \in Nat /\ reread \in Nat /\ granted \in Nat
      /\ TicksPerToken \in Nat \ {0} /\ Burst \in Nat \ {0}
      /\ file.layout \in Layouts /\ file.tokens \in 0..Burst /\ file.at \in Nat
  BY RateAssumption DEF IInv, TypeOK, ReadingInv, Record
<1>2. Since(now) = wall - now /\ Since(now) \in Nat
  BY <1>1 DEF Since
<1>3. /\ TicksPerToken * granted <= Allowance /\ TicksPerToken * granted \in Nat /\ TicksPerToken * Burst \in Nat
      /\ Allowance = TicksPerToken * Burst + passed + reread
  BY <1>1, ProductOfSum DEF IInv, CreditInv, FileCovered, Allowance
<1> HIDE DEF Allowance
<1>4. CASE file.layout = "empty"
  <2>1. s = [tokens |-> Burst, at |-> now]
    BY <1>4 DEF ReadState
  <2>2. Level(t) = [tokens |-> Burst, at |-> now]
    <3>1. Earned(s, now) = 0 \div TicksPerToken /\ 0 \div TicksPerToken \in Nat /\ TicksPerToken * (0 \div TicksPerToken) <= 0
      BY <1>1, <2>1, EarnedIsPaid DEF Earned
    <3>2. 0 \div TicksPerToken = 0
      BY <1>1, <3>1, SMT
    <3> QED
      BY <1>1, <2>1, <3>1, <3>2 DEF Level, Refilled
  <2>3. granted = 0 /\ CountedAgain(now) = 0
    BY <1>4 DEF CountedAgain, IInv, CreditInv, FileCovered
  <2> QED
    BY <1>1, <1>2, <1>3, <2>2, <2>3
<1>5. CASE file.layout = "current"
  <2>1. s = [tokens |-> file.tokens, at |-> file.at]
    BY <1>5 DEF ReadState
  <2>2. TicksPerToken * (granted + file.tokens) + Since(file.at) <= Allowance
    BY <1>5 DEF IInv, CreditInv, FileCovered
  <2>3. CASE now < file.at
    <3>1. Level(t) = [tokens |-> file.tokens, at |-> now]
      BY <2>1, <2>3 DEF Level, Refilled
    <3>2. CountedAgain(now) = Since(now) - Since(file.at)
      BY <1>5, <2>3 DEF CountedAgain
    <3>3. Since(file.at) \in Nat /\ Since(file.at) <= Since(now)
      BY <1>1, <2>3 DEF Since
    <3>4. TicksPerToken * (granted + file.tokens) \in Nat
      BY <1>1, ProductOfSum
    <3> QED
      BY <1>1, <1>2, <1>3, <2>2, <3>1, <3>2, <3>3, <3>4
  <2>4. CASE ~(now < file.at)
    <3> DEFINE n == (now - file.at) \div TicksPerToken
    <3>1. /\ Earned(s, now) = n /\ n \in Nat /\ TicksPerToken * n <= now - file.at
          /\ TicksPerToken * n \in Nat
      BY <1>1, <2>1, <2>4, EarnedIsPaid, ProductOfSum DEF Earned
    <3>2. CountedAgain(now) = 0 /\ Since(file.at) = wall - file.at
      BY <1>1, <1>5, <2>4 DEF CountedAgain, Since
    <3> HIDE DEF n
    <3>3. CASE n >= Burst
      <4>1. Level(t) = [tokens |-> Burst, at |-> now]
        BY <2>1, <2>4, <3>1, <3>3 DEF Level, Refilled
      <4>2. TicksPerToken * Burst <= TicksPerToken * n
        BY <1>1, <3>1, <3>3, ProductIsMonotone
      <4>3. /\ TicksPerToken * (granted + Burst) = TicksPerToken * granted + TicksPerToken * Burst
            /\ TicksPerToken * (granted + file.tokens) = TicksPerToken * granted + TicksPerToken * file.tokens
            /\ TicksPerToken * file.tokens \in Nat
        BY <1>1, ProductOfSum
      <4>4. TicksPerToken * (granted + Burst) + Since(now) <= Allowance
        <5>1. TicksPerToken * Burst <= now - file.at
          BY <1>1, <1>3, <3>1, <4>2
        <5>2. TicksPerToken * (granted + Burst) + Since(now) <= TicksPerToken * granted + Since(file.at)
          BY <1>1, <1>2, <1>3, <3>2, <4>3, <5>1
        <5>3. TicksPerToken * granted + Since(file.at) <= Allowance
          BY <1>1, <1>3, <2>2, <3>2, <4>3
        <5> QED
          BY <1>1, <1>2, <1>3, <3>2, <4>3, <5>2, <5>3
      <4> QED
        BY <1>1, <1>2, <1>3, <3>2, <4>1, <4>4
    <3>4. CASE n < Burst
      <4> DEFINE sum == IF file.tokens + n < Burst THEN file.tokens + n ELSE Burst
      <4>1. Level(t) = [tokens |-> sum, at |-> file.at + TicksPerToken * n]
        BY <1>1, <2>1, <2>4, <3>1, <3>4 DEF Level, Refilled
      <4>2. sum \in 0..Burst /\ sum <= file.tokens + n
        BY <1>1, <3>1
      <4>3. /\ TicksPerToken * (granted + sum) <= TicksPerToken * (granted + file.tokens + n)
            /\ TicksPerToken * (granted + file.tokens + n) = TicksPerToken * (granted + file.tokens) + TicksPerToken * n
            /\ TicksPerToken * (granted + sum) \in Nat
            /\ TicksPerToken * (granted + file.tokens) \in Nat
        <5>1. /\ granted + sum \in Nat /\ granted + file.tokens \in Nat
              /\ granted + file.tokens + n \in Nat
              /\ granted + sum <= granted + file.tokens + n
          BY <1>1, <3>1, <4>2
        <5> QED
          BY <1>1, <3>1, <5>1, ProductOfSum, ProductIsMonotone
      <4>4. Since(file.at + TicksPerToken * n) = wall - (file.at + TicksPerToken * n)
        <5> DEFINE anchor == file.at + TicksPerToken * n
        <5>1. anchor \in Nat /\ anchor <= wall
          BY <1>1, <3>1
        <5> HIDE DEF anchor
        <5>2. Since(anchor) = wall - anchor
          BY <1>1, <5>1 DEF Since
        <5> QED
          BY <5>2 DEF anchor
      <4> HIDE DEF sum
      <4> QED
        BY <1>1, <1>3, <2>2, <3>1, <3>2, <4>1, <4>2, <4>3, <4>4
    <3> QED
      BY <1>1, <3>1, <3>3, <3>4
  <2> QED
    BY <2>3, <2>4
<1>6. CASE file.layout \in {"blanked", "foreign"}
  <2>1. s = [tokens |-> 0, at |-> now]
    BY <1>6 DEF ReadState
  <2>2. Level(t) = [tokens |-> 0, at |-> now]
    <3>1. Earned(s, now) = 0 \div TicksPerToken /\ 0 \div TicksPerToken \in Nat /\ TicksPerToken * (0 \div TicksPerToken) <= 0
      BY <1>1, <2>1, EarnedIsPaid DEF Earned
    <3>2. 0 \div TicksPerToken = 0
      BY <1>1, <3>1, SMT
    <3> QED
      BY <1>1, <2>1, <3>1, <3>2, SMT DEF Level, Refilled
  <2>3. CountedAgain(now) = Since(now)
    BY <1>6 DEF CountedAgain
  <2> QED
    BY <1>1, <1>2, <1>3, <2>2, <2>3
<1> QED
  BY <1>1, <1>4, <1>5, <1>6 DEF Layouts

-----------------------------------------------------------------------------
(* The initial states and the steps.                                       *)

LEMMA InitInv == Init => IInv
<1> SUFFICES ASSUME Init PROVE IInv
  OBVIOUS
<1>1. TicksPerToken \in Nat /\ TicksPerToken * 0 = 0 /\ TicksPerToken * Burst \in Nat
  BY RateAssumption, ProductOfSum, SMT
<1>2. TypeOK
  BY RateAssumption, BoundsAssumption DEF Init, TypeOK, Record, Layouts, NoTake, TakeAt, Waiting, Writing
<1>3. LockInv /\ ReadingInv /\ StageInv /\ DenialStands
  BY DEF Init, LockInv, ReadingInv, StageInv, DenialStands, Updating, Writing
<1>4. CreditInv
  BY <1>1 DEF Init, CreditInv, FileCovered, TakeCovered, Allowance, Layouts, Writing
<1> QED
  BY <1>2, <1>3, <1>4 DEF IInv

TakeType == [now : Nat, grant : BOOLEAN, tokens : 0..Burst, at : Nat, again : Nat]

LEMMA TypeStep == IInv /\ [Next]_vars => TypeOK'
<1> SUFFICES ASSUME IInv, [Next]_vars PROVE TypeOK'
  OBVIOUS
<1> USE RateAssumption, ThreadsAssumption DEF TypeOK, Waiting, Writing, NoTake, TakeAt, IInv
<1>1. ASSUME NEW t \in Threads, TakeStep(t) PROVE TypeOK'
  <2>1. CASE Ask(t)
    <3>1. TakeAt(wall) \in TakeType
      BY DEF TakeType, TakeAt
    <3>2. take' \in [Threads -> TakeType]
      BY <2>1, <3>1 DEF Ask, TakeType
    <3> QED
      BY <2>1, <3>2 DEF Ask, TakeType, locks, counts
  <2>2. CASE TakeGuard(t)
    BY <2>2 DEF TakeGuard, counts
  <2>3. CASE TakeAdvisory(t)
    BY <2>3 DEF TakeAdvisory, counts
  <2>4. CASE LosePatience(t)
    BY <2>4 DEF LosePatience, Finish, Decided, counts
  <2>5. CASE Unreached(t)
    BY <2>5 DEF Unreached, Unlock, Finish, Decided, counts
  <2>6. CASE \E floor \in Floors : DenyUnwritten(t, floor)
    BY <2>6 DEF DenyUnwritten, Unlock, Finish, Decided, counts
  <2>7. CASE \E floor \in Floors : Decide(t, floor)
    <3>1. PICK floor \in Floors : Decide(t, floor)
      BY <2>7
    <3>2. /\ Level(t) \in [tokens : 0..Burst, at : Nat]
          /\ CountedAgain(take[t].now) \in Nat
          /\ floor \in Nat
      BY <3>1, LevelIsCovered, FloorsAssumption DEF Decide
    <3> DEFINE grant == Level(t).tokens > floor
               tokens == IF grant THEN Level(t).tokens - 1 ELSE Level(t).tokens
               new == [take[t] EXCEPT !.grant = grant, !.tokens = tokens, !.at = Level(t).at,
                                      !.again = CountedAgain(take[t].now)]
    <3>3. grant \in BOOLEAN /\ tokens \in 0..Burst /\ Level(t).at \in Nat
      BY <3>2
    <3>4. take[t] \in TakeType
      BY DEF TakeType
    <3> HIDE DEF grant, tokens
    <3>5. new \in TakeType
      BY <3>2, <3>3, <3>4 DEF TakeType
    <3>6. take' = [take EXCEPT ![t] = new]
      BY <3>1 DEF Decide, grant, tokens
    <3> HIDE DEF new
    <3>7. take' \in [Threads -> TakeType]
      BY <3>5, <3>6 DEF TakeType
    <3> QED
      BY <3>1, <3>7 DEF Decide, TakeType, locks, counts
  <2>8. CASE Blank(t)
    BY <2>8 DEF Blank, Record, Layouts, locks, counts
  <2>9. CASE Body(t)
    BY <2>9 DEF Body, Record, locks, counts
  <2>10. CASE Commit(t)
    BY <2>10 DEF Commit, Unlock, Finish, Decided, Record, Layouts, counts
  <2>11. CASE WriteFails(t)
    BY <2>11 DEF WriteFails, Cut, Unwritten, Unlock, Finish, Decided, Record, counts
  <2> QED
    BY <1>1, <2>1, <2>2, <2>3, <2>4, <2>5, <2>6, <2>7, <2>8, <2>9, <2>10, <2>11 DEF TakeStep
<1>2. ASSUME NEW p \in Processes, Die(p) PROVE TypeOK'
  BY <1>2 DEF Die, Cut, Record, counts
<1>3. CASE Tick
  BY <1>3 DEF Tick, locks
<1>4. CASE StepBack
  BY <1>4 DEF StepBack, locks, counts
<1>5. CASE UNCHANGED vars
  BY <1>5 DEF vars
<1> QED
  BY <1>1, <1>2, <1>3, <1>4, <1>5 DEF Next

(* The two locks.  A thread of another process cannot be between the       *)
(* advisory lock and its answer, and one of the same process is kept out   *)
(* by the mutex.                                                           *)
LEMMA OneUpdateInv ==
    ASSUME LockInv, NEW t \in Threads, NEW u \in Threads, Updating(t), Updating(u)
    PROVE  t = u
BY DEF LockInv, Updating

LEMMA LockStep == IInv /\ [Next]_vars => LockInv'
<1> SUFFICES ASSUME IInv, [Next]_vars PROVE LockInv'
  OBVIOUS
<1> USE ThreadsAssumption, NoneAssumption DEF LockInv, Updating, Writing, IInv, TypeOK
<1>1. ASSUME NEW t \in Threads, TakeStep(t) PROVE LockInv'
  <2>1. CASE Ask(t)
    BY <2>1 DEF Ask, locks
  <2>2. CASE TakeGuard(t)
    BY <2>2 DEF TakeGuard
  <2>3. CASE TakeAdvisory(t)
    BY <2>3 DEF TakeAdvisory
  <2>4. CASE LosePatience(t)
    BY <2>4 DEF LosePatience, Finish
  <2>5. CASE Unlock(t) /\ (\E a : Finish(t, a)) /\ pc[t] \in {"read"} \union Writing
    BY <2>5 DEF Unlock, Finish
  <2>6. CASE Unreached(t)
    BY <2>5, <2>6 DEF Unreached
  <2>7. CASE \E floor \in Floors : DenyUnwritten(t, floor)
    BY <2>5, <2>7 DEF DenyUnwritten
  <2>8. CASE \E floor \in Floors : Decide(t, floor)
    BY <2>8 DEF Decide, locks
  <2>9. CASE Blank(t) \/ Body(t)
    BY <2>9 DEF Blank, Body, locks
  <2>10. CASE Commit(t)
    BY <2>5, <2>10 DEF Commit
  <2>11. CASE WriteFails(t)
    BY <2>5, <2>11 DEF WriteFails
  <2> QED
    BY <1>1, <2>1, <2>2, <2>3, <2>4, <2>6, <2>7, <2>8, <2>9, <2>10, <2>11 DEF TakeStep
<1>2. ASSUME NEW p \in Processes, Die(p) PROVE LockInv'
  BY <1>2 DEF Die
<1>3. CASE Tick \/ StepBack \/ UNCHANGED vars
  BY <1>3 DEF Tick, StepBack, vars, locks
<1> QED
  BY <1>1, <1>2, <1>3 DEF Next

LEMMA ReadingStep == IInv /\ [Next]_vars => ReadingInv'
<1> SUFFICES ASSUME IInv, [Next]_vars PROVE ReadingInv'
  OBVIOUS
<1> USE DEF ReadingInv, IInv, TypeOK, Writing
<1>1. ASSUME NEW t \in Threads, TakeStep(t) PROVE ReadingInv'
  <2>1. CASE Ask(t)
    BY <2>1 DEF Ask, TakeAt, counts
  <2>2. CASE TakeGuard(t) \/ TakeAdvisory(t) \/ Blank(t) \/ Body(t)
    BY <2>2 DEF TakeGuard, TakeAdvisory, Blank, Body, counts
  <2>3. CASE (\E a : Finish(t, a)) /\ UNCHANGED <<wall, passed>>
    BY <2>3 DEF Finish
  <2>4. CASE LosePatience(t) \/ Unreached(t) \/ Commit(t) \/ WriteFails(t)
    BY <2>3, <2>4 DEF LosePatience, Unreached, Commit, WriteFails, counts
  <2>5. CASE \E floor \in Floors : DenyUnwritten(t, floor)
    BY <2>3, <2>5 DEF DenyUnwritten, counts
  <2>6. CASE \E floor \in Floors : Decide(t, floor)
    <3>1. /\ take'[t].now = take[t].now /\ \A u \in Threads \ {t} : take'[u] = take[u]
          /\ pc[t] = "read" /\ \A u \in Threads \ {t} : pc'[u] = pc[u]
          /\ UNCHANGED <<wall, passed>>
      BY <2>6 DEF Decide, counts
    <3> QED
      BY <3>1
  <2> QED
    BY <1>1, <2>1, <2>2, <2>4, <2>5, <2>6 DEF TakeStep
<1>2. ASSUME NEW p \in Processes, Die(p) PROVE ReadingInv'
  BY <1>2 DEF Die, counts
<1>3. CASE Tick
  BY <1>3 DEF Tick
<1>4. CASE StepBack \/ UNCHANGED vars
  BY <1>4 DEF StepBack, vars
<1> QED
  BY <1>1, <1>2, <1>3, <1>4 DEF Next

LEMMA StageStep == IInv /\ [Next]_vars => StageInv'
<1> SUFFICES ASSUME IInv, [Next]_vars PROVE StageInv'
  OBVIOUS
<1>0. \A t, u \in Threads :
        pc[t] \in Writing \union {"read"} /\ pc[u] \in Writing \union {"read"} => t = u
  BY OneUpdateInv, WritingIsUpdating DEF IInv
<1> USE DEF StageInv, IInv, TypeOK, Writing
<1>1. ASSUME NEW t \in Threads, TakeStep(t) PROVE StageInv'
  <2>1. CASE Ask(t) \/ TakeGuard(t) \/ TakeAdvisory(t)
    BY <2>1 DEF Ask, TakeGuard, TakeAdvisory
  <2>2. CASE (\E a : Finish(t, a)) /\ UNCHANGED file
    BY <2>2 DEF Finish
  <2>3. CASE LosePatience(t) \/ Unreached(t)
    BY <2>2, <2>3 DEF LosePatience, Unreached
  <2>4. CASE \E floor \in Floors : DenyUnwritten(t, floor)
    BY <2>2, <2>4 DEF DenyUnwritten
  <2>5. CASE \E floor \in Floors : Decide(t, floor)
    BY <2>5 DEF Decide
  <2>6. CASE Blank(t)
    BY <1>0, <2>6 DEF Blank, Record
  <2>7. CASE Body(t)
    BY <1>0, <2>7 DEF Body, Record
  <2>8. CASE Commit(t) \/ WriteFails(t)
    <3>1. /\ pc[t] \in Writing /\ pc'[t] = "idle"
          /\ \A u \in Threads \ {t} : pc'[u] = pc[u]
      BY <2>8 DEF Commit, WriteFails, Finish
    <3> QED
      BY <1>0, <3>1
  <2> QED
    BY <1>1, <2>1, <2>3, <2>4, <2>5, <2>6, <2>7, <2>8 DEF TakeStep
<1>2. ASSUME NEW p \in Processes, Die(p) PROVE StageInv'
  BY <1>0, <1>2 DEF Die
<1>3. CASE Tick \/ StepBack \/ UNCHANGED vars
  BY <1>3 DEF Tick, StepBack, vars
<1> QED
  BY <1>1, <1>2, <1>3 DEF Next

LEMMA DenialStep == IInv /\ [Next]_vars => DenialStands'
<1> SUFFICES ASSUME IInv, [Next]_vars PROVE DenialStands'
  OBVIOUS
<1> USE DEF DenialStands, IInv, TypeOK, Writing, Waiting
<1>1. ASSUME NEW t \in Threads, TakeStep(t) PROVE DenialStands'
  <2>1. CASE Ask(t) \/ TakeGuard(t) \/ TakeAdvisory(t) \/ Blank(t) \/ Body(t)
    BY <2>1 DEF Ask, TakeGuard, TakeAdvisory, Blank, Body
  <2>2. CASE LosePatience(t) \/ Unreached(t)
    BY <2>2 DEF LosePatience, Unreached, Finish, Decided
  <2>3. CASE \E floor \in Floors : DenyUnwritten(t, floor) \/ Decide(t, floor)
    BY <2>3 DEF DenyUnwritten, Decide, Finish, Decided
  <2>4. CASE Commit(t) \/ WriteFails(t)
    BY <2>4 DEF Commit, WriteFails, Unwritten, Finish, Decided
  <2> QED
    BY <1>1, <2>1, <2>2, <2>3, <2>4 DEF TakeStep
<1>2. ASSUME NEW p \in Processes, Die(p) PROVE DenialStands'
  BY <1>2 DEF Die
<1>3. CASE Tick \/ StepBack \/ UNCHANGED vars
  BY <1>3 DEF Tick, StepBack, vars
<1> QED
  BY <1>1, <1>2, <1>3 DEF Next

LEMMA AllowanceIsInt ==
    IInv => /\ Allowance \in Nat /\ TicksPerToken \in Nat
            /\ TicksPerToken * Burst \in Nat
<1>1. TicksPerToken \in Nat /\ Burst \in Nat /\ TicksPerToken * Burst \in Nat
  BY RateAssumption, ProductOfSum
<1>2. IInv => passed \in Nat /\ reread \in Nat
  BY DEF IInv, TypeOK
<1> QED
  BY <1>1, <1>2 DEF Allowance

(* A step that neither reads nor writes the record, and lets no time pass. *)
LEMMA IdleCreditStep ==
    ASSUME IInv, UNCHANGED <<wall, file, passed, granted, reread>>,
           \A u \in Threads : pc'[u] \in Writing => pc[u] \in Writing /\ take'[u] = take[u]
    PROVE  CreditInv'
BY DEF IInv, CreditInv, FileCovered, TakeCovered, Allowance, Since, Spent

LEMMA CreditStep == IInv /\ [Next]_vars => CreditInv'
<1> SUFFICES ASSUME IInv, [Next]_vars PROVE CreditInv'
  OBVIOUS
<1>0. \A t, u \in Threads :
        pc[t] \in Writing \union {"read"} /\ pc[u] \in Writing \union {"read"} => t = u
  BY OneUpdateInv, WritingIsUpdating DEF IInv
<1>1. /\ TypeOK /\ StageInv /\ CreditInv /\ Allowance \in Nat /\ TicksPerToken \in Nat
      /\ TicksPerToken * Burst \in Nat
      /\ granted \in Nat /\ wall \in Nat /\ passed \in Nat /\ reread \in Nat
  BY AllowanceIsInt DEF IInv, TypeOK
<1>2. ASSUME NEW t \in Threads, TakeStep(t) PROVE CreditInv'
  <2>1. CASE Ask(t) \/ TakeGuard(t) \/ TakeAdvisory(t) \/ LosePatience(t) \/ Unreached(t)
    <3>1. \A u \in Threads : pc'[u] \in Writing => pc[u] \in Writing /\ take'[u] = take[u]
      BY <1>1, <2>1 DEF Ask, TakeGuard, TakeAdvisory, LosePatience, Unreached, Finish, Writing, TypeOK
    <3> QED
      BY <2>1, <3>1, IdleCreditStep
         DEF Ask, TakeGuard, TakeAdvisory, LosePatience, Unreached, counts
  <2>2. CASE \E floor \in Floors : DenyUnwritten(t, floor)
    <3>1. \A u \in Threads : pc'[u] \in Writing => pc[u] \in Writing /\ take'[u] = take[u]
      BY <1>1, <2>2 DEF DenyUnwritten, Finish, Writing, TypeOK
    <3> QED
      BY <2>2, <3>1, IdleCreditStep DEF DenyUnwritten, counts
  <2>3. CASE \E floor \in Floors : Decide(t, floor)
    <3>1. PICK floor \in Floors : Decide(t, floor)
      BY <2>3
    <3>2. /\ Level(t).tokens \in 0..Burst /\ Level(t).at \in Nat
          /\ CountedAgain(take[t].now) \in Nat
          /\ TicksPerToken * (granted + Level(t).tokens) + Since(Level(t).at)
               <= Allowance + CountedAgain(take[t].now)
      BY <3>1, LevelIsCovered DEF Decide
    <3>3. /\ take'[t].at = Level(t).at /\ take'[t].again = CountedAgain(take[t].now)
          /\ \/ /\ take'[t].grant /\ Level(t).tokens > floor
                /\ take'[t].tokens = Level(t).tokens - 1
             \/ ~take'[t].grant /\ take'[t].tokens = Level(t).tokens
      BY <1>1, <3>1 DEF Decide, TypeOK
    <3>4. /\ floor \in Nat /\ UNCHANGED <<wall, file, passed, granted, reread>>
          /\ pc[t] = "read"
      BY <3>1, FloorsAssumption DEF Decide, counts
    <3>5. granted + Spent(t)' + take'[t].tokens = granted + Level(t).tokens
      BY <1>1, <3>2, <3>3, <3>4 DEF Spent
    <3>6. TakeCovered(t)'
      BY <3>2, <3>3, <3>4, <3>5 DEF TakeCovered, Since, Allowance
    <3>7. \A u \in Threads \ {t} : pc'[u] = pc[u] /\ take'[u] = take[u]
      BY <1>1, <3>1 DEF Decide, TypeOK
    <3>8. \A u \in Threads \ {t} : pc'[u] \notin Writing
      BY <1>0, <3>4, <3>7
    <3>9. FileCovered'
      BY <1>1, <3>4 DEF CreditInv, FileCovered, Allowance, Since
    <3> QED
      BY <3>6, <3>8, <3>9 DEF CreditInv, TakeCovered
  <2>4. CASE Blank(t) \/ Body(t)
    <3>1. /\ UNCHANGED <<wall, passed, granted, reread, take>>
          /\ file'.layout = "blanked"
          /\ \A u \in Threads : pc'[u] \in Writing => pc[u] \in Writing
      BY <1>1, <2>4 DEF Blank, Body, StageInv, TypeOK, Record, Writing, counts
    <3> QED
      BY <1>1, <3>1 DEF CreditInv, FileCovered, TakeCovered, Allowance, Since, Spent
  <2>5. CASE Commit(t)
    <3>1. /\ pc[t] = "commit" /\ pc[t] \in Writing
          /\ file.tokens = take[t].tokens /\ file.at = take[t].at
          /\ take[t].tokens \in Nat /\ take[t].at \in Nat /\ take[t].again \in Nat
          /\ file'.layout = "current" /\ file'.tokens = file.tokens /\ file'.at = file.at
          /\ UNCHANGED <<wall, passed>>
          /\ reread' = reread + take[t].again
          /\ granted' = granted + Spent(t)
          /\ Spent(t) \in Nat
      BY <1>1, <2>5 DEF Commit, StageInv, TypeOK, Record, Writing, Spent
    <3>2. \A u \in Threads : pc'[u] \notin Writing
      BY <1>0, <1>1, <2>5, <3>1 DEF Commit, Finish, TypeOK, Writing
    <3>3. Since(file.at) \in Nat /\ Since(file.at)' = Since(file.at)
      BY <1>1, <3>1 DEF Since
    <3>4. Allowance' = Allowance + take[t].again
      BY <1>1, <3>1 DEF Allowance, TypeOK
    <3>5. TicksPerToken * (granted' + file'.tokens) + Since(file.at) <= Allowance'
      BY <1>1, <3>1, <3>4 DEF CreditInv, TakeCovered
    <3>6. TicksPerToken * granted' <= TicksPerToken * (granted' + file'.tokens)
      BY <1>1, <3>1, ProductIsMonotone
    <3>7. TicksPerToken * granted' \in Nat /\ TicksPerToken * (granted' + file'.tokens) \in Nat
      BY <1>1, <3>1, ProductOfSum
    <3>8. TicksPerToken * granted' <= Allowance'
      BY <1>1, <3>1, <3>3, <3>4, <3>5, <3>6, <3>7
    <3> QED
      BY <3>1, <3>2, <3>3, <3>5, <3>8 DEF CreditInv, FileCovered, TakeCovered
  <2>6. CASE WriteFails(t)
    <3>1. /\ UNCHANGED <<wall, passed, granted, reread>>
          /\ file' = file \/ file'.layout = "blanked"
      BY <1>1, <2>6 DEF WriteFails, Cut, StageInv, TypeOK, Record, counts
    <3>2. \A u \in Threads : pc'[u] \notin Writing
      BY <1>0, <1>1, <2>6 DEF WriteFails, Finish, TypeOK, Writing
    <3> QED
      BY <1>1, <3>1, <3>2 DEF CreditInv, FileCovered, TakeCovered, Allowance, Since
  <2> QED
    BY <1>2, <2>1, <2>2, <2>3, <2>4, <2>5, <2>6 DEF TakeStep
<1>3. ASSUME NEW p \in Processes, Die(p) PROVE CreditInv'
  <2>1. /\ UNCHANGED <<wall, passed, granted, reread>>
        /\ file' = file \/ file'.layout = "blanked"
    BY <1>1, <1>3 DEF Die, Cut, StageInv, TypeOK, Record, counts
  <2>2. \A u \in Threads : pc'[u] \in Writing => pc[u] \in Writing /\ take'[u] = take[u]
    BY <1>1, <1>3 DEF Die, TypeOK, Writing
  <2> QED
    BY <1>1, <2>1, <2>2 DEF CreditInv, FileCovered, TakeCovered, Allowance, Since, Spent
<1>4. CASE Tick
  <2>1. /\ UNCHANGED <<file, pc, take, granted, reread>>
        /\ wall' = wall + 1 /\ passed' = passed + 1
    BY <1>4 DEF Tick
  <2>2. \A at \in Nat : Since(at) \in Nat /\ Since(at)' \in Nat /\ Since(at)' <= Since(at) + 1
    BY <1>1, <2>1 DEF Since
  <2>3. Allowance' = Allowance + 1
    BY <1>1, <2>1 DEF Allowance, TypeOK
  <2>4. FileCovered'
    <3>1. TicksPerToken * granted \in Nat /\ TicksPerToken * (granted + file.tokens) \in Nat /\ file.at \in Nat
      BY <1>1, ProductOfSum DEF TypeOK, Record
    <3> QED
      BY <1>1, <2>1, <2>2, <2>3, <3>1 DEF CreditInv, FileCovered
  <2>5. ASSUME NEW u \in Threads PROVE TakeCovered(u)'
    <3>1. TicksPerToken * (granted + Spent(u) + take[u].tokens) \in Nat
      BY <1>1, ProductOfSum DEF TypeOK, Spent
    <3>2. take[u].at \in Nat /\ take[u].again \in Nat /\ TakeCovered(u)
      BY <1>1 DEF TypeOK, CreditInv
    <3> QED
      BY <1>1, <2>1, <2>2, <2>3, <3>1, <3>2 DEF TakeCovered, Spent
  <2> QED
    BY <2>4, <2>5 DEF CreditInv
<1>5. CASE StepBack
  <2>1. /\ UNCHANGED <<file, pc, granted, reread, passed>>
        /\ wall' \in Nat /\ wall' <= wall /\ \A u \in Threads : pc[u] = "idle"
    BY <1>1, <1>5 DEF StepBack, counts
  <2>2. \A at \in Nat : Since(at) \in Nat /\ Since(at)' \in Nat /\ Since(at)' <= Since(at)
    <3>1. wall \in Nat /\ wall' \in Nat /\ wall' <= wall
      BY <1>1, <2>1
    <3>2. ASSUME NEW at \in Nat
          PROVE  Since(at) \in Nat /\ Since(at)' \in Nat /\ Since(at)' <= Since(at)
      <4>1. /\ (IF at < wall THEN wall - at ELSE 0) \in Nat
            /\ (IF at < wall' THEN wall' - at ELSE 0) \in Nat
            /\ (IF at < wall' THEN wall' - at ELSE 0) <= (IF at < wall THEN wall - at ELSE 0)
        BY <3>1, EarlierClock, Zenon
      <4> QED
        BY <4>1, Zenon DEF Since
    <3> QED
      BY <3>2
  <2>3. TicksPerToken * granted \in Nat /\ TicksPerToken * (granted + file.tokens) \in Nat /\ file.at \in Nat
    BY <1>1, ProductOfSum DEF TypeOK, Record
  <2>4. Allowance' = Allowance
    BY <2>1 DEF Allowance
  <2> QED
    BY <1>1, <2>1, <2>2, <2>3, <2>4 DEF CreditInv, FileCovered, TakeCovered, Writing
<1>6. CASE UNCHANGED vars
  BY <1>6, IdleCreditStep DEF vars
<1> QED
  BY <1>2, <1>3, <1>4, <1>5, <1>6 DEF Next

-----------------------------------------------------------------------------
(* The theorems.                                                           *)

(* IInv holds in every reachable state.                                    *)
THEOREM Invariance == Spec => []IInv
<1>1. IInv /\ [Next]_vars => IInv'
  BY TypeStep, LockStep, ReadingStep, StageStep, DenialStep, CreditStep DEF IInv
<1> QED
  BY InitInv, <1>1, PTL DEF Spec

(* The record, the locks and every take have their types; in particular no *)
(* refill lifts the record above the burst.                                *)
THEOREM TypeCorrect == Spec => []TypeOK
<1>1. IInv => TypeOK
  BY DEF IInv
<1> QED
  BY Invariance, <1>1, PTL

(* Of all threads of all processes at most one is between reading the      *)
(* record and the end of its update, whoever dies or loses patience.       *)
THEOREM UpdatesExclude == Spec => []OneUpdate
<1>1. IInv => OneUpdate
  BY OneUpdateInv DEF IInv, OneUpdate
<1> QED
  BY Invariance, <1>1, PTL

(* A decided denial is answered as one.                                    *)
THEOREM DenialsStand == Spec => []DenialStands
<1>1. IInv => DenialStands
  BY DEF IInv
<1> QED
  BY Invariance, <1>1, PTL

(* A grant that is committed was covered when it was decided.              *)
LEMMA CommitIsCovered ==
    ASSUME IInv, NEW t \in Threads, Commit(t), take[t].grant
    PROVE  Rate!Covered(granted + 1, passed + reread + take[t].again)
<1>1. /\ TypeOK /\ Allowance \in Nat /\ TicksPerToken \in Nat
      /\ TicksPerToken * Burst \in Nat
      /\ granted \in Nat /\ passed \in Nat /\ reread \in Nat /\ wall \in Nat
      /\ take[t].tokens \in Nat /\ take[t].at \in Nat /\ take[t].again \in Nat
  BY AllowanceIsInt DEF IInv, TypeOK
<1>2. TicksPerToken * (granted + 1 + take[t].tokens) + Since(take[t].at)
        <= Allowance + take[t].again
  BY DEF IInv, CreditInv, TakeCovered, Commit, Writing, Spent
<1>3. Since(take[t].at) \in Nat
  BY <1>1 DEF Since
<1>4. TicksPerToken * (granted + 1) <= TicksPerToken * (granted + 1 + take[t].tokens)
  BY <1>1, ProductIsMonotone
<1>5. /\ TicksPerToken * (granted + 1) \in Nat
      /\ TicksPerToken * (granted + 1 + take[t].tokens) \in Nat
  BY <1>1, ProductOfSum
<1>6. TicksPerToken * (granted + 1) <= Allowance + take[t].again
  BY <1>1, <1>2, <1>3, <1>4, <1>5
<1> QED
  BY <1>1, <1>5, <1>6 DEF Rate!Covered, Allowance

(* The shared record implements one rate budget: a commit that grants is a *)
(* Grant, a tick, or a commit that moves the anchor back, is a Pass, and   *)
(* every other step leaves the budget alone.                               *)
THEOREM ImplementsRateBudget == Spec => WithinBudget
<1>1. Init => Rate!Init
  BY DEF Init, Rate!Init
<1>2. IInv /\ [Next]_vars => [Rate!Next]_Rate!vars
  <2> SUFFICES ASSUME IInv, [Next]_vars PROVE [Rate!Next]_Rate!vars
    OBVIOUS
  <2>1. granted \in Nat /\ passed \in Nat /\ reread \in Nat
    BY DEF IInv, TypeOK
  <2>2. CASE \E t \in Threads : Commit(t)
    <3>1. PICK t \in Threads : Commit(t)
      BY <2>2
    <3>2. /\ take[t].again \in Nat
          /\ passed' = passed /\ reread' = reread + take[t].again
          /\ granted' = IF take[t].grant THEN granted + 1 ELSE granted
      BY <3>1 DEF Commit, IInv, TypeOK
    <3>3. CASE take[t].grant
      <4>1. Rate!Covered(granted + 1, passed + reread + take[t].again)
        BY <3>1, <3>3, CommitIsCovered
      <4>2. passed' + reread' = passed + reread + take[t].again
        BY <2>1, <3>2
      <4>3. Rate!Grant
        BY <2>1, <3>2, <3>3, <4>1, <4>2 DEF Rate!Grant, Rate!Covered
      <4> QED
        BY <4>3 DEF Rate!Next
    <3>4. CASE ~take[t].grant
      <4>1. passed' + reread' = passed + reread + take[t].again
        BY <2>1, <3>2
      <4>2. CASE take[t].again = 0
        BY <2>1, <3>2, <3>4, <4>1, <4>2 DEF Rate!vars
      <4>3. CASE take[t].again # 0
        BY <2>1, <3>2, <3>4, <4>1, <4>3 DEF Rate!Next, Rate!Pass
      <4> QED
        BY <4>2, <4>3
    <3> QED
      BY <3>3, <3>4
  <2>3. CASE Tick
    BY <2>1, <2>3 DEF Tick, Rate!Next, Rate!Pass
  <2>4. CASE UNCHANGED <<passed, granted, reread>>
    BY <2>4 DEF Rate!vars
  <2>5. ASSUME NEW t \in Threads, TakeStep(t), ~Commit(t)
        PROVE  UNCHANGED <<passed, granted, reread>>
    BY <2>5 DEF TakeStep, Ask, TakeGuard, TakeAdvisory, LosePatience, Unreached,
         DenyUnwritten, Decide, Blank, Body, WriteFails, counts
  <2> QED
    BY <2>2, <2>3, <2>4, <2>5 DEF Next, Die, StepBack, vars, counts
<1> QED
  BY <1>1, <1>2, Invariance, PTL DEF Spec, WithinBudget, Rate!Spec

=============================================================================
