-------------------------- MODULE SpawnGateProofs --------------------------
(***************************************************************************)
(* The safety of the spawn gate, for any callers, ceiling and bucket.      *)
(*                                                                         *)
(* The invariant is what the runs check and one fact more: a shared token, *)
(* a denial and the start of a token wait belong to a caller that waits.   *)
(* Every way out of the wait is GiveBack, so the steps are proved by four  *)
(* lemmas: a start, a departure, a nap, and the rest.                      *)
(***************************************************************************)
EXTENDS SpawnGate, FiniteSetTheorems, TLAPS

OwnedByWaiting ==
    /\ granted \subseteq Waiting
    /\ short \subseteq Waiting

IInv ==
    /\ TypeOK /\ SlotsCounted /\ NothingStranded /\ ShortKeepsNoSlot
    /\ OwnedByWaiting

-----------------------------------------------------------------------------
(* A finite set of callers loses or gains one: what the gate's counters do. *)
LEMMA OneLess ==
    ASSUME NEW S \in SUBSET Callers, NEW c \in S
    PROVE  /\ Cardinality(S) \in Nat \ {0}
           /\ Cardinality(S \ {c}) = Less(Cardinality(S))
<1>1. IsFiniteSet(S)
  BY CallersFinite, FS_Subset
<1>2. Cardinality(S) \in Nat /\ Cardinality(S \ {c}) = Cardinality(S) - 1
  BY <1>1, FS_RemoveElement, FS_CardinalityType
<1>3. Cardinality(S) # 0
  BY <1>1, FS_EmptySet
<1> QED
  BY <1>2, <1>3 DEF Less

LEMMA OneMore ==
    ASSUME NEW S \in SUBSET Callers, NEW c \in Callers \ S
    PROVE  Cardinality(S) \in Nat /\ Cardinality(S \union {c}) = Cardinality(S) + 1
<1>1. IsFiniteSet(S)
  BY CallersFinite, FS_Subset
<1> QED
  BY <1>1, FS_AddElement, FS_CardinalityType

LEMMA CountIsNat ==
    ASSUME NEW S \in SUBSET Callers
    PROVE  Cardinality(S) \in Nat /\ (Cardinality(S) = 0 <=> S = {})
<1>1. IsFiniteSet(S)
  BY CallersFinite, FS_Subset
<1> QED
  BY <1>1, FS_EmptySet, FS_CardinalityType

(* LeaveLine takes c out of the line and keeps the others in their order. *)
LEMMA LineWithout ==
    ASSUME line \in Seq(Reactive), NEW c,
           \A i, j \in 1..Len(line) : line[i] = line[j] => i = j
    PROVE  LET q == LeaveLine(c) IN
           /\ q \in Seq(Reactive)
           /\ \A r : (\E i \in 1..Len(q) : q[i] = r) <=> (InLine(r) /\ r # c)
           /\ \A i, j \in 1..Len(q) : q[i] = q[j] => i = j
<1>1. CASE ~InLine(c)
  BY <1>1 DEF LeaveLine, InLine
<1>2. CASE InLine(c)
  <2> DEFINE n == Len(line)
             p == Place(c)
             q == [i \in 1..n - 1 |-> IF i < p THEN line[i] ELSE line[i + 1]]
  <2>1. n \in Nat /\ p \in 1..n /\ line[p] = c /\ line \in [1..n -> Reactive]
    BY <1>2 DEF InLine, Place
  <2>2. q \in [1..n - 1 -> Reactive] /\ n - 1 \in Nat
    <3>1. \A i \in 1..n - 1 : i \in 1..n /\ i + 1 \in 1..n
      BY <2>1
    <3> QED
      BY <2>1, <3>1
  <2>3. q \in Seq(Reactive) /\ Len(q) = n - 1
    BY <2>2
  <2>4. ASSUME NEW r PROVE (\E i \in 1..n - 1 : q[i] = r) <=> (InLine(r) /\ r # c)
    <3>1. ASSUME NEW i \in 1..n - 1, q[i] = r PROVE InLine(r) /\ r # c
      <4>1. CASE i < p
        BY <2>1, <3>1, <4>1 DEF InLine
      <4>2. CASE ~(i < p)
        BY <2>1, <3>1, <4>2 DEF InLine
      <4> QED
        BY <4>1, <4>2
    <3>2. ASSUME NEW k \in 1..n, line[k] = r, r # c PROVE \E i \in 1..n - 1 : q[i] = r
      <4>1. CASE k < p
        <5>1. k \in 1..n - 1 /\ q[k] = r
          BY <2>1, <3>2, <4>1
        <5> QED
          BY <5>1
      <4>2. CASE ~(k < p)
        <5>1. k - 1 \in 1..n - 1 /\ ~(k - 1 < p) /\ (k - 1) + 1 = k
          BY <2>1, <3>2, <4>2
        <5>2. q[k - 1] = r
          BY <5>1, <3>2
        <5> QED
          BY <5>1, <5>2
      <4> QED
        BY <4>1, <4>2
    <3> QED
      BY <3>1, <3>2 DEF InLine
  <2>5. ASSUME NEW i \in 1..n - 1, NEW j \in 1..n - 1, q[i] = q[j] PROVE i = j
    <3>1. i \in 1..n /\ i + 1 \in 1..n /\ j \in 1..n /\ j + 1 \in 1..n
      BY <2>1
    <3> QED
      BY <2>1, <2>5, <3>1
  <2>6. LeaveLine(c) = q
    BY <1>2 DEF LeaveLine
  <2> HIDE DEF q
  <2> QED
    BY <2>3, <2>4, <2>5, <2>6
<1> QED
  BY <1>1, <1>2

-----------------------------------------------------------------------------
WaitTyped ==
    /\ waitingInteractive \in Nat /\ waitingBackground \in Nat
    /\ line \in Seq(Reactive)
    /\ holds \in SUBSET Callers /\ granted \in SUBSET Callers
    /\ denied \in SUBSET Callers /\ short \in SUBSET Callers

WaitInv == WaitTyped /\ NothingStranded /\ ShortKeepsNoSlot /\ OwnedByWaiting

(* A caller that leaves the wait takes its counts and its place with it. *)
LEMMA GiveBackKeeps ==
    ASSUME IInv, NEW c \in Waiting, GiveBack(c), Waiting' = Waiting \ {c}
    PROVE  WaitInv'
<1> DEFINE WI == Waiting \intersect Interactive
           HB == holds \intersect Background
<1>1. /\ TypeOK /\ NothingStranded /\ OwnedByWaiting /\ ShortKeepsNoSlot
      /\ c \in Callers /\ Waiting \subseteq Callers
  BY DEF IInv, Waiting
<1>2. /\ line' \in Seq(Reactive)
      /\ \A r : InLine(r)' <=> (InLine(r) /\ r # c)
      /\ \A i, j \in 1..Len(line') : line'[i] = line'[j] => i = j
  <2>1. /\ line \in Seq(Reactive)
        /\ \A i, j \in 1..Len(line) : line[i] = line[j] => i = j
    BY <1>1 DEF TypeOK, NothingStranded
  <2>2. line' = LeaveLine(c)
    BY DEF GiveBack
  <2>3. \A r : InLine(r)' <=> \E i \in 1..Len(line') : line'[i] = r
    BY DEF InLine
  <2> QED
    BY <2>1, <2>2, <2>3, LineWithout
<1>3. waitingInteractive' = Cardinality(WI \ {c}) /\ waitingInteractive' \in Nat
  <2>1. WI \in SUBSET Callers /\ waitingInteractive = Cardinality(WI)
    BY <1>1 DEF NothingStranded
  <2>2. CASE c \in Interactive
    <3>1. c \in WI /\ c \in holds \intersect Interactive
      BY <1>1, <2>2 DEF NothingStranded
    <3> QED
      BY <2>1, <3>1, OneLess, CountIsNat DEF GiveBack
  <2>3. CASE c \notin Interactive
    <3>1. WI \ {c} = WI
      BY <2>3
    <3> QED
      BY <2>1, <2>3, <3>1, CountIsNat DEF GiveBack
  <2> QED
    BY <2>2, <2>3
<1>4. waitingBackground' = Cardinality(HB \ {c}) /\ waitingBackground' \in Nat
  <2>1. HB \in SUBSET Callers /\ waitingBackground = Cardinality(HB)
    BY <1>1 DEF NothingStranded, TypeOK
  <2>2. CASE c \in HB
    BY <2>1, <2>2, OneLess, CountIsNat DEF GiveBack
  <2>3. CASE c \notin HB
    <3>1. HB \ {c} = HB
      BY <2>3
    <3> QED
      BY <2>1, <2>3, <3>1, CountIsNat DEF GiveBack
  <2> QED
    BY <2>2, <2>3
<1>5. /\ holds' = holds \ {c} /\ granted' = granted \ {c}
      /\ denied' = denied \ {c} /\ short' = short \ {c}
  BY DEF GiveBack
<1>6. WaitTyped'
  BY <1>1, <1>2, <1>3, <1>4, <1>5 DEF WaitTyped, TypeOK
<1>7. NothingStranded'
  <2>1. (Waiting \intersect Interactive)' = WI \ {c}
        /\ (holds \intersect Background)' = HB \ {c}
    BY <1>5
  <2>2. holds' \subseteq Waiting' /\ (Waiting \intersect (Interactive \union Shedding) \subseteq holds)'
    BY <1>1, <1>5 DEF NothingStranded
  <2>3. \A r \in Reactive : InLine(r)' <=> r \in Waiting' \ granted'
    BY <1>1, <1>2, <1>5 DEF NothingStranded
  <2> QED
    BY <1>2, <1>3, <1>4, <2>1, <2>2, <2>3 DEF NothingStranded
<1>8. ShortKeepsNoSlot' /\ OwnedByWaiting'
  BY <1>1, <1>5 DEF ShortKeepsNoSlot, OwnedByWaiting
<1> QED
  BY <1>6, <1>7, <1>8 DEF WaitInv

(* A nap keeps the count of waiting background callers that of the         *)
(* reservations that are held, and an awaiting reader short of tokens out  *)
(* of it, whether or not it has just been granted a shared token.          *)
LEMMA NapKeeps ==
    ASSUME IInv, NEW c \in Waiting, NEW ok \in BOOLEAN, NEW level, Nap(c, ok, level),
           Waiting' = Waiting, denied' \subseteq denied \union {c},
           ~ok => c \notin Shedding,
           \/ UNCHANGED <<line, granted>>
           \/ granted' = granted \union {c} /\ line' = LeaveLine(c)
    PROVE  WaitInv'
<1> DEFINE HB == holds \intersect Background
<1>1. /\ TypeOK /\ NothingStranded /\ OwnedByWaiting /\ ShortKeepsNoSlot
      /\ c \in Callers /\ Waiting \subseteq Callers
  BY DEF IInv, Waiting
<1>2. /\ line' \in Seq(Reactive)
      /\ \A r \in Reactive : InLine(r)' <=> r \in Waiting' \ granted'
      /\ \A i, j \in 1..Len(line') : line'[i] = line'[j] => i = j
  <2>1. /\ line \in Seq(Reactive)
        /\ \A r \in Reactive : InLine(r) <=> r \in Waiting \ granted
        /\ \A i, j \in 1..Len(line) : line[i] = line[j] => i = j
    BY <1>1 DEF TypeOK, NothingStranded
  <2>2. \A r : InLine(r)' <=> \E i \in 1..Len(line') : line'[i] = r
    BY DEF InLine
  <2>3. CASE UNCHANGED <<line, granted>>
    BY <2>1, <2>2, <2>3 DEF InLine
  <2>4. CASE granted' = granted \union {c} /\ line' = LeaveLine(c)
    <3>1. /\ line' \in Seq(Reactive)
          /\ \A r : InLine(r)' <=> (InLine(r) /\ r # c)
          /\ \A i, j \in 1..Len(line') : line'[i] = line'[j] => i = j
      BY <2>1, <2>2, <2>4, LineWithout
    <3> QED
      BY <2>1, <2>4, <3>1
  <2> QED
    BY <2>3, <2>4
<1>3. holds' \subseteq holds \union {c} /\ (c \notin Awaiting => holds' = holds)
  BY DEF Nap
<1>4. waitingBackground' = Cardinality(holds' \intersect Background) /\ waitingBackground' \in Nat
  <2>1. HB \in SUBSET Callers /\ waitingBackground = Cardinality(HB)
    BY <1>1 DEF NothingStranded, TypeOK
  <2>2. CASE UNCHANGED <<holds, waitingBackground>>
    BY <2>1, <2>2, CountIsNat
  <2>3. CASE /\ c \in Awaiting \ holds
             /\ holds' = holds \union {c} /\ waitingBackground' = waitingBackground + 1
    <3>1. c \in Callers \ HB /\ holds' \intersect Background = HB \union {c}
      BY <1>1, <2>3 DEF Background
    <3> QED
      BY <2>1, <2>3, <3>1, OneMore
  <2>4. CASE /\ c \in Awaiting \intersect holds
             /\ holds' = holds \ {c} /\ waitingBackground' = Less(waitingBackground)
    <3>1. c \in HB /\ holds' \intersect Background = HB \ {c}
      BY <1>1, <2>4 DEF Background
    <3>2. HB \ {c} \in SUBSET Callers
      BY <2>1
    <3> QED
      BY <2>1, <2>4, <3>1, <3>2, OneLess, CountIsNat
  <2> QED
    BY <2>2, <2>3, <2>4 DEF Nap
<1>5. ShortKeepsNoSlot'
  <2>1. CASE ok
    BY <1>1, <1>3, <2>1 DEF Nap, ShortKeepsNoSlot
  <2>2. CASE ~ok
    BY <1>1, <1>3, <2>2 DEF Nap, ShortKeepsNoSlot
  <2> QED
    BY <2>1, <2>2
<1>6. granted' \subseteq granted \union {c} /\ short' \subseteq short \union {c}
      /\ waitingInteractive' = waitingInteractive
  BY DEF Nap
<1>7. WaitTyped'
  BY <1>1, <1>2, <1>3, <1>4, <1>6 DEF WaitTyped, TypeOK
<1>8. NothingStranded'
  <2>1. holds' \subseteq Waiting'
    BY <1>1, <1>3 DEF NothingStranded
  <2>2. (Waiting \intersect (Interactive \union Shedding) \subseteq holds)'
    <3>1. c \notin Interactive \union Shedding \/ c \notin Awaiting
      BY ClassesDiffer DEF Background
    <3>2. holds \ {c} \subseteq holds'
      BY DEF Nap
    <3> QED
      BY <1>1, <1>3, <3>1, <3>2 DEF NothingStranded
  <2>3. waitingInteractive' = Cardinality((Waiting \intersect Interactive)')
    BY <1>1, <1>6 DEF NothingStranded
  <2> QED
    BY <1>2, <1>4, <2>1, <2>2, <2>3 DEF NothingStranded
<1>9. OwnedByWaiting'
  BY <1>1, <1>6 DEF OwnedByWaiting
<1> QED
  BY <1>5, <1>7, <1>8, <1>9 DEF WaitInv

-----------------------------------------------------------------------------
(* The three ways a call goes on from a pass. *)

LEMMA LevelTyped == TypeOK => Refilled \in 0..Burst /\ Less(tokens) \in 0..Burst
                              /\ Less(Refilled) \in 0..Burst
BY GateSize DEF TypeOK, Refilled, Less

LEMMA StartKeeps ==
    ASSUME IInv, NEW c \in Waiting, NEW level \in 0..Burst, Start(c, level),
           inFlight < Limit, Eligible(c), due' \in 0..MaxDue, users' = users
    PROVE  IInv'
<1>1. TypeOK /\ SlotsCounted /\ c \in Callers /\ pc[c] # "running"
  BY DEF IInv, Waiting
<1>2. pc' = [pc EXCEPT ![c] = "running"] /\ pc' \in [Callers -> {"out", "waiting", "asking", "running"}]
  BY <1>1 DEF Start, TypeOK
<1>3. Waiting' = Waiting \ {c}
  BY <1>1, <1>2 DEF Waiting, TypeOK
<1>4. Running' = Running \union {c} /\ Running \in SUBSET Callers /\ c \notin Running
  BY <1>1, <1>2 DEF Running, TypeOK
<1>5. WaitInv'
  BY <1>3, GiveBackKeeps DEF Start
<1>6. inFlight' = Cardinality(Running') /\ inFlight' <= Limit /\ inFlight' \in Nat
  BY <1>1, <1>4, OneMore, GateSize DEF Start, SlotsCounted
<1>7. /\ background' = Cardinality((Running \intersect Background)')
      /\ background' <= BackgroundShare /\ background' \in Nat
  <2>1. BackgroundShare \in Nat
    BY GateSize DEF BackgroundShare
  <2>2. CASE c \in Background
    <3>1. c \in Callers \ (Running \intersect Background)
          /\ Running \intersect Background \in SUBSET Callers
          /\ (Running \intersect Background)' = (Running \intersect Background) \union {c}
      BY <1>1, <1>4, <2>2
    <3>2. background < BackgroundShare
      BY <2>2, ClassesDiffer DEF Eligible
    <3> QED
      BY <1>1, <2>1, <2>2, <3>1, <3>2, OneMore DEF Start, SlotsCounted
  <2>3. CASE c \notin Background
    <3>1. (Running \intersect Background)' = Running \intersect Background
      BY <1>4, <2>3
    <3> QED
      BY <1>1, <2>3, <3>1 DEF Start, SlotsCounted, TypeOK
  <2> QED
    BY <2>2, <2>3
<1>8. tokens' \in 0..Burst
  BY GateSize DEF Start, Less
<1>9. TypeOK'
  BY <1>1, <1>2, <1>5, <1>6, <1>7, <1>8 DEF TypeOK, WaitInv, WaitTyped
<1> QED
  BY <1>5, <1>6, <1>7, <1>9 DEF IInv, WaitInv, SlotsCounted

(* Only the waiting side and the bucket change: the children stay. *)
LEMMA ChildrenStay ==
    ASSUME IInv, WaitInv', Running' = Running, UNCHANGED counts,
           pc' \in [Callers -> {"out", "waiting", "asking", "running"}],
           tokens' \in 0..Burst, due' \in 0..MaxDue, users' \in 0..MaxUser
    PROVE  IInv'
<1>1. TypeOK'
  BY DEF IInv, TypeOK, WaitInv, WaitTyped, counts
<1>2. SlotsCounted'
  BY DEF IInv, SlotsCounted, counts
<1> QED
  BY <1>1, <1>2 DEF IInv, WaitInv

LEMMA LeaveKeeps ==
    ASSUME IInv, NEW c \in Waiting, pc' = [pc EXCEPT ![c] = "out"], GiveBack(c),
           UNCHANGED counts, tokens' \in 0..Burst, due' \in 0..MaxDue, users' = users
    PROVE  IInv'
<1>1. TypeOK /\ c \in Callers /\ pc[c] # "running"
  BY DEF IInv, Waiting
<1>2. Waiting' = Waiting \ {c} /\ Running' = Running
  BY <1>1 DEF Waiting, Running, TypeOK
<1>3. pc' \in [Callers -> {"out", "waiting", "asking", "running"}] /\ users' \in 0..MaxUser
  BY <1>1 DEF TypeOK
<1> QED
  BY <1>2, <1>3, GiveBackKeeps, ChildrenStay

LEMMA WaitOn ==
    ASSUME IInv, NEW c \in Waiting, NEW ok \in BOOLEAN, NEW level \in 0..Burst,
           Nap(c, ok, level),
           denied' \subseteq denied \union {c}, ~ok => c \notin Shedding,
           \/ UNCHANGED <<line, granted>>
           \/ granted' = granted \union {c} /\ line' = LeaveLine(c),
           due' \in 0..MaxDue, users' = users
    PROVE  IInv'
<1>1. TypeOK /\ c \in Callers /\ pc[c] \in {"waiting", "asking"}
  BY DEF IInv, Waiting
<1>2. pc' = [pc EXCEPT ![c] = "waiting"] /\ tokens' = level /\ UNCHANGED counts
  BY DEF Nap
<1>3. Waiting' = Waiting /\ Running' = Running
  BY <1>1, <1>2 DEF Waiting, Running, TypeOK
<1>4. pc' \in [Callers -> {"out", "waiting", "asking", "running"}] /\ users' \in 0..MaxUser
  BY <1>1, <1>2 DEF TypeOK
<1>5. WaitInv'
  BY <1>3, NapKeeps
<1> QED
  BY <1>2, <1>3, <1>4, <1>5, ChildrenStay

LEMMA ConcludeKeeps ==
    ASSUME IInv, NEW c \in Waiting, NEW ok \in BOOLEAN, NEW level \in 0..Burst,
           Conclude(c, ok, Eligible(c), level), due' \in 0..MaxDue, users' = users
    PROVE  IInv'
<1>1. CASE ok /\ Eligible(c) /\ inFlight < Limit /\ Start(c, level)
  BY <1>1, StartKeeps
<1>2. CASE Refuse(c, level)
  BY <1>2, LeaveKeeps DEF Refuse
<1>3. CASE /\ IF ok THEN ~(Eligible(c) /\ inFlight < Limit) ELSE c \notin Shedding
           /\ Nap(c, ok, level)
           /\ UNCHANGED <<line, granted, denied>>
  BY <1>3, WaitOn
<1> QED
  BY <1>1, <1>2, <1>3 DEF Conclude

-----------------------------------------------------------------------------
(* One lemma for each action that is not a departure. *)

LEMMA ArriveKeeps ==
    ASSUME IInv, NEW c \in Callers, Arrive(c)
    PROVE  IInv'
<1>1. /\ TypeOK /\ NothingStranded /\ OwnedByWaiting /\ ShortKeepsNoSlot
      /\ pc[c] = "out"
  BY DEF IInv, Arrive
<1>2. pc' = [pc EXCEPT ![c] = "waiting"]
      /\ pc' \in [Callers -> {"out", "waiting", "asking", "running"}]
  BY <1>1 DEF Arrive, TypeOK
<1>3. Waiting' = Waiting \union {c} /\ Running' = Running
      /\ c \notin Waiting /\ Waiting \in SUBSET Callers
  BY <1>1, <1>2 DEF Waiting, Running, TypeOK
<1>4. c \notin holds /\ c \notin granted /\ c \notin short
      /\ (c \in Reactive => ~InLine(c))
  BY <1>1, <1>3 DEF NothingStranded, OwnedByWaiting
<1>5. line' \in Seq(Reactive)
      /\ (\A r \in Reactive : InLine(r)' <=> r \in Waiting' \ granted')
      /\ \A i, j \in 1..Len(line') : line'[i] = line'[j] => i = j
  <2>1. /\ line \in Seq(Reactive) /\ granted' = granted
        /\ \A r \in Reactive : InLine(r) <=> r \in Waiting \ granted
        /\ \A i, j \in 1..Len(line) : line[i] = line[j] => i = j
    BY <1>1 DEF TypeOK, NothingStranded, Arrive
  <2>2. CASE c \in Reactive
    <3>1. line' = Append(line, c)
      BY <2>2 DEF Arrive
    <3>2. /\ line' \in Seq(Reactive) /\ Len(line') = Len(line) + 1 /\ Len(line) \in Nat
          /\ line'[Len(line) + 1] = c /\ \A i \in 1..Len(line) : line'[i] = line[i]
      BY <2>1, <2>2, <3>1
    <3>3. \A i \in 1..Len(line) : line[i] # c
      BY <1>4, <2>2 DEF InLine
    <3>4. ASSUME NEW r \in Reactive PROVE InLine(r)' <=> InLine(r) \/ r = c
      <4>1. InLine(r)' <=> \E i \in 1..Len(line) + 1 : line'[i] = r
        BY <3>2 DEF InLine
      <4>2. \A i \in 1..Len(line) + 1 : i \in 1..Len(line) \/ i = Len(line) + 1
        BY <3>2
      <4>3. Len(line) + 1 \in 1..Len(line) + 1 /\ \A i \in 1..Len(line) : i \in 1..Len(line) + 1
        BY <3>2
      <4> QED
        BY <3>2, <4>1, <4>2, <4>3 DEF InLine
    <3>5. ASSUME NEW i \in 1..Len(line'), NEW j \in 1..Len(line'), line'[i] = line'[j]
          PROVE  i = j
      BY <2>1, <3>2, <3>3, <3>5
    <3> QED
      BY <1>3, <1>4, <2>1, <2>2, <3>2, <3>4, <3>5
  <2>3. CASE c \notin Reactive
    <3>1. line' = line
      BY <2>3 DEF Arrive
    <3> QED
      BY <1>3, <2>1, <2>3, <3>1 DEF InLine
  <2> QED
    BY <2>2, <2>3
<1>6. /\ holds' = IF c \in Reactive THEN holds ELSE holds \union {c}
      /\ granted' = granted /\ denied' = denied /\ short' = short
  BY DEF Arrive
<1>7. waitingInteractive' = Cardinality((Waiting \intersect Interactive)')
      /\ waitingInteractive' \in Nat
  <2>1. waitingInteractive = Cardinality(Waiting \intersect Interactive)
        /\ waitingInteractive \in Nat
    BY <1>1 DEF NothingStranded, TypeOK
  <2>2. CASE c \in Interactive
    <3>1. c \in Callers \ (Waiting \intersect Interactive)
          /\ (Waiting \intersect Interactive)' = (Waiting \intersect Interactive) \union {c}
          /\ Waiting \intersect Interactive \in SUBSET Callers
      BY <1>3, <2>2
    <3>2. waitingInteractive' = waitingInteractive + 1
      BY <2>2 DEF Arrive
    <3> QED
      BY <2>1, <3>1, <3>2, OneMore
  <2>3. CASE c \notin Interactive
    <3>1. (Waiting \intersect Interactive)' = Waiting \intersect Interactive
      BY <1>3, <2>3
    <3> QED
      BY <2>1, <2>3, <3>1 DEF Arrive
  <2> QED
    BY <2>2, <2>3
<1>8. waitingBackground' = Cardinality((holds \intersect Background)')
      /\ waitingBackground' \in Nat
  <2>1. waitingBackground = Cardinality(holds \intersect Background)
        /\ waitingBackground \in Nat /\ holds \in SUBSET Callers
    BY <1>1 DEF NothingStranded, TypeOK
  <2>2. CASE c \in Background
    <3>1. c \in Callers \ (holds \intersect Background)
          /\ (holds \intersect Background)' = (holds \intersect Background) \union {c}
          /\ holds \intersect Background \in SUBSET Callers
      BY <1>4, <1>6, <2>1, <2>2, ClassesDiffer
    <3>2. waitingBackground' = waitingBackground + 1
      BY <2>2 DEF Arrive
    <3> QED
      BY <2>1, <3>1, <3>2, OneMore
  <2>3. CASE c \notin Background
    <3>1. (holds \intersect Background)' = holds \intersect Background
      BY <1>6, <2>3
    <3> QED
      BY <2>1, <2>3, <3>1 DEF Arrive
  <2> QED
    BY <2>2, <2>3
<1>9. NothingStranded'
  <2>1. holds' \subseteq Waiting'
        /\ (Waiting \intersect (Interactive \union Shedding) \subseteq holds)'
    BY <1>1, <1>3, <1>6, ClassesDiffer DEF NothingStranded, Background
  <2> QED
    BY <1>5, <1>7, <1>8, <2>1 DEF NothingStranded
<1>10. OwnedByWaiting' /\ ShortKeepsNoSlot'
  BY <1>1, <1>3, <1>4, <1>6 DEF OwnedByWaiting, ShortKeepsNoSlot
<1>11. WaitTyped'
  BY <1>1, <1>5, <1>6, <1>7, <1>8 DEF WaitTyped, TypeOK
<1>12. UNCHANGED counts /\ tokens' \in 0..Burst /\ due' \in 0..MaxDue /\ users' \in 0..MaxUser
  BY <1>1, Bounds DEF Arrive, TypeOK
<1> QED
  BY <1>2, <1>3, <1>9, <1>10, <1>11, <1>12, ChildrenStay DEF WaitInv

(* What a pass, a question or a tick leaves is the same to the waiting side *)
(* as before.                                                               *)
LEMMA WaitStays ==
    ASSUME IInv, Waiting' = Waiting,
           UNCHANGED <<waitingInteractive, waitingBackground, line, holds,
                       granted, denied, short>>
    PROVE  WaitInv'
<1>1. WaitTyped' /\ OwnedByWaiting' /\ ShortKeepsNoSlot'
  BY DEF IInv, TypeOK, WaitTyped, OwnedByWaiting, ShortKeepsNoSlot
<1>2. NothingStranded'
  BY DEF IInv, NothingStranded, InLine
<1> QED
  BY <1>1, <1>2 DEF WaitInv

LEMMA AskKeeps ==
    ASSUME IInv, NEW c \in Callers, Ask(c)
    PROVE  IInv'
<1>1. TypeOK /\ pc[c] = "waiting" /\ pc' = [pc EXCEPT ![c] = "asking"]
  BY DEF IInv, Ask
<1>2. Waiting' = Waiting /\ Running' = Running
      /\ pc' \in [Callers -> {"out", "waiting", "asking", "running"}]
  BY <1>1 DEF Waiting, Running, TypeOK
<1>3. tokens' \in 0..Burst /\ due' \in 0..MaxDue /\ users' \in 0..MaxUser
      /\ UNCHANGED counts
  BY <1>1, LevelTyped, Bounds DEF Ask, TypeOK
<1> QED
  BY <1>2, <1>3, WaitStays, ChildrenStay DEF Ask

LEMMA FinishKeeps ==
    ASSUME IInv, NEW c \in Callers, Finish(c)
    PROVE  IInv'
<1>1. TypeOK /\ SlotsCounted /\ pc[c] = "running" /\ pc' = [pc EXCEPT ![c] = "out"]
  BY DEF IInv, Finish
<1>2. Waiting' = Waiting /\ Running' = Running \ {c} /\ c \in Running
      /\ Running \in SUBSET Callers
      /\ pc' \in [Callers -> {"out", "waiting", "asking", "running"}]
  BY <1>1 DEF Waiting, Running, TypeOK
<1>3. WaitInv'
  BY <1>2, WaitStays DEF Finish
<1>4. inFlight' = Cardinality(Running') /\ inFlight' <= Limit /\ inFlight' \in Nat
  BY <1>1, <1>2, OneLess, GateSize DEF Finish, SlotsCounted, Less
<1>5. /\ background' = Cardinality((Running \intersect Background)')
      /\ background' <= BackgroundShare /\ background' \in Nat
  <2>1. BackgroundShare \in Nat
    BY GateSize DEF BackgroundShare
  <2>2. CASE c \in Background
    <3>1. c \in Running \intersect Background
          /\ Running \intersect Background \in SUBSET Callers
          /\ (Running \intersect Background)' = (Running \intersect Background) \ {c}
      BY <1>2, <2>2
    <3> QED
      BY <1>1, <2>1, <2>2, <3>1, OneLess DEF Finish, SlotsCounted, Less
  <2>3. CASE c \notin Background
    <3>1. (Running \intersect Background)' = Running \intersect Background
      BY <1>2, <2>3
    <3> QED
      BY <1>1, <2>3, <3>1 DEF Finish, SlotsCounted, TypeOK
  <2> QED
    BY <2>2, <2>3
<1>6. TypeOK'
  BY <1>1, <1>2, <1>3, <1>4, <1>5 DEF TypeOK, WaitInv, WaitTyped, Finish
<1> QED
  BY <1>3, <1>4, <1>5, <1>6 DEF IInv, WaitInv, SlotsCounted

LEMMA StepKeeps == IInv /\ [Next]_vars => IInv'
<1> SUFFICES ASSUME IInv, [Next]_vars PROVE IInv'
  OBVIOUS
<1>0. TypeOK /\ tokens \in 0..Burst /\ due \in 0..MaxDue /\ users \in 0..MaxUser
      /\ 0 \in 0..MaxDue
  BY Bounds DEF IInv, TypeOK
<1>1. CASE Tick
  <2>1. Waiting' = Waiting /\ Running' = Running
    BY <1>1 DEF Tick, Waiting, Running
  <2>2. due' \in 0..MaxDue
    BY <1>0, <1>1, Bounds DEF Tick
  <2>3. WaitInv'
    BY <1>1, <2>1, WaitStays DEF Tick
  <2>4. pc' \in [Callers -> {"out", "waiting", "asking", "running"}] /\ UNCHANGED counts
        /\ tokens' \in 0..Burst /\ users' \in 0..MaxUser
    BY <1>0, <1>1 DEF Tick, TypeOK
  <2> QED
    BY <2>1, <2>2, <2>3, <2>4, ChildrenStay
<1>2. ASSUME NEW c \in Callers, Arrive(c) PROVE IInv'
  BY <1>2, ArriveKeeps
<1>3. ASSUME NEW c \in Callers, GiveUp(c) PROVE IInv'
  <2>1. c \in Waiting
    BY <1>3 DEF GiveUp, Waiting
  <2> QED
    BY <1>0, <1>3, <2>1, LeaveKeeps DEF GiveUp
<1>4. ASSUME NEW c \in Callers, Unwind(c) PROVE IInv'
  <2>1. c \in Waiting
    BY <1>4 DEF Unwind, Waiting
  <2>2. GiveBack(c)
    <3>1. CASE c \in holds \/ InLine(c)
      BY <1>4, <3>1 DEF Unwind
    <3>2. CASE ~(c \in holds \/ InLine(c))
      <4>1. holds \ {c} = holds /\ LeaveLine(c) = line
        BY <3>2 DEF LeaveLine
      <4> QED
        BY <1>4, <3>2, <4>1 DEF Unwind, GiveBack
    <3> QED
      BY <3>1, <3>2
  <2> QED
    BY <1>0, <1>4, <2>1, <2>2, LeaveKeeps DEF Unwind
<1>5. ASSUME NEW c \in Callers, Pass(c) PROVE IInv'
  <2>1. c \in Waiting /\ Refilled \in 0..Burst /\ due' \in 0..MaxDue /\ users' = users
    BY <1>0, <1>5, LevelTyped DEF Pass, Waiting
  <2>2. (TokensAvailable(c, Refilled) /\ AtFront(c)) \in BOOLEAN
    BY DEF TokensAvailable, AtFront
  <2>3. PICK ok \in BOOLEAN : Conclude(c, ok, Eligible(c), Refilled)
    BY <1>5, <2>2 DEF Pass
  <2> QED
    BY <2>1, <2>3, ConcludeKeeps
<1>6. ASSUME NEW c \in Callers, Ask(c) PROVE IInv'
  BY <1>6, AskKeeps
<1>7. ASSUME NEW c \in Callers, Granted(c) PROVE IInv'
  <2> DEFINE ok == TokensAvailable(c, tokens)
  <2>1. c \in Waiting /\ due' \in 0..MaxDue /\ users' = users
    BY <1>0, <1>7 DEF Granted, Waiting
  <2>2. ok \in BOOLEAN
    BY DEF TokensAvailable
  <2>3. CASE Eligible(c) /\ inFlight < Limit /\ Start(c, tokens)
    BY <1>0, <2>1, <2>3, StartKeeps
  <2>4. CASE Refuse(c, tokens)
    BY <1>0, <2>1, <2>4, LeaveKeeps DEF Refuse
  <2>5. CASE /\ IF ok THEN ~(Eligible(c) /\ inFlight < Limit) ELSE c \notin Shedding
             /\ Nap(c, ok, tokens)
             /\ granted' = granted \union {c} /\ line' = LeaveLine(c) /\ denied' = denied
    <3> HIDE DEF ok
    <3> QED
      BY <1>0, <2>1, <2>2, <2>5, WaitOn
  <2> QED
    BY <1>7, <2>3, <2>4, <2>5 DEF Granted
<1>8. ASSUME NEW c \in Callers, Denied(c) PROVE IInv'
  <2>1. c \in Waiting /\ due' \in 0..MaxDue /\ users' = users
    BY <1>0, <1>8 DEF Denied, Waiting
  <2>2. CASE Refuse(c, tokens)
    BY <1>0, <2>1, <2>2, LeaveKeeps DEF Refuse
  <2>3. CASE /\ c \notin Shedding /\ Nap(c, FALSE, tokens)
             /\ denied' = denied \union {c} /\ UNCHANGED <<line, granted>>
    BY <1>0, <2>1, <2>3, WaitOn
  <2> QED
    BY <1>8, <2>2, <2>3 DEF Denied
<1>9. ASSUME NEW c \in Callers, Finish(c) PROVE IInv'
  BY <1>9, FinishKeeps
<1>10. CASE UNCHANGED vars
  <2>1. Waiting' = Waiting /\ Running' = Running
    BY <1>10 DEF vars, Waiting, Running
  <2>2. WaitInv'
    BY <1>10, <2>1, WaitStays DEF vars
  <2>3. pc' \in [Callers -> {"out", "waiting", "asking", "running"}] /\ UNCHANGED counts
        /\ tokens' \in 0..Burst /\ users' \in 0..MaxUser /\ due' \in 0..MaxDue
    BY <1>0, <1>10 DEF vars, counts, TypeOK
  <2> QED
    BY <2>1, <2>2, <2>3, ChildrenStay
<1> QED
  BY <1>1, <1>2, <1>3, <1>4, <1>5, <1>6, <1>7, <1>8, <1>9, <1>10 DEF Next

LEMMA InitHolds == Init => IInv
<1> SUFFICES ASSUME Init PROVE IInv
  OBVIOUS
<1>1. Waiting = {} /\ Running = {}
  BY DEF Init, Waiting, Running
<1>2. Cardinality({}) = 0
  BY FS_EmptySet
<1>3. BackgroundShare \in Nat
  BY GateSize DEF BackgroundShare
<1>4. line = <<>> /\ line \in Seq(Reactive) /\ Len(line) = 0
  BY DEF Init
<1>5. TypeOK
  BY <1>4, GateSize, Bounds DEF Init, TypeOK
<1>6. SlotsCounted
  <2>1. Running \intersect Background = {}
    BY <1>1
  <2> QED
    BY <1>1, <1>2, <1>3, <2>1, GateSize DEF Init, SlotsCounted
<1>7. NothingStranded
  <2>1. Waiting \intersect Interactive = {} /\ holds \intersect Background = {}
    BY <1>1 DEF Init
  <2>2. \A i \in 1..Len(line) : FALSE
    BY <1>4
  <2> QED
    BY <1>1, <1>2, <2>1, <2>2 DEF Init, NothingStranded, InLine
<1> QED
  BY <1>5, <1>6, <1>7 DEF IInv, Init, ShortKeepsNoSlot, OwnedByWaiting

-----------------------------------------------------------------------------
(* A start of a caller that is no user action is the end of a pass of its   *)
(* own, and found it eligible and the bucket above its floor.               *)
LEMMA ConcludedStart ==
    ASSUME TypeOK, NEW c \in Callers \ Interactive, NEW d \in Callers,
           NEW ok \in BOOLEAN, NEW eligible \in BOOLEAN, NEW level,
           Conclude(d, ok, eligible, level), Starts(c), pc[d] = "waiting"
    PROVE  c = d /\ ok /\ eligible /\ tokens' = Less(level)
<1>1. CASE ok /\ eligible /\ inFlight < Limit /\ Start(d, level)
  <2>1. c = d
    BY <1>1 DEF Start, Starts, TypeOK
  <2> QED
    BY <1>1, <2>1 DEF Start
<1>2. CASE Refuse(d, level) \/ Nap(d, ok, level)
  BY <1>2 DEF Refuse, Nap, Starts, TypeOK
<1> QED
  BY <1>1, <1>2 DEF Conclude

LEMMA StartFound ==
    ASSUME TypeOK, Next, NEW c \in Callers \ Interactive, Starts(c)
    PROVE  /\ Eligible(c)
           /\ \E level \in {tokens, Refilled} :
                level > FloorFor(c) /\ tokens' = Less(level)
<1>1. CASE \E d \in Callers : Pass(d)
  <2>1. PICK d \in Callers : Pass(d)
    BY <1>1
  <2>2. CASE Conclude(d, TokensAvailable(d, Refilled) /\ AtFront(d), Eligible(d), Refilled)
    <3> DEFINE ok == TokensAvailable(d, Refilled) /\ AtFront(d)
    <3>1. ok \in BOOLEAN /\ Eligible(d) \in BOOLEAN /\ pc[d] = "waiting"
      BY <2>1 DEF TokensAvailable, AtFront, Eligible, Pass
    <3>2. c = d /\ ok /\ Eligible(d) /\ tokens' = Less(Refilled)
      <4>1. Conclude(d, ok, Eligible(d), Refilled)
        BY <2>2
      <4> HIDE DEF ok
      <4> QED
        BY <3>1, <4>1, ConcludedStart
    <3> QED
      BY <3>2 DEF TokensAvailable
  <2>3. CASE Conclude(d, FALSE, Eligible(d), Refilled)
    BY <2>1, <2>3, ConcludedStart DEF Pass, Eligible
  <2> QED
    BY <2>1, <2>2, <2>3 DEF Pass
<1>2. CASE \E d \in Callers : Granted(d)
  <2>1. PICK d \in Callers : Granted(d)
    BY <1>2
  <2>2. CASE TokensAvailable(d, tokens) /\ Eligible(d) /\ Start(d, tokens)
    <3>1. c = d /\ tokens' = Less(tokens)
      BY <2>2 DEF Start, Starts, TypeOK
    <3> QED
      BY <2>2, <3>1 DEF TokensAvailable
  <2>3. CASE Refuse(d, tokens) \/ pc' = [pc EXCEPT ![d] = "waiting"]
    BY <2>3 DEF Refuse, Starts, TypeOK
  <2> QED
    BY <2>1, <2>2, <2>3 DEF Granted, Nap
<1>3. CASE \E d \in Callers : Arrive(d) \/ GiveUp(d) \/ Unwind(d) \/ Ask(d) \/ Finish(d)
  <2>1. PICK d \in Callers : Arrive(d) \/ GiveUp(d) \/ Unwind(d) \/ Ask(d) \/ Finish(d)
    BY <1>3
  <2>2. \E to \in {"waiting", "out", "asking"} : pc' = [pc EXCEPT ![d] = to]
    BY <2>1 DEF Arrive, GiveUp, Unwind, Ask, Finish
  <2> QED
    BY <2>2 DEF Starts, TypeOK
<1>4. CASE \E d \in Callers : Denied(d)
  <2>1. PICK d \in Callers : Denied(d)
    BY <1>4
  <2>2. \E to \in {"waiting", "out"} : pc' = [pc EXCEPT ![d] = to]
    BY <2>1 DEF Denied, Refuse, Nap
  <2> QED
    BY <2>2 DEF Starts, TypeOK
<1>5. CASE Tick
  BY <1>5 DEF Tick, Starts
<1> QED
  BY <1>1, <1>2, <1>3, <1>4, <1>5 DEF Next

-----------------------------------------------------------------------------
(* The inductive invariant holds in every reachable state. *)
THEOREM Invariance == Spec => []IInv
BY InitHolds, StepKeeps, PTL DEF Spec

(* Every variable keeps its type; the bucket never holds more than a burst. *)
THEOREM TypeCorrect == Spec => []TypeOK
<1>1. IInv => TypeOK
  BY DEF IInv
<1> QED
  BY <1>1, Invariance, PTL

(* The counts of children are exact and within their ceilings, for any      *)
(* number of callers: what the permits' drop gives back was taken once.     *)
THEOREM SlotsAreCounted == Spec => []SlotsCounted
<1>1. IInv => SlotsCounted
  BY DEF IInv
<1> QED
  BY <1>1, Invariance, PTL

(* No exit from the wait strands a waiting count or a place in the line.    *)
THEOREM NothingIsStranded == Spec => []NothingStranded
<1>1. IInv => NothingStranded
  BY DEF IInv
<1> QED
  BY <1>1, Invariance, PTL

(* An awaiting reader short of tokens keeps no slot from others.            *)
THEOREM ShortReadersYield == Spec => []ShortKeepsNoSlot
<1>1. IInv => ShortKeepsNoSlot
  BY DEF IInv
<1> QED
  BY <1>1, Invariance, PTL

(* Nothing but a user action starts while a user action waits: the answer   *)
(* of the shared record, taken with the gate unlocked, is applied to the    *)
(* gate as it is then.                                                      *)
THEOREM UserActionsAreFirst == Spec => UserActionsFirst
<1> DEFINE A == \A c \in Callers \ Interactive :
                  Starts(c) => Waiting \intersect Interactive = {}
<1>1. IInv /\ [Next]_vars => [A]_vars
  <2> SUFFICES ASSUME IInv, Next, NEW c \in Callers \ Interactive, Starts(c)
               PROVE  Waiting \intersect Interactive = {}
    BY DEF vars
  <2>1. Eligible(c)
    BY StartFound DEF IInv
  <2>2. waitingInteractive = 0
    BY <2>1 DEF Eligible
  <2>3. waitingInteractive = Cardinality(Waiting \intersect Interactive)
        /\ Waiting \intersect Interactive \in SUBSET Callers
    BY DEF IInv, NothingStranded, Waiting
  <2> QED
    BY <2>2, <2>3, CountIsNat
<1> QED
  BY <1>1, Invariance, PTL DEF Spec, UserActionsFirst

(* Every other start takes a token that was there, above its class's floor. *)
THEOREM EveryStartIsPaid == Spec => StartsArePaid
<1> DEFINE A == \A c \in Callers \ Interactive :
                  Starts(c) => /\ tokens' >= FloorFor(c)
                               /\ tokens' + 1 \in {tokens, Refilled}
<1>1. IInv /\ [Next]_vars => [A]_vars
  <2> SUFFICES ASSUME IInv, Next, NEW c \in Callers \ Interactive, Starts(c)
               PROVE  tokens' >= FloorFor(c) /\ tokens' + 1 \in {tokens, Refilled}
    BY DEF vars
  <2>1. TypeOK
    BY DEF IInv
  <2>2. PICK level \in {tokens, Refilled} : level > FloorFor(c) /\ tokens' = Less(level)
    BY <2>1, StartFound
  <2>3. level \in Nat /\ FloorFor(c) \in Nat
    BY <2>1, <2>2, LevelTyped, GateSize DEF TypeOK, FloorFor, BackgroundReserve
  <2>4. tokens' = level - 1
    BY <2>2, <2>3 DEF Less
  <2> QED
    BY <2>2, <2>3, <2>4
<1> QED
  BY <1>1, Invariance, PTL DEF Spec, StartsArePaid
=============================================================================
