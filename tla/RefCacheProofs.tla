--------------------------- MODULE RefCacheProofs ---------------------------
(***************************************************************************)
(* Answers of the cache are current, for any number of calls and of writes *)
(* and any window of at least one tick of the file system's clock.         *)
(*                                                                         *)
(* Why: an answer is only kept, and only looked up, under a stamp older    *)
(* than the clock.  Whatever is written from then on has another identity, *)
(* so as long as a file still has the stamped one it holds what git read,  *)
(* and whoever stamps it after that reads the same (GoodBase, GoodOpt).    *)
(***************************************************************************)
EXTENDS RefCache, TLAPS

\* Time is past the beginning; only what is absent has no identity.
ClockInv ==
    /\ clock > 0 /\ base.time > 0
    /\ opt.time = 0 <=> opt.version = 0

CurrentIsSeen ==
    \A c \in Calls : InProgress(c) =>
        base.version \in seen[c].base /\ opt.version \in seen[c].opt

Walked(c) == step[c] \notin {"new", "walking", "done", "panicked"}

\* A stamp that could be taken has HEAD in it, and the absence it found was there.
StampInv ==
    \A c \in Calls :
        /\ stamp[c] # NoStamp \/ step[c] = "walking" => stamp[c].base # 0
        /\ step[c] \in {"asking", "waiting"} => stamp[c] # NoStamp
        /\ Walked(c) /\ stamp[c] # NoStamp /\ stamp[c].opt = 0 => 0 \in seen[c].opt

\* A flight is of a call that has its stamp, and whose followers have the same.
FlightInv ==
    /\ \A l \in leads : step[l] \notin {"new", "walking"}
    /\ \A c \in Calls : joined[c] # Nobody => step[c] \in {"waiting", "done"}
    /\ \A c \in Calls : step[c] = "waiting" =>
          /\ joined[c] \in Calls
          /\ step[joined[c]] \notin {"new", "walking"}
          /\ stamp[joined[c]] = stamp[c]

\* What a call has got is of its own run, under its own stamp.
RunInv ==
    \A c \in Calls :
        /\ sure[c] /\ step[c] \in {"running", "reading", "ran"} => Settled(stamp[c])
        /\ step[c] \in {"reading", "ran"}
              => got[c].sure = sure[c] /\ got[c].stamp = stamp[c]
        /\ step[c] \in {"new", "walking", "asking", "waiting", "looking", "running"}
              => got[c] = NoAnswer
        /\ got[c] # NoAnswer => got[c].stamp = stamp[c]

\* What an answer made under a settled stamp says of the files ever after.
GoodBase(a) ==
    a.sure =>
        /\ a.stamp.base # 0 /\ clock > a.stamp.base
        /\ base.time = a.stamp.base => base.version = a.base
        /\ \A c \in Calls : InProgress(c) /\ stamp[c].base = a.stamp.base
                                => a.base \in seen[c].base

GoodOpt(a) ==
    a.sure =>
        /\ clock > a.stamp.opt
        /\ a.stamp.opt # 0 =>
              /\ opt.time = a.stamp.opt => opt.version = a.opt
              /\ \A c \in Calls : Walked(c) /\ stamp[c].opt = a.stamp.opt
                                      => a.opt \in seen[c].opt

HasRead(c) == step[c] \in {"ran", "retiring", "done"}

GoodInv ==
    /\ kept # NoAnswer => kept.sure
    /\ GoodBase(kept) /\ GoodOpt(kept)
    /\ \A c \in Calls : GoodBase(got[c]) /\ (HasRead(c) => GoodOpt(got[c]))

\* It has an answer, not one it joined before the stamp had settled.
Owns(c) == got[c] # NoAnswer /\ ~JoinedTooEarly(c)

IsCurrent(c) ==
    /\ step[c] = "reading" \/ Owns(c) => got[c].base \in seen[c].base
    /\ Owns(c) /\ HasRead(c) => got[c].opt \in seen[c].opt \/ IsPhantom(got[c])

OwnInv == \A c \in Calls : IsCurrent(c)

IInv == TypeOK /\ ClockInv /\ CurrentIsSeen /\ StampInv /\ FlightInv /\ RunInv
            /\ GoodInv /\ OwnInv

-----------------------------------------------------------------------------
(* Proofs.  Most actions of a call fall into two groups.                   *)

\* The ways a call proceeds without touching its stamp or what it has got.
Moves(c) ==
    Lead(c) \/ Join(c) \/ Miss(c) \/ Keep(c) \/ DoNotKeep(c) \/ Retire(c) \/ AskAgain(c)

\* The ways it comes by something else than what git has read.
Gets(c) == Hit(c) \/ Fails(c) \/ Panics(c) \/ Follow(c)

LEMMA Cases ==
    ASSUME Next
    PROVE  \/ World \/ Evict
           \/ \E c \in Calls :
                 \/ Begin(c) \/ Stamped(c) \/ NotStamped(c) \/ Moves(c)
                 \/ ReadsBase(c) \/ ReadsOpt(c) \/ Gets(c)
BY DEF Next, Proceeds, Moves, Gets

(* Every variable keeps its type.                                          *)
LEMMA TypeLasts ==
    ASSUME TypeOK, FlightInv, Next
    PROVE  TypeOK'
<1>1. CASE World
  <2>1. base' \in File /\ opt' \in File /\ clock' \in Nat /\ writes' \in Nat
    BY <1>1 DEF World, WriteBase, WriteOpt, RemoveOpt, Tick, Change, Written, Absent,
        TypeOK, File
  <2>2. seen' \in [Calls -> [base : SUBSET Nat, opt : SUBSET Nat]]
    BY <1>1, <2>1 DEF World, WriteBase, WriteOpt, RemoveOpt, Tick, Change, Lived, TypeOK,
        File
  <2>3. UNCHANGED <<kept, leads, step, stamp, sure, got, joined>>
    BY <1>1 DEF World, WriteBase, WriteOpt, RemoveOpt, Tick, Change
  <2>q. QED
    BY <2>1, <2>2, <2>3 DEF TypeOK
<1>2. CASE Evict
  BY <1>2 DEF Evict, TypeOK, Answers, Stamps, NoAnswer, NoStamp, files
<1>3. ASSUME NEW c \in Calls, Begin(c) PROVE TypeOK'
  BY <1>3, RacyAssumption, CallsAssumption DEF Begin, Goes, TypeOK, File, Stamps,
      Answers, Steps, files, Absent, NoStamp, NoAnswer, Nobody, Flying
<1>4. ASSUME NEW c \in Calls, Stamped(c) PROVE TypeOK'
  <2>1. stamp' \in [Calls -> Stamps]
    BY <1>4 DEF Stamped, TypeOK, File, Stamps
  <2>2. step' \in [Calls -> Steps]
    BY <1>4 DEF Stamped, Goes, TypeOK, Steps
  <2>q. QED
    BY <1>4, <2>1, <2>2 DEF Stamped, TypeOK, files
<1>5. ASSUME NEW c \in Calls, NotStamped(c) PROVE TypeOK'
  BY <1>5, RacyAssumption, CallsAssumption DEF NotStamped, Goes, TypeOK, File, Stamps,
      Answers, Steps, files, Absent, NoStamp, NoAnswer, Nobody, Flying
<1>6. ASSUME NEW c \in Calls, Moves(c) PROVE TypeOK'
  <2>1. step' \in [Calls -> Steps]
    BY <1>6 DEF Moves, Lead, Join, Miss, Keep, DoNotKeep, Retire, AskAgain, Goes, Ends,
        Over, TypeOK, Steps
  <2>2. joined' \in [Calls -> Calls \cup {Nobody}] /\ leads' \subseteq Calls
    BY <1>6 DEF Moves, Lead, Join, Miss, Keep, DoNotKeep, Retire, AskAgain, Goes, Ends,
        Over, Flying, TypeOK
  <2>3. \A s \in Stamps : Settled(s) \in BOOLEAN
    BY DEF Settled
  <2>4. sure' \in [Calls -> BOOLEAN]
    BY <1>6, <2>3 DEF Moves, Lead, Join, Miss, Keep, DoNotKeep, Retire, AskAgain, TypeOK
  <2>5. kept' \in Answers
    BY <1>6 DEF Moves, Lead, Join, Miss, Keep, DoNotKeep, Retire, AskAgain, TypeOK, files
  <2>6. UNCHANGED <<files, stamp, got, seen>>
    BY <1>6 DEF Moves, Lead, Join, Miss, Keep, DoNotKeep, Retire, AskAgain, Goes, Ends,
        Over
  <2>q. QED
    BY <2>1, <2>2, <2>4, <2>5, <2>6 DEF TypeOK, files
<1>7. ASSUME NEW c \in Calls, ReadsBase(c) PROVE TypeOK'
  BY <1>7, RacyAssumption, CallsAssumption DEF ReadsBase, Goes, TypeOK, File, Stamps,
      Answers, Steps, files, Absent, NoStamp, NoAnswer, Nobody, Flying
<1>8. ASSUME NEW c \in Calls, ReadsOpt(c) PROVE TypeOK'
  <2>1. got' \in [Calls -> Answers]
    BY <1>8 DEF ReadsOpt, TypeOK, File, Answers
  <2>2. step' \in [Calls -> Steps]
    BY <1>8 DEF ReadsOpt, Goes, TypeOK, Steps
  <2>q. QED
    BY <1>8, <2>1, <2>2 DEF ReadsOpt, TypeOK, files
<1>9. ASSUME NEW c \in Calls, Gets(c) PROVE TypeOK'
  <2>1. joined[c] \in Calls \/ ~Follow(c)
    BY <1>9 DEF Follow, FlightInv
  <2>2. \E a \in Answers : got' = [got EXCEPT ![c] = a]
    BY <1>9, <2>1 DEF Gets, Hit, Fails, Panics, Follow, TypeOK, Answers, Stamps, NoAnswer,
        NoStamp
  <2>3. step' \in [Calls -> Steps]
    BY <1>9 DEF Gets, Hit, Fails, Panics, Follow, Goes, Ends, TypeOK, Steps
  <2>4. UNCHANGED <<files, kept, leads, stamp, sure, joined, seen>>
    BY <1>9 DEF Gets, Hit, Fails, Panics, Follow
  <2>q. QED
    BY <2>2, <2>3, <2>4 DEF TypeOK, files
<1>q. QED
  BY Cases, <1>1, <1>2, <1>3, <1>4, <1>5, <1>6, <1>7, <1>8, <1>9

(* Time and the identity of what is not there stay apart.                  *)
LEMMA ClockLasts ==
    ASSUME TypeOK, ClockInv, Next
    PROVE  ClockInv'
<1>1. CASE World
  BY <1>1 DEF World, WriteBase, WriteOpt, RemoveOpt, Tick, Change, Lived, Written,
      TypeOK, File, ClockInv, Absent
<1>2. CASE Evict
  BY <1>2 DEF Evict, files, TypeOK, File, ClockInv, Absent
<1>3. ASSUME NEW c \in Calls, Begin(c) PROVE ClockInv'
  BY <1>3 DEF Begin, Goes, ClockInv, files
<1>4. ASSUME NEW c \in Calls, Stamped(c) PROVE ClockInv'
  BY <1>4 DEF Stamped, Goes, ClockInv, files
<1>5. ASSUME NEW c \in Calls, NotStamped(c) PROVE ClockInv'
  BY <1>5 DEF NotStamped, Goes, ClockInv, files
<1>6. ASSUME NEW c \in Calls, Moves(c) PROVE ClockInv'
  BY <1>6 DEF Moves, Lead, Join, Miss, Keep, DoNotKeep, Retire, AskAgain, Goes, Ends,
      Over, ClockInv, files
<1>7. ASSUME NEW c \in Calls, ReadsBase(c) PROVE ClockInv'
  BY <1>7 DEF ReadsBase, Goes, ClockInv, files
<1>8. ASSUME NEW c \in Calls, ReadsOpt(c) PROVE ClockInv'
  BY <1>8 DEF ReadsOpt, Goes, ClockInv, files
<1>9. ASSUME NEW c \in Calls, Gets(c) PROVE ClockInv'
  BY <1>9 DEF Gets, Hit, Fails, Panics, Follow, Goes, Ends, ClockInv, files
<1>q. QED
  BY Cases, <1>1, <1>2, <1>3, <1>4, <1>5, <1>6, <1>7, <1>8, <1>9

(* What is current is seen by every call in progress.                      *)
LEMMA SeenLasts ==
    ASSUME TypeOK, CurrentIsSeen, Next
    PROVE  CurrentIsSeen'
<1>1. CASE World
  BY <1>1 DEF World, WriteBase, WriteOpt, RemoveOpt, Tick, Change, Lived, Written,
      CurrentIsSeen, InProgress, TypeOK, File, Stamps, Answers, Steps
<1>2. CASE Evict
  BY <1>2 DEF Evict, files, CurrentIsSeen, InProgress, TypeOK, File, Stamps, Answers,
      Steps
<1>3. ASSUME NEW c \in Calls, Begin(c) PROVE CurrentIsSeen'
  BY <1>3 DEF Begin, Goes, CurrentIsSeen, InProgress, files, TypeOK, Steps
<1>4. ASSUME NEW c \in Calls, Stamped(c) PROVE CurrentIsSeen'
  BY <1>4 DEF Stamped, Goes, CurrentIsSeen, InProgress, files, TypeOK, Steps
<1>5. ASSUME NEW c \in Calls, NotStamped(c) PROVE CurrentIsSeen'
  BY <1>5 DEF NotStamped, Goes, CurrentIsSeen, InProgress, files, TypeOK, Steps
<1>6. ASSUME NEW c \in Calls, Moves(c) PROVE CurrentIsSeen'
  BY <1>6 DEF Moves, Lead, Join, Miss, Keep, DoNotKeep, Retire, AskAgain, Goes, Ends,
      Over, CurrentIsSeen, InProgress, files, TypeOK, Steps
<1>7. ASSUME NEW c \in Calls, ReadsBase(c) PROVE CurrentIsSeen'
  BY <1>7 DEF ReadsBase, Goes, CurrentIsSeen, InProgress, files, TypeOK, Steps
<1>8. ASSUME NEW c \in Calls, ReadsOpt(c) PROVE CurrentIsSeen'
  BY <1>8 DEF ReadsOpt, Goes, CurrentIsSeen, InProgress, files, TypeOK, Steps
<1>9. ASSUME NEW c \in Calls, Gets(c) PROVE CurrentIsSeen'
  BY <1>9 DEF Gets, Hit, Fails, Panics, Follow, Goes, Ends, CurrentIsSeen, InProgress,
      files, TypeOK, Steps
<1>q. QED
  BY Cases, <1>1, <1>2, <1>3, <1>4, <1>5, <1>6, <1>7, <1>8, <1>9

(* A stamp describes what was there when it was read.                      *)
LEMMA StampLasts ==
    ASSUME TypeOK, ClockInv, CurrentIsSeen, StampInv, Next
    PROVE  StampInv'
<1>1. CASE World
  BY <1>1 DEF World, WriteBase, WriteOpt, RemoveOpt, Tick, Change, Lived, Written,
      StampInv, Walked, InProgress, TypeOK, File, Stamps, Answers, Steps
<1>2. CASE Evict
  BY <1>2 DEF Evict, files, StampInv, Walked, InProgress, TypeOK, File, Stamps,
      Answers, Steps
<1>3. ASSUME NEW c \in Calls, Begin(c) PROVE StampInv'
  BY <1>3 DEF Begin, Goes, StampInv, Walked, NoStamp, ClockInv, CurrentIsSeen,
      InProgress, files, TypeOK, Steps, Stamps, File
<1>4. ASSUME NEW c \in Calls, Stamped(c) PROVE StampInv'
  <2>1. UNCHANGED <<files, seen>> /\ step' \in [Calls -> Steps]
        /\ step'[c] \in {"looking", "asking"} /\ \A d \in Calls \ {c} : step'[d] = step[d]
    BY <1>4 DEF Stamped, Goes, TypeOK, Steps
  <2>2. stamp'[c] = [base |-> stamp[c].base, opt |-> opt.time]
        /\ \A d \in Calls \ {c} : stamp'[d] = stamp[d]
    BY <1>4 DEF Stamped, TypeOK, Stamps
  <2>3. stamp[c].base # 0 /\ opt.version \in seen[c].opt
    BY <1>4 DEF Stamped, StampInv, CurrentIsSeen, InProgress
  <2>q. QED
    BY <2>1, <2>2, <2>3 DEF StampInv, ClockInv, Walked, NoStamp, files
<1>5. ASSUME NEW c \in Calls, NotStamped(c) PROVE StampInv'
  BY <1>5 DEF NotStamped, Goes, StampInv, Walked, NoStamp, ClockInv, CurrentIsSeen,
      InProgress, files, TypeOK, Steps, Stamps, File
<1>6. ASSUME NEW c \in Calls, Moves(c) PROVE StampInv'
  BY <1>6 DEF Moves, Lead, Join, Miss, Keep, DoNotKeep, Retire, AskAgain, Goes, Ends,
      Over, StampInv, Walked, NoStamp, ClockInv, CurrentIsSeen, InProgress, files,
      TypeOK, Steps, Stamps, File
<1>7. ASSUME NEW c \in Calls, ReadsBase(c) PROVE StampInv'
  BY <1>7 DEF ReadsBase, Goes, StampInv, Walked, NoStamp, ClockInv, CurrentIsSeen,
      InProgress, files, TypeOK, Steps, Stamps, File
<1>8. ASSUME NEW c \in Calls, ReadsOpt(c) PROVE StampInv'
  BY <1>8 DEF ReadsOpt, Goes, StampInv, Walked, NoStamp, ClockInv, CurrentIsSeen,
      InProgress, files, TypeOK, Steps, Stamps, File
<1>9. ASSUME NEW c \in Calls, Gets(c) PROVE StampInv'
  BY <1>9 DEF Gets, Hit, Fails, Panics, Follow, Goes, Ends, StampInv, Walked, NoStamp,
      ClockInv, CurrentIsSeen, InProgress, files, TypeOK, Steps, Stamps, File
<1>q. QED
  BY Cases, <1>1, <1>2, <1>3, <1>4, <1>5, <1>6, <1>7, <1>8, <1>9

(* A call that waits has the stamp of a run that has begun.               *)
LEMMA FlightLasts ==
    ASSUME TypeOK, StampInv, FlightInv, Next
    PROVE  FlightInv'
<1>1. CASE World
  BY <1>1, RacyAssumption, CallsAssumption DEF World, WriteBase, WriteOpt, RemoveOpt,
      Tick, Change, Lived, Written, FlightInv
<1>2. CASE Evict
  BY <1>2, RacyAssumption, CallsAssumption DEF Evict, files, FlightInv
<1>3. ASSUME NEW c \in Calls, Begin(c) PROVE FlightInv'
  BY <1>3, RacyAssumption, CallsAssumption DEF Begin, Goes, FlightInv, TypeOK, Steps,
      Flying, HasAnswered, Nobody, files
<1>4. ASSUME NEW c \in Calls, Stamped(c) PROVE FlightInv'
  BY <1>4, RacyAssumption, CallsAssumption DEF Stamped, Goes, FlightInv, TypeOK, Steps,
      Flying, HasAnswered, Nobody, files
<1>5. ASSUME NEW c \in Calls, NotStamped(c) PROVE FlightInv'
  BY <1>5, RacyAssumption, CallsAssumption DEF NotStamped, Goes, FlightInv, TypeOK,
      Steps, Flying, HasAnswered, Nobody, files
<1>6. ASSUME NEW c \in Calls, Moves(c) PROVE FlightInv'
  BY <1>6, RacyAssumption, CallsAssumption DEF Moves, Lead, Join, Miss, Keep,
      DoNotKeep, Retire, AskAgain, Goes, Ends, Over, FlightInv, TypeOK, Steps, Flying,
      HasAnswered, Nobody, files
<1>7. ASSUME NEW c \in Calls, ReadsBase(c) PROVE FlightInv'
  BY <1>7, RacyAssumption, CallsAssumption DEF ReadsBase, Goes, FlightInv, TypeOK,
      Steps, Flying, HasAnswered, Nobody, files
<1>8. ASSUME NEW c \in Calls, ReadsOpt(c) PROVE FlightInv'
  BY <1>8, RacyAssumption, CallsAssumption DEF ReadsOpt, Goes, FlightInv, TypeOK,
      Steps, Flying, HasAnswered, Nobody, files
<1>9. ASSUME NEW c \in Calls, Gets(c) PROVE FlightInv'
  BY <1>9, RacyAssumption, CallsAssumption DEF Gets, Hit, Fails, Panics, Follow, Goes,
      Ends, FlightInv, TypeOK, Steps, Flying, HasAnswered, Nobody, files
<1>q. QED
  BY Cases, <1>1, <1>2, <1>3, <1>4, <1>5, <1>6, <1>7, <1>8, <1>9

(* What a call has got is an answer under its own stamp.                  *)
LEMMA RunLasts ==
    ASSUME TypeOK, FlightInv, RunInv, Next
    PROVE  RunInv'
<1>1. CASE World
  <2>1. UNCHANGED <<step, stamp, sure, got>>
    BY <1>1 DEF World, WriteBase, WriteOpt, RemoveOpt, Tick, Change
  <2>2. clock \in Nat /\ clock' \in Nat /\ clock' >= clock
    BY <1>1 DEF World, WriteBase, WriteOpt, RemoveOpt, Tick, Change, TypeOK
  <2>3. \A s \in Stamps : Settled(s) => Settled(s)'
    BY <2>2, RacyAssumption DEF Settled, Stamps
  <2>4. stamp \in [Calls -> Stamps]
    BY DEF TypeOK
  <2>q. QED
    BY <2>1, <2>3, <2>4 DEF RunInv
<1>2. CASE Evict
  BY <1>2 DEF Evict, files, RunInv, Settled, TypeOK, File, Stamps, Answers, Steps
<1>3. ASSUME NEW c \in Calls, Begin(c) PROVE RunInv'
  BY <1>3 DEF Begin, Goes, RunInv, Settled, NoStamp, NoAnswer, TypeOK, File, Stamps,
      Answers, Steps, files
<1>4. ASSUME NEW c \in Calls, Stamped(c) PROVE RunInv'
  BY <1>4 DEF Stamped, Goes, RunInv, Settled, NoStamp, NoAnswer, TypeOK, File, Stamps,
      Answers, Steps, files
<1>5. ASSUME NEW c \in Calls, NotStamped(c) PROVE RunInv'
  BY <1>5 DEF NotStamped, Goes, RunInv, Settled, NoStamp, NoAnswer, TypeOK, File,
      Stamps, Answers, Steps, files
<1>6. ASSUME NEW c \in Calls, Moves(c) PROVE RunInv'
  <2>1. UNCHANGED <<clock, stamp, got>>
    BY <1>6 DEF Moves, Lead, Join, Miss, Keep, DoNotKeep, Retire, AskAgain, files
  <2>2. \A d \in Calls \ {c} : step'[d] = step[d] /\ sure'[d] = sure[d]
    BY <1>6 DEF Moves, Lead, Join, Miss, Keep, DoNotKeep, Retire, AskAgain, Goes, Ends,
        Over, TypeOK
  <2>3. step'[c] = "running" => sure'[c] = Settled(stamp[c])
    BY <1>6 DEF Moves, Lead, Join, Miss, Keep, DoNotKeep, Retire, AskAgain, Goes, Ends,
        Over, TypeOK
  <2>4. step'[c] \in {"asking", "waiting", "looking", "running"} => got[c] = NoAnswer
    BY <1>6 DEF Moves, Lead, Join, Miss, Keep, DoNotKeep, Retire, AskAgain, Goes, Ends,
        Over, TypeOK, RunInv
  <2>5. step'[c] \notin {"new", "walking", "reading", "ran"}
    BY <1>6 DEF Moves, Lead, Join, Miss, Keep, DoNotKeep, Retire, AskAgain, Goes, Ends,
        Over, TypeOK
  <2>q. QED
    BY <2>1, <2>2, <2>3, <2>4, <2>5 DEF RunInv, Settled
<1>7. ASSUME NEW c \in Calls, ReadsBase(c) PROVE RunInv'
  <2>1. UNCHANGED <<clock, stamp, sure>> /\ step[c] = "running"
    BY <1>7 DEF ReadsBase, files
  <2>2. \A d \in Calls \ {c} : step'[d] = step[d] /\ got'[d] = got[d]
    BY <1>7 DEF ReadsBase, Goes, TypeOK
  <2>3. step'[c] = "reading" /\ got'[c].stamp = stamp[c] /\ got'[c].sure = sure[c]
    BY <1>7 DEF ReadsBase, Goes, TypeOK
  <2>q. QED
    BY <2>1, <2>2, <2>3 DEF RunInv, Settled
<1>8. ASSUME NEW c \in Calls, ReadsOpt(c) PROVE RunInv'
  <2>1. UNCHANGED <<clock, stamp, sure>> /\ step[c] = "reading"
    BY <1>8 DEF ReadsOpt, files
  <2>2. \A d \in Calls \ {c} : step'[d] = step[d] /\ got'[d] = got[d]
    BY <1>8 DEF ReadsOpt, Goes, TypeOK
  <2>3. step'[c] = "ran" /\ got'[c].stamp = got[c].stamp /\ got'[c].sure = got[c].sure
    BY <1>8 DEF ReadsOpt, Goes, TypeOK, Answers
  <2>q. QED
    BY <2>1, <2>2, <2>3 DEF RunInv, Settled
<1>9. ASSUME NEW c \in Calls, Gets(c) PROVE RunInv'
  <2>1. UNCHANGED <<clock, stamp, sure>>
    BY <1>9 DEF Gets, Hit, Fails, Panics, Follow, files
  <2>2. got'[c] = NoAnswer \/ got'[c].stamp = stamp[c]
    BY <1>9 DEF Gets, Hit, Fails, Panics, Follow, FlightInv, RunInv, TypeOK
  <2>3. \A d \in Calls \ {c} : step'[d] = step[d] /\ got'[d] = got[d]
    BY <1>9 DEF Gets, Hit, Fails, Panics, Follow, Goes, Ends, TypeOK
  <2>4. step'[c] \in {"retiring", "unwinding", "done", "panicked"}
    BY <1>9 DEF Gets, Hit, Fails, Panics, Follow, Goes, Ends, TypeOK
  <2>q. QED
    BY <2>1, <2>2, <2>3, <2>4 DEF RunInv, Settled
<1>q. QED
  BY Cases, <1>1, <1>2, <1>3, <1>4, <1>5, <1>6, <1>7, <1>8, <1>9

(* Whatever happens, what was said of an answer stays true.                *)
LEMMA BaseLasts ==
    ASSUME TypeOK, ClockInv, CurrentIsSeen, Next, NEW a \in Answers, GoodBase(a)
    PROVE  GoodBase(a)'
<1>1. CASE World
  BY <1>1 DEF World, WriteBase, WriteOpt, RemoveOpt, Tick, Change, Lived, Written,
      GoodBase, InProgress, ClockInv, CurrentIsSeen, files, NoStamp, TypeOK, File,
      Stamps, Answers, Steps
<1>2. CASE Evict
  BY <1>2 DEF Evict, files, GoodBase, InProgress, ClockInv, CurrentIsSeen, NoStamp,
      TypeOK, File, Stamps, Answers, Steps
<1>3. ASSUME NEW c \in Calls, Begin(c) PROVE GoodBase(a)'
  BY <1>3 DEF Begin, Goes, GoodBase, InProgress, ClockInv, CurrentIsSeen, files, NoStamp,
      TypeOK, File, Stamps, Answers, Steps
<1>4. ASSUME NEW c \in Calls, Stamped(c) PROVE GoodBase(a)'
  <2>1. UNCHANGED <<files, seen>>
    BY <1>4 DEF Stamped
  <2>2. \A d \in Calls : stamp'[d].base = stamp[d].base
    BY <1>4 DEF Stamped, TypeOK, Stamps
  <2>3. \A d \in Calls : InProgress(d)' => InProgress(d)
    BY <1>4 DEF Stamped, Goes, InProgress, TypeOK
  <2>q. QED
    BY <2>1, <2>2, <2>3 DEF GoodBase, files
<1>5. ASSUME NEW c \in Calls, NotStamped(c) PROVE GoodBase(a)'
  BY <1>5 DEF NotStamped, Goes, GoodBase, InProgress, ClockInv, CurrentIsSeen, files,
      NoStamp, TypeOK, File, Stamps, Answers, Steps
<1>6. ASSUME NEW c \in Calls, Moves(c) PROVE GoodBase(a)'
  BY <1>6 DEF Moves, Lead, Join, Miss, Keep, DoNotKeep, Retire, AskAgain, Goes, Ends,
      Over, GoodBase, InProgress, ClockInv, CurrentIsSeen, files, NoStamp, TypeOK,
      File, Stamps, Answers, Steps
<1>7. ASSUME NEW c \in Calls, ReadsBase(c) PROVE GoodBase(a)'
  BY <1>7 DEF ReadsBase, Goes, GoodBase, InProgress, ClockInv, CurrentIsSeen, files,
      NoStamp, TypeOK, File, Stamps, Answers, Steps
<1>8. ASSUME NEW c \in Calls, ReadsOpt(c) PROVE GoodBase(a)'
  BY <1>8 DEF ReadsOpt, Goes, GoodBase, InProgress, ClockInv, CurrentIsSeen, files,
      NoStamp, TypeOK, File, Stamps, Answers, Steps
<1>9. ASSUME NEW c \in Calls, Gets(c) PROVE GoodBase(a)'
  BY <1>9 DEF Gets, Hit, Fails, Panics, Follow, Goes, Ends, GoodBase, InProgress,
      ClockInv, CurrentIsSeen, files, NoStamp, TypeOK, File, Stamps, Answers, Steps
<1>q. QED
  BY Cases, <1>1, <1>2, <1>3, <1>4, <1>5, <1>6, <1>7, <1>8, <1>9

LEMMA OptLasts ==
    ASSUME TypeOK, ClockInv, CurrentIsSeen, Next, NEW a \in Answers, GoodOpt(a)
    PROVE  GoodOpt(a)'
<1>1. CASE World
  <2>1. UNCHANGED <<step, stamp>> /\ clock' >= clock
    BY <1>1 DEF World, WriteBase, WriteOpt, RemoveOpt, Tick, Change, TypeOK
  <2>2. \/ opt' = opt
        \/ opt'.time = 0
        \/ opt'.time = clock
    BY <1>1 DEF World, WriteBase, WriteOpt, RemoveOpt, Tick, Change, Written, Absent
  <2>3. \A d \in Calls : seen[d].opt \subseteq seen'[d].opt
    BY <1>1 DEF World, WriteBase, WriteOpt, RemoveOpt, Tick, Change, Lived, TypeOK
  <2>4. clock \in Nat /\ clock' \in Nat /\ a.stamp.opt \in Nat
    BY <1>1 DEF World, WriteBase, WriteOpt, RemoveOpt, Tick, Change, TypeOK, Answers,
        Stamps
  <2>q. QED
    BY <2>1, <2>2, <2>3, <2>4 DEF GoodOpt, Walked
<1>2. CASE Evict
  BY <1>2 DEF Evict, files, GoodOpt, Walked, InProgress, ClockInv, CurrentIsSeen, NoStamp,
      TypeOK, File, Stamps, Answers, Steps
<1>3. ASSUME NEW c \in Calls, Begin(c) PROVE GoodOpt(a)'
  BY <1>3 DEF Begin, Goes, GoodOpt, Walked, InProgress, ClockInv, CurrentIsSeen, files,
      NoStamp, TypeOK, File, Stamps, Answers, Steps
<1>4. ASSUME NEW c \in Calls, Stamped(c) PROVE GoodOpt(a)'
  <2>1. UNCHANGED <<files, seen>>
    BY <1>4 DEF Stamped
  <2>2. \A d \in Calls \ {c} : step'[d] = step[d] /\ stamp'[d] = stamp[d]
    BY <1>4 DEF Stamped, Goes, TypeOK
  <2>3. stamp'[c].opt = opt.time /\ opt.version \in seen[c].opt
    BY <1>4 DEF Stamped, CurrentIsSeen, InProgress, TypeOK, Stamps
  <2>q. QED
    BY <2>1, <2>2, <2>3 DEF GoodOpt, Walked, files
<1>5. ASSUME NEW c \in Calls, NotStamped(c) PROVE GoodOpt(a)'
  BY <1>5 DEF NotStamped, Goes, GoodOpt, Walked, InProgress, ClockInv, CurrentIsSeen,
      files, NoStamp, TypeOK, File, Stamps, Answers, Steps
<1>6. ASSUME NEW c \in Calls, Moves(c) PROVE GoodOpt(a)'
  BY <1>6 DEF Moves, Lead, Join, Miss, Keep, DoNotKeep, Retire, AskAgain, Goes, Ends,
      Over, GoodOpt, Walked, InProgress, ClockInv, CurrentIsSeen, files, NoStamp,
      TypeOK, File, Stamps, Answers, Steps
<1>7. ASSUME NEW c \in Calls, ReadsBase(c) PROVE GoodOpt(a)'
  BY <1>7 DEF ReadsBase, Goes, GoodOpt, Walked, InProgress, ClockInv, CurrentIsSeen,
      files, NoStamp, TypeOK, File, Stamps, Answers, Steps
<1>8. ASSUME NEW c \in Calls, ReadsOpt(c) PROVE GoodOpt(a)'
  BY <1>8 DEF ReadsOpt, Goes, GoodOpt, Walked, InProgress, ClockInv, CurrentIsSeen, files,
      NoStamp, TypeOK, File, Stamps, Answers, Steps
<1>9. ASSUME NEW c \in Calls, Gets(c) PROVE GoodOpt(a)'
  BY <1>9 DEF Gets, Hit, Fails, Panics, Follow, Goes, Ends, GoodOpt, Walked, InProgress,
      ClockInv, CurrentIsSeen, files, NoStamp, TypeOK, File, Stamps, Answers, Steps
<1>q. QED
  BY Cases, <1>1, <1>2, <1>3, <1>4, <1>5, <1>6, <1>7, <1>8, <1>9

(* What is kept, and what a call has got, stays a good answer.             *)
LEMMA GoodLasts ==
    ASSUME IInv, Next
    PROVE  GoodInv'
<1>1. CASE World
  <2>1. UNCHANGED <<kept, got, step>>
    BY <1>1 DEF World, WriteBase, WriteOpt, RemoveOpt, Tick, Change
  <2>2. kept \in Answers /\ got \in [Calls -> Answers]
    BY DEF IInv, TypeOK
  <2>q. QED
    BY <2>1, <2>2, BaseLasts, OptLasts DEF IInv, GoodInv, HasRead
<1>2. CASE Evict
  <2>1. UNCHANGED <<got, step>> /\ kept' = NoAnswer
    BY <1>2 DEF Evict
  <2>2. got \in [Calls -> Answers]
    BY DEF IInv, TypeOK
  <2>3. GoodBase(NoAnswer)' /\ GoodOpt(NoAnswer)'
    BY DEF GoodBase, GoodOpt, NoAnswer
  <2>q. QED
    BY <2>1, <2>2, <2>3, BaseLasts, OptLasts DEF IInv, GoodInv, HasRead, NoAnswer
<1>3. ASSUME NEW c \in Calls, Begin(c) PROVE GoodInv'
  <2>1. UNCHANGED <<kept, got>>
    BY <1>3 DEF Begin
  <2>2. kept \in Answers /\ got \in [Calls -> Answers]
    BY DEF IInv, TypeOK
  <2>3. \A d \in Calls : HasRead(d)' => HasRead(d)
    BY <1>3 DEF Begin, Goes, HasRead, IInv, TypeOK
  <2>q. QED
    BY <2>1, <2>2, <2>3, BaseLasts, OptLasts DEF IInv, GoodInv
<1>4. ASSUME NEW c \in Calls, Stamped(c) PROVE GoodInv'
  <2>1. UNCHANGED <<kept, got>>
    BY <1>4 DEF Stamped
  <2>2. kept \in Answers /\ got \in [Calls -> Answers]
    BY DEF IInv, TypeOK
  <2>3. \A d \in Calls : HasRead(d)' => HasRead(d)
    BY <1>4 DEF Stamped, Goes, HasRead, IInv, TypeOK
  <2>q. QED
    BY <2>1, <2>2, <2>3, BaseLasts, OptLasts DEF IInv, GoodInv
<1>5. ASSUME NEW c \in Calls, NotStamped(c) PROVE GoodInv'
  <2>1. UNCHANGED <<kept, got>>
    BY <1>5 DEF NotStamped
  <2>2. kept \in Answers /\ got \in [Calls -> Answers]
    BY DEF IInv, TypeOK
  <2>3. \A d \in Calls : HasRead(d)' => HasRead(d)
    BY <1>5 DEF NotStamped, Goes, HasRead, IInv, TypeOK
  <2>q. QED
    BY <2>1, <2>2, <2>3, BaseLasts, OptLasts DEF IInv, GoodInv
<1>6. ASSUME NEW c \in Calls, Moves(c) PROVE GoodInv'
  <2>1. UNCHANGED got
    BY <1>6 DEF Moves, Lead, Join, Miss, Keep, DoNotKeep, Retire, AskAgain
  <2>2. kept \in Answers /\ got \in [Calls -> Answers]
    BY DEF IInv, TypeOK
  <2>3. \A d \in Calls : HasRead(d)' => HasRead(d)
    BY <1>6 DEF Moves, Lead, Join, Miss, Keep, DoNotKeep, Retire, AskAgain, Goes, Ends,
        Over, HasRead, IInv, TypeOK
  <2>4. kept' = kept \/ (step[c] = "ran" /\ sure[c] /\ kept' = got[c])
    BY <1>6 DEF Moves, Lead, Join, Miss, Keep, DoNotKeep, Retire, AskAgain, files
  <2>5. step[c] = "ran" /\ sure[c] => HasRead(c) /\ got[c].sure
    BY DEF IInv, RunInv, HasRead
  <2>q. QED
    BY <2>1, <2>2, <2>3, <2>4, <2>5, BaseLasts, OptLasts DEF IInv, GoodInv
<1>7. ASSUME NEW c \in Calls, ReadsBase(c) PROVE GoodInv'
  <2>1. UNCHANGED <<files, stamp, seen, kept>>
    BY <1>7 DEF ReadsBase
  <2>2. kept \in Answers /\ got \in [Calls -> Answers]
    BY DEF IInv, TypeOK
  <2>3. \A d \in Calls : HasRead(d)' => HasRead(d) /\ d # c
    BY <1>7 DEF ReadsBase, Goes, HasRead, IInv, TypeOK
  <2>4. \A d \in Calls \ {c} : got'[d] = got[d]
    BY <1>7 DEF ReadsBase, IInv, TypeOK
  <2>5. got'[c] = [base |-> base.version, opt |-> 0, stamp |-> stamp[c], sure |-> sure[c]]
    BY <1>7 DEF ReadsBase, IInv, TypeOK
  <2>6. sure[c] => Settled(stamp[c])
    BY <1>7 DEF ReadsBase, IInv, RunInv
  <2>7. \A d \in Calls : InProgress(d)' => InProgress(d)
    BY <1>7 DEF ReadsBase, Goes, InProgress, IInv, TypeOK
  <2>8. sure[c] => stamp[c].base # 0 /\ clock > stamp[c].base
    BY <2>6, RacyAssumption DEF Settled, IInv, StampInv, TypeOK, Stamps
  <2>9. GoodBase(got[c])'
    BY <2>1, <2>5, <2>7, <2>8 DEF GoodBase, IInv, CurrentIsSeen, files
  <2>q. QED
    BY <2>1, <2>2, <2>3, <2>4, <2>9, BaseLasts, OptLasts DEF IInv, GoodInv
<1>8. ASSUME NEW c \in Calls, ReadsOpt(c) PROVE GoodInv'
  <2>1. UNCHANGED <<files, stamp, seen, kept, sure>>
    BY <1>8 DEF ReadsOpt
  <2>2. kept \in Answers /\ got \in [Calls -> Answers]
    BY DEF IInv, TypeOK
  <2>3. \A d \in Calls \ {c} : (HasRead(d)' => HasRead(d)) /\ got'[d] = got[d]
    BY <1>8 DEF ReadsOpt, Goes, HasRead, IInv, TypeOK
  <2>4. got'[c] = [got[c] EXCEPT !.opt = opt.version]
    BY <1>8 DEF ReadsOpt, IInv, TypeOK
  <2>5. GoodBase(got[c])'
    BY <2>2, <2>4, BaseLasts DEF GoodBase, IInv, GoodInv, Answers
  <2>6. sure[c] => Settled(stamp[c])
    BY <1>8 DEF ReadsOpt, IInv, RunInv
  <2>7. got[c].sure = sure[c] /\ got[c].stamp = stamp[c]
    BY <1>8 DEF ReadsOpt, IInv, RunInv
  <2>8. \A d \in Calls : Walked(d)' => Walked(d)
    BY <1>8 DEF ReadsOpt, Goes, Walked, IInv, TypeOK
  <2>9. sure[c] => clock > stamp[c].opt
    BY <2>6, RacyAssumption DEF Settled, IInv, TypeOK, Stamps
  <2>10. \A d \in Calls : Walked(d) => opt.version \in seen[d].opt
    BY DEF IInv, CurrentIsSeen, InProgress, Walked
  <2>11. got'[c].sure = sure[c] /\ got'[c].stamp = stamp[c] /\ got'[c].opt = opt.version
    BY <2>2, <2>4, <2>7 DEF Answers
  <2>12. GoodOpt(got[c])'
    BY <2>1, <2>8, <2>9, <2>10, <2>11 DEF GoodOpt, files
  <2>q. QED
    BY <2>1, <2>2, <2>3, <2>5, <2>12, BaseLasts, OptLasts DEF IInv, GoodInv
<1>9. ASSUME NEW c \in Calls, Gets(c) PROVE GoodInv'
  <2>1. UNCHANGED kept
    BY <1>9 DEF Gets, Hit, Fails, Panics, Follow
  <2>2. kept \in Answers /\ got \in [Calls -> Answers]
    BY DEF IInv, TypeOK
  <2>3. \A d \in Calls \ {c} : (HasRead(d)' => HasRead(d)) /\ got'[d] = got[d]
    BY <1>9 DEF Gets, Hit, Fails, Panics, Follow, Goes, Ends, HasRead, IInv, TypeOK
  <2>4. \/ got'[c] = NoAnswer \/ got'[c] = kept
        \/ \E l \in Calls : HasRead(l) /\ got'[c] = got[l]
    BY <1>9 DEF Gets, Hit, Fails, Panics, Follow, HasAnswered, HasRead, IInv, FlightInv,
        TypeOK
  <2>5. GoodBase(NoAnswer)' /\ GoodOpt(NoAnswer)'
    BY DEF GoodBase, GoodOpt, NoAnswer
  <2>6. \A a \in Answers : GoodBase(a) /\ GoodOpt(a) => GoodBase(a)' /\ GoodOpt(a)'
    BY BaseLasts, OptLasts DEF IInv
  <2>7. GoodBase(got[c])' /\ GoodOpt(got[c])'
    BY <2>2, <2>4, <2>5, <2>6 DEF IInv, GoodInv
  <2>q. QED
    BY <2>1, <2>2, <2>3, <2>7, BaseLasts, OptLasts DEF IInv, GoodInv
<1>q. QED
  BY Cases, <1>1, <1>2, <1>3, <1>4, <1>5, <1>6, <1>7, <1>8, <1>9

(* Whoever takes over a good answer under its own stamp is current.        *)
LEMMA Inherits ==
    ASSUME IInv, NEW c \in Calls, Walked(c), stamp[c] # NoStamp, NEW a \in Answers,
           a.sure, a.stamp = stamp[c], GoodBase(a), GoodOpt(a)
    PROVE  a.base \in seen[c].base /\ (a.opt \in seen[c].opt \/ IsPhantom(a))
<1>1. a.base \in seen[c].base
  BY DEF GoodBase, Walked, InProgress
<1>2. CASE stamp[c].opt = 0
  <2>1. 0 \in seen[c].opt
    BY <1>2 DEF IInv, StampInv
  <2>q. QED
    BY <1>1, <1>2, <2>1 DEF IsPhantom
<1>3. CASE stamp[c].opt # 0
  BY <1>1, <1>3 DEF GoodOpt
<1>q. QED
  BY <1>2, <1>3

(* Every call's own answer is current.                                     *)
LEMMA OwnLasts ==
    ASSUME IInv, Next
    PROVE  OwnInv'
<1>1. CASE World
  <2>1. UNCHANGED <<got, joined, step>>
    BY <1>1 DEF World, WriteBase, WriteOpt, RemoveOpt, Tick, Change
  <2>2. \A d \in Calls : seen[d].base \subseteq seen'[d].base /\ seen[d].opt \subseteq seen'[d].opt
    BY <1>1 DEF World, WriteBase, WriteOpt, RemoveOpt, Tick, Change, Lived, IInv, TypeOK
  <2>q. QED
    BY <2>1, <2>2 DEF IInv, HasRead, OwnInv, IsCurrent, Owns, JoinedTooEarly
<1>2. CASE Evict
  BY <1>2 DEF Evict, IInv, HasRead, OwnInv, IsCurrent, Owns, JoinedTooEarly
<1>3. ASSUME NEW c \in Calls, Begin(c) PROVE OwnInv'
  <2>1. UNCHANGED <<got, joined>> /\ got[c] = NoAnswer
    BY <1>3 DEF Begin, IInv, RunInv
  <2>2. \A d \in Calls \ {c} : step'[d] = step[d] /\ seen'[d] = seen[d]
    BY <1>3 DEF Begin, Goes, IInv, TypeOK
  <2>3. step'[c] = "walking"
    BY <1>3 DEF Begin, Goes, IInv, TypeOK
  <2>q. QED
    BY <2>1, <2>2, <2>3 DEF IInv, HasRead, OwnInv, IsCurrent, Owns, JoinedTooEarly
<1>4. ASSUME NEW c \in Calls, Stamped(c) PROVE OwnInv'
  <2>1. UNCHANGED <<got, joined, seen>>
    BY <1>4 DEF Stamped
  <2>2. \A d \in Calls : HasRead(d)' => HasRead(d)
    BY <1>4 DEF Stamped, Goes, HasRead, IInv, TypeOK
  <2>3. \A d \in Calls : step'[d] = "reading" => step[d] = "reading"
    BY <1>4 DEF Stamped, Goes, IInv, TypeOK
  <2>q. QED
    BY <2>1, <2>2, <2>3 DEF IInv, OwnInv, IsCurrent, Owns, JoinedTooEarly
<1>5. ASSUME NEW c \in Calls, NotStamped(c) PROVE OwnInv'
  <2>1. UNCHANGED <<got, joined, seen>>
    BY <1>5 DEF NotStamped
  <2>2. \A d \in Calls : HasRead(d)' => HasRead(d)
    BY <1>5 DEF NotStamped, Goes, HasRead, IInv, TypeOK
  <2>3. \A d \in Calls : step'[d] = "reading" => step[d] = "reading"
    BY <1>5 DEF NotStamped, Goes, IInv, TypeOK
  <2>q. QED
    BY <2>1, <2>2, <2>3 DEF IInv, OwnInv, IsCurrent, Owns, JoinedTooEarly
<1>6. ASSUME NEW c \in Calls, Moves(c) PROVE OwnInv'
  <2>1. UNCHANGED <<got, seen>>
    BY <1>6 DEF Moves, Lead, Join, Miss, Keep, DoNotKeep, Retire, AskAgain
  <2>2. \A d \in Calls : HasRead(d)' => HasRead(d)
    BY <1>6 DEF Moves, Lead, Join, Miss, Keep, DoNotKeep, Retire, AskAgain, Goes, Ends,
        Over, HasRead, IInv, TypeOK
  <2>3. \A d \in Calls \ {c} : step'[d] = step[d] /\ joined'[d] = joined[d]
    BY <1>6 DEF Moves, Lead, Join, Miss, Keep, DoNotKeep, Retire, AskAgain, Goes, Ends,
        Over, IInv, TypeOK
  <2>4. joined'[c] = joined[c] \/ got[c] = NoAnswer
    BY <1>6 DEF Moves, Lead, Join, Miss, Keep, DoNotKeep, Retire, AskAgain, IInv, RunInv
  <2>5. step'[c] # "reading"
    BY <1>6 DEF Moves, Lead, Join, Miss, Keep, DoNotKeep, Retire, AskAgain, Goes, Ends,
        Over, IInv, TypeOK
  <2>q. QED
    BY <2>1, <2>2, <2>3, <2>4, <2>5 DEF IInv, OwnInv, IsCurrent, Owns, JoinedTooEarly
<1>7. ASSUME NEW c \in Calls, ReadsBase(c) PROVE OwnInv'
  <2>1. UNCHANGED <<joined, seen>>
    BY <1>7 DEF ReadsBase
  <2>2. \A d \in Calls \ {c} : step'[d] = step[d] /\ got'[d] = got[d]
    BY <1>7 DEF ReadsBase, Goes, IInv, TypeOK
  <2>3. step'[c] = "reading" /\ got'[c].base = base.version
    BY <1>7 DEF ReadsBase, Goes, IInv, TypeOK
  <2>4. base.version \in seen[c].base
    BY <1>7 DEF ReadsBase, IInv, CurrentIsSeen, InProgress
  <2>q. QED
    BY <2>1, <2>2, <2>3, <2>4 DEF IInv, HasRead, OwnInv, IsCurrent, Owns,
        JoinedTooEarly
<1>8. ASSUME NEW c \in Calls, ReadsOpt(c) PROVE OwnInv'
  <2>1. UNCHANGED <<joined, seen>> /\ step[c] = "reading"
    BY <1>8 DEF ReadsOpt
  <2>2. \A d \in Calls \ {c} : step'[d] = step[d] /\ got'[d] = got[d]
    BY <1>8 DEF ReadsOpt, Goes, IInv, TypeOK
  <2>3. step'[c] = "ran" /\ got'[c].base = got[c].base /\ got'[c].opt = opt.version
    BY <1>8 DEF ReadsOpt, Goes, IInv, TypeOK, Answers
  <2>4. opt.version \in seen[c].opt
    BY <1>8 DEF ReadsOpt, IInv, CurrentIsSeen, InProgress
  <2>q. QED
    BY <2>1, <2>2, <2>3, <2>4 DEF IInv, HasRead, OwnInv, IsCurrent, Owns,
        JoinedTooEarly
<1>9. ASSUME NEW c \in Calls, Gets(c) PROVE OwnInv'
  <2>1. UNCHANGED <<joined, seen>>
    BY <1>9 DEF Gets, Hit, Fails, Panics, Follow
  <2>2. \A d \in Calls \ {c} : step'[d] = step[d] /\ got'[d] = got[d]
    BY <1>9 DEF Gets, Hit, Fails, Panics, Follow, Goes, Ends, IInv, TypeOK
  <2>3. step'[c] # "reading"
    BY <1>9 DEF Gets, Hit, Fails, Panics, Follow, Goes, Ends, IInv, TypeOK
  <2>4. ASSUME Hit(c)
        PROVE  got'[c].base \in seen[c].base
               /\ (got'[c].opt \in seen[c].opt \/ IsPhantom(got'[c]))
    <3>1. got'[c] = kept /\ kept \in Answers
      BY <2>4 DEF Hit, IInv, TypeOK
    <3>2. Walked(c) /\ stamp[c] # NoStamp /\ kept.stamp = stamp[c]
      BY <2>4 DEF Hit, Walked, Settled
    <3>3. kept.sure /\ GoodBase(kept) /\ GoodOpt(kept)
      BY <2>4 DEF Hit, IInv, GoodInv
    <3>q. QED
      BY <3>1, <3>2, <3>3, Inherits
  <2>5. ASSUME Follow(c), Owns(c)'
        PROVE  got'[c].base \in seen[c].base
               /\ (got'[c].opt \in seen[c].opt \/ IsPhantom(got'[c]))
    <3>1. PICK l \in Calls : l = joined[c]
      BY <2>5 DEF Follow, IInv, FlightInv
    <3>2. got'[c] = got[l] /\ got[l] \in Answers /\ HasRead(l)
      BY <2>5, <3>1 DEF Follow, HasAnswered, HasRead, IInv, TypeOK
    <3>3. got[l].sure /\ got[l] # NoAnswer
      BY <2>1, <2>5, <3>1, <3>2, CallsAssumption DEF Owns, JoinedTooEarly, Nobody
    <3>4. Walked(c) /\ stamp[c] # NoStamp
      BY <2>5 DEF Follow, Walked, IInv, StampInv
    <3>5. got[l].stamp = stamp[c]
      BY <2>5, <3>1, <3>3 DEF Follow, IInv, FlightInv, RunInv
    <3>6. GoodBase(got[l]) /\ GoodOpt(got[l])
      BY <3>2 DEF IInv, GoodInv
    <3>q. QED
      BY <3>2, <3>3, <3>4, <3>5, <3>6, Inherits
  <2>6. Fails(c) \/ Panics(c) => ~Owns(c)'
    BY DEF Fails, Panics, Owns, IInv, TypeOK
  <2>7. ASSUME Owns(c)'
        PROVE  got'[c].base \in seen'[c].base
               /\ (got'[c].opt \in seen'[c].opt \/ IsPhantom(got'[c]))
    BY <1>9, <2>1, <2>4, <2>5, <2>6, <2>7 DEF Gets
  <2>8. ASSUME NEW d \in Calls, d # c PROVE IsCurrent(d)'
    BY <2>1, <2>2, <2>8 DEF IInv, HasRead, OwnInv, IsCurrent, Owns, JoinedTooEarly
  <2>9. IsCurrent(c)'
    BY <2>3, <2>7 DEF IsCurrent, IsPhantom
  <2>q. QED
    BY <2>8, <2>9 DEF OwnInv
<1>q. QED
  BY Cases, <1>1, <1>2, <1>3, <1>4, <1>5, <1>6, <1>7, <1>8, <1>9

(* What holds of the files, the stamps, the runs and the answers together. *)
THEOREM Invariance == Spec => []IInv
<1>1. Init => IInv
  <2>1. ASSUME Init PROVE TypeOK
    BY <2>1, RacyAssumption, CallsAssumption
       DEF Init, TypeOK, File, Stamps, Answers, Steps, NoAnswer, NoStamp, Absent, Nobody
  <2>2. ASSUME Init PROVE ClockInv /\ CurrentIsSeen /\ StampInv /\ FlightInv
    BY <2>2, RacyAssumption, CallsAssumption
       DEF Init, ClockInv, CurrentIsSeen, StampInv, FlightInv, InProgress, Walked,
           Absent, NoStamp, Nobody
  <2>3. ASSUME Init PROVE RunInv /\ GoodInv /\ OwnInv
    BY <2>3 DEF Init, RunInv, GoodInv, OwnInv, IsCurrent, GoodBase, GoodOpt, HasRead, Owns,
                NoAnswer, NoStamp
  <2>q. QED
    BY <2>1, <2>2, <2>3 DEF IInv
<1>2. ASSUME IInv, [Next]_vars PROVE IInv'
  <2>1. CASE Next
    BY <1>2, <2>1, TypeLasts, ClockLasts, SeenLasts, StampLasts, FlightLasts, RunLasts,
       GoodLasts, OwnLasts DEF IInv
  <2>2. CASE UNCHANGED vars
    <3>1. TypeOK' /\ ClockInv' /\ CurrentIsSeen' /\ StampInv' /\ FlightInv'
      BY <1>2, <2>2 DEF vars, files, IInv, TypeOK, ClockInv, CurrentIsSeen, StampInv,
         FlightInv, InProgress, Walked
    <3>2. RunInv'
      BY <1>2, <2>2 DEF vars, files, IInv, RunInv, Settled
    <3>3. GoodInv' /\ OwnInv'
      BY <1>2, <2>2 DEF vars, files, IInv, GoodInv, OwnInv, IsCurrent, GoodBase, GoodOpt,
         HasRead, Owns, JoinedTooEarly, InProgress, Walked
    <3>q. QED
      BY <3>1, <3>2, <3>3 DEF IInv
  <2>q. QED
    BY <1>2, <2>1, <2>2
<1>q. QED
  BY <1>1, <1>2, PTL DEF Spec

(* Type correctness, for any number of calls and any window.               *)
THEOREM TypeCorrect == Spec => []TypeOK
<1>1. IInv => TypeOK
  BY DEF IInv
<1>q. QED
  BY <1>1, Invariance, PTL

(* A caller is answered with what each file held at some moment of its own *)
(* call (through, through_stamped, and a run joined after it had settled), *)
(* whatever is written when and by however many callers.                   *)
THEOREM AnswersCurrent == Spec => []AnswersAreCurrent
<1>1. IInv => AnswersAreCurrent
  BY DEF IInv, OwnInv, IsCurrent, Owns, HasRead, AnswersAreCurrent, IsAnswered
<1>q. QED
  BY <1>1, Invariance, PTL

=============================================================================
