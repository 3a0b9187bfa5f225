---------------------------- MODULE OutputProofs ----------------------------
(***************************************************************************)
(* The safety of a session's output path for any number of views, detach   *)
(* calls and chunks, and any ring that fits the window; and, at the end,   *)
(* that the credit protocol below it conserves credit for any chunks and   *)
(* acknowledgements.                                                       *)
(*                                                                         *)
(* The proof is in layers, each an inductive invariant that may use those  *)
(* below it: who holds the ring's lock; why no process is ended over its   *)
(* output; that a replay has its credit; the order of what is shown; that  *)
(* the end marker comes last; that a gap is told; and that what was lost   *)
(* while nobody looked is reported.                                        *)
(***************************************************************************)
EXTENDS TerminalOutput, OutputCredit, FiniteSetTheorems, TLAPS

(* What `min` promises the two places flow.rs uses it.                     *)
LEMMA SmallerIsMin ==
    ASSUME NEW a \in Nat, NEW b \in Nat
    PROVE  /\ Smaller(a, b) \in Nat
           /\ Smaller(a, b) <= a /\ Smaller(a, b) <= b
           /\ Smaller(a, b) = a \/ Smaller(a, b) = b
BY DEF Smaller

(* An accepted acknowledgement takes exactly its bytes out of the two      *)
(* counters together, whichever of them it comes from, and neither         *)
(* underflows (acknowledge in flow.rs subtracts without a check).          *)
LEMMA AcknowledgeTakesItsBytes ==
    ASSUME flow \in FlowType, NEW n \in Nat, Acknowledge(n)
    PROVE  /\ flow' \in FlowType
           /\ flow'.pending + flow'.uncertain = flow.pending + flow.uncertain - n
           /\ flow'.pending <= flow.pending
           /\ flow'.stopped = flow.stopped /\ flow'.detached = flow.detached
           /\ flow'.shedding = flow.shedding
<1>1. PICK u \in Nat : /\ u = FromUncertain(n)
                       /\ u <= n /\ u <= flow.uncertain
                       /\ u = n \/ u = flow.uncertain
  BY SmallerIsMin DEF FromUncertain, FlowType
<1>2. /\ n <= flow.pending + flow.uncertain
      /\ flow' = [flow EXCEPT !.uncertain = @ - u, !.pending = @ - (n - u)]
  BY <1>1 DEF Acknowledge, Acceptable
<1>3. /\ flow.pending \in 0..Window /\ flow.uncertain \in 0..Window
      /\ n - u <= flow.pending
  BY <1>1, <1>2 DEF FlowType
<1>4. flow.pending - (n - u) \in 0..Window /\ flow.uncertain - u \in 0..Window
  BY <1>1, <1>3, WindowAssumption
<1>5. flow' \in FlowType
  BY <1>2, <1>4 DEF FlowType
<1>6. flow'.pending = flow.pending - (n - u) /\ flow'.uncertain = flow.uncertain - u
  BY <1>2 DEF FlowType
<1>7. /\ flow'.detached = flow.detached /\ flow'.shedding = flow.shedding
      /\ flow'.stopped = flow.stopped
  BY <1>2 DEF FlowType
<1> QED
  BY <1>1, <1>3, <1>5, <1>6, <1>7, WindowAssumption

(* What a granted reservation, a stall, a detach, an attach and a stop do   *)
(* to the window.                                                          *)
LEMMA GrantAddsItsBytes ==
    ASSUME flow \in FlowType, NEW n \in Nat, ReserveDeliver(n) \/ ReserveResume(n)
    PROVE  /\ flow' \in FlowType
           /\ Live /\ Live' /\ ~flow'.shedding
           /\ flow'.pending = flow.pending + n
           /\ flow'.stopped = flow.stopped
<1>1. flow.pending \in 0..Window /\ flow.pending + n \in 0..Window
  BY WindowAssumption DEF FlowType, ReserveDeliver, ReserveResume, Overfull
<1>2. CASE ReserveDeliver(n)
  BY <1>1, <1>2 DEF FlowType, ReserveDeliver, Live
<1>3. CASE ReserveResume(n)
  BY <1>1, <1>3 DEF FlowType, ReserveResume, Live
<1> QED
  BY <1>2, <1>3

LEMMA StallSheds ==
    ASSUME flow \in FlowType, NEW n \in Nat, ReserveStall(n)
    PROVE  /\ flow' \in FlowType
           /\ Live /\ Live' /\ flow'.shedding
           /\ flow'.pending = flow.pending /\ flow'.stopped = flow.stopped
BY DEF FlowType, ReserveStall, Live

LEMMA DetachEmpties ==
    ASSUME flow \in FlowType, Detach
    PROVE  /\ flow' \in FlowType
           /\ ~Live' /\ flow'.detached /\ flow'.stopped = flow.stopped
<1>1. 0 \in 0..Window
  BY WindowAssumption
<1>2. flow' \in FlowType
  BY <1>1 DEF FlowType, Detach
<1>3. flow'.detached = TRUE /\ flow'.stopped = flow.stopped
  BY DEF FlowType, Detach
<1> QED
  BY <1>2, <1>3 DEF Live

LEMMA AttachEmpties ==
    ASSUME flow \in FlowType, Attach
    PROVE  /\ flow' \in FlowType
           /\ ~Live /\ Live' /\ flow.detached /\ ~flow'.shedding
           /\ flow'.pending = 0 /\ flow'.stopped = flow.stopped /\ ~flow.stopped
<1>1. 0 \in 0..Window
  BY WindowAssumption
<1>2. flow' \in FlowType
  BY <1>1 DEF FlowType, Attach
<1>3. /\ flow'.detached = FALSE /\ flow'.shedding = FALSE
      /\ flow'.pending = 0 /\ flow'.stopped = flow.stopped
  BY DEF FlowType, Attach
<1>4. flow.detached /\ ~flow.stopped
  BY DEF Attach, Attachable
<1> QED
  BY <1>2, <1>3, <1>4 DEF Live

LEMMA StopStops ==
    ASSUME flow \in FlowType, Stop
    PROVE  /\ flow' \in FlowType
           /\ ~Live' /\ flow'.stopped /\ flow'.detached = flow.detached
BY DEF FlowType, Stop, Live

(* A failed send takes credit out of the window and begins to shed, unless *)
(* nobody is there any more.                                               *)
LEMMA ShedReleases ==
    ASSUME flow \in FlowType, NEW n \in Nat, Shed(n)
    PROVE  /\ flow' \in FlowType
           /\ Live' = Live /\ flow'.stopped = flow.stopped /\ flow'.detached = flow.detached
           /\ Live => flow'.shedding
           /\ ~Live => flow' = flow
<1>1. CASE ~Live
  BY <1>1 DEF Shed, Live
<1>2. CASE Live
  <2>1. PICK r \in Nat : r = Released(n) /\ r <= flow.pending
    BY SmallerIsMin DEF Released, FlowType
  <2>2. flow' = [flow EXCEPT !.pending = @ - r,
                             !.uncertain = Smaller(@ + r, Window),
                             !.shedding = TRUE, !.lagged = TRUE]
    BY <1>2, <2>1 DEF Shed
  <2>3. flow.pending - r \in 0..Window /\ Smaller(flow.uncertain + r, Window) \in 0..Window
    BY <2>1, WindowAssumption DEF FlowType, Smaller
  <2>4. flow' \in FlowType
    BY <2>2, <2>3 DEF FlowType
  <2>5. /\ flow'.shedding = TRUE /\ flow'.stopped = flow.stopped
        /\ flow'.detached = flow.detached
    BY <2>2 DEF FlowType
  <2> QED
    BY <1>2, <2>4, <2>5 DEF Live
<1> QED
  BY <1>1, <1>2

-----------------------------------------------------------------------------

InHand == {"attached", "replaying", "replay sending"}
Routing == {"routing", "sending"}

(* The ring's lock is held by the reader from keeping a chunk until it is   *)
(* sent or dropped, and by a takeover from its attach to its last chunk.    *)
LockInv ==
    /\ lock = "reader" <=> reader \in Routing
    /\ \A v \in Views : lock = v <=> takeover[v] \in InHand

Typed == TypeOK /\ next \in [Views -> Nat] /\ LockInv

-----------------------------------------------------------------------------
(* The ring's oldest chunk is a chunk, and what it keeps fits a window.     *)
LEMMA FirstKeptIsPositive ==
    ASSUME written \in Nat
    PROVE  /\ FirstKept \in Nat \ {0}
           /\ FirstKept <= written + 1
           /\ written - FirstKept + 1 <= Window
BY RingAssumption, WindowAssumption DEF FirstKept

(* No view is mistaken for the reader or for nobody.                        *)
LEMMA ViewsAreNoMarks == FirstView \in Views /\ "free" \notin Views /\ "reader" \notin Views
BY ViewsAssumption

(* A message delivered to one view is the last of its channel and no other's.*)
LEMMA Delivered ==
    ASSUME shown \in [Views -> Seq(Nat)], NEW v \in Views, NEW m \in Nat, Deliver(v, m)
    PROVE  /\ shown' \in [Views -> Seq(Nat)]
           /\ shown'[v] = Append(shown[v], m)
           /\ \A w \in Views \ {v} : shown'[w] = shown[w]
<1>1. Append(shown[v], m) \in Seq(Nat)
  OBVIOUS
<1> QED
  BY <1>1 DEF Deliver

LEMMA PushCounts == ASSUME written \in Nat, Push PROVE written' \in Nat
<1>1. written' = written + 1
  BY DEF Push
<1> QED
  BY <1>1

LEMMA ReplayMovesOn ==
    ASSUME next \in [Views -> Nat], NEW v \in Views, ReplaySend(v)
    PROVE  next' \in [Views -> Nat]
<1>1. next' = [next EXCEPT ![v] = @ + 1]
  BY DEF ReplaySend
<1> QED
  BY <1>1

LEMMA TypedInit == Init => Typed
<1> SUFFICES ASSUME Init PROVE Typed
  OBVIOUS
<1>0. 0 \in 0..Window
  BY WindowAssumption
<1>1. flow \in FlowType
  BY <1>0 DEF Init, FlowInit, FlowType
<1>2. TypeOK
  <2>1. [v \in Views |-> <<>>] \in [Views -> Seq(Nat)]
    OBVIOUS
  <2>2. [v \in Views |-> IF v = FirstView THEN "holding" ELSE "new"]
           \in [Views -> {"new", "refused", "marking", "locking", "attached",
                         "replaying", "replay sending", "holding"}]
    OBVIOUS
  <2>3. takeover \in [Views -> {"new", "refused", "marking", "locking", "attached",
                               "replaying", "replay sending", "holding"}]
    BY <2>2 DEF Init
  <2>4. shown \in [Views -> Seq(Nat)]
    BY <2>1 DEF Init
  <2> QED
    BY <1>1, <2>3, <2>4, ViewsAreNoMarks DEF Init, TypeOK
<1>3. LockInv
  BY ViewsAreNoMarks DEF Init, LockInv, InHand, Routing
<1> QED
  BY <1>2, <1>3 DEF Init, Typed

LEMMA TypedStep == Typed /\ [Next]_vars => Typed'
<1> SUFFICES ASSUME Typed, [Next]_vars PROVE Typed'
  OBVIOUS
<1> USE ViewsAreNoMarks DEF Typed, TypeOK, LockInv, InHand, Routing, readerVars, viewVars, ghosts
<1>1. CASE Push
  <2>0. written' \in Nat
    BY <1>1, PushCounts
  <2>1. TypeOK' /\ next' = next
    <3>1. /\ lock' = "reader" /\ reader' = "routing"
          /\ UNCHANGED <<flow, detachedAt, slot, dead, listed, closing, killed, calls,
                         takeover, next, shown, told, broken, cutOff>>
      BY <1>1 DEF Push
    <3> QED
      BY <2>0, <3>1
  <2>2. LockInv'
    BY <1>1 DEF Push
  <2> QED
    BY <2>1, <2>2
<1>2. CASE RouteGranted
  <2>1. flow' \in FlowType
    BY <1>2, GrantAddsItsBytes DEF RouteGranted
  <2> QED
    BY <1>2, <2>1 DEF RouteGranted
<1>3. CASE RouteHold
  BY <1>3 DEF RouteHold, ReserveHold, Unlock
<1>4. CASE RouteShed
  <2>1. flow' \in FlowType
    BY <1>4, StallSheds DEF RouteShed, ReserveDrop
  <2> QED
    BY <1>4, <2>1 DEF RouteShed, Unlock
<1>5. CASE RouteErr
  BY <1>5 DEF RouteErr, ReserveErr, Unlock
<1>6. CASE SendToView
  <2>1. shown' \in [Views -> Seq(Nat)]
    BY <1>6, Delivered DEF SendToView
  <2> QED
    BY <1>6, <2>1 DEF SendToView, Unlock
<1>7. CASE SendRefused
  <2>1. flow' \in FlowType
    BY <1>7, ShedReleases DEF SendRefused
  <2> QED
    BY <1>7, <2>1 DEF SendRefused, Unlock
<1>8. CASE Eof
  <2>1. flow' \in FlowType
    BY <1>8, StopStops DEF Eof
  <2> QED
    BY <1>8, <2>1 DEF Eof
<1>9. CASE Finish
  BY <1>9 DEF Finish
<1>10. CASE SendEnd
  <2>1. shown' \in [Views -> Seq(Nat)]
    BY <1>10, Delivered DEF SendEnd, EndMarker
  <2> QED
    BY <1>10, <2>1 DEF SendEnd
<1>11. CASE Close
  BY <1>11 DEF Close
<1>12. CASE CloseStop
  <2>1. flow' \in FlowType
    BY <1>12, StopStops DEF CloseStop
  <2> QED
    BY <1>12, <2>1 DEF CloseStop
<1>13. ASSUME NEW d \in Detachers, DetachFlow(d) PROVE Typed'
  <2>1. flow' \in FlowType
    BY <1>13, DetachEmpties DEF DetachFlow
  <2> QED
    BY <1>13, <2>1 DEF DetachFlow
<1>14. ASSUME NEW d \in Detachers, MarkRing(d) PROVE Typed'
  BY <1>14 DEF MarkRing, Mark
<1>15. ASSUME NEW v \in Views, Ask(v) PROVE Typed'
  BY <1>15 DEF Ask, Goes
<1>16. ASSUME NEW v \in Views, ForceDetach(v) PROVE Typed'
  <2>1. flow' \in FlowType
    BY <1>16, DetachEmpties DEF ForceDetach
  <2> QED
    BY <1>16, <2>1 DEF ForceDetach, Goes
<1>17. ASSUME NEW v \in Views, ForceMark(v) PROVE Typed'
  BY <1>17 DEF ForceMark, Mark, Goes
<1>18. ASSUME NEW v \in Views, TakeFlow(v) PROVE Typed'
  <2>1. flow' \in FlowType
    BY <1>18, AttachEmpties DEF TakeFlow
  <2> QED
    BY <1>18, <2>1 DEF TakeFlow, Goes
<1>19. ASSUME NEW v \in Views, TakeRefused(v) PROVE Typed'
  <2>1. lock # v /\ takeover[v] \notin InHand
    BY <1>19 DEF TakeRefused
  <2>2. takeover' = [takeover EXCEPT ![v] = "refused"]
    BY <1>19 DEF TakeRefused, Goes
  <2>3. LockInv'
    <3>1. \A w \in Views : takeover'[w] = IF w = v THEN "refused" ELSE takeover[w]
      BY <2>2
    <3> QED
      BY <1>19, <2>1, <3>1 DEF TakeRefused
  <2>4. TypeOK' /\ next' \in [Views -> Nat]
    BY <1>19, <2>2 DEF TakeRefused
  <2> QED
    BY <2>3, <2>4
<1>20. ASSUME NEW v \in Views, Replace(v) PROVE Typed'
  <2>1. FirstKept \in Nat \ {0}
    BY RingAssumption, FirstKeptIsPositive
  <2> QED
    BY <1>20, <2>1 DEF Replace, Goes
<1>21. ASSUME NEW v \in Views, ReplayReserve(v) PROVE Typed'
  <2>1. flow' \in FlowType
    BY <1>21, GrantAddsItsBytes DEF ReplayReserve
  <2> QED
    BY <1>21, <2>1 DEF ReplayReserve, Goes
<1>22. ASSUME NEW v \in Views, ReplaySend(v) PROVE Typed'
  <2>1. shown' \in [Views -> Seq(Nat)]
    BY <1>22, Delivered DEF ReplaySend
  <2>2. next' \in [Views -> Nat]
    BY <1>22, ReplayMovesOn
  <2>3. LockInv'
    BY <1>22 DEF ReplaySend, Goes
  <2>4. takeover' \in [Views -> {"new", "refused", "marking", "locking", "attached",
                                "replaying", "replay sending", "holding"}]
    BY <1>22 DEF ReplaySend, Goes
  <2>5. UNCHANGED <<flow, detachedAt, lock, slot, readerVars, calls, broken, told, ghosts>>
    BY <1>22 DEF ReplaySend
  <2>6. TypeOK'
    BY <2>1, <2>4, <2>5
  <2> QED
    BY <2>2, <2>3, <2>6
<1>23. ASSUME NEW v \in Views, ReplayRefused(v) PROVE Typed'
  <2>1. flow' \in FlowType
    BY <1>23, ShedReleases DEF ReplayRefused
  <2> QED
    BY <1>23, <2>1 DEF ReplayRefused, Release, Goes
<1>24. ASSUME NEW v \in Views, ReplayDone(v) PROVE Typed'
  BY <1>24 DEF ReplayDone, Release, Goes
<1>25. ASSUME NEW v \in Views, Ack(v) PROVE Typed'
  <2>1. flow' \in FlowType
    BY <1>25, AcknowledgeTakesItsBytes DEF Ack
  <2> QED
    BY <1>25, <2>1 DEF Ack
<1>26. CASE UNCHANGED vars
  BY <1>26 DEF vars
<1> QED
  BY <1>1, <1>2, <1>3, <1>4, <1>5, <1>6, <1>7, <1>8, <1>9, <1>10, <1>11, <1>12,
     <1>13, <1>14, <1>15, <1>16, <1>17, <1>18, <1>19, <1>20, <1>21, <1>22, <1>23,
     <1>24, <1>25, <1>26
     DEF Next, Reader, Takeover

(* The type invariant, and with it who holds the ring.                      *)
THEOREM TypeCorrect == Spec => []TypeOK
<1>1. Typed => TypeOK
  BY DEF Typed
<1> QED
  BY TypedInit, TypedStep, <1>1, PTL DEF Spec

LEMMA TypedAlways == Spec => []Typed
BY TypedInit, TypedStep, PTL DEF Spec

-----------------------------------------------------------------------------
(* What a step does to the flow's flags, whoever takes it.                   *)

\* The steps that change the flow but end nothing.
FlowSteps ==
    \/ RouteGranted \/ RouteShed \/ SendRefused
    \/ \E d \in Detachers : DetachFlow(d)
    \/ \E v \in Views : ForceDetach(v) \/ TakeFlow(v) \/ ReplayReserve(v)
                            \/ ReplayRefused(v) \/ Ack(v)

LEMMA FlowStepsKeepStopped ==
    ASSUME Typed, FlowSteps PROVE flow'.stopped = flow.stopped
<1> USE DEF Typed, TypeOK
<1>1. CASE RouteGranted
  BY <1>1, GrantAddsItsBytes DEF RouteGranted
<1>2. CASE RouteShed
  BY <1>2, StallSheds DEF RouteShed, ReserveDrop
<1>3. CASE SendRefused
  BY <1>3, ShedReleases DEF SendRefused
<1>4. ASSUME NEW d \in Detachers, DetachFlow(d) PROVE flow'.stopped = flow.stopped
  BY <1>4, DetachEmpties DEF DetachFlow
<1>5. ASSUME NEW v \in Views, ForceDetach(v) PROVE flow'.stopped = flow.stopped
  BY <1>5, DetachEmpties DEF ForceDetach
<1>6. ASSUME NEW v \in Views, TakeFlow(v) PROVE flow'.stopped = flow.stopped
  BY <1>6, AttachEmpties DEF TakeFlow
<1>7. ASSUME NEW v \in Views, ReplayReserve(v) PROVE flow'.stopped = flow.stopped
  BY <1>7, GrantAddsItsBytes DEF ReplayReserve
<1>8. ASSUME NEW v \in Views, ReplayRefused(v) PROVE flow'.stopped = flow.stopped
  BY <1>8, ShedReleases DEF ReplayRefused
<1>9. ASSUME NEW v \in Views, Ack(v) PROVE flow'.stopped = flow.stopped
  BY <1>9, AcknowledgeTakesItsBytes DEF Ack
<1> QED
  BY <1>1, <1>2, <1>3, <1>4, <1>5, <1>6, <1>7, <1>8, <1>9 DEF FlowSteps

\* The steps that leave the flow alone.
OtherSteps ==
    \/ Push \/ RouteHold \/ SendToView \/ Finish \/ SendEnd
    \/ \E d \in Detachers : MarkRing(d)
    \/ \E v \in Views : Ask(v) \/ ForceMark(v) \/ TakeRefused(v) \/ Replace(v)
                            \/ ReplaySend(v) \/ ReplayDone(v)

LEMMA StepsByFlow ==
    Next <=> FlowSteps \/ OtherSteps \/ RouteErr \/ Eof \/ Close \/ CloseStop
BY DEF Next, Reader, Takeover, FlowSteps, OtherSteps

-----------------------------------------------------------------------------
(* A reservation fails only when the flow was stopped, and it is stopped    *)
(* only for a session already marked dead.                                  *)
KilledInv ==
    /\ ~killed
    /\ flow.stopped => dead
    /\ closing # "no" => dead

LEMMA KilledStep == Typed /\ KilledInv /\ [Next]_vars => KilledInv'
<1> SUFFICES ASSUME Typed, KilledInv, [Next]_vars PROVE KilledInv'
  OBVIOUS
<1> USE DEF KilledInv, readerVars
<1>1. CASE FlowSteps
  <2>1. UNCHANGED <<killed, dead, closing>>
    BY <1>1 DEF FlowSteps, RouteGranted, RouteShed, SendRefused, DetachFlow, ForceDetach,
                TakeFlow, ReplayReserve, ReplayRefused, Ack
  <2> QED
    BY <1>1, <2>1, FlowStepsKeepStopped
<1>2. CASE OtherSteps
  <2>1. UNCHANGED <<flow, killed, dead, closing>>
    BY <1>2 DEF OtherSteps, Push, RouteHold, ReserveHold, SendToView, Finish, SendEnd,
                MarkRing, Ask, ForceMark, TakeRefused, Replace, ReplaySend, ReplayDone
  <2> QED
    BY <2>1
<1>3. CASE RouteErr
  <2>1. flow.stopped /\ UNCHANGED flow
    BY <1>3, WindowAssumption DEF RouteErr, ReserveErr
  <2> QED
    BY <1>3, <2>1 DEF RouteErr
<1>4. CASE Eof
  BY <1>4 DEF Eof
<1>5. CASE Close
  BY <1>5 DEF Close
<1>6. CASE CloseStop
  BY <1>6 DEF CloseStop
<1>7. CASE UNCHANGED vars
  BY <1>7 DEF vars
<1> QED
  BY <1>1, <1>2, <1>3, <1>4, <1>5, <1>6, <1>7, StepsByFlow

(* A process is never ended over its output, for any window and any views.  *)
THEOREM NeverKilled == Spec => []NeverKilledForOutput
<1>1. Init => KilledInv
  BY DEF Init, FlowInit, KilledInv
<1>2. KilledInv => NeverKilledForOutput
  BY DEF KilledInv, NeverKilledForOutput
<1> QED
  BY TypedAlways, KilledStep, <1>1, <1>2, PTL DEF Spec

-----------------------------------------------------------------------------
(* A takeover that holds the ring and whose view is still there has used    *)
(* only the credit of what it replayed: nobody else reserves meanwhile.     *)
Credit(v) ==
    /\ takeover[v] = "attached" => flow.pending = 0
    /\ takeover[v] = "replaying" =>
          next[v] >= FirstKept /\ flow.pending <= next[v] - FirstKept
    /\ takeover[v] = "replay sending" =>
          /\ next[v] >= FirstKept /\ next[v] <= written
          /\ flow.pending <= next[v] - FirstKept + 1

ReplayInv ==
    \A v \in Views : lock = v /\ Live => ~flow.shedding /\ Credit(v)

LEMMA FirstKeptStays == ASSUME written' = written PROVE FirstKept' = FirstKept
BY DEF FirstKept

LEMMA ReplayStep == Typed /\ ReplayInv /\ [Next]_vars => ReplayInv'
<1> SUFFICES ASSUME Typed, ReplayInv, [Next]_vars,
                    NEW v \in Views, lock' = v, Live'
             PROVE  ~flow'.shedding /\ Credit(v)'
  BY DEF ReplayInv
<1>a. /\ flow \in FlowType /\ written \in Nat /\ next[v] \in Nat
      /\ FirstKept \in Nat \ {0} /\ FirstKept <= written + 1
      /\ flow.pending \in Nat
  <2>1. flow \in FlowType /\ written \in Nat /\ next[v] \in Nat
    BY DEF Typed, TypeOK
  <2>2. flow.pending \in Nat
    BY <2>1, WindowAssumption DEF FlowType
  <2> QED
    BY <2>1, <2>2, FirstKeptIsPositive
<1>b. lock = v => takeover[v] \in InHand /\ reader \notin Routing
  BY ViewsAreNoMarks DEF Typed, LockInv
<1>c. lock = v /\ Live => ~flow.shedding /\ Credit(v)
  BY DEF ReplayInv
<1>d. ASSUME lock' = lock, Live' => Live, UNCHANGED <<takeover, next, written>>,
             flow'.pending <= flow.pending, flow'.shedding = flow.shedding,
             flow'.pending \in Nat
      PROVE  ~flow'.shedding /\ Credit(v)'
  <2>1. FirstKept' = FirstKept
    BY <1>d, FirstKeptStays
  <2> QED
    <3>1. takeover'[v] = takeover[v] /\ next'[v] = next[v] /\ written' = written
      BY <1>d
    <3>2. ~flow.shedding /\ Credit(v) /\ flow'.pending <= flow.pending
      BY <1>c, <1>d
    <3>3. Credit(v)'
      <4>1. ASSUME NEW n \in Int, flow.pending <= n PROVE flow'.pending <= n
        BY <1>a, <1>d, <4>1
      <4>2. next[v] - FirstKept \in Int /\ next[v] - FirstKept + 1 \in Int
        BY <1>a
      <4>3. CASE takeover[v] = "attached"
        <5>1. flow'.pending <= 0 /\ flow'.pending \in Nat
          BY <1>d, <3>2, <4>1, <4>3 DEF Credit
        <5> QED
          BY <3>1, <4>3, <5>1 DEF Credit
      <4>4. CASE takeover[v] = "replaying"
        BY <2>1, <3>1, <3>2, <4>1, <4>2, <4>4 DEF Credit
      <4>5. CASE takeover[v] = "replay sending"
        BY <2>1, <3>1, <3>2, <4>1, <4>2, <4>5 DEF Credit
      <4> QED
        BY <3>1, <4>3, <4>4, <4>5 DEF Credit
    <3> QED
      BY <1>d, <3>2, <3>3
<1>e. ASSUME UNCHANGED <<flow, lock, written>>, takeover'[v] = takeover[v] , next'[v] = next[v]
      PROVE  ~flow'.shedding /\ Credit(v)'
  <2>1. FirstKept' = FirstKept
    BY <1>e, FirstKeptStays
  <2> QED
    BY <1>a, <1>b, <1>c, <1>e, <2>1 DEF Credit, InHand, Live
<1>1. CASE Reader
  <2>1. CASE Finish \/ SendEnd
    BY <2>1, <1>e DEF Finish, SendEnd, viewVars
  <2>2. CASE Eof
    BY <2>2, StopStops DEF Eof, Typed, TypeOK
  <2>3. CASE Push \/ RouteGranted \/ RouteHold \/ RouteShed \/ RouteErr
               \/ SendToView \/ SendRefused
    <3>1. lock' \in {"reader", "free"}
      BY <2>3 DEF Push, RouteGranted, RouteHold, RouteShed, RouteErr, SendToView,
                  SendRefused, Unlock, Typed, LockInv, Routing
    <3> QED
      BY <3>1, ViewsAreNoMarks
  <2> QED
    BY <1>1, <2>1, <2>2, <2>3 DEF Reader
<1>2. CASE Close
  BY <1>2, <1>e DEF Close, viewVars
<1>3. CASE CloseStop
  BY <1>3, StopStops DEF CloseStop, Typed, TypeOK
<1>4. ASSUME NEW d \in Detachers, DetachFlow(d) PROVE ~flow'.shedding /\ Credit(v)'
  BY <1>4, DetachEmpties DEF DetachFlow, Typed, TypeOK
<1>5. ASSUME NEW d \in Detachers, MarkRing(d) PROVE ~flow'.shedding /\ Credit(v)'
  BY <1>5, <1>e DEF MarkRing, readerVars, viewVars
<1>6. ASSUME NEW w \in Views, ForceDetach(w) PROVE ~flow'.shedding /\ Credit(v)'
  BY <1>6, DetachEmpties DEF ForceDetach, Typed, TypeOK
<1>7. ASSUME NEW w \in Views, Ask(w) \/ ForceMark(w) PROVE ~flow'.shedding /\ Credit(v)'
  <2>1. UNCHANGED <<flow, lock, written, next>>
    BY <1>7 DEF Ask, ForceMark, readerVars
  <2>2. w # v
    BY <1>7, <1>b, <2>1 DEF Ask, ForceMark, InHand
  <2>3. takeover'[v] = takeover[v]
    BY <1>7, <2>2 DEF Ask, ForceMark, Goes, Typed, TypeOK
  <2> QED
    BY <1>e, <2>1, <2>3
<1>8. ASSUME NEW w \in Views, TakeFlow(w) PROVE ~flow'.shedding /\ Credit(v)'
  <2>1. w = v /\ takeover'[v] = "attached" /\ flow'.pending = 0 /\ ~flow'.shedding
    BY <1>8, AttachEmpties DEF TakeFlow, Goes, Typed, TypeOK
  <2> QED
    BY <2>1 DEF Credit
<1>9. ASSUME NEW w \in Views, TakeRefused(w) \/ ReplayRefused(w) \/ ReplayDone(w)
      PROVE ~flow'.shedding /\ Credit(v)'
  BY <1>9, ViewsAreNoMarks DEF TakeRefused, ReplayRefused, ReplayDone, Release
<1>10. ASSUME NEW w \in Views, Replace(w) PROVE ~flow'.shedding /\ Credit(v)'
  <2>1. lock = w /\ w = v /\ UNCHANGED <<flow, written>>
    BY <1>10 DEF Replace, Typed, LockInv, InHand, readerVars
  <2>2. takeover'[v] = "replaying" /\ next'[v] = FirstKept
    BY <1>10, <2>1 DEF Replace, Goes, Typed, TypeOK
  <2>3. Live /\ takeover[v] = "attached" /\ FirstKept' = FirstKept
    BY <1>10, <2>1, FirstKeptStays DEF Replace, Live
  <2> QED
    BY <1>a, <1>c, <2>1, <2>2, <2>3 DEF Credit
<1>11. ASSUME NEW w \in Views, ReplayReserve(w) PROVE ~flow'.shedding /\ Credit(v)'
  <2>1. lock = w /\ w = v /\ UNCHANGED <<written, next>>
    BY <1>11 DEF ReplayReserve, Typed, LockInv, InHand, readerVars
  <2>2. Live /\ ~flow'.shedding /\ flow'.pending = flow.pending + 1
    BY <1>11, <1>a, GrantAddsItsBytes DEF ReplayReserve
  <2>3. takeover'[v] = "replay sending" /\ takeover[v] = "replaying" /\ next[v] <= written
    BY <1>11, <2>1 DEF ReplayReserve, Goes, Typed, TypeOK
  <2>4. next[v] >= FirstKept /\ flow.pending <= next[v] - FirstKept
    BY <1>c, <2>1, <2>2, <2>3 DEF Credit
  <2>5. FirstKept' = FirstKept /\ next'[v] = next[v]
    BY <2>1, FirstKeptStays
  <2> QED
    <3>1. flow'.pending <= next'[v] - FirstKept' + 1
      BY <1>a, <2>2, <2>4, <2>5
    <3>2. next'[v] >= FirstKept' /\ next'[v] <= written'
      BY <2>1, <2>3, <2>4, <2>5
    <3> QED
      BY <2>2, <2>3, <3>1, <3>2 DEF Credit
<1>12. ASSUME NEW w \in Views, ReplaySend(w) PROVE ~flow'.shedding /\ Credit(v)'
  <2>1. lock = w /\ w = v /\ UNCHANGED <<written, flow>>
    BY <1>12 DEF ReplaySend, Typed, LockInv, InHand, readerVars
  <2>2. Live /\ ~flow.shedding
    BY <1>c, <2>1 DEF Live
  <2>3. takeover'[v] = "replaying" /\ takeover[v] = "replay sending"
    BY <1>12, <2>1 DEF ReplaySend, Goes, Typed, TypeOK
  <2>4. next'[v] = next[v] + 1
    BY <1>12, <2>1 DEF ReplaySend, Typed
  <2>5. /\ next[v] >= FirstKept /\ next[v] <= written
        /\ flow.pending <= next[v] - FirstKept + 1
    BY <1>c, <2>1, <2>2, <2>3 DEF Credit
  <2>6. FirstKept' = FirstKept
    BY <2>1, FirstKeptStays
  <2> QED
    <3>1. flow'.pending = flow.pending /\ next'[v] >= FirstKept
      BY <1>a, <2>1, <2>4, <2>5
    <3>2. flow'.pending <= next'[v] - FirstKept'
      BY <1>a, <2>4, <2>5, <2>6, <3>1
    <3> QED
      BY <2>1, <2>2, <2>3, <2>6, <3>1, <3>2 DEF Credit
<1>13. ASSUME NEW w \in Views, Ack(w) PROVE ~flow'.shedding /\ Credit(v)'
  <2>1. /\ flow'.pending <= flow.pending /\ flow'.shedding = flow.shedding
        /\ flow'.stopped = flow.stopped /\ flow'.detached = flow.detached
        /\ flow'.pending \in Nat
    BY <1>13, <1>a, AcknowledgeTakesItsBytes DEF Ack, FlowType
  <2> QED
    BY <1>13, <1>d, <2>1 DEF Ack, Live, readerVars, viewVars
<1>14. CASE UNCHANGED vars
  BY <1>14, <1>e DEF vars, readerVars, viewVars
<1> QED
  BY <1>1, <1>2, <1>3, <1>4, <1>5, <1>6, <1>7, <1>8, <1>9, <1>10, <1>11, <1>12, <1>13,
     <1>14 DEF Next, Takeover

(* The replay of a takeover never waits for credit with the ring locked,    *)
(* for any window and any ring that fits it.                                *)
THEOREM ReplaysFit == Spec => []ReplayFits
<1>1. Init => ReplayInv
  BY ViewsAreNoMarks DEF Init, ReplayInv
<1>2. Typed /\ ReplayInv => ReplayFits
  <2> SUFFICES ASSUME Typed, ReplayInv, NEW v \in Views,
                      takeover[v] = "replaying", Live, next[v] <= written
               PROVE  ~flow.shedding /\ ~Overfull(written - next[v] + 1)
    BY DEF ReplayFits
  <2>1. lock = v
    BY DEF Typed, LockInv, InHand
  <2>2. /\ ~flow.shedding
        /\ next[v] >= FirstKept /\ flow.pending <= next[v] - FirstKept
    BY <2>1 DEF ReplayInv, Credit
  <2>3. /\ written \in Nat /\ next[v] \in Nat /\ flow.pending \in Nat
        /\ FirstKept \in Nat /\ written - FirstKept + 1 <= Window /\ Window \in Nat
    <3>1. flow \in FlowType /\ written \in Nat /\ next[v] \in Nat
      BY DEF Typed, TypeOK
    <3>2. flow.pending \in Nat
      BY <3>1, WindowAssumption DEF FlowType
    <3> QED
      BY <3>1, <3>2, FirstKeptIsPositive, WindowAssumption
  <2> QED
    BY <2>2, <2>3 DEF Overfull
<1> QED
  BY TypedAlways, ReplayStep, <1>1, <1>2, PTL DEF Spec

-----------------------------------------------------------------------------
(* What is shown: nothing before a replay, the replay below what it replays *)
(* next, and live output below what the ring has kept.                      *)
Increasing(s) ==
    \A i, j \in DOMAIN s :
        i < j /\ s[i] # EndMarker /\ s[j] # EndMarker => s[i] < s[j]

Below(s, n) == \A i \in DOMAIN s : s[i] < n

Early == {"new", "refused", "marking", "locking", "attached"}
Replaying == {"replaying", "replay sending"}

Channel(v) ==
    /\ Increasing(shown[v])
    /\ Below(shown[v], written + 1)
    /\ reader \in Routing => Below(shown[v], written)
    /\ next[v] >= 1
    /\ takeover[v] \in Early => shown[v] = <<>>
    /\ takeover[v] \in Replaying =>
          slot = v /\ next[v] <= written + 1 /\ Below(shown[v], next[v])
    /\ takeover[v] = "replay sending" => next[v] <= written

ShownInv ==
    /\ takeover[slot] \notin Early
    /\ reader \in Routing => written >= 1
    /\ \A v \in Views : Channel(v)

LEMMA AppendInOrder ==
    ASSUME NEW s \in Seq(Nat), NEW m \in Nat, NEW n \in Nat
    PROVE  /\ Increasing(s) /\ (m = EndMarker \/ Below(s, m)) => Increasing(Append(s, m))
           /\ Below(s, n) /\ m < n => Below(Append(s, m), n)
<1>1. /\ DOMAIN s = 1..Len(s) /\ Len(s) \in Nat
      /\ DOMAIN Append(s, m) = 1..(Len(s) + 1)
      /\ Append(s, m)[Len(s) + 1] = m
      /\ \A i \in 1..Len(s) : Append(s, m)[i] = s[i] /\ s[i] \in Nat
  OBVIOUS
<1>2. ASSUME Increasing(s), m = EndMarker \/ Below(s, m)
      PROVE  Increasing(Append(s, m))
  <2> SUFFICES ASSUME NEW i \in 1..(Len(s) + 1), NEW j \in 1..(Len(s) + 1), i < j,
                      Append(s, m)[i] # EndMarker, Append(s, m)[j] # EndMarker
               PROVE  Append(s, m)[i] < Append(s, m)[j]
    BY <1>1 DEF Increasing
  <2>1. i \in 1..Len(s) /\ Append(s, m)[i] = s[i]
    BY <1>1
  <2>2. CASE j = Len(s) + 1
    BY <1>1, <1>2, <2>1, <2>2 DEF Below
  <2>3. CASE j \in 1..Len(s)
    BY <1>1, <1>2, <2>1, <2>3 DEF Increasing
  <2> QED
    BY <1>1, <2>2, <2>3
<1>3. ASSUME Below(s, n), m < n PROVE Below(Append(s, m), n)
  <2> SUFFICES ASSUME NEW i \in 1..(Len(s) + 1) PROVE Append(s, m)[i] < n
    BY <1>1 DEF Below
  <2>1. CASE i = Len(s) + 1
    BY <1>1, <1>3, <2>1
  <2>2. CASE i \in 1..Len(s)
    BY <1>1, <1>3, <2>2 DEF Below
  <2> QED
    BY <1>1, <2>1, <2>2
<1> QED
  BY <1>2, <1>3

LEMMA BelowMore ==
    ASSUME NEW s \in Seq(Nat), NEW m \in Nat, NEW n \in Nat, m <= n, Below(s, m)
    PROVE  Below(s, n)
<1> SUFFICES ASSUME NEW i \in DOMAIN s PROVE s[i] < n
  BY DEF Below
<1>1. s[i] \in Nat /\ s[i] < m
  BY DEF Below
<1> QED
  BY <1>1

LEMMA ShownInit == Init => ShownInv
<1> SUFFICES ASSUME Init PROVE ShownInv
  OBVIOUS
<1>1. ASSUME NEW v \in Views PROVE Channel(v)
  <2>1. shown[v] = <<>> /\ next[v] = 1 /\ takeover[v] \in {"holding", "new"}
    BY DEF Init
  <2>2. reader = "reading"
    BY DEF Init
  <2>3. Increasing(shown[v]) /\ Below(shown[v], written + 1)
    BY <2>1 DEF Increasing, Below
  <2>4. reader \notin Routing /\ takeover[v] \notin Replaying
    BY <2>1, <2>2 DEF Replaying, Routing
  <2>5. next[v] >= 1
    BY <2>1
  <2> QED
    BY <2>1, <2>3, <2>4, <2>5 DEF Channel, Replaying
<1> QED
  BY <1>1, ViewsAreNoMarks DEF Init, ShownInv, Early, Routing

LEMMA ShownStep == Typed /\ ShownInv /\ [Next]_vars => ShownInv'
<1> SUFFICES ASSUME Typed, ShownInv, [Next]_vars PROVE ShownInv'
  OBVIOUS
<1>a. /\ written \in Nat /\ next \in [Views -> Nat] /\ shown \in [Views -> Seq(Nat)]
      /\ slot \in Views /\ flow \in FlowType
      /\ takeover \in [Views -> Early \cup Replaying \cup {"holding"}]
  BY DEF Typed, TypeOK, Early, Replaying
<1>b. /\ takeover[slot] \notin Early /\ (reader \in Routing => written >= 1)
      /\ \A v \in Views : Channel(v)
  BY DEF ShownInv
<1>c. /\ lock = "reader" <=> reader \in Routing
      /\ \A v \in Views : lock = v <=> takeover[v] \in InHand
      /\ lock = "reader" => \A v \in Views : takeover[v] \notin InHand
  BY ViewsAreNoMarks DEF Typed, LockInv
<1>1. ASSUME UNCHANGED <<takeover, slot, written, shown, next>>,
             reader' \in Routing => reader \in Routing
      PROVE  ShownInv'
  <2>1. ASSUME NEW v \in Views PROVE Channel(v)'
    BY <1>1, <1>b DEF Channel
  <2> QED
    BY <1>1, <1>b, <2>1 DEF ShownInv
<1>2. ASSUME NEW w \in Views, UNCHANGED <<slot, reader, written, shown, next>>,
             takeover[w] \in Early, takeover'[w] \in Early,
             \A v \in Views \ {w} : takeover'[v] = takeover[v]
      PROVE  ShownInv'
  <2>1. takeover'[slot] \notin Early
    BY <1>2, <1>a, <1>b
  <2>2. ASSUME NEW v \in Views PROVE Channel(v)'
    <3>1. CASE v # w
      BY <1>2, <1>b, <3>1 DEF Channel
    <3>2. CASE v = w
      BY <1>2, <1>b, <3>2 DEF Channel, Early, Replaying
    <3> QED
      BY <3>1, <3>2
  <2> QED
    BY <1>2, <1>b, <2>1, <2>2 DEF ShownInv
<1>3. CASE Push
  <2>1. written' = written + 1 /\ reader' = "routing" /\ lock = "free" /\ reader \notin Routing
    BY <1>3 DEF Push, Routing
  <2>2. UNCHANGED <<takeover, slot, shown, next>>
    BY <1>3 DEF Push, viewVars
  <2>3. ASSUME NEW v \in Views PROVE Channel(v)'
    <3>1. Channel(v) /\ shown[v] \in Seq(Nat) /\ takeover[v] \notin InHand
      BY <1>a, <1>b, <1>c, <2>1, ViewsAreNoMarks
    <3>2. Below(shown[v], written') /\ Below(shown[v], written' + 1)
      <4>1. Below(shown[v], written + 1)
        BY <3>1 DEF Channel
      <4>2. written + 1 \in Nat /\ written + 1 + 1 \in Nat /\ written + 1 <= written + 1 + 1
        BY <1>a
      <4> QED
        BY <2>1, <3>1, <4>1, <4>2, BelowMore
    <3> QED
      BY <1>a, <2>1, <2>2, <3>1, <3>2 DEF Channel, InHand, Replaying
  <2> QED
    BY <1>a, <1>b, <2>1, <2>2, <2>3 DEF ShownInv
<1>4. CASE RouteGranted \/ RouteHold \/ RouteShed \/ RouteErr \/ SendRefused
            \/ Eof \/ Finish
  <2>1. UNCHANGED <<takeover, slot, written, shown, next>>
    BY <1>4 DEF RouteGranted, RouteHold, RouteShed, RouteErr, SendRefused, Eof, Finish,
                viewVars
  <2>2. reader' \in Routing => reader \in Routing
    BY <1>4 DEF RouteGranted, RouteHold, RouteShed, RouteErr, SendRefused, Eof, Finish,
                Unlock, Routing
  <2> QED
    BY <1>1, <2>1, <2>2
<1>5. CASE SendToView
  <2>1. /\ reader = "sending" /\ reader' = "reading" /\ Deliver(slot, written)
        /\ UNCHANGED <<takeover, slot, written, next>>
    BY <1>5 DEF SendToView, Unlock, viewVars
  <2>2. reader \in Routing /\ reader' \notin Routing /\ written >= 1
    BY <1>b, <2>1 DEF Routing
  <2>3. takeover[slot] = "holding"
    BY <1>a, <1>b, <1>c, <2>2 DEF InHand, Early, Replaying
  <2>4. ASSUME NEW v \in Views PROVE Channel(v)'
    <3>1. Channel(v) /\ Below(shown[v], written) /\ shown[v] \in Seq(Nat)
      BY <1>a, <1>b, <2>2 DEF Channel
    <3>2. CASE v = slot
      <4>1. shown'[v] = Append(shown[v], written)
        BY <1>a, <2>1, <3>2, Delivered
      <4>2. Increasing(shown'[v]) /\ Below(shown'[v], written + 1)
        <5>1. written + 1 \in Nat /\ written < written + 1
          BY <1>a
        <5>2. Increasing(shown[v]) /\ Below(shown[v], written + 1)
          BY <3>1 DEF Channel
        <5> QED
          BY <1>a, <3>1, <4>1, <5>1, <5>2, AppendInOrder
      <4> QED
        BY <2>1, <2>2, <2>3, <3>1, <3>2, <4>2 DEF Channel, Early, Replaying
    <3>3. CASE v # slot
      <4>1. shown'[v] = shown[v]
        BY <1>a, <2>1, <3>3, Delivered
      <4> QED
        BY <2>1, <2>2, <3>1, <4>1 DEF Channel
    <3> QED
      BY <3>2, <3>3
  <2> QED
    BY <1>b, <2>1, <2>2, <2>4 DEF ShownInv
<1>6. CASE SendEnd
  <2>1. /\ reader' = "ended" /\ Deliver(slot, EndMarker) /\ EndMarker \in Nat
        /\ UNCHANGED <<takeover, slot, written, next>>
    BY <1>6 DEF SendEnd, viewVars, EndMarker
  <2>2. ASSUME NEW v \in Views PROVE Channel(v)'
    <3>1. Channel(v) /\ shown[v] \in Seq(Nat) /\ reader' \notin Routing
      BY <1>a, <1>b, <2>1 DEF Routing
    <3>2. CASE v = slot
      <4>1. shown'[v] = Append(shown[v], EndMarker)
        BY <1>a, <2>1, <3>2, Delivered
      <4>2. Increasing(shown'[v]) /\ Below(shown'[v], written + 1)
        <5>1. written + 1 \in Nat /\ EndMarker < written + 1
          BY <1>a DEF EndMarker
        <5>2. Increasing(shown[v]) /\ Below(shown[v], written + 1)
          BY <3>1 DEF Channel
        <5> QED
          BY <2>1, <3>1, <4>1, <5>1, <5>2, AppendInOrder
      <4>3. takeover[v] \in Replaying => Below(shown'[v], next[v])
        <5>1. next[v] \in Nat /\ EndMarker < next[v]
          <6>1. next[v] \in Nat
            BY <1>a
          <6>2. next[v] >= 1
            BY <3>1 DEF Channel
          <6> QED
            BY <6>1, <6>2 DEF EndMarker
        <5>2. takeover[v] \in Replaying => Below(shown[v], next[v])
          BY <3>1 DEF Channel
        <5> QED
          BY <2>1, <3>1, <4>1, <5>1, <5>2, AppendInOrder
      <4> QED
        BY <1>b, <2>1, <3>1, <3>2, <4>2, <4>3 DEF Channel
    <3>3. CASE v # slot
      <4>1. shown'[v] = shown[v]
        BY <1>a, <2>1, <3>3, Delivered
      <4> QED
        BY <2>1, <3>1, <4>1 DEF Channel
    <3> QED
      BY <3>2, <3>3
  <2> QED
    BY <1>b, <2>1, <2>2 DEF ShownInv, Routing
<1>7. CASE Close \/ CloseStop \/ UNCHANGED vars
  BY <1>7, <1>1 DEF Close, CloseStop, vars, readerVars, viewVars
<1>8. ASSUME NEW d \in Detachers, DetachFlow(d) \/ MarkRing(d) PROVE ShownInv'
  BY <1>8, <1>1 DEF DetachFlow, MarkRing, readerVars, viewVars
<1>9. ASSUME NEW w \in Views, Ack(w) PROVE ShownInv'
  BY <1>9, <1>1 DEF Ack, readerVars, viewVars
<1>10. ASSUME NEW w \in Views,
              Ask(w) \/ ForceDetach(w) \/ ForceMark(w) \/ TakeFlow(w) \/ TakeRefused(w)
       PROVE  ShownInv'
  <2>1. UNCHANGED <<slot, reader, written, shown, next>> /\ takeover[w] \in Early
    BY <1>10 DEF Ask, ForceDetach, ForceMark, TakeFlow, TakeRefused, readerVars, Early
  <2>2. PICK to \in Early : Goes(w, to)
    BY <1>10 DEF Ask, ForceDetach, ForceMark, TakeFlow, TakeRefused, Early
  <2>3. takeover'[w] \in Early /\ \A v \in Views \ {w} : takeover'[v] = takeover[v]
    BY <1>a, <2>2 DEF Goes
  <2> QED
    BY <1>2, <2>1, <2>3
<1>11. ASSUME NEW w \in Views, Replace(w) PROVE ShownInv'
  <2>1. /\ takeover[w] = "attached" /\ slot' = w
        /\ UNCHANGED <<reader, written, shown>>
    BY <1>11 DEF Replace, readerVars
  <2>2. /\ next' = [next EXCEPT ![w] = FirstKept]
        /\ takeover' = [takeover EXCEPT ![w] = "replaying"]
    BY <1>11 DEF Replace, Goes
  <2>3. FirstKept \in Nat /\ FirstKept >= 1 /\ FirstKept <= written + 1
    BY <1>a, FirstKeptIsPositive
  <2>4. ASSUME NEW v \in Views PROVE Channel(v)'
    <3>1. CASE v = w
      <4>1. shown[v] = <<>> /\ Channel(v)
        BY <1>b, <2>1, <3>1 DEF Channel, Early
      <4>2. Below(shown'[v], next'[v])
        BY <2>1, <4>1 DEF Below
      <4>3. takeover'[v] = "replaying" /\ next'[v] = FirstKept
        BY <1>a, <2>2, <3>1
      <4> QED
        BY <2>1, <2>3, <3>1, <4>1, <4>2, <4>3 DEF Channel, Early
    <3>2. CASE v # w
      <4>1. takeover'[v] = takeover[v] /\ next'[v] = next[v]
        BY <1>a, <2>2, <3>2
      <4>2. takeover[v] \notin Replaying
        BY <1>c, <2>1, <3>2 DEF InHand, Replaying
      <4> QED
        BY <1>b, <2>1, <4>1, <4>2 DEF Channel, Replaying
    <3> QED
      BY <3>1, <3>2
  <2>5. takeover'[slot'] \notin Early
    BY <1>a, <2>1, <2>2 DEF Early
  <2> QED
    BY <1>b, <2>1, <2>4, <2>5 DEF ShownInv
<1>12. ASSUME NEW w \in Views, ReplayReserve(w) PROVE ShownInv'
  <2>1. /\ takeover[w] = "replaying" /\ next[w] <= written
        /\ takeover' = [takeover EXCEPT ![w] = "replay sending"]
        /\ UNCHANGED <<slot, reader, written, shown, next>>
    BY <1>12 DEF ReplayReserve, Goes, readerVars
  <2>2. ASSUME NEW v \in Views PROVE Channel(v)'
    <3>1. CASE v = w
      BY <1>a, <1>b, <2>1, <3>1 DEF Channel, Early, Replaying
    <3>2. CASE v # w
      <4>1. takeover'[v] = takeover[v]
        BY <1>a, <2>1, <3>2
      <4> QED
        BY <1>b, <2>1, <4>1 DEF Channel
    <3> QED
      BY <3>1, <3>2
  <2> QED
    BY <1>a, <1>b, <2>1, <2>2 DEF ShownInv, Early
<1>13. ASSUME NEW w \in Views, ReplaySend(w) PROVE ShownInv'
  <2>1. /\ takeover[w] = "replay sending" /\ Deliver(w, next[w])
        /\ next' = [next EXCEPT ![w] = @ + 1]
        /\ takeover' = [takeover EXCEPT ![w] = "replaying"]
        /\ UNCHANGED <<slot, reader, written>>
    BY <1>13 DEF ReplaySend, Goes, readerVars
  <2>2. lock = w /\ reader \notin Routing
    BY <1>c, <2>1, ViewsAreNoMarks DEF InHand
  <2>3. ASSUME NEW v \in Views PROVE Channel(v)'
    <3>1. CASE v = w
      <4>1. Channel(v) /\ next[v] \in Nat /\ shown[v] \in Seq(Nat)
        BY <1>a, <1>b
      <4>2. next[v] <= written /\ slot = v /\ Below(shown[v], next[v]) /\ next[v] >= 1
        BY <2>1, <3>1, <4>1 DEF Channel, Replaying
      <4>3. shown'[v] = Append(shown[v], next[v])
        BY <1>a, <2>1, <3>1, Delivered
      <4>4. next'[v] = next[v] + 1 /\ takeover'[v] = "replaying"
        BY <1>a, <2>1, <3>1
      <4>5. Increasing(shown'[v])
        BY <4>1, <4>2, <4>3, AppendInOrder DEF Channel
      <4>6. Below(shown[v], next[v] + 1)
        BY <4>1, <4>2, BelowMore
      <4>7. Below(shown'[v], next[v] + 1)
        <5>1. next[v] + 1 \in Nat /\ next[v] < next[v] + 1
          BY <4>1
        <5> QED
          BY <4>1, <4>3, <4>6, <5>1, AppendInOrder
      <4>8. Below(shown'[v], written + 1)
        <5>1. written + 1 \in Nat /\ next[v] < written + 1
          BY <1>a, <4>1, <4>2
        <5>2. Below(shown[v], written + 1)
          BY <4>1 DEF Channel
        <5> QED
          BY <4>1, <4>3, <5>1, <5>2, AppendInOrder
      <4>9. next'[v] >= 1 /\ next'[v] <= written + 1
        BY <1>a, <4>1, <4>2, <4>4
      <4> QED
        BY <2>1, <2>2, <4>2, <4>4, <4>5, <4>7, <4>8, <4>9 DEF Channel, Early
    <3>2. CASE v # w
      <4>1. takeover'[v] = takeover[v] /\ next'[v] = next[v] /\ shown'[v] = shown[v]
        BY <1>a, <2>1, <3>2, Delivered
      <4> QED
        BY <1>b, <2>1, <4>1 DEF Channel
    <3> QED
      BY <3>1, <3>2
  <2> QED
    BY <1>a, <1>b, <2>1, <2>3 DEF ShownInv, Early
<1>14. ASSUME NEW w \in Views, ReplayRefused(w) \/ ReplayDone(w) PROVE ShownInv'
  <2>1. /\ takeover' = [takeover EXCEPT ![w] = "holding"]
        /\ UNCHANGED <<slot, reader, written, shown, next>>
    BY <1>14 DEF ReplayRefused, ReplayDone, Release, Goes, readerVars
  <2>2. ASSUME NEW v \in Views PROVE Channel(v)'
    <3>1. CASE v = w
      BY <1>a, <1>b, <2>1, <3>1 DEF Channel, Early, Replaying
    <3>2. CASE v # w
      <4>1. takeover'[v] = takeover[v]
        BY <1>a, <2>1, <3>2
      <4> QED
        BY <1>b, <2>1, <4>1 DEF Channel
    <3> QED
      BY <3>1, <3>2
  <2> QED
    BY <1>a, <1>b, <2>1, <2>2 DEF ShownInv, Early
<1> QED
  BY <1>3, <1>4, <1>5, <1>6, <1>7, <1>8, <1>9, <1>10, <1>11, <1>12, <1>13, <1>14
     DEF Next, Reader, Takeover

(* Any number of views, of takeovers and of refused sends: each view is     *)
(* shown chunks in the order they were printed, and none twice.             *)
THEOREM ShownOrder == Spec => []ShownInOrder
<1>1. ShownInv => ShownInOrder
  BY DEF ShownInv, Channel, Increasing, ShownInOrder
<1> QED
  BY TypedAlways, ShownInit, ShownStep, <1>1, PTL DEF Spec

-----------------------------------------------------------------------------
(* The end marker is sent when the flow has been stopped, so no takeover    *)
(* reserves after it: only one that had its credit sends once more.         *)
Ending == {"reaping", "finished", "ended"}

Unmarked(s) == \A i \in DOMAIN s : s[i] # EndMarker
MarkedLast(s) == \A i \in DOMAIN s : s[i] = EndMarker => i = Len(s)

EndInv ==
    /\ reader \in Ending => flow.stopped
    /\ reader # "ended" => \A v \in Views : Unmarked(shown[v])
    /\ reader = "ended" =>
          \A v \in Views \ cutOff :
              takeover[v] # "replay sending" /\ MarkedLast(shown[v])

LEMMA AppendToUnmarked ==
    ASSUME NEW s \in Seq(Nat), Unmarked(s), NEW m \in Nat
    PROVE  /\ m # EndMarker => Unmarked(Append(s, m))
           /\ MarkedLast(Append(s, m))
           /\ MarkedLast(s)
<1>1. /\ DOMAIN s = 1..Len(s) /\ Len(s) \in Nat
      /\ DOMAIN Append(s, m) = 1..(Len(s) + 1) /\ Len(Append(s, m)) = Len(s) + 1
      /\ Append(s, m)[Len(s) + 1] = m
      /\ \A i \in 1..Len(s) : Append(s, m)[i] = s[i]
  OBVIOUS
<1> QED
  BY <1>1 DEF Unmarked, MarkedLast

LEMMA EndStep == Typed /\ ShownInv /\ EndInv /\ [Next]_vars => EndInv'
<1> SUFFICES ASSUME Typed, ShownInv, EndInv, [Next]_vars PROVE EndInv'
  OBVIOUS
<1>a. /\ next \in [Views -> Nat] /\ shown \in [Views -> Seq(Nat)] /\ written \in Nat
      /\ slot \in Views /\ flow \in FlowType
      /\ takeover \in [Views -> Early \cup Replaying \cup {"holding"}]
  BY DEF Typed, TypeOK, Early, Replaying
<1>b. reader = "ended" => flow.stopped /\ ~Live
  BY DEF EndInv, Ending, Live
<1>1. ASSUME UNCHANGED <<reader, shown, cutOff>>, flow.stopped => flow'.stopped,
             \A v \in Views : takeover'[v] = "replay sending"
                                  => takeover[v] = "replay sending" \/ reader # "ended"
      PROVE  EndInv'
  BY <1>1 DEF EndInv
<1>2. CASE Push \/ RouteGranted \/ RouteHold \/ RouteShed \/ RouteErr \/ SendRefused
  <2>1. reader \notin Ending /\ reader' \notin Ending /\ UNCHANGED shown
    BY <1>2 DEF Push, RouteGranted, RouteHold, RouteShed, RouteErr, SendRefused, Unlock,
                Ending
  <2> QED
    BY <2>1 DEF EndInv, Ending
<1>3. CASE SendToView
  <2>1. /\ reader = "sending" /\ reader' = "reading" /\ Deliver(slot, written)
    BY <1>3 DEF SendToView, Unlock
  <2>2. written # EndMarker
    BY <1>a, <2>1 DEF ShownInv, Routing, EndMarker
  <2>3. ASSUME NEW v \in Views PROVE Unmarked(shown'[v])
    <3>1. Unmarked(shown[v]) /\ shown[v] \in Seq(Nat)
      BY <1>a, <2>1 DEF EndInv
    <3>2. shown'[v] = shown[v] \/ shown'[v] = Append(shown[v], written)
      BY <1>a, <2>1, Delivered
    <3> QED
      BY <1>a, <2>2, <3>1, <3>2, AppendToUnmarked
  <2> QED
    BY <2>1, <2>3 DEF EndInv, Ending
<1>4. CASE Eof
  <2>1. flow'.stopped /\ reader = "reading" /\ reader' = "reaping" /\ UNCHANGED shown
    BY <1>4, <1>a, StopStops DEF Eof
  <2> QED
    BY <2>1 DEF EndInv
<1>5. CASE Finish
  BY <1>5 DEF Finish, EndInv, Ending
<1>6. CASE SendEnd
  <2>1. /\ reader = "finished" /\ reader' = "ended" /\ Deliver(slot, EndMarker)
        /\ cutOff' = {v \in Views : takeover[v] = "replay sending"}
        /\ UNCHANGED <<flow, takeover>> /\ EndMarker \in Nat
    BY <1>6 DEF SendEnd, viewVars, EndMarker
  <2>2. ASSUME NEW v \in Views PROVE MarkedLast(shown'[v])
    <3>1. Unmarked(shown[v]) /\ shown[v] \in Seq(Nat)
      BY <1>a, <2>1 DEF EndInv
    <3>2. shown'[v] = shown[v] \/ shown'[v] = Append(shown[v], EndMarker)
      BY <1>a, <2>1, Delivered
    <3> QED
      BY <2>1, <3>1, <3>2, AppendToUnmarked
  <2> QED
    BY <2>1, <2>2 DEF EndInv, Ending
<1>7. CASE Close \/ UNCHANGED vars
  BY <1>7, <1>1 DEF Close, vars, readerVars, viewVars, ghosts
<1>8. CASE CloseStop
  BY <1>8, <1>a, <1>1, StopStops DEF CloseStop, viewVars, ghosts
<1>9. ASSUME NEW d \in Detachers, DetachFlow(d) \/ MarkRing(d) PROVE EndInv'
  <2>1. flow'.stopped = flow.stopped
    BY <1>9, <1>a, DetachEmpties DEF DetachFlow, MarkRing
  <2> QED
    BY <1>9, <1>1, <2>1 DEF DetachFlow, MarkRing, readerVars, viewVars, ghosts
<1>10. ASSUME NEW w \in Views, Ack(w) PROVE EndInv'
  <2>1. flow'.stopped = flow.stopped
    BY <1>10, <1>a, AcknowledgeTakesItsBytes DEF Ack
  <2> QED
    BY <1>10, <1>1, <2>1 DEF Ack, readerVars, viewVars, ghosts
<1>11. ASSUME NEW w \in Views,
              \/ Ask(w) \/ ForceDetach(w) \/ ForceMark(w) \/ TakeFlow(w)
              \/ TakeRefused(w) \/ Replace(w) \/ ReplayRefused(w) \/ ReplayDone(w)
       PROVE  EndInv'
  <2>1. flow'.stopped = flow.stopped
    BY <1>11, <1>a, DetachEmpties, AttachEmpties, ShedReleases
       DEF Ask, ForceDetach, ForceMark, TakeFlow, TakeRefused, Replace, ReplayRefused,
           ReplayDone
  <2>2. UNCHANGED <<reader, shown, cutOff>>
    BY <1>11 DEF Ask, ForceDetach, ForceMark, TakeFlow, TakeRefused, Replace,
                 ReplayRefused, ReplayDone, readerVars, ghosts
  <2>3. PICK to \in Early \cup {"replaying", "holding"} : Goes(w, to)
    BY <1>11 DEF Ask, ForceDetach, ForceMark, TakeFlow, TakeRefused, Replace,
                 ReplayRefused, ReplayDone, Release, Early
  <2>4. \A v \in Views : takeover'[v] = "replay sending" => takeover[v] = "replay sending"
    BY <1>a, <2>3 DEF Goes, Early
  <2> QED
    BY <1>1, <2>1, <2>2, <2>4
<1>12. ASSUME NEW w \in Views, ReplayReserve(w) PROVE EndInv'
  <2>1. Live /\ flow'.stopped = flow.stopped /\ UNCHANGED <<reader, shown, cutOff>>
    BY <1>12, <1>a, GrantAddsItsBytes DEF ReplayReserve, readerVars, ghosts
  <2> QED
    BY <1>1, <1>b, <2>1
<1>13. ASSUME NEW w \in Views, ReplaySend(w) PROVE EndInv'
  <2>1. /\ takeover[w] = "replay sending" /\ Deliver(w, next[w])
        /\ takeover' = [takeover EXCEPT ![w] = "replaying"]
        /\ UNCHANGED <<flow, reader, cutOff>>
    BY <1>13 DEF ReplaySend, Goes, readerVars, ghosts
  <2>2. next[w] \in Nat /\ next[w] # EndMarker
    <3>1. next[w] >= 1 /\ next[w] \in Nat
      BY <1>a DEF ShownInv, Channel
    <3> QED
      BY <3>1 DEF EndMarker
  <2>3. /\ shown'[w] = Append(shown[w], next[w])
        /\ \A v \in Views \ {w} : shown'[v] = shown[v]
    BY <1>a, <2>1, <2>2, Delivered
  <2>4. ASSUME reader # "ended", NEW v \in Views PROVE Unmarked(shown'[v])
    <3>1. Unmarked(shown[v]) /\ shown[v] \in Seq(Nat)
      BY <1>a, <2>4 DEF EndInv
    <3>2. shown'[v] = shown[v] \/ shown'[v] = Append(shown[v], next[w])
      BY <2>3
    <3> QED
      BY <2>2, <3>1, <3>2, AppendToUnmarked
  <2>5. ASSUME reader = "ended", NEW v \in Views \ cutOff
        PROVE  takeover'[v] # "replay sending" /\ MarkedLast(shown'[v])
    <3>1. takeover[v] # "replay sending" /\ MarkedLast(shown[v])
      BY <2>5 DEF EndInv
    <3>2. v # w /\ v \in Views
      BY <2>1, <3>1
    <3> QED
      BY <1>a, <2>1, <2>3, <3>1, <3>2
  <2> QED
    BY <2>1, <2>4, <2>5 DEF EndInv
<1> QED
  BY <1>2, <1>3, <1>4, <1>5, <1>6, <1>7, <1>8, <1>9, <1>10, <1>11, <1>12, <1>13
     DEF Next, Reader, Takeover

LEMMA ShownAlways == Spec => []ShownInv
BY TypedAlways, ShownInit, ShownStep, PTL DEF Spec

(* The end marker is the last message of every view that was not in the     *)
(* middle of a replay, for any number of views.                             *)
THEOREM EndMarkerIsLast == Spec => []EndIsLast
<1>1. Init => EndInv
  <2> SUFFICES ASSUME Init PROVE EndInv
    OBVIOUS
  <2>1. reader = "reading" /\ \A v \in Views : shown[v] = <<>>
    BY DEF Init
  <2> QED
    BY <2>1 DEF EndInv, Ending, Unmarked
<1>2. Typed /\ EndInv => EndIsLast
  BY DEF EndInv, EndIsLast, MarkedLast, Unmarked
<1> QED
  BY TypedAlways, ShownAlways, EndStep, <1>1, <1>2, PTL DEF Spec

-----------------------------------------------------------------------------
(* A view that was not told of a gap has been shown, last, what came just   *)
(* before what it is shown next: while it is replayed to, while the reader   *)
(* is about to send to it, and while it is there to be sent to.              *)
Gapless(s) ==
    \A i \in DOMAIN s : i > 1 /\ s[i - 1] # EndMarker => ~(s[i] > s[i - 1] + 1)

EndsAt(s, n) == s # <<>> /\ s[Len(s)] # EndMarker => s[Len(s)] = n

\* Chunks the reader has sent, dropped or held.
Settled == IF reader \in Routing THEN written - 1 ELSE written

Served(v) == Live /\ slot = v /\ \A w \in Views : takeover[w] # "attached"

Unbroken(v) ==
    /\ Gapless(shown[v])
    /\ takeover[v] \in Replaying => EndsAt(shown[v], next[v] - 1)
    /\ takeover[v] = "holding" /\ Served(v) => EndsAt(shown[v], Settled)
    /\ reader = "sending" /\ slot = v => EndsAt(shown[v], written - 1)

GapInv ==
    /\ Live /\ flow.shedding => slot \in told \cup broken
    /\ \A v \in Views \ (told \cup broken) : Unbroken(v)

LEMMA AppendWithoutGap ==
    ASSUME NEW s \in Seq(Nat), Gapless(s), NEW m \in Nat,
           m = EndMarker \/ EndsAt(s, m - 1)
    PROVE  /\ Gapless(Append(s, m))
           /\ EndsAt(Append(s, m), m)
           /\ \A n : m = EndMarker => EndsAt(Append(s, m), n)
<1>1. /\ DOMAIN s = 1..Len(s) /\ Len(s) \in Nat
      /\ DOMAIN Append(s, m) = 1..(Len(s) + 1) /\ Len(Append(s, m)) = Len(s) + 1
      /\ Append(s, m)[Len(s) + 1] = m
      /\ \A i \in 1..Len(s) : Append(s, m)[i] = s[i] /\ s[i] \in Nat
  OBVIOUS
<1>2. Gapless(Append(s, m))
  <2> SUFFICES ASSUME NEW i \in 1..(Len(s) + 1), i > 1, Append(s, m)[i - 1] # EndMarker
               PROVE  ~(Append(s, m)[i] > Append(s, m)[i - 1] + 1)
    BY <1>1 DEF Gapless
  <2>1. i - 1 \in 1..Len(s) /\ Append(s, m)[i - 1] = s[i - 1]
    BY <1>1
  <2>2. CASE i \in 1..Len(s)
    BY <1>1, <2>1, <2>2 DEF Gapless
  <2>3. CASE i = Len(s) + 1
    <3>1. s[Len(s)] # EndMarker /\ s # <<>> /\ s[Len(s)] \in Nat
      BY <1>1, <2>1, <2>3
    <3>2. m = EndMarker \/ s[Len(s)] = m - 1
      BY <3>1 DEF EndsAt
    <3> QED
      BY <1>1, <2>1, <2>3, <3>1, <3>2 DEF EndMarker
  <2> QED
    BY <1>1, <2>2, <2>3
<1>3. EndsAt(Append(s, m), m) /\ \A n : m = EndMarker => EndsAt(Append(s, m), n)
  BY <1>1 DEF EndsAt
<1> QED
  BY <1>2, <1>3

LEMMA NothingShown == Gapless(<<>>) /\ \A n : EndsAt(<<>>, n)
BY DEF Gapless, EndsAt

LEMMA GapInit == Init => GapInv
<1> SUFFICES ASSUME Init PROVE GapInv
  OBVIOUS
<1>1. \A v \in Views : shown[v] = <<>>
  BY DEF Init
<1>2. ~flow.shedding
  BY DEF Init, FlowInit
<1> QED
  BY <1>1, <1>2, NothingShown DEF GapInv, Unbroken

LEMMA GapStep ==
    Typed /\ ShownInv /\ ReplayInv /\ GapInv /\ [Next]_vars => GapInv'
<1> SUFFICES ASSUME Typed, ShownInv, ReplayInv, GapInv, [Next]_vars PROVE GapInv'
  OBVIOUS
<1>a. /\ next \in [Views -> Nat] /\ shown \in [Views -> Seq(Nat)] /\ written \in Nat
      /\ slot \in Views /\ flow \in FlowType
      /\ takeover \in [Views -> Early \cup Replaying \cup {"holding"}]
  BY DEF Typed, TypeOK, Early, Replaying
<1>b. \A v \in Views \ (told \cup broken) : Unbroken(v)
  BY DEF GapInv
<1>c. /\ lock = "reader" <=> reader \in Routing
      /\ \A v \in Views : lock = v <=> takeover[v] \in InHand
      /\ lock = "reader" => \A v \in Views : takeover[v] \notin InHand
      /\ \A v \in Views : takeover[v] \in InHand => reader \notin Routing
  BY ViewsAreNoMarks DEF Typed, LockInv
<1>d. Live /\ flow.shedding => slot \in told \cup broken
  BY DEF GapInv
<1>1. ASSUME UNCHANGED <<shown, slot, next, told, broken>>, Live' => Live,
             Live' /\ flow'.shedding => flow.shedding,
             \A v \in Views : takeover'[v] \in Replaying => takeover[v] \in Replaying,
             \A v \in Views : takeover'[v] = "holding" => takeover[v] = "holding",
             \A v \in Views : takeover[v] = "attached" => takeover'[v] = "attached",
             reader' = "sending" => reader = "sending" /\ written' = written,
             Live' => Settled' = Settled
      PROVE  GapInv'
  <2>1. ASSUME NEW v \in Views \ (told \cup broken) PROVE Unbroken(v)'
    BY <1>1, <1>b DEF Unbroken, Served
  <2> QED
    BY <1>1, <1>d, <2>1 DEF GapInv
<1>2. CASE Push
  <2>1. /\ reader = "reading" /\ reader' = "routing" /\ written' = written + 1
        /\ UNCHANGED <<flow, shown, slot, next, told, broken, takeover>>
    BY <1>2 DEF Push, viewVars
  <2>2. Settled' = Settled
    BY <1>a, <2>1 DEF Settled, Routing
  <2> QED
    BY <1>1, <2>1, <2>2 DEF Live
<1>3. CASE RouteGranted
  <2>1. /\ reader = "routing" /\ reader' = "sending"
        /\ UNCHANGED <<written, shown, slot, next, told, broken, takeover>>
    BY <1>3 DEF RouteGranted, viewVars
  <2>2. Live /\ ~flow'.shedding
    BY <1>3, <1>a, GrantAddsItsBytes DEF RouteGranted
  <2>3. takeover[slot] = "holding" /\ \A w \in Views : takeover[w] # "attached"
    BY <1>a, <1>c, <2>1 DEF ShownInv, InHand, Early, Replaying, Routing
  <2>4. Settled = written - 1 /\ Settled' = written - 1
    BY <2>1 DEF Settled, Routing
  <2>5. ASSUME NEW v \in Views \ (told \cup broken) PROVE Unbroken(v)'
    <3>1. Unbroken(v)
      BY <1>b
    <3>2. slot = v => EndsAt(shown[v], written - 1)
      BY <2>2, <2>3, <2>4, <3>1 DEF Unbroken, Served
    <3> QED
      BY <2>1, <2>4, <3>1, <3>2 DEF Unbroken, Served
  <2> QED
    BY <2>1, <2>2, <2>5 DEF GapInv
<1>4. CASE RouteHold \/ RouteErr
  <2>1. /\ ~Live /\ UNCHANGED <<flow, shown, slot, next, told, broken, takeover>>
    BY <1>4, WindowAssumption
       DEF RouteHold, RouteErr, ReserveHold, ReserveErr, Live, viewVars
  <2>2. reader' = "reading"
    BY <1>4 DEF RouteHold, RouteErr, Unlock
  <2> QED
    BY <1>1, <2>1, <2>2 DEF Live
<1>5. CASE RouteShed
  <2>1. /\ reader' = "reading" /\ UNCHANGED <<shown, slot, next, broken, takeover>>
        /\ told \subseteq told'
    BY <1>5 DEF RouteShed, Unlock, viewVars
  <2>2. slot \in told' \cup broken
    BY <1>5, <1>d DEF RouteShed, ReserveDrop
  <2>3. ASSUME NEW v \in Views \ (told' \cup broken) PROVE Unbroken(v)'
    <3>1. Unbroken(v) /\ v # slot
      BY <1>b, <2>1, <2>2
    <3> QED
      BY <2>1, <3>1 DEF Unbroken, Served
  <2> QED
    BY <2>1, <2>2, <2>3 DEF GapInv
<1>6. CASE SendToView
  <2>1. /\ reader = "sending" /\ reader' = "reading" /\ Deliver(slot, written)
        /\ UNCHANGED <<flow, written, slot, next, told, broken, takeover>>
    BY <1>6 DEF SendToView, Unlock, viewVars
  <2>2. takeover[slot] = "holding"
    BY <1>a, <1>c, <2>1 DEF ShownInv, InHand, Early, Replaying, Routing
  <2>3. Settled' = written
    BY <2>1 DEF Settled, Routing
  <2>4. ASSUME NEW v \in Views \ (told \cup broken) PROVE Unbroken(v)'
    <3>1. Unbroken(v) /\ shown[v] \in Seq(Nat)
      BY <1>a, <1>b
    <3>2. CASE v = slot
      <4>1. Gapless(shown[v]) /\ EndsAt(shown[v], written - 1)
        BY <2>1, <3>1, <3>2 DEF Unbroken
      <4>2. shown'[v] = Append(shown[v], written)
        BY <1>a, <2>1, <3>2, Delivered
      <4>3. Gapless(shown'[v]) /\ EndsAt(shown'[v], written)
        BY <1>a, <3>1, <4>1, <4>2, AppendWithoutGap
      <4> QED
        BY <2>1, <2>2, <2>3, <3>2, <4>3 DEF Unbroken, Replaying
    <3>3. CASE v # slot
      <4>1. shown'[v] = shown[v]
        BY <1>a, <2>1, <3>3, Delivered
      <4> QED
        BY <2>1, <3>1, <3>3, <4>1 DEF Unbroken, Served
    <3> QED
      BY <3>2, <3>3
  <2> QED
    BY <1>d, <2>1, <2>4 DEF GapInv, Live
<1>7. CASE SendRefused
  <2>1. /\ reader = "sending" /\ reader' = "reading"
        /\ told' = (IF ShedBegins THEN told \cup {slot} ELSE told)
        /\ UNCHANGED <<shown, slot, next, broken, takeover>>
    BY <1>7 DEF SendRefused, Unlock, viewVars
  <2>2. Live' = Live
    BY <1>7, <1>a, ShedReleases DEF SendRefused
  <2>3. Live => slot \in told' \cup broken
    BY <1>d, <2>1 DEF ShedBegins
  <2>4. ASSUME NEW v \in Views \ (told' \cup broken) PROVE Unbroken(v)'
    <3>1. Unbroken(v) /\ (Live => v # slot)
      BY <1>b, <2>1, <2>3
    <3> QED
      BY <2>1, <2>2, <3>1 DEF Unbroken, Served
  <2> QED
    BY <2>1, <2>2, <2>3, <2>4 DEF GapInv
<1>8. CASE Eof
  <2>1. ~Live' /\ reader' = "reaping"
        /\ UNCHANGED <<shown, slot, next, told, broken, takeover>>
    BY <1>8, <1>a, StopStops DEF Eof, viewVars
  <2> QED
    BY <1>1, <2>1
<1>9. CASE Finish
  <2>1. /\ reader = "reaping" /\ reader' = "finished"
        /\ UNCHANGED <<flow, written, shown, slot, next, told, broken, takeover>>
    BY <1>9 DEF Finish, viewVars
  <2> QED
    BY <1>1, <2>1 DEF Live, Settled, Routing
<1>10. CASE SendEnd
  <2>1. /\ reader = "finished" /\ reader' = "ended" /\ Deliver(slot, EndMarker)
        /\ UNCHANGED <<flow, written, slot, next, told, broken, takeover>>
        /\ EndMarker \in Nat
    BY <1>10 DEF SendEnd, viewVars, EndMarker
  <2>2. ASSUME NEW v \in Views \ (told \cup broken) PROVE Unbroken(v)'
    <3>1. Unbroken(v) /\ shown[v] \in Seq(Nat)
      BY <1>a, <1>b
    <3>2. CASE v = slot
      <4>1. shown'[v] = Append(shown[v], EndMarker)
        BY <1>a, <2>1, <3>2, Delivered
      <4>2. Gapless(shown'[v]) /\ \A n : EndsAt(shown'[v], n)
        BY <2>1, <3>1, <4>1, AppendWithoutGap DEF Unbroken
      <4> QED
        BY <2>1, <4>2 DEF Unbroken
    <3>3. CASE v # slot
      <4>1. shown'[v] = shown[v]
        BY <1>a, <2>1, <3>3, Delivered
      <4> QED
        BY <2>1, <3>1, <3>3, <4>1 DEF Unbroken, Served
    <3> QED
      BY <3>2, <3>3
  <2> QED
    BY <1>d, <2>1, <2>2 DEF GapInv, Live
<1>11. CASE Close \/ UNCHANGED vars
  <2>1. UNCHANGED <<flow, written, reader, shown, slot, next, told, broken, takeover>>
    BY <1>11 DEF Close, vars, readerVars, viewVars
  <2> QED
    BY <1>1, <2>1 DEF Live, Settled
<1>12. CASE CloseStop
  <2>1. /\ ~Live'
        /\ UNCHANGED <<written, reader, shown, slot, next, told, broken, takeover>>
    BY <1>12, <1>a, StopStops DEF CloseStop, viewVars
  <2> QED
    BY <1>1, <2>1
<1>13. ASSUME NEW d \in Detachers, DetachFlow(d) PROVE GapInv'
  <2>1. /\ ~Live'
        /\ UNCHANGED <<written, reader, shown, slot, next, told, broken, takeover>>
    BY <1>13, <1>a, DetachEmpties DEF DetachFlow, readerVars, viewVars
  <2> QED
    BY <1>1, <2>1
<1>14. ASSUME NEW d \in Detachers, MarkRing(d) PROVE GapInv'
  <2>1. UNCHANGED <<flow, written, reader, shown, slot, next, told, broken, takeover>>
    BY <1>14 DEF MarkRing, readerVars, viewVars
  <2> QED
    BY <1>1, <2>1 DEF Live, Settled
<1>15. ASSUME NEW w \in Views, Ack(w) PROVE GapInv'
  <2>1. UNCHANGED <<written, reader, shown, slot, next, told, broken, takeover>>
    BY <1>15 DEF Ack, readerVars, viewVars
  <2>2. Live' = Live /\ flow'.shedding = flow.shedding
    BY <1>15, <1>a, AcknowledgeTakesItsBytes DEF Ack, Live
  <2> QED
    BY <1>1, <2>1, <2>2 DEF Settled
<1>16. ASSUME NEW w \in Views, Ask(w) \/ ForceDetach(w) \/ ForceMark(w) \/ TakeRefused(w)
       PROVE GapInv'
  <2>1. UNCHANGED <<written, reader, shown, slot, next, told, broken>>
    BY <1>16 DEF Ask, ForceDetach, ForceMark, TakeRefused, readerVars
  <2>2. UNCHANGED flow \/ ~Live'
    BY <1>16, <1>a, DetachEmpties DEF Ask, ForceDetach, ForceMark, TakeRefused
  <2>3. PICK to \in {"refused", "marking", "locking"} : Goes(w, to)
    BY <1>16 DEF Ask, ForceDetach, ForceMark, TakeRefused
  <2>4. takeover[w] # "attached"
    BY <1>16 DEF Ask, ForceDetach, ForceMark, TakeRefused
  <2>5. takeover'[w] \in {"refused", "marking", "locking"}
        /\ \A v \in Views \ {w} : takeover'[v] = takeover[v]
    BY <1>a, <2>3 DEF Goes
  <2> QED
    BY <1>1, <2>1, <2>2, <2>4, <2>5 DEF Live, Settled, Replaying
<1>17. ASSUME NEW w \in Views, TakeFlow(w) PROVE GapInv'
  <2>1. /\ UNCHANGED <<written, reader, shown, slot, next, told, broken>>
        /\ takeover' = [takeover EXCEPT ![w] = "attached"]
    BY <1>17 DEF TakeFlow, Goes, readerVars
  <2>2. ~flow'.shedding
    BY <1>17, <1>a, AttachEmpties DEF TakeFlow
  <2>3. takeover'[w] = "attached" /\ \A v \in Views \ {w} : takeover'[v] = takeover[v]
    BY <1>a, <2>1
  <2>4. ASSUME NEW v \in Views \ (told \cup broken) PROVE Unbroken(v)'
    BY <1>b, <2>1, <2>3 DEF Unbroken, Served, Replaying
  <2> QED
    BY <2>1, <2>2, <2>4 DEF GapInv
<1>18. ASSUME NEW w \in Views, Replace(w) PROVE GapInv'
  <2>1. /\ takeover[w] = "attached" /\ slot' = w
        /\ takeover' = [takeover EXCEPT ![w] = "replaying"]
        /\ next' = [next EXCEPT ![w] = FirstKept]
        /\ UNCHANGED <<flow, written, reader, shown, told, broken>>
    BY <1>18 DEF Replace, Goes, readerVars
  <2>2. lock = w /\ reader \notin Routing
    BY <1>c, <2>1 DEF InHand
  <2>3. ~(Live /\ flow.shedding)
    BY <2>2 DEF ReplayInv
  <2>4. ASSUME NEW v \in Views \ (told \cup broken) PROVE Unbroken(v)'
    <3>1. CASE v = w
      <4>1. shown[v] = <<>> /\ shown'[v] = <<>>
        BY <2>1, <3>1 DEF ShownInv, Channel, Early
      <4> QED
        BY <4>1, NothingShown DEF Unbroken
    <3>2. CASE v # w
      <4>1. takeover'[v] = takeover[v] /\ next'[v] = next[v]
        BY <1>a, <2>1, <3>2
      <4> QED
        BY <1>b, <2>1, <3>2, <4>1 DEF Unbroken, Served
    <3> QED
      BY <3>1, <3>2
  <2> QED
    BY <2>1, <2>3, <2>4 DEF GapInv, Live
<1>19. ASSUME NEW w \in Views, ReplayReserve(w) PROVE GapInv'
  <2>1. /\ takeover[w] = "replaying"
        /\ takeover' = [takeover EXCEPT ![w] = "replay sending"]
        /\ UNCHANGED <<written, reader, shown, slot, next, told, broken>>
    BY <1>19 DEF ReplayReserve, Goes, readerVars
  <2>2. Live /\ ~flow'.shedding
    BY <1>19, <1>a, GrantAddsItsBytes DEF ReplayReserve
  <2>3. /\ takeover'[w] = "replay sending"
        /\ \A v \in Views \ {w} : takeover'[v] = takeover[v]
    BY <1>a, <2>1
  <2> QED
    BY <1>1, <2>1, <2>2, <2>3 DEF Settled, Replaying
<1>20. ASSUME NEW w \in Views, ReplaySend(w) PROVE GapInv'
  <2>1. /\ takeover[w] = "replay sending" /\ Deliver(w, next[w])
        /\ next' = [next EXCEPT ![w] = @ + 1]
        /\ takeover' = [takeover EXCEPT ![w] = "replaying"]
        /\ UNCHANGED <<flow, written, reader, slot, told, broken>>
    BY <1>20 DEF ReplaySend, Goes, readerVars
  <2>2. reader \notin Routing
    BY <1>c, <2>1 DEF InHand
  <2>3. ASSUME NEW v \in Views \ (told \cup broken) PROVE Unbroken(v)'
    <3>1. Unbroken(v) /\ shown[v] \in Seq(Nat) /\ next[v] \in Nat
      BY <1>a, <1>b
    <3>2. CASE v = w
      <4>1. Gapless(shown[v]) /\ EndsAt(shown[v], next[v] - 1)
        BY <2>1, <3>1, <3>2 DEF Unbroken, Replaying
      <4>2. shown'[v] = Append(shown[v], next[v])
        BY <1>a, <2>1, <3>2, Delivered
      <4>3. Gapless(shown'[v]) /\ EndsAt(shown'[v], next[v])
        BY <3>1, <4>1, <4>2, AppendWithoutGap
      <4>4. next'[v] - 1 = next[v] /\ takeover'[v] = "replaying"
        <5>1. next'[v] = next[v] + 1 /\ takeover'[v] = "replaying"
          BY <1>a, <2>1, <3>2
        <5> QED
          BY <3>1, <5>1
      <4> QED
        BY <2>1, <2>2, <4>3, <4>4 DEF Unbroken, Routing
    <3>3. CASE v # w
      <4>1. shown'[v] = shown[v] /\ takeover'[v] = takeover[v] /\ next'[v] = next[v]
        BY <1>a, <2>1, <3>3, Delivered
      <4>2. v # slot
        BY <2>1, <3>3 DEF ShownInv, Channel, Replaying
      <4> QED
        BY <2>1, <3>1, <4>1, <4>2 DEF Unbroken, Served
    <3> QED
      BY <3>2, <3>3
  <2> QED
    BY <1>d, <2>1, <2>3 DEF GapInv, Live
<1>21. ASSUME NEW w \in Views, ReplayRefused(w) PROVE GapInv'
  <2>1. /\ takeover[w] = "replay sending" /\ broken' = broken \cup {w}
        /\ takeover' = [takeover EXCEPT ![w] = "holding"]
        /\ UNCHANGED <<written, reader, shown, slot, next, told>>
    BY <1>21 DEF ReplayRefused, Release, Goes, readerVars
  <2>2. slot = w
    BY <2>1 DEF ShownInv, Channel, Replaying
  <2>3. ASSUME NEW v \in Views \ (told \cup broken') PROVE Unbroken(v)'
    <3>1. v # w /\ v # slot /\ v \in Views \ (told \cup broken)
      BY <2>1, <2>2
    <3>2. takeover'[v] = takeover[v]
      BY <1>a, <2>1, <3>1
    <3> QED
      BY <1>b, <2>1, <3>1, <3>2 DEF Unbroken, Served
  <2> QED
    BY <2>1, <2>2, <2>3 DEF GapInv
<1>22. ASSUME NEW w \in Views, ReplayDone(w) PROVE GapInv'
  <2>1. /\ takeover[w] = "replaying" /\ (next[w] > written \/ ~Live)
        /\ takeover' = [takeover EXCEPT ![w] = "holding"]
        /\ UNCHANGED <<flow, written, reader, shown, slot, next, told, broken>>
    BY <1>22 DEF ReplayDone, Release, Goes, readerVars
  <2>2. slot = w /\ next[w] <= written + 1 /\ reader \notin Routing
    BY <1>c, <2>1 DEF ShownInv, Channel, Replaying, InHand
  <2>3. ASSUME NEW v \in Views \ (told \cup broken) PROVE Unbroken(v)'
    <3>1. CASE v = w
      <4>1. Unbroken(v) /\ EndsAt(shown[v], next[v] - 1)
        BY <1>b, <2>1, <3>1 DEF Unbroken, Replaying
      <4>2. Live => next[v] - 1 = written
        BY <1>a, <2>1, <2>2, <3>1
      <4>3. takeover'[v] = "holding" /\ Settled' = written
        BY <1>a, <2>1, <2>2, <3>1 DEF Settled
      <4> QED
        BY <2>1, <2>2, <4>1, <4>2, <4>3 DEF Unbroken, Served, Replaying, Routing, Live
    <3>2. CASE v # w
      <4>1. takeover'[v] = takeover[v] /\ v # slot
        BY <1>a, <2>1, <2>2, <3>2
      <4> QED
        BY <1>b, <2>1, <4>1 DEF Unbroken, Served
    <3> QED
      BY <3>1, <3>2
  <2> QED
    BY <1>d, <2>1, <2>3 DEF GapInv, Live
<1> QED
  BY <1>2, <1>3, <1>4, <1>5, <1>6, <1>7, <1>8, <1>9, <1>10, <1>11, <1>12, <1>13, <1>14,
     <1>15, <1>16, <1>17, <1>18, <1>19, <1>20, <1>21, <1>22 DEF Next, Reader, Takeover

LEMMA ReplayAlways == Spec => []ReplayInv
<1>1. Init => ReplayInv
  BY ViewsAreNoMarks DEF Init, ReplayInv
<1> QED
  BY TypedAlways, ReplayStep, <1>1, PTL DEF Spec

(* A view that missed a chunk has been told, or its replay was cut short by *)
(* its own transport: for any number of views, chunks and refused sends.    *)
THEOREM GapsAreTold == Spec => []NoSilentGap
<1>1. Typed /\ GapInv => NoSilentGap
  <2> SUFFICES ASSUME Typed, GapInv, NEW v \in Views, v \notin told \cup broken
               PROVE  \A i \in DOMAIN shown[v] :
                          ~(/\ i > 1 /\ shown[v][i - 1] # EndMarker
                            /\ shown[v][i] > shown[v][i - 1] + 1)
    BY DEF NoSilentGap
  <2>1. Gapless(shown[v])
    BY DEF GapInv, Unbroken
  <2> QED
    BY <2>1 DEF Gapless
<1> QED
  BY TypedAlways, ShownAlways, ReplayAlways, GapInit, GapStep, <1>1, PTL DEF Spec

-----------------------------------------------------------------------------
(* While the ring is marked nobody holds the session, so what is printed is *)
(* held; the mark stands until the next view has counted what is lost.      *)
Attaching == \E v \in Views : takeover[v] = "attached"

LossInv ==
    /\ held \subseteq 1..written
    /\ reported \in [Views -> Nat] /\ lossOf \in [Views -> Nat]
    /\ unmarked \in [Views -> Nat]
    /\ detachedAt # NoMark =>
          /\ detachedAt \in Nat /\ reader # "sending"
          /\ flow.detached \/ Attaching
          /\ ~flow.stopped \/ Attaching => (detachedAt + 1)..Settled \subseteq held
    /\ LossAccounted

(* What a takeover counts: with the ring marked, all that was printed since *)
(* and is no longer kept was held, and what else was held is older.         *)
LEMMA LossIsCounted ==
    ASSUME written \in Nat, held \subseteq 1..written,
           detachedAt # NoMark =>
               detachedAt \in Nat /\ (detachedAt + 1)..written \subseteq held
    PROVE  LET early == {c \in HeldAndGone : detachedAt = NoMark \/ c <= detachedAt}
           IN  /\ LostWhileDetached \in Nat
               /\ Cardinality(HeldAndGone) \in Nat /\ Cardinality(early) \in Nat
               /\ LostWhileDetached <= Cardinality(HeldAndGone)
               /\ Cardinality(HeldAndGone) <= LostWhileDetached + Cardinality(early)
<1> DEFINE early == {c \in HeldAndGone : detachedAt = NoMark \/ c <= detachedAt}
           beyond == (detachedAt + 1)..(FirstKept - 1)
<1>1. /\ FirstKept \in Nat \ {0} /\ FirstKept <= written + 1
  BY FirstKeptIsPositive
<1>2. /\ IsFiniteSet(1..written) /\ HeldAndGone \in SUBSET (1..written)
      /\ early \in SUBSET HeldAndGone
  <2>1. 1 \in Int /\ written \in Int
    OBVIOUS
  <2>2. IsFiniteSet(1..written)
    BY <2>1, FS_Interval
  <2>3. HeldAndGone \subseteq held
    BY DEF HeldAndGone
  <2>4. early \subseteq HeldAndGone
    OBVIOUS
  <2> QED
    BY <2>2, <2>3, <2>4
<1>3. IsFiniteSet(HeldAndGone) /\ Cardinality(HeldAndGone) \in Nat
  BY <1>2, FS_Subset, FS_CardinalityType
<1>4. IsFiniteSet(early) /\ Cardinality(early) \in Nat
  BY <1>2, <1>3, FS_Subset, FS_CardinalityType
<1>5. CASE detachedAt = NoMark
  <2>1. early = HeldAndGone
    BY <1>5
  <2>2. LostWhileDetached = 0
    <3>1. ~(0 > written - FirstKept + 1)
      BY <1>1
    <3> QED
      BY <1>5, <3>1 DEF LostWhileDetached
  <2>3. \A n \in Nat : 0 \in Nat /\ 0 <= n /\ n <= 0 + n
    OBVIOUS
  <2>4. /\ LostWhileDetached \in Nat
        /\ LostWhileDetached <= Cardinality(HeldAndGone)
        /\ Cardinality(HeldAndGone) <= LostWhileDetached + Cardinality(HeldAndGone)
    BY <1>3, <2>2, <2>3
  <2> QED
    BY <1>3, <2>1, <2>4
<1>6. CASE detachedAt # NoMark
  <2>1. detachedAt \in Nat /\ (detachedAt + 1)..written \subseteq held
    BY <1>6
  <2>2. LostWhileDetached =
            IF detachedAt + 1 > FirstKept - 1 THEN 0 ELSE FirstKept - 1 - detachedAt
    BY <1>1, <1>6, <2>1 DEF LostWhileDetached
  <2>3. IsFiniteSet(beyond) /\ Cardinality(beyond) = LostWhileDetached
    BY <1>1, <2>1, <2>2, FS_Interval
  <2>4. beyond \in SUBSET HeldAndGone
    BY <1>1, <2>1 DEF HeldAndGone
  <2>5. HeldAndGone \in SUBSET (beyond \cup early)
    BY <1>1, <1>2, <2>1 DEF HeldAndGone
  <2>6. LostWhileDetached \in Nat
    BY <2>3, FS_CardinalityType
  <2>7. LostWhileDetached <= Cardinality(HeldAndGone)
    BY <1>3, <2>3, <2>4, FS_Subset
  <2>8. /\ IsFiniteSet(beyond \cup early)
        /\ Cardinality(beyond \cup early)
             = Cardinality(beyond) + Cardinality(early) - Cardinality(beyond \cap early)
    BY <1>4, <2>3, FS_Union
  <2>9. Cardinality(beyond \cap early) \in Nat
    <3>1. beyond \cap early \in SUBSET beyond
      OBVIOUS
    <3> QED
      BY <2>3, <3>1, FS_Subset, FS_CardinalityType
  <2>10. Cardinality(HeldAndGone) <= Cardinality(beyond \cup early)
    BY <2>5, <2>8, FS_Subset
  <2> HIDE DEF early, beyond
  <2> QED
    BY <1>3, <1>4, <2>3, <2>6, <2>7, <2>8, <2>9, <2>10 DEF early
<1> QED
  BY <1>5, <1>6

LEMMA LossStep == Typed /\ ShownInv /\ LossInv /\ [Next]_vars => LossInv'
<1> SUFFICES ASSUME Typed, ShownInv, LossInv, [Next]_vars PROVE LossInv'
  OBVIOUS
<1>a. /\ written \in Nat /\ flow \in FlowType
      /\ takeover \in [Views -> Early \cup Replaying \cup {"holding"}]
  BY DEF Typed, TypeOK, Early, Replaying
<1>b. /\ held \subseteq 1..written
      /\ reported \in [Views -> Nat] /\ lossOf \in [Views -> Nat]
      /\ unmarked \in [Views -> Nat]
      /\ LossAccounted
      /\ detachedAt # NoMark =>
            /\ detachedAt \in Nat /\ reader # "sending"
            /\ flow.detached \/ Attaching
            /\ ~flow.stopped \/ Attaching => (detachedAt + 1)..Settled \subseteq held
  BY DEF LossInv
<1>c. /\ reader \in Routing => ~Attaching
      /\ Attaching => lock # "free" /\ lock # "reader"
      /\ lock = "free" => reader \notin Routing
  BY ViewsAreNoMarks DEF Typed, LockInv, Attaching, InHand
\* Nothing that counts has changed, but that the session may have been let go of.
<1>1. ASSUME UNCHANGED <<held, reported, lossOf, unmarked, detachedAt, written>>,
             reader' = "sending" => reader = "sending",
             flow.stopped => flow'.stopped, flow.detached => flow'.detached,
             Attaching' = Attaching,
             reader' \in Routing <=> reader \in Routing
      PROVE  LossInv'
  <2>1. Settled' = Settled
    BY <1>1 DEF Settled
  <2> QED
    BY <1>1, <1>b, <2>1 DEF LossInv, LossAccounted
<1>2. CASE Push
  <2>1. /\ reader = "reading" /\ reader' = "routing" /\ written' = written + 1
        /\ UNCHANGED <<flow, held, reported, lossOf, unmarked, detachedAt, takeover>>
    BY <1>2 DEF Push, viewVars, ghosts
  <2>2. Settled' = Settled /\ Attaching' = Attaching
    BY <1>a, <2>1 DEF Settled, Routing, Attaching
  <2>3. held' \subseteq 1..written'
    BY <1>a, <1>b, <2>1
  <2> QED
    BY <1>b, <2>1, <2>2, <2>3 DEF LossInv, LossAccounted
<1>3. CASE RouteGranted
  <2>1. /\ reader = "routing"
        /\ UNCHANGED <<held, reported, lossOf, unmarked, detachedAt, written, takeover>>
    BY <1>3 DEF RouteGranted, viewVars, ghosts
  <2>2. Live
    BY <1>3, <1>a, GrantAddsItsBytes DEF RouteGranted
  <2>3. detachedAt = NoMark
    BY <1>b, <1>c, <2>1, <2>2 DEF Live, Routing
  <2> QED
    BY <1>b, <2>1, <2>3 DEF LossInv, LossAccounted
<1>4. CASE RouteHold
  <2>1. /\ reader = "routing" /\ reader' = "reading" /\ held' = held \cup {written}
        /\ UNCHANGED <<flow, reported, lossOf, unmarked, detachedAt, written, takeover>>
    BY <1>4 DEF RouteHold, ReserveHold, Unlock, viewVars
  <2>2. Settled = written - 1 /\ Settled' = written /\ Attaching' = Attaching
    BY <2>1 DEF Settled, Routing, Attaching
  <2>3. written >= 1
    BY <2>1 DEF ShownInv, Routing
  <2>4. held' \subseteq 1..written
    BY <1>a, <1>b, <2>1, <2>3
  <2>5. ASSUME detachedAt \in Nat, (detachedAt + 1)..(written - 1) \subseteq held
        PROVE  (detachedAt + 1)..written \subseteq held'
    BY <1>a, <2>1, <2>5
  <2> QED
    BY <1>b, <2>1, <2>2, <2>4, <2>5 DEF LossInv, LossAccounted
<1>5. CASE RouteShed
  <2>1. /\ reader = "routing" /\ reader' = "reading"
        /\ UNCHANGED <<held, reported, lossOf, unmarked, detachedAt, written, takeover>>
    BY <1>5 DEF RouteShed, Unlock, viewVars, ghosts
  <2>2. Live
    BY <1>5 DEF RouteShed, ReserveStall, ReserveDrop
  <2>3. detachedAt = NoMark
    BY <1>b, <1>c, <2>1, <2>2 DEF Live, Routing
  <2> QED
    BY <1>b, <2>1, <2>3 DEF LossInv, LossAccounted
<1>6. CASE RouteErr
  <2>1. /\ reader = "routing" /\ reader' = "reading" /\ flow.stopped
        /\ UNCHANGED <<flow, held, reported, lossOf, unmarked, detachedAt, written,
                       takeover>>
    BY <1>6, WindowAssumption DEF RouteErr, ReserveErr, Unlock, viewVars, ghosts
  <2>2. ~Attaching /\ ~Attaching'
    BY <1>c, <2>1 DEF Routing, Attaching
  <2> QED
    BY <1>b, <2>1, <2>2 DEF LossInv, LossAccounted
<1>7. CASE SendToView \/ SendRefused
  <2>1. /\ reader = "sending"
        /\ UNCHANGED <<held, reported, lossOf, unmarked, detachedAt, written>>
    BY <1>7 DEF SendToView, SendRefused, viewVars, ghosts
  <2> QED
    BY <1>b, <2>1 DEF LossInv, LossAccounted
<1>8. CASE Eof \/ Finish \/ SendEnd \/ Close \/ CloseStop \/ UNCHANGED vars
  <2>1. UNCHANGED <<held, reported, lossOf, unmarked, detachedAt, written, takeover>>
    BY <1>8 DEF Eof, Finish, SendEnd, Close, CloseStop, vars, readerVars, viewVars, ghosts
  <2>2. /\ reader' = "sending" => reader = "sending"
        /\ reader' \in Routing <=> reader \in Routing
    BY <1>8 DEF Eof, Finish, SendEnd, Close, CloseStop, vars, readerVars, Routing
  <2>3. flow.stopped => flow'.stopped
    BY <1>8, <1>a, StopStops DEF Eof, Finish, SendEnd, Close, CloseStop, vars
  <2>4. flow.detached => flow'.detached
    BY <1>8, <1>a, StopStops DEF Eof, Finish, SendEnd, Close, CloseStop, vars
  <2>5. Attaching' = Attaching
    BY <2>1 DEF Attaching
  <2> QED
    BY <1>1, <2>1, <2>2, <2>3, <2>4, <2>5
<1>9. ASSUME NEW d \in Detachers, DetachFlow(d) PROVE LossInv'
  <2>1. UNCHANGED <<held, reported, lossOf, unmarked, detachedAt, written, takeover, reader>>
    BY <1>9 DEF DetachFlow, readerVars, viewVars, ghosts
  <2>2. flow'.stopped = flow.stopped /\ flow'.detached
    BY <1>9, <1>a, DetachEmpties DEF DetachFlow
  <2>3. Attaching' = Attaching
    BY <2>1 DEF Attaching
  <2> QED
    BY <1>1, <2>1, <2>2, <2>3
\* A mark is put on the ring of a session nobody holds, or none.
<1>10. ASSUME Mark, UNCHANGED <<flow, reader, held, reported, lossOf, unmarked, written>>,
              Attaching' = Attaching
       PROVE  LossInv'
  <2>1. CASE detachedAt' = detachedAt
    BY <1>1, <1>10, <2>1
  <2>2. CASE detachedAt' # detachedAt
    <3>1. detachedAt' = written /\ flow.detached /\ reader \notin Routing
      BY <1>c, <1>10, <2>2 DEF Mark
    <3>2. Settled' = written
      BY <1>10, <3>1 DEF Settled
    <3>3. (detachedAt' + 1)..Settled' = {}
      BY <1>a, <3>1, <3>2
    <3> QED
      BY <1>a, <1>b, <1>10, <3>1, <3>3 DEF LossInv, LossAccounted, Routing
  <2> QED
    BY <2>1, <2>2
<1>11. ASSUME NEW d \in Detachers, MarkRing(d) PROVE LossInv'
  <2>1. Mark /\ UNCHANGED <<flow, reader, held, reported, lossOf, unmarked, written, takeover>>
    BY <1>11 DEF MarkRing, readerVars, viewVars, ghosts
  <2>2. Attaching' = Attaching
    BY <2>1 DEF Attaching
  <2> QED
    BY <1>10, <2>1, <2>2
<1>12. ASSUME NEW w \in Views, ReplayReserve(w) \/ ReplaySend(w) \/ ReplayRefused(w)
                                \/ ReplayDone(w) \/ Ask(w) \/ ForceDetach(w)
                                \/ ForceMark(w) \/ TakeRefused(w)
       PROVE  Attaching' = Attaching
  <2>1. PICK to \in {"replay sending", "replaying", "holding", "refused", "marking",
                     "locking"} : Goes(w, to)
    BY <1>12 DEF ReplayReserve, ReplaySend, ReplayRefused, ReplayDone, Release, Ask,
                 ForceDetach, ForceMark, TakeRefused
  <2>2. takeover[w] # "attached"
    BY <1>12 DEF ReplayReserve, ReplaySend, ReplayRefused, ReplayDone, Ask,
                 ForceDetach, ForceMark, TakeRefused
  <2>3. takeover'[w] # "attached" /\ \A v \in Views \ {w} : takeover'[v] = takeover[v]
    BY <1>a, <2>1 DEF Goes
  <2> QED
    BY <2>2, <2>3 DEF Attaching
<1>13. ASSUME NEW w \in Views, ForceMark(w) PROVE LossInv'
  <2>1. Mark /\ UNCHANGED <<flow, reader, held, reported, lossOf, unmarked, written>>
    BY <1>13 DEF ForceMark, readerVars, ghosts
  <2> QED
    BY <1>10, <1>12, <1>13, <2>1
<1>14. ASSUME NEW w \in Views, ReplayReserve(w) \/ ReplaySend(w) \/ ReplayRefused(w)
                                \/ ReplayDone(w) \/ Ask(w) \/ ForceDetach(w)
                                \/ TakeRefused(w)
       PROVE  LossInv'
  <2>1. UNCHANGED <<held, reported, lossOf, unmarked, detachedAt, written, reader>>
    BY <1>14 DEF ReplayReserve, ReplaySend, ReplayRefused, ReplayDone, Ask, ForceDetach,
                 TakeRefused, readerVars, ghosts
  <2>2. flow'.stopped = flow.stopped
    BY <1>14, <1>a, GrantAddsItsBytes, ShedReleases, DetachEmpties
       DEF ReplayReserve, ReplaySend, ReplayRefused, ReplayDone, Ask, ForceDetach,
           TakeRefused
  <2>3. flow.detached => flow'.detached
    BY <1>14, <1>a, GrantAddsItsBytes, ShedReleases, DetachEmpties
       DEF ReplayReserve, ReplaySend, ReplayRefused, ReplayDone, Ask, ForceDetach,
           TakeRefused, Live
  <2> QED
    BY <1>1, <1>12, <1>14, <2>1, <2>2, <2>3
<1>15. ASSUME NEW w \in Views, Ack(w) PROVE LossInv'
  <2>1. UNCHANGED <<held, reported, lossOf, unmarked, detachedAt, written, takeover, reader>>
    BY <1>15 DEF Ack, readerVars, viewVars, ghosts
  <2>2. flow'.stopped = flow.stopped /\ flow'.detached = flow.detached
    BY <1>15, <1>a, AcknowledgeTakesItsBytes DEF Ack
  <2>3. Attaching' = Attaching
    BY <2>1 DEF Attaching
  <2> QED
    BY <1>1, <2>1, <2>2, <2>3
<1>16. ASSUME NEW w \in Views, TakeFlow(w) PROVE LossInv'
  <2>1. /\ takeover' = [takeover EXCEPT ![w] = "attached"]
        /\ UNCHANGED <<held, reported, lossOf, unmarked, detachedAt, written, reader>>
    BY <1>16 DEF TakeFlow, Goes, readerVars, ghosts
  <2>2. ~flow.stopped
    BY <1>16, <1>a, AttachEmpties DEF TakeFlow
  <2>3. Attaching'
    BY <1>a, <2>1 DEF Attaching
  <2>4. Settled' = Settled
    BY <2>1 DEF Settled
  <2> QED
    BY <1>b, <2>1, <2>2, <2>3, <2>4 DEF LossInv, LossAccounted
<1>17. ASSUME NEW w \in Views, Replace(w) PROVE LossInv'
  <2> DEFINE early == {c \in HeldAndGone : detachedAt = NoMark \/ c <= detachedAt}
  <2>1. /\ takeover[w] = "attached" /\ detachedAt' = NoMark /\ held' = {}
        /\ reported' = [reported EXCEPT ![w] = LostWhileDetached]
        /\ lossOf' = [lossOf EXCEPT ![w] = Cardinality(HeldAndGone)]
        /\ unmarked' = [unmarked EXCEPT ![w] = Cardinality(early)]
        /\ UNCHANGED <<written, reader>>
    BY <1>17 DEF Replace, readerVars
  <2>2. Attaching /\ reader \notin Routing
    BY <1>c, <2>1 DEF Attaching
  <2>3. detachedAt # NoMark =>
            detachedAt \in Nat /\ (detachedAt + 1)..written \subseteq held
    BY <1>b, <2>2 DEF Settled
  <2>4. /\ LostWhileDetached \in Nat
        /\ Cardinality(HeldAndGone) \in Nat /\ Cardinality(early) \in Nat
        /\ LostWhileDetached <= Cardinality(HeldAndGone)
        /\ Cardinality(HeldAndGone) <= LostWhileDetached + Cardinality(early)
    BY <1>a, <1>b, <2>3, LossIsCounted
  <2> HIDE DEF early
  <2>5. LossAccounted'
    <3> SUFFICES ASSUME NEW v \in Views
                 PROVE  /\ reported'[v] <= lossOf'[v]
                        /\ lossOf'[v] <= reported'[v] + unmarked'[v]
      BY DEF LossAccounted
    <3>1. CASE v = w
      BY <1>b, <2>1, <2>4, <3>1
    <3>2. CASE v # w
      BY <1>b, <2>1, <3>2 DEF LossAccounted
    <3> QED
      BY <3>1, <3>2
  <2>6. /\ reported' \in [Views -> Nat] /\ lossOf' \in [Views -> Nat]
        /\ unmarked' \in [Views -> Nat]
    BY <1>b, <2>1, <2>4
  <2> QED
    BY <2>1, <2>5, <2>6 DEF LossInv
<1> QED
  BY <1>2, <1>3, <1>4, <1>5, <1>6, <1>7, <1>8, <1>9, <1>11, <1>13, <1>14, <1>15, <1>16,
     <1>17 DEF Next, Reader, Takeover

(* What a new view is told was lost is never too much, and too little only  *)
(* by what was held before the mark: for any ring, views and output.        *)
THEOREM LossIsAccounted == Spec => []LossAccounted
<1>1. Init => LossInv
  <2> SUFFICES ASSUME Init PROVE LossInv
    OBVIOUS
  <2>1. /\ held = {} /\ detachedAt = NoMark
        /\ reported = [v \in Views |-> 0] /\ lossOf = [v \in Views |-> 0]
        /\ unmarked = [v \in Views |-> 0]
    BY DEF Init
  <2> QED
    BY <2>1 DEF LossInv, LossAccounted
<1>2. LossInv => LossAccounted
  BY DEF LossInv
<1> QED
  BY TypedAlways, ShownAlways, LossStep, <1>1, <1>2, PTL DEF Spec

-----------------------------------------------------------------------------
(* OutputCredit: the credit of a window against what its view owes.        *)

(* Arithmetic the window's emptiness rests on: no counter hides another.   *)
LEMMA NothingAddsUpToNothing ==
    ASSUME NEW a \in Nat, NEW b \in Nat, NEW c \in Nat, NEW d \in Nat,
           a + b + c + d = 0
    PROVE  a = 0 /\ b = 0
OBVIOUS

(* Shedding a reserved chunk moves its credit from the outstanding window  *)
(* to the uncertain credit; what exceeds the cap is Overshoot.             *)
LEMMA ShedMovesCredit ==
    ASSUME flow \in FlowType, NEW n \in Nat, Shed(n)
    PROVE  /\ flow' \in FlowType
           /\ Overshoot(n) \in Nat
           /\ flow'.pending + flow'.uncertain + Overshoot(n)
                = flow.pending + flow.uncertain
           /\ flow'.detached = flow.detached
           /\ flow.detached => flow' = flow
<1>1. CASE ~Live
  BY <1>1, WindowAssumption DEF Shed, Overshoot, FlowType
<1>2. CASE Live
  <2>1. PICK r \in Nat : r = Released(n) /\ r <= flow.pending
    BY SmallerIsMin DEF Released, FlowType
  <2>2. flow' = [flow EXCEPT !.pending = @ - r,
                             !.uncertain = Smaller(@ + r, Window),
                             !.shedding = TRUE, !.lagged = TRUE]
    BY <1>2, <2>1 DEF Shed
  <2>3. /\ flow.pending \in 0..Window /\ flow.uncertain \in 0..Window
        /\ flow.pending - r \in 0..Window
    BY <2>1, WindowAssumption DEF FlowType
  <2>4. Smaller(flow.uncertain + r, Window) \in 0..Window
    BY <2>1, <2>3, WindowAssumption DEF Smaller
  <2>5. /\ Overshoot(n) \in Nat
        /\ Smaller(flow.uncertain + r, Window) + Overshoot(n) = flow.uncertain + r
    BY <1>2, <2>1, <2>3, WindowAssumption DEF Smaller, Overshoot
  <2>6. flow' \in FlowType
    BY <2>2, <2>3, <2>4 DEF FlowType
  <2>7. /\ flow'.pending = flow.pending - r
        /\ flow'.uncertain = Smaller(flow.uncertain + r, Window)
        /\ flow'.detached = flow.detached
    BY <2>2 DEF FlowType
  <2>8. ~flow.detached
    BY <1>2 DEF Live
  <2> QED
    BY <2>1, <2>3, <2>4, <2>5, <2>6, <2>7, <2>8, WindowAssumption
<1> QED
  BY <1>1, <1>2

-----------------------------------------------------------------------------
(* The type invariant, for every instance.                                 *)
THEOREM CreditTypeCorrect == CreditSpec => []CreditTypeOK
<1>1. CreditInit => CreditTypeOK
  BY WindowAssumption DEF CreditInit, FlowInit, CreditTypeOK, FlowType
<1>2. CreditTypeOK /\ [CreditNext]_creditVars => CreditTypeOK'
  <2> SUFFICES ASSUME CreditTypeOK, [CreditNext]_creditVars
               PROVE  CreditTypeOK'
    OBVIOUS
  <2> USE WindowAssumption
  <2>1. ASSUME NEW n \in Chunks, Reserve(n)
        PROVE  CreditTypeOK'
    <3>1. n \in Nat /\ n > 0
      BY ChunksAssumption
    <3>2. flow.pending \in 0..Window /\ flow.pending + n \in 0..Window
      BY <2>1, <3>1 DEF CreditTypeOK, FlowType, Reserve, ReserveDeliver, ReserveResume, Overfull
    <3>3. flow' \in FlowType
      BY <2>1, <3>2 DEF CreditTypeOK, FlowType, Reserve, ReserveDeliver, ReserveResume
    <3> QED
      BY <2>1, <3>1, <3>3 DEF CreditTypeOK, Reserve, ledger, bounds
  <2>2. ASSUME NEW n \in Chunks, Decline(n)
        PROVE  CreditTypeOK'
    <3>1. flow' \in FlowType
      BY <2>2 DEF CreditTypeOK, FlowType, Decline, ReserveErr, ReserveHold, ReserveDrop, ReserveStall
    <3> QED
      BY <2>2, <3>1 DEF CreditTypeOK, Decline, ledger, bounds
  <2>3. CASE Arrive
    BY <2>3 DEF CreditTypeOK, Arrive, bounds
  <2>4. CASE SendOk
    BY <2>4 DEF CreditTypeOK, SendOk, SendDone, ledger
  <2>5. CASE SendErr
    <3>1. flow' \in FlowType /\ Overshoot(chunk) \in Nat
      BY <2>5, ShedMovesCredit DEF CreditTypeOK, SendErr
    <3>2. InFlight \in Nat
      BY DEF CreditTypeOK, InFlight
    <3> QED
      BY <2>5, <3>1, <3>2 DEF CreditTypeOK, SendErr, SendDone
  <2>6. ASSUME NEW n \in Acks, AckOwn(n)
        PROVE  CreditTypeOK'
    <3>1. n \in Nat
      BY AcksAssumption
    <3>2. flow' \in FlowType
      BY <2>6, <3>1, AcknowledgeTakesItsBytes DEF CreditTypeOK, AckOwn
    <3> QED
      BY <2>6, <3>1, <3>2 DEF CreditTypeOK, AckOwn, bounds
  <2>7. ASSUME NEW n \in Acks, AckLate(n)
        PROVE  CreditTypeOK'
    <3>1. n \in Nat
      BY AcksAssumption
    <3>2. flow' \in FlowType
      BY <2>7, <3>1, AcknowledgeTakesItsBytes DEF CreditTypeOK, AckLate
    <3> QED
      BY <2>7, <3>1, <3>2 DEF CreditTypeOK, AckLate, bounds
  <2>8. CASE LetGo
    <3>1. 0 \in 0..Window
      OBVIOUS
    <3>2. flow' \in FlowType
      BY <2>8, <3>1 DEF CreditTypeOK, FlowType, LetGo, Detach
    <3> QED
      BY <2>8, <3>2 DEF CreditTypeOK, LetGo, bounds
  <2>9. CASE TakeOver
    <3>1. 0 \in 0..Window
      OBVIOUS
    <3>2. flow' \in FlowType
      BY <2>9, <3>1 DEF CreditTypeOK, FlowType, TakeOver, Attach
    <3> QED
      BY <2>9, <3>2 DEF CreditTypeOK, TakeOver, ledger
  <2>10. CASE StopFlow
    BY <2>10 DEF CreditTypeOK, FlowType, StopFlow, Stop, ledger, bounds
  <2>11. CASE UNCHANGED creditVars
    BY <2>11 DEF CreditTypeOK, creditVars
  <2> QED
    BY <2>1, <2>2, <2>3, <2>4, <2>5, <2>6, <2>7, <2>8, <2>9, <2>10, <2>11 DEF CreditNext
<1> QED
  BY <1>1, <1>2, PTL DEF CreditSpec

-----------------------------------------------------------------------------
(* The ledger balances: what the window counts is what the view owes, is   *)
(* being sent, or failed sends cost, whatever order detaches, takeovers,   *)
(* late acknowledgements, failed sends and stalls come in.                 *)
LEMMA CreditInvInductive == CreditInv /\ [CreditNext]_creditVars /\ CreditTypeOK' => CreditInv'
<1> SUFFICES ASSUME CreditInv, [CreditNext]_creditVars, CreditTypeOK'
             PROVE  CreditConserved' /\ DetachForgives' /\ LedgerCleared'
  BY DEF CreditInv
<1>0. /\ flow \in FlowType /\ chunk \in Nat /\ owed \in Nat /\ stale \in Nat
      /\ lost \in Nat /\ late \in Nat /\ capped \in Nat
      /\ flow.pending \in Nat /\ flow.uncertain \in Nat
      /\ CreditConserved /\ DetachForgives /\ LedgerCleared
  BY WindowAssumption DEF CreditInv, CreditTypeOK, FlowType
<1> USE DEF CreditConserved, DetachForgives, LedgerCleared
<1>1. ASSUME NEW n \in Chunks, Reserve(n)
      PROVE  CreditConserved' /\ DetachForgives' /\ LedgerCleared'
  <2>1. n \in Nat
    BY ChunksAssumption
  <2>2. /\ ~flow.detached /\ ~flow'.detached
        /\ flow'.pending = flow.pending + n /\ flow'.uncertain = flow.uncertain
    BY <1>0, <1>1 DEF Reserve, ReserveDeliver, ReserveResume, Live, FlowType
  <2>3. InFlight = 0 /\ InFlight' = n
    BY <1>1, <2>2 DEF Reserve, Idle, InFlight
  <2> QED
    BY <1>0, <1>1, <2>1, <2>2, <2>3 DEF Reserve, ledger
<1>2. ASSUME NEW n \in Chunks, Decline(n)
      PROVE  CreditConserved' /\ DetachForgives' /\ LedgerCleared'
  <2>1. /\ flow'.pending = flow.pending /\ flow'.uncertain = flow.uncertain
        /\ flow'.detached = flow.detached
        /\ flow.detached => flow'.shedding = flow.shedding
    BY <1>0, <1>2 DEF Decline, ReserveErr, ReserveHold, ReserveDrop, ReserveStall,
                      Live, FlowType
  <2>2. InFlight' = InFlight
    BY <1>2, <2>1 DEF Decline, InFlight
  <2> QED
    BY <1>0, <1>2, <2>1, <2>2 DEF Decline, ledger
<1>3. CASE Arrive
  BY <1>0, <1>3 DEF Arrive, InFlight
<1>4. CASE SendOk
  BY <1>0, <1>4 DEF SendOk, SendDone, InFlight, ledger
<1>5. CASE SendErr
  <2>1. /\ Overshoot(chunk) \in Nat
        /\ flow'.pending + flow'.uncertain + Overshoot(chunk)
             = flow.pending + flow.uncertain
        /\ flow'.detached = flow.detached
        /\ flow.detached => flow' = flow
    BY <1>0, <1>5, ShedMovesCredit DEF SendErr
  <2>2. flow.detached => Overshoot(chunk) = 0 /\ InFlight = 0
    BY DEF Overshoot, Live, InFlight
  <2>3. InFlight' = 0 /\ InFlight \in Nat
    BY <1>0, <1>5 DEF SendErr, SendDone, InFlight
  <2>4. flow'.pending \in Nat /\ flow'.uncertain \in Nat
    BY WindowAssumption DEF CreditTypeOK, FlowType
  <2>5. capped' = capped + Overshoot(chunk) /\ lost' = lost + InFlight
        /\ owed' = owed /\ late' = late
    BY <1>5 DEF SendErr
  <2>6. CASE flow.detached
    <3>1. flow'.detached /\ flow' = flow
      BY <2>1, <2>6
    <3> QED
      BY <1>0, <2>2, <2>5, <2>6, <3>1
  <2>7. CASE ~flow.detached
    <3>1. ~flow'.detached
      BY <2>1, <2>7
    <3>2. flow.pending + flow.uncertain + late + capped = owed + InFlight + lost
      BY <1>0, <2>7
    <3>3. flow'.pending + flow'.uncertain + late' + capped' = owed' + InFlight' + lost'
      BY <1>0, <2>1, <2>3, <2>4, <2>5, <3>2
    <3> QED
      BY <3>1, <3>3
  <2> QED
    BY <2>6, <2>7
<1>6. ASSUME NEW n \in Acks, AckOwn(n)
      PROVE  CreditConserved' /\ DetachForgives' /\ LedgerCleared'
  <2>1. n \in Nat
    BY AcksAssumption
  <2>2. /\ flow'.pending + flow'.uncertain = flow.pending + flow.uncertain - n
        /\ flow'.detached = flow.detached /\ ~flow.detached
    BY <1>0, <1>6, <2>1, AcknowledgeTakesItsBytes DEF AckOwn
  <2>3. flow'.pending \in Nat /\ flow'.uncertain \in Nat
    BY WindowAssumption DEF CreditTypeOK, FlowType
  <2>4. InFlight' = InFlight /\ InFlight \in Nat
    BY <1>0, <1>6, <2>2 DEF AckOwn, InFlight
  <2> QED
    <3>1. /\ owed' = owed - n
          /\ late' = late /\ capped' = capped /\ lost' = lost
      BY <1>6 DEF AckOwn
    <3>2. flow.pending + flow.uncertain + late + capped = owed + InFlight + lost
      BY <1>0, <2>2
    <3>3. flow'.pending + flow'.uncertain + late' + capped' = owed' + InFlight' + lost'
      BY <1>0, <2>1, <2>2, <2>3, <2>4, <3>1, <3>2
    <3>4. ~flow'.detached
      BY <2>2
    <3> QED
      BY <3>3, <3>4
<1>7. ASSUME NEW n \in Acks, AckLate(n)
      PROVE  CreditConserved' /\ DetachForgives' /\ LedgerCleared'
  <2>1. n \in Nat
    BY AcksAssumption
  <2>2. /\ flow'.pending + flow'.uncertain = flow.pending + flow.uncertain - n
        /\ flow'.detached = flow.detached
    BY <1>0, <1>7, <2>1, AcknowledgeTakesItsBytes DEF AckLate
  <2>3. ~flow.detached
    BY <1>0, <1>7, <2>1 DEF AckLate, Acknowledge, Acceptable
  <2>4. flow'.pending \in Nat /\ flow'.uncertain \in Nat
    BY WindowAssumption DEF CreditTypeOK, FlowType
  <2>5. InFlight' = InFlight /\ InFlight \in Nat
    BY <1>0, <1>7, <2>2 DEF AckLate, InFlight
  <2> QED
    <3>1. /\ late' = late + n
          /\ owed' = owed /\ capped' = capped /\ lost' = lost
      BY <1>7 DEF AckLate
    <3>2. flow'.pending + flow'.uncertain + late' + capped' = owed' + InFlight' + lost'
      BY <1>0, <2>1, <2>2, <2>3, <2>4, <2>5, <3>1
    <3>3. ~flow'.detached
      BY <2>2, <2>3
    <3> QED
      BY <3>2, <3>3
<1>8. CASE LetGo
  <2>1. /\ flow'.detached /\ ~flow'.shedding
        /\ flow'.pending = 0 /\ flow'.uncertain = 0
    BY <1>0, <1>8 DEF LetGo, Detach, FlowType
  <2> QED
    BY <1>8, <2>1 DEF LetGo
<1>9. CASE TakeOver
  <2>1. /\ flow.detached /\ ~flow'.detached
        /\ flow'.pending = 0 /\ flow'.uncertain = 0
    BY <1>0, <1>9 DEF TakeOver, Attach, Attachable, FlowType
  <2>2. InFlight' = 0
    BY <1>9 DEF TakeOver, Idle, InFlight
  <2> QED
    BY <1>0, <1>9, <2>1, <2>2 DEF TakeOver, ledger
<1>10. CASE StopFlow
  <2>1. /\ flow'.pending = flow.pending /\ flow'.uncertain = flow.uncertain
        /\ flow'.detached = flow.detached /\ flow'.shedding = flow.shedding
    BY <1>0, <1>10 DEF StopFlow, Stop, FlowType
  <2>2. InFlight' = InFlight
    BY <1>10, <2>1 DEF StopFlow, InFlight
  <2> QED
    BY <1>0, <1>10, <2>1, <2>2 DEF StopFlow, ledger
<1>11. CASE UNCHANGED creditVars
  BY <1>0, <1>11 DEF creditVars, InFlight
<1> QED
  BY <1>1, <1>2, <1>3, <1>4, <1>5, <1>6, <1>7, <1>8, <1>9, <1>10, <1>11 DEF CreditNext

(* The inductive invariant holds from the spawn on.                        *)
THEOREM Conservation == CreditSpec => []CreditInv
<1>1. CreditInit => CreditInv
  <2>1. CreditInit => CreditTypeOK
    BY WindowAssumption DEF CreditInit, FlowInit, CreditTypeOK, FlowType
  <2>2. CreditInit => CreditConserved /\ DetachForgives /\ LedgerCleared
    BY DEF CreditInit, FlowInit, CreditConserved, DetachForgives, LedgerCleared, InFlight
  <2> QED
    BY <2>1, <2>2 DEF CreditInv
<1> QED
  BY <1>1, CreditInvInductive, CreditTypeCorrect, PTL DEF CreditSpec

(* While a view holds the session, credit is conserved.                    *)
THEOREM CreditIsConserved == CreditSpec => []CreditConserved
BY Conservation, PTL DEF CreditInv

(* An acknowledgement for bytes the view really got is refused only on     *)
(* account of an older view's acknowledgement or of the uncertain cap.     *)
THEOREM HonestAcks == CreditSpec => []HonestAckAccepted
<1>1. CreditInv => HonestAckAccepted
  <2> SUFFICES ASSUME CreditInv, ~flow.detached, late = 0, capped = 0
               PROVE  owed <= flow.pending + flow.uncertain
    BY DEF HonestAckAccepted
  <2>1. flow.pending \in Nat /\ flow.uncertain \in Nat /\ owed \in Nat
        /\ lost \in Nat /\ chunk \in Nat
    BY WindowAssumption DEF CreditInv, CreditTypeOK, FlowType
  <2>2. InFlight \in Nat
    BY <2>1 DEF InFlight
  <2>3. flow.pending + flow.uncertain + late + capped = owed + InFlight + lost
    BY DEF CreditInv, CreditConserved
  <2> QED
    BY <2>1, <2>2, <2>3
<1> QED
  BY <1>1, Conservation, PTL

(* With no failed send, a view that repaid everything has an empty window. *)
THEOREM RepaidIsEmpty == CreditSpec => []RepaidWindowIsEmpty
<1>1. CreditInv => RepaidWindowIsEmpty
  <2> SUFFICES ASSUME CreditInv, ~flow.detached, owed = 0, InFlight = 0, lost = 0
               PROVE  flow.pending = 0 /\ flow.uncertain = 0
    BY DEF RepaidWindowIsEmpty
  <2>1. flow.pending \in Nat /\ flow.uncertain \in Nat
        /\ late \in Nat /\ capped \in Nat
    BY WindowAssumption DEF CreditInv, CreditTypeOK, FlowType
  <2>2. flow.pending + flow.uncertain + late + capped = owed + InFlight + lost
    BY DEF CreditInv, CreditConserved
  <2>3. flow.pending + flow.uncertain + late + capped = 0
    BY <2>2
  <2> QED
    BY <2>1, <2>3, NothingAddsUpToNothing
<1> QED
  BY <1>1, Conservation, PTL

(* A session nobody holds has an empty window and is not shedding.         *)
THEOREM DetachedWindowIsEmpty == CreditSpec => []DetachForgives
BY Conservation, PTL DEF CreditInv

=============================================================================
