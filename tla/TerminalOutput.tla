--------------------------- MODULE TerminalOutput ---------------------------
(***************************************************************************)
(* The output path of one terminal session: its reader thread, the ring of *)
(* its newest output, the slot naming the view it is sent to, and the      *)
(* calls that take views away and hand the session to others               *)
(* (src-tauri/src/terminal/{mod,ring,sink,flow}.rs).                       *)
(*                                                                         *)
(* Output is counted in units of one chunk, numbered from 1 in the order   *)
(* the program printed them, so the ring's content is the last RingBytes   *)
(* numbers up to `written`.  A view's channel is the sequence of messages  *)
(* it delivered: chunk numbers, and EndMarker.  The ring's lock is held    *)
(* across several steps and is a variable; the registry's map lock and the *)
(* flow's mutex are each held for one step.  The repaint that follows a    *)
(* takeover or a Resume only makes the program print more.                 *)
(***************************************************************************)
EXTENDS OutputFlow, Integers, Sequences, FiniteSets

CONSTANTS
    RingBytes,        \* what a ring keeps (RING_BYTES)
    Views,            \* views that may come to hold the session
    FirstView,        \* the one that started it
    Detachers,        \* calls of detach_session / detach_all
    MaxChunks,        \* bound: chunks the program prints
    MaxFailures       \* bound: sends the transport refuses

ASSUME RingAssumption == RingBytes \in Nat \ {0} /\ RingBytes <= Window
ASSUME ViewsAssumption == FirstView \in Views /\ {"free", "reader"} \cap Views = {}

VARIABLES
    written,      \* Ring.written: chunks ever pushed
    detachedAt,   \* Ring.detached_at, or NoMark
    lock,         \* holder of the ring's lock: "free", "reader", or a view
    slot,         \* OutputSlot: the view output is sent to
    reader,       \* where the reader thread is
    dead,         \* the session's dead flag
    listed,       \* the session is in the registry
    closing,      \* kill_session: "no", "signalled", "stopped"
    killed,       \* the reader stopped the process over a failed reserve
    calls,        \* where each detach call is
    takeover,     \* where each view's attach call is
    next,         \* next chunk each takeover replays
    shown,        \* what each view's channel delivered
    acked,        \* chunks each view has acknowledged
    told,         \* views told their output was skipped (SHED_NOTICE)
    reported,     \* loss each view was told of when it took over
    broken,       \* views whose replay ended at a refused send
    held,         \* chunks routed Hold since a view last took over
    lossOf,       \* held chunks out of the ring at each takeover,
    unmarked,     \* and those held before the ring was marked
    cutOff,       \* views still replaying when EndMarker was sent
    failures      \* sends refused so far

readerVars == <<written, reader, dead, listed, closing, killed>>
viewVars == <<takeover, next, reported, broken>>
ghosts == <<held, lossOf, unmarked, cutOff, failures>>
vars == <<flow, detachedAt, lock, slot, readerVars, calls, viewVars, shown,
          acked, told, ghosts>>

NoMark == -1
EndMarker == 0

Init ==
    /\ FlowInit
    /\ written = 0 /\ detachedAt = NoMark /\ lock = "free" /\ slot = FirstView
    /\ reader = "reading" /\ dead = FALSE /\ listed = TRUE
    /\ closing = "no" /\ killed = FALSE
    /\ calls = [d \in Detachers |-> "idle"]
    /\ takeover = [v \in Views |-> IF v = FirstView THEN "holding" ELSE "new"]
    /\ next = [v \in Views |-> 1]
    /\ shown = [v \in Views |-> <<>>]
    /\ acked = [v \in Views |-> 0]
    /\ told = {} /\ broken = {} /\ held = {} /\ cutOff = {}
    /\ reported = [v \in Views |-> 0]
    /\ lossOf = [v \in Views |-> 0] /\ unmarked = [v \in Views |-> 0]
    /\ failures = 0

FaultyFirstKept ==            \* one chunk more than a window
    IF written <= RingBytes THEN 1 ELSE written - RingBytes

\* The oldest chunk the ring keeps.
FirstKept == IF written < RingBytes THEN 1 ELSE written - RingBytes + 1

Deliver(v, m) == shown' = [shown EXCEPT ![v] = Append(@, m)]

-----------------------------------------------------------------------------
(* The reader thread: `deliver` and the end of the session.                *)

\* Gathered output is flushed: the ring is locked and keeps it.
Push ==
    /\ reader = "reading" /\ ~dead /\ lock = "free" /\ written < MaxChunks
    /\ lock' = "reader" /\ reader' = "routing" /\ written' = written + 1
    /\ UNCHANGED <<flow, detachedAt, slot, dead, listed, closing, killed, calls,
                   viewVars, shown, acked, told, ghosts>>

Unlock == lock' = "free" /\ reader' = "reading"

RouteGranted ==
    /\ reader = "routing"
    /\ ReserveDeliver(1) \/ ReserveResume(1)
    /\ reader' = "sending"
    /\ UNCHANGED <<written, detachedAt, lock, slot, dead, listed, closing, killed,
                   calls, viewVars, shown, acked, told, ghosts>>

\* No view: kept in the ring and not sent.
RouteHold ==
    /\ reader = "routing"
    /\ ReserveHold(1)
    /\ held' = held \cup {written}
    /\ Unlock
    /\ UNCHANGED <<written, detachedAt, slot, dead, listed, closing, killed, calls,
                   viewVars, shown, acked, told, lossOf, unmarked, cutOff, failures>>

\* The view is behind: dropped, and said so the first time.
RouteShed ==
    /\ reader = "routing"
    /\ \/ ReserveStall(1) /\ told' = told \cup {slot}
       \/ ReserveDrop(1)  /\ UNCHANGED told
    /\ Unlock
    /\ UNCHANGED <<written, detachedAt, slot, dead, listed, closing, killed, calls,
                   viewVars, shown, acked, ghosts>>

\* A refused reservation ends the process, unless something already is.
RouteErr ==
    /\ reader = "routing"
    /\ ReserveErr(1)
    /\ killed' = (killed \/ ~dead) /\ dead' = TRUE
    /\ Unlock
    /\ UNCHANGED <<written, detachedAt, slot, listed, closing, calls, viewVars,
                   shown, acked, told, ghosts>>

SendToView ==
    /\ reader = "sending"
    /\ Deliver(slot, written)
    /\ Unlock
    /\ UNCHANGED <<flow, written, detachedAt, slot, dead, listed, closing, killed,
                   calls, viewVars, acked, told, ghosts>>

FaultySendRefused ==            \* drops the refused chunk without saying so
    /\ reader = "sending" /\ failures < MaxFailures
    /\ failures' = failures + 1
    /\ Shed(1)
    /\ Unlock
    /\ UNCHANGED <<written, detachedAt, slot, dead, listed, closing, killed, calls,
                   viewVars, shown, acked, told, held, lossOf, unmarked, cutOff>>

SendRefused ==
    /\ reader = "sending" /\ failures < MaxFailures
    /\ failures' = failures + 1
    /\ Shed(1)
    /\ told' = IF ShedBegins THEN told \cup {slot} ELSE told
    /\ Unlock
    /\ UNCHANGED <<written, detachedAt, slot, dead, listed, closing, killed, calls,
                   viewVars, shown, acked, held, lossOf, unmarked, cutOff>>

\* The terminal is at its end, or the child has exited.
Eof ==
    /\ reader = "reading"
    /\ Stop
    /\ dead' = TRUE /\ reader' = "reaping"
    /\ UNCHANGED <<written, detachedAt, lock, slot, listed, closing, killed, calls,
                   viewVars, shown, acked, told, ghosts>>

\* The child is reaped; the observer has recorded it; the entry goes.
Finish ==
    /\ reader = "reaping"
    /\ listed' = FALSE /\ reader' = "finished"
    /\ UNCHANGED <<flow, written, detachedAt, lock, slot, dead, closing, killed,
                   calls, viewVars, shown, acked, told, ghosts>>

\* The marker to the current view, then the exit event.
SendEnd ==
    /\ reader = "finished"
    /\ Deliver(slot, EndMarker)
    /\ cutOff' = {v \in Views : takeover[v] = "replay sending"}
    /\ reader' = "ended"
    /\ UNCHANGED <<flow, written, detachedAt, lock, slot, dead, listed, closing,
                   killed, calls, viewVars, acked, told, held, lossOf, unmarked,
                   failures>>

Reader == Push \/ RouteGranted \/ RouteHold \/ RouteShed \/ RouteErr
            \/ SendToView \/ SendRefused \/ Eof \/ Finish \/ SendEnd

-----------------------------------------------------------------------------
(* kill_session: the dead flag, the signals, then flow.stop().             *)

FaultyClose ==                \* signals without marking the session dead
    /\ listed /\ closing = "no"
    /\ closing' = "signalled"
    /\ UNCHANGED <<flow, written, detachedAt, lock, slot, reader, dead, listed,
                   killed, calls, viewVars, shown, acked, told, ghosts>>

Close ==
    /\ listed /\ closing = "no"
    /\ dead' = TRUE /\ closing' = "signalled"
    /\ UNCHANGED <<flow, written, detachedAt, lock, slot, reader, listed, killed,
                   calls, viewVars, shown, acked, told, ghosts>>

FaultyCloseStop ==            \* leaves the flow running
    /\ closing = "signalled"
    /\ closing' = "stopped"
    /\ UNCHANGED <<flow, written, detachedAt, lock, slot, reader, dead, listed,
                   killed, calls, viewVars, shown, acked, told, ghosts>>

CloseStop ==
    /\ closing = "signalled"
    /\ Stop
    /\ closing' = "stopped"
    /\ UNCHANGED <<written, detachedAt, lock, slot, reader, dead, listed, killed,
                   calls, viewVars, shown, acked, told, ghosts>>

-----------------------------------------------------------------------------
(* let_go: the flow first, then, with the ring's lock, the mark.           *)

Available == listed /\ ~dead

\* flow.is_detached() under the ring's lock, then Ring.detached().
Mark ==
    /\ lock = "free"
    /\ detachedAt' = IF flow.detached /\ detachedAt = NoMark THEN written
                     ELSE detachedAt

FaultyDetachFlow(d) ==        \* waits for the ring before it tells the flow
    /\ calls[d] = "idle" /\ Available
    /\ calls' = [calls EXCEPT ![d] = "marking"]
    /\ UNCHANGED <<flow, detachedAt, lock, slot, readerVars, viewVars, shown, acked,
                   told, ghosts>>

DetachFlow(d) ==
    /\ calls[d] = "idle" /\ Available
    /\ Detach
    /\ calls' = [calls EXCEPT ![d] = "marking"]
    /\ UNCHANGED <<detachedAt, lock, slot, readerVars, viewVars, shown, acked, told,
                   ghosts>>

MarkRing(d) ==
    /\ calls[d] = "marking"
    /\ Mark
    /\ calls' = [calls EXCEPT ![d] = "returned"]
    /\ UNCHANGED <<flow, lock, slot, readerVars, viewVars, shown, acked, told,
                   ghosts>>

-----------------------------------------------------------------------------
(* Takeover::hand_to, for attach_session and attach_tracked_session.       *)

Goes(v, to) == takeover' = [takeover EXCEPT ![v] = to]

\* Not forced: refused at once if a view holds the session.
Ask(v) ==
    /\ takeover[v] = "new" /\ Available
    /\ Goes(v, IF flow.detached THEN "locking" ELSE "refused")
    /\ UNCHANGED <<flow, detachedAt, lock, slot, readerVars, calls, next, reported,
                   broken, shown, acked, told, ghosts>>

\* Forced: taken from a view that still holds it.
ForceDetach(v) ==
    /\ takeover[v] = "new" /\ Available
    /\ Detach
    /\ Goes(v, "marking")
    /\ UNCHANGED <<detachedAt, lock, slot, readerVars, calls, next, reported, broken,
                   shown, acked, told, ghosts>>

ForceMark(v) ==
    /\ takeover[v] = "marking"
    /\ Mark
    /\ Goes(v, "locking")
    /\ UNCHANGED <<flow, lock, slot, readerVars, calls, next, reported, broken, shown,
                   acked, told, ghosts>>

FaultyTakeFlow(v) ==          \* does not wait for the ring's lock
    /\ takeover[v] = "locking"
    /\ Attach
    /\ lock' = v /\ Goes(v, "attached")
    /\ UNCHANGED <<detachedAt, slot, readerVars, calls, next, reported, broken, shown,
                   acked, told, ghosts>>

\* The ring is locked and flow.attach() answers.
TakeFlow(v) ==
    /\ takeover[v] = "locking" /\ lock = "free"
    /\ Attach
    /\ lock' = v /\ Goes(v, "attached")
    /\ UNCHANGED <<detachedAt, slot, readerVars, calls, next, reported, broken, shown,
                   acked, told, ghosts>>

TakeRefused(v) ==
    /\ takeover[v] = "locking" /\ lock = "free"
    /\ ~Attachable
    /\ Goes(v, "refused")
    /\ UNCHANGED <<flow, detachedAt, lock, slot, readerVars, calls, next, reported,
                   broken, shown, acked, told, ghosts>>

FaultyLostWhileDetached ==     \* counts what the ring kept as lost too
    LET produced == IF detachedAt = NoMark THEN 0 ELSE written - detachedAt
        kept == written - FirstKept + 1
    IN  IF produced > kept THEN produced ELSE 0

\* Chunks counted since the mark that the ring no longer keeps.
LostWhileDetached ==
    LET produced == IF detachedAt = NoMark THEN 0 ELSE written - detachedAt
        kept == written - FirstKept + 1
    IN  IF produced > kept THEN produced - kept ELSE 0

HeldAndGone == {c \in held : c < FirstKept}

\* The slot is the new view's, the ring is told, the loss is reported.
Replace(v) ==
    /\ takeover[v] = "attached"
    /\ slot' = v
    /\ detachedAt' = NoMark
    /\ reported' = [reported EXCEPT ![v] = LostWhileDetached]
    /\ next' = [next EXCEPT ![v] = FirstKept]
    /\ Goes(v, "replaying")
    /\ lossOf' = [lossOf EXCEPT ![v] = Cardinality(HeldAndGone)]
    /\ unmarked' = [unmarked EXCEPT ![v] = Cardinality(
           {c \in HeldAndGone : detachedAt = NoMark \/ c <= detachedAt})]
    /\ held' = {}
    /\ UNCHANGED <<flow, lock, readerVars, calls, broken, shown, acked, told, cutOff,
                   failures>>

FaultyReplayReserve(v) ==     \* replays without asking for credit
    /\ takeover[v] = "replaying" /\ next[v] <= written
    /\ Goes(v, "replay sending")
    /\ UNCHANGED <<flow, detachedAt, lock, slot, readerVars, calls, next, reported,
                   broken, shown, acked, told, ghosts>>

ReplayReserve(v) ==
    /\ takeover[v] = "replaying" /\ next[v] <= written
    /\ ReserveDeliver(1) \/ ReserveResume(1)
    /\ Goes(v, "replay sending")
    /\ UNCHANGED <<detachedAt, lock, slot, readerVars, calls, next, reported, broken,
                   shown, acked, told, ghosts>>

ReplaySend(v) ==
    /\ takeover[v] = "replay sending"
    /\ Deliver(v, next[v])
    /\ next' = [next EXCEPT ![v] = @ + 1]
    /\ Goes(v, "replaying")
    /\ UNCHANGED <<flow, detachedAt, lock, slot, readerVars, calls, reported, broken,
                   acked, told, ghosts>>

Release(v) == lock' = "free" /\ Goes(v, "holding")

\* The transport refused: shed, and the rest of the replay is not sent.
ReplayRefused(v) ==
    /\ takeover[v] = "replay sending" /\ failures < MaxFailures
    /\ failures' = failures + 1
    /\ Shed(1)
    /\ broken' = broken \cup {v}
    /\ Release(v)
    /\ UNCHANGED <<detachedAt, slot, readerVars, calls, next, reported, shown, acked,
                   told, held, lossOf, unmarked, cutOff>>

\* All replayed, or Hold or Err: the view went away, or the session ended.
\* (ReplayFits: a live replay is never shed, so it has no other way to stop.)
ReplayDone(v) ==
    /\ takeover[v] = "replaying"
    /\ next[v] > written \/ ~Live
    /\ Release(v)
    /\ UNCHANGED <<flow, detachedAt, slot, readerVars, calls, next, reported, broken,
                   shown, acked, told, ghosts>>

Takeover(v) ==
    TakeFlow(v) \/ TakeRefused(v) \/ Replace(v) \/ ReplayReserve(v)
        \/ ReplaySend(v) \/ ReplayRefused(v) \/ ReplayDone(v) \/ ForceMark(v)

-----------------------------------------------------------------------------
(* A view, current or replaced, acknowledges a chunk it was shown.  What   *)
(* the flow refuses changes nothing.                                       *)

ChunksShown(v) == Cardinality({i \in DOMAIN shown[v] : shown[v][i] # EndMarker})

Ack(v) ==
    /\ listed /\ acked[v] < ChunksShown(v)
    /\ Acknowledge(1)
    /\ acked' = [acked EXCEPT ![v] = @ + 1]
    /\ UNCHANGED <<detachedAt, lock, slot, readerVars, calls, viewVars, shown, told,
                   ghosts>>

Next ==
    \/ Reader \/ Close \/ CloseStop
    \/ \E d \in Detachers : DetachFlow(d) \/ MarkRing(d)
    \/ \E v \in Views : Ask(v) \/ ForceDetach(v) \/ Takeover(v) \/ Ack(v)

Spec == Init /\ [][Next]_vars

(* Fairness.  Every thread keeps running its own straight-line code, and a *)
(* killed or finished child does reach the end of its terminal.  Nothing   *)
(* is assumed of the program's printing, of views acknowledging, of users  *)
(* closing, or of the stall deadline (RouteShed is not fair): what is to   *)
(* happen must not depend on a view's good will, nor on a timeout.         *)
Fairness ==
    /\ WF_vars(RouteGranted) /\ WF_vars(RouteHold) /\ WF_vars(RouteErr)
    /\ WF_vars(SendToView)
    /\ WF_vars(Eof /\ dead) /\ WF_vars(Finish) /\ WF_vars(SendEnd)
    /\ WF_vars(CloseStop)
    /\ \A d \in Detachers : WF_vars(MarkRing(d))
    /\ \A v \in Views : WF_vars(Takeover(v))

FairSpec == Spec /\ Fairness

-----------------------------------------------------------------------------
(* Properties.                                                             *)

TypeOK ==
    /\ flow \in FlowType
    /\ written \in Nat /\ detachedAt \in Nat \cup {NoMark}
    /\ lock \in Views \cup {"free", "reader"} /\ slot \in Views
    /\ reader \in {"reading", "routing", "sending", "reaping", "finished", "ended"}
    /\ dead \in BOOLEAN /\ listed \in BOOLEAN /\ killed \in BOOLEAN
    /\ closing \in {"no", "signalled", "stopped"}
    /\ calls \in [Detachers -> {"idle", "marking", "returned"}]
    /\ takeover \in [Views -> {"new", "refused", "marking", "locking", "attached",
                               "replaying", "replay sending", "holding"}]
    /\ shown \in [Views -> Seq(Nat)]
    /\ told \subseteq Views /\ broken \subseteq Views /\ cutOff \subseteq Views

(* A view is shown chunks in the order they were printed, none twice: the  *)
(* replay of a takeover and the reader's live output never interleave.     *)
ShownInOrder ==
    \A v \in Views : \A i, j \in DOMAIN shown[v] :
        i < j /\ shown[v][i] # EndMarker /\ shown[v][j] # EndMarker
            => shown[v][i] < shown[v][j]

(* A chunk missing between two that a view was shown was skipped while     *)
(* that view lagged, and the view has been told, or was the rest of a      *)
(* replay whose send the transport refused.                                *)
NoSilentGap ==
    \A v \in Views : \A i \in DOMAIN shown[v] :
        i > 1 /\ shown[v][i - 1] # EndMarker /\ shown[v][i] > shown[v][i - 1] + 1
            => v \in told \cup broken

(* What a view is told was lost while nobody held the session is never     *)
(* more than was lost, and falls short by no more than what was held       *)
(* before let_go could mark the ring.                                      *)
LossAccounted ==
    \A v \in Views : /\ reported[v] <= lossOf[v]
                     /\ lossOf[v] <= reported[v] + unmarked[v]

(* What the ring keeps fits the fresh window: a replay to a view that is   *)
(* still there has the credit for all that is left of it and is not being  *)
(* shed, so hand_to, which holds the ring's lock, never waits in reserve.  *)
ReplayFits ==
    \A v \in Views :
        takeover[v] = "replaying" /\ Live /\ next[v] <= written
            => ~flow.shedding /\ ~Overfull(written - next[v] + 1)

(* However slow, absent or broken its view, a process is never ended over  *)
(* its output: reserve fails only once something else is ending it.        *)
NeverKilledForOutput == ~killed

(* The marker is the last message of a channel, unless the view was still  *)
(* being replayed to when the session ended.                               *)
EndIsLast ==
    \A v \in Views \ cutOff : \A i \in DOMAIN shown[v] :
        shown[v][i] = EndMarker => i = Len(shown[v])

TakenOver == \E v \in Views \ {FirstView} :
    takeover[v] \in {"attached", "replaying", "replay sending", "holding"}

(* A call that takes a view away returns, though the reader may be waiting *)
(* on that view's credit with the ring locked, and without its deadline:   *)
(* unless a new view takes the session over meanwhile, and it too stalls.  *)
LetGoReturns ==
    /\ \A d \in Detachers : calls[d] = "marking" ~> calls[d] = "returned" \/ TakenOver
    /\ \A v \in Views : takeover[v] = "marking" ~> takeover[v] # "marking" \/ TakenOver

(* A close always reaches the end marker and the exit, though the reader   *)
(* is waiting for credit no view will repay.                               *)
CloseEnds == closing # "no" ~> reader = "ended"

(* The claim of docs/TERMINAL_HOST.md: when more was printed while         *)
(* detached than the ring kept, the view is told.                          *)
LossIsReported == \A v \in Views : lossOf[v] > 0 => reported[v] > 0

(* The claim of sink.rs: the marker comes after the session's last byte.   *)
EndFollowsEveryByte ==
    \A v \in Views : \A i \in DOMAIN shown[v] :
        shown[v][i] = EndMarker => i = Len(shown[v])

=============================================================================
