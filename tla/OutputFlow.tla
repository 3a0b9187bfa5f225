----------------------------- MODULE OutputFlow -----------------------------
(***************************************************************************)
(* The credit window between one terminal session and the view showing it  *)
(* (src-tauri/src/terminal/flow.rs).                                       *)
(*                                                                         *)
(* A reserver (the session's reader thread, or a takeover's replay) asks   *)
(* for credit before it sends bytes; the view repays what it was sent.     *)
(* This module is the translation of flow.rs alone: the state behind its   *)
(* mutex and, for each method, what one call does under that mutex.  The   *)
(* state machines that call it (OutputCredit, TerminalOutput) EXTEND it.   *)
(*                                                                         *)
(* `reserve` blocks on a condition variable while the window is full.      *)
(* Blocking is an action that is not enabled: a reserver in the wait loop  *)
(* has none of the Reserve actions but ReserveStall (its deadline passes)  *)
(* until an acknowledgement, a detach or a stop enables another.           *)
(*                                                                         *)
(* Here and in the other modules a definition named Faulty... is a variant *)
(* of the one below it with a plausible bug.  No specification uses it: it *)
(* shows that a property would catch that bug.                             *)
(***************************************************************************)
EXTENDS Naturals

CONSTANT Window            \* OUTPUT_WINDOW: bytes sent and not yet repaid, at most

ASSUME WindowAssumption == Window \in Nat \ {0}

VARIABLE flow              \* the State behind OutputFlow's mutex

ResumeAt == Window \div 2

FlowType ==
    [pending   : 0..Window,     \* bytes reserved and not repaid
     uncertain : 0..Window,     \* credit of failed emits, repayable but not awaited
     stopped   : BOOLEAN,
     detached  : BOOLEAN,       \* no view holds the session
     shedding  : BOOLEAN,       \* the view is behind: chunks are dropped
     lagged    : BOOLEAN]       \* this view has shed before

FlowInit ==
    flow = [pending |-> 0, uncertain |-> 0, stopped |-> FALSE,
            detached |-> FALSE, shedding |-> FALSE, lagged |-> FALSE]

Smaller(a, b) == IF a <= b THEN a ELSE b

Live == ~flow.stopped /\ ~flow.detached

Overfull(n) == flow.pending + n > Window

-----------------------------------------------------------------------------
(* reserve(bytes, timeout): one action per way it returns.                 *)

\* Err: the chunk can never fit, or the flow was stopped.
ReserveErr(n) ==
    /\ n > Window \/ flow.stopped
    /\ UNCHANGED flow

\* Route::Hold.  Also how a waiter returns when a detach wakes it.
ReserveHold(n) ==
    /\ n <= Window
    /\ ~flow.stopped /\ flow.detached
    /\ UNCHANGED flow

\* Route::Shed { began: false }: behind, and not caught up yet.
ReserveDrop(n) ==
    /\ n <= Window /\ Live /\ flow.shedding
    /\ flow.pending > ResumeAt \/ Overfull(n)
    /\ UNCHANGED flow

\* Route::Resume: the view has repaid down to the mark.
ReserveResume(n) ==
    /\ n <= Window /\ Live /\ flow.shedding
    /\ flow.pending <= ResumeAt /\ ~Overfull(n)
    /\ flow' = [flow EXCEPT !.shedding = FALSE, !.pending = @ + n]

\* Route::Deliver, at once or after waiting for credit.
ReserveDeliver(n) ==
    /\ n <= Window /\ Live /\ ~flow.shedding
    /\ ~Overfull(n)
    /\ flow' = [flow EXCEPT !.pending = @ + n]

\* Route::Shed { began: true }: the window stayed full past the deadline.
ReserveStall(n) ==
    /\ n <= Window /\ Live /\ ~flow.shedding
    /\ Overfull(n)
    /\ flow' = [flow EXCEPT !.shedding = TRUE, !.lagged = TRUE]

-----------------------------------------------------------------------------
(* The other methods.                                                      *)

Detach ==
    flow' = [flow EXCEPT !.detached = TRUE, !.shedding = FALSE,
                         !.lagged = FALSE, !.pending = 0, !.uncertain = 0]

Attachable == flow.detached /\ ~flow.stopped

\* attach() returning true; when it returns false it changes nothing.
Attach ==
    /\ Attachable
    /\ flow' = [flow EXCEPT !.detached = FALSE, !.shedding = FALSE,
                            !.lagged = FALSE, !.pending = 0, !.uncertain = 0]

\* What shed(n) takes out of the outstanding window.
Released(n) == Smaller(n, flow.pending)

FaultyShed(n) ==              \* keeps the credit outstanding as well
    flow' = IF Live
            THEN [flow EXCEPT !.uncertain = Smaller(@ + Released(n), Window),
                              !.shedding = TRUE, !.lagged = TRUE]
            ELSE flow

FaultyShedForgets(n) ==       \* a failed send is never repayable
    flow' = IF Live
            THEN [flow EXCEPT !.pending = @ - Released(n),
                              !.shedding = TRUE, !.lagged = TRUE]
            ELSE flow

\* shed(n): a reserved chunk could not be sent.
Shed(n) ==
    flow' = IF Live
            THEN [flow EXCEPT
                    !.pending   = @ - Released(n),
                    !.uncertain = Smaller(@ + Released(n), Window),
                    !.shedding  = TRUE,
                    !.lagged    = TRUE]
            ELSE flow

\* shed(n) returning true: this call is the one that began the shedding.
ShedBegins == Live /\ ~flow.shedding

Acceptable(n) == n > 0 /\ n <= flow.pending + flow.uncertain

FromUncertain(n) == Smaller(n, flow.uncertain)

\* acknowledge(n) returning Ok; a refused one changes nothing.
Acknowledge(n) ==
    /\ Acceptable(n)
    /\ flow' = [flow EXCEPT !.uncertain = @ - FromUncertain(n),
                            !.pending   = @ - (n - FromUncertain(n))]

Stop == flow' = [flow EXCEPT !.stopped = TRUE]

=============================================================================
