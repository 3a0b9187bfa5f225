---------------------------- MODULE OutputCredit ----------------------------
(***************************************************************************)
(* The credit protocol of flow.rs as its callers drive it: what the window *)
(* counts against what the view really owes.                               *)
(*                                                                         *)
(* One reserver at a time: `deliver` (the reader) and `hand_to` (a replay) *)
(* both hold the session's ring lock from the reservation to the send, and *)
(* `hand_to` calls `attach` under the same lock.  Everything else (detach, *)
(* stop, acknowledgements) comes at any moment, between the reservation    *)
(* and the send included.                                                  *)
(*                                                                         *)
(* An acknowledgement names the session, not the view, so one that a       *)
(* replaced page sent late reaches the window of the page that replaced    *)
(* it.  `owed`, `stale`, `lost`, `late`, `capped`, `sends` and `attaches`  *)
(* are not in the code: they record what happened for the properties, and  *)
(* the last two bound the runs.                                            *)
(***************************************************************************)
EXTENDS OutputFlow

CONSTANTS
    Chunks,             \* sizes a reserver asks for
    Acks,               \* sizes a view acknowledges at once
    MaxSends,           \* bound: chunks sent, or failed, to one view
    MaxAttaches         \* bound: takeovers

ASSUME ChunksAssumption == Chunks \subseteq Nat \ {0}
ASSUME AcksAssumption == Acks \subseteq Nat
ASSUME BoundsAssumption == MaxSends \in Nat /\ MaxAttaches \in Nat

VARIABLES
    send,       \* the reserver's send: "none", "started", or "arrived" at its view
    chunk,      \* size of the chunk it is for
    owed,       \* bytes the view holding the session got and did not repay
    stale,      \* bytes views before it got and did not repay
    lost,       \* bytes of failed sends this view never got
    late,       \* bytes this view's window accepted from views before it
    capped,     \* uncertain credit dropped at the cap since the attach
    sends,      \* chunks sent, or failed, to this view
    attaches    \* takeovers so far

ledger == <<owed, stale, lost, late, capped>>
bounds == <<sends, attaches>>
creditVars == <<flow, send, chunk, owed, stale, lost, late, capped, sends, attaches>>

CreditInit ==
    /\ FlowInit
    /\ send = "none" /\ chunk = 0
    /\ owed = 0 /\ stale = 0 /\ lost = 0 /\ late = 0 /\ capped = 0
    /\ sends = 0 /\ attaches = 0

Idle == send = "none"

\* Bytes reserved in the holding view's window that have not reached it.
InFlight == IF send = "started" /\ ~flow.detached THEN chunk ELSE 0

-----------------------------------------------------------------------------
(* The reserver.                                                           *)

\* Credit is granted: the chunk is now to be sent.
Reserve(n) ==
    /\ Idle /\ sends < MaxSends
    /\ ReserveDeliver(n) \/ ReserveResume(n)
    /\ send' = "started" /\ chunk' = n
    /\ UNCHANGED <<ledger, bounds>>

\* Credit is not granted: the chunk is held, dropped, or ends the session.
Decline(n) ==
    /\ Idle
    /\ ReserveErr(n) \/ ReserveHold(n) \/ ReserveDrop(n) \/ ReserveStall(n)
    /\ UNCHANGED <<send, chunk, ledger, bounds>>

\* The chunk reaches the view it is sent to: the holding one, or, after a
\* detach, the one that let go.
Arrive ==
    /\ send = "started"
    /\ send' = "arrived"
    /\ IF flow.detached
       THEN stale' = stale + chunk /\ UNCHANGED owed
       ELSE owed' = owed + chunk /\ UNCHANGED stale
    /\ UNCHANGED <<flow, chunk, lost, late, capped, bounds>>

SendDone ==
    /\ send' = "none" /\ chunk' = 0
    /\ sends' = sends + 1
    /\ UNCHANGED attaches

\* The send returned Ok.
SendOk ==
    /\ send = "arrived"
    /\ SendDone
    /\ UNCHANGED <<flow, ledger>>

Overshoot(n) ==
    IF Live /\ flow.uncertain + Released(n) > Window
    THEN flow.uncertain + Released(n) - Window ELSE 0

\* The send returned Err, whether or not the view got the chunk: shed it.
SendErr ==
    /\ ~Idle
    /\ Shed(chunk)
    /\ capped' = capped + Overshoot(chunk)
    /\ lost' = lost + InFlight
    /\ SendDone
    /\ UNCHANGED <<owed, stale, late>>

-----------------------------------------------------------------------------
(* The view, and the views before it.  A refused acknowledgement changes   *)
(* nothing, so it has no action: the debt it was for stays owed.           *)

\* The view repays bytes it got.
AckOwn(n) ==
    /\ ~flow.detached /\ n <= owed
    /\ Acknowledge(n)
    /\ owed' = owed - n
    /\ UNCHANGED <<send, chunk, stale, lost, late, capped, bounds>>

\* A view that let go repays bytes it got, after the session was taken over.
AckLate(n) ==
    /\ n <= stale
    /\ Acknowledge(n)
    /\ stale' = stale - n
    /\ late' = late + n
    /\ UNCHANGED <<send, chunk, owed, lost, capped, bounds>>

\* The view lets go (a reload, a closed tab, a forced takeover).
LetGo ==
    /\ Detach
    /\ stale' = stale + owed
    /\ owed' = 0 /\ lost' = 0 /\ late' = 0 /\ capped' = 0
    /\ UNCHANGED <<send, chunk, bounds>>

\* A new view takes the session over, holding the ring lock.
TakeOver ==
    /\ Idle /\ attaches < MaxAttaches
    /\ Attach
    /\ attaches' = attaches + 1 /\ sends' = 0
    /\ UNCHANGED <<send, chunk, ledger>>

StopFlow ==
    /\ Stop
    /\ UNCHANGED <<send, chunk, ledger, bounds>>

CreditNext ==
    \/ \E n \in Chunks : Reserve(n) \/ Decline(n)
    \/ Arrive \/ SendOk \/ SendErr
    \/ \E n \in Acks : AckOwn(n) \/ AckLate(n)
    \/ LetGo \/ TakeOver \/ StopFlow

CreditSpec == CreditInit /\ [][CreditNext]_creditVars

-----------------------------------------------------------------------------
(* Properties.                                                             *)

CreditTypeOK ==
    /\ flow \in FlowType
    /\ send \in {"none", "started", "arrived"} /\ chunk \in Nat
    /\ owed \in Nat /\ stale \in Nat /\ lost \in Nat
    /\ late \in Nat /\ capped \in Nat
    /\ sends \in Nat /\ attaches \in Nat

(* Credit is neither invented nor mislaid: while a view holds the session, *)
(* what the window can still be repaid, plus what it was repaid by views   *)
(* before and what the cap dropped, is what this view owes, what is on its *)
(* way to it, and what failed sends cost.  Every way reserve, shed and     *)
(* acknowledge adjust the two counters goes into this one sum.             *)
CreditConserved ==
    ~flow.detached =>
        flow.pending + flow.uncertain + late + capped = owed + InFlight + lost

(* A view that repays what it got is refused only on account of a late     *)
(* acknowledgement of an older view, or of the cap on uncertain credit.    *)
HonestAckAccepted ==
    ~flow.detached /\ late = 0 /\ capped = 0 => owed <= flow.pending + flow.uncertain

(* With no failed send, a view that repaid everything finds the window     *)
(* empty: nothing it did not owe keeps it waiting or shedding.             *)
RepaidWindowIsEmpty ==
    ~flow.detached /\ owed = 0 /\ InFlight = 0 /\ lost = 0
        => flow.pending = 0 /\ flow.uncertain = 0

(* The window of a session nobody holds is empty, so nothing waits on it.  *)
DetachForgives ==
    flow.detached => flow.pending = 0 /\ flow.uncertain = 0 /\ ~flow.shedding

(* The inductive invariant behind the four above: a takeover starts from   *)
(* an empty ledger because letting go emptied it.                          *)
LedgerCleared ==
    flow.detached => owed = 0 /\ lost = 0 /\ late = 0 /\ capped = 0

CreditInv == CreditTypeOK /\ CreditConserved /\ DetachForgives /\ LedgerCleared

(* The claim of the comments on `uncertain` and on `shed` in flow.rs: the  *)
(* credit of a chunk the view never got cannot hold the window shut.  So a *)
(* view that repaid everything is not still being shed above the mark.     *)
FailedSendsDoNotShutTheWindow ==
    flow.shedding /\ owed = 0 /\ Idle /\ late = 0 => flow.pending <= ResumeAt

=============================================================================
