----------------------------- MODULE HostExits -----------------------------
(***************************************************************************)
(* How the exit of a hosted terminal session comes to be recorded, once    *)
(* and for what it was: the terminal host, its receipts on disk, and the   *)
(* app's client of it (src-tauri/src/terminal/host/{client,server,         *)
(* receipts}.rs), and the store's refusals (workbench/{terminal_run,        *)
(* receipts}.rs).                                                          *)
(*                                                                         *)
(* The host reaps a session, takes it out of its registry, writes its exit *)
(* to disk and tells the app.  The app learns of an exit from that frame,  *)
(* from the receipts it reads when it connects, or by finding neither list *)
(* nor receipt accounting for a session it knew.  Whoever learns of it     *)
(* runs record_exit; the host then forgets its receipt, though the store   *)
(* may have refused the exit: refused, it is journaled for the next        *)
(* reconciliation, if the journal takes it.  Sessions start, and the       *)
(* connection, the host and the app fail, at any moment.                   *)
(*                                                                         *)
(* One action is what a thread does under one lock, or between two calls   *)
(* to the host.  A session is the terminal of a task run: one without a    *)
(* run has nothing to record.  Which view shows a session (`viewed`, reattach) and its   *)
(* bytes are left out, and so is the limit of REMEMBERED_EXITS ids; a kill *)
(* is one reason among others for a session to end.                        *)
(***************************************************************************)
EXTENDS Naturals

CONSTANTS
    Sessions,       \* session ids; none is used twice
    MaxFaults       \* bound: connections, hosts, apps and store writes lost

ASSUME FaultsAssumption == MaxFaults \in Nat

VARIABLES
    up,             \* the host runs
    asked,          \* Spawn requests the host has not taken up
    forgets,        \* Forget requests the host has not taken up
    session,        \* each session in the host
    receipt,        \* its receipt file: "none", "spawned", or the exit in it
    connected,      \* Inner.conn: the app has a connection
    frames,         \* Exit frames sent and not yet delivered
    spawn,          \* where each spawn call of the app is
    proxy,          \* Inner.proxies: "none", "starting", or "ready"
    deferred,       \* Proxy.deferred_exit
    live,           \* Vouched.live
    held,           \* Vouched.held
    late,           \* Vouched.late
    exited,         \* Vouched.exited
    adopted,        \* Inner.adopted
    adoption,       \* where `adopt` is; there is one at a time (`connecting`)
    listed,         \* sessions in the listing it read
    skipped,        \* those publish_listing returned as exited
    unaccounted,    \* proxies its scan found without a listing
    todo,           \* exits it has still to record
    recording,      \* Inner.recording: claimed by a reporter
    ended,          \* Inner.ended: recorded
    report,         \* where each reporter of each session's exit is
    recordedAs,     \* the exit first recorded (the store outlives the app)
    journal,        \* the exit kept for reconciliation (also on disk)
    unbooked,       \* exits whose bookkeeping left nothing (a history)
    times,          \* observer.finished calls for it by this app
    faults

host == <<up, asked, forgets, session, receipt>>
wire == <<connected, frames>>
spawns == <<spawn, proxy, deferred>>
vouched == <<live, held, late, exited>>
adopter == <<adopted, adoption, listed, skipped, unaccounted, todo>>
claims == <<recording, ended>>
store == <<recordedAs, journal, unbooked, times>>
app == <<spawns, vouched, adopter, claims, report, store>>
outside == <<host, wire, faults>>
vars == <<outside, app>>

Reporters == {"frame", "adopt", "spawn"}
Exits == {"real", "lost"}      \* the status reaped, or HOST_ENDED
NoExit == "no"
Idle == [at |-> "idle", exit |-> NoExit]
Reporting(e) == [at |-> "reporting", exit |-> e]

Places == {"reporting", "recording", "announcing", "forgetting", "clearing"}
ReportStates == {Idle} \cup [at : Places, exit : Exits]

Nothing == [s \in Sessions |-> NoExit]

Init ==
    /\ up = TRUE /\ asked = {} /\ forgets = {}
    /\ session = [s \in Sessions |-> "unborn"]
    /\ receipt = [s \in Sessions |-> "none"]
    /\ connected = FALSE /\ frames = {}
    /\ spawn = [s \in Sessions |-> "new"]
    /\ proxy = [s \in Sessions |-> "none"] /\ deferred = Nothing
    /\ live = FALSE /\ held = {} /\ late = {} /\ exited = {}
    /\ adopted = FALSE /\ adoption = "idle"
    /\ listed = {} /\ skipped = {} /\ unaccounted = {} /\ todo = Nothing
    /\ recording = {} /\ ended = {}
    /\ report = [k \in Reporters |-> [s \in Sessions |-> Idle]]
    /\ recordedAs = Nothing /\ journal = Nothing /\ unbooked = {}
    /\ times = [s \in Sessions |-> 0]
    /\ faults = 0

-----------------------------------------------------------------------------
(* The host.                                                               *)

\* The spawn line is written, the process started; the reply is on its way.
HostStarts(s) ==
    /\ up /\ s \in asked
    /\ asked' = asked \ {s}
    /\ session' = [session EXCEPT ![s] = "running"]
    /\ receipt' = [receipt EXCEPT ![s] = "spawned"]
    /\ UNCHANGED <<up, forgets, wire, app, faults>>

\* The session does not start; its receipt is discarded.
HostRefuses(s) ==
    /\ up /\ s \in asked
    /\ asked' = asked \ {s}
    /\ spawn' = [spawn EXCEPT ![s] = IF @ = "asking" THEN "failing" ELSE @]
    /\ UNCHANGED <<up, forgets, session, receipt, wire, proxy, deferred,
                   vouched, adopter, claims, report, store, faults>>

\* It ends, is reaped, and leaves the registry.
HostReaps(s) ==
    /\ up /\ session[s] = "running"
    /\ session' = [session EXCEPT ![s] = "reaped"]
    /\ UNCHANGED <<up, asked, forgets, receipt, wire, app, faults>>

\* HostEvents::exit: on disk before anyone is told.  The first exit in a
\* receipt is the one read back.
HostWrites(s) ==
    /\ up /\ session[s] = "reaped"
    /\ session' = [session EXCEPT ![s] = "written"]
    /\ receipt' = [receipt EXCEPT ![s] = IF @ \in Exits THEN @ ELSE "real"]
    /\ UNCHANGED <<up, asked, forgets, wire, app, faults>>

HostTells(s) ==
    /\ up /\ session[s] = "written"
    /\ session' = [session EXCEPT ![s] = "over"]
    /\ frames' = IF connected THEN frames \cup {s} ELSE frames
    /\ UNCHANGED <<up, asked, forgets, receipt, connected, app, faults>>

HostForgets(s) ==
    /\ up /\ s \in forgets
    /\ forgets' = forgets \ {s}
    /\ receipt' = [receipt EXCEPT ![s] = "none"]
    /\ UNCHANGED <<up, asked, session, wire, app, faults>>

\* start_host; the new host's `recover` closes the receipts left open.
StartHost ==
    /\ ~up /\ ~connected /\ adoption = "idle"
    /\ up' = TRUE
    /\ receipt' = [s \in Sessions |->
                      IF receipt[s] = "spawned" THEN "lost" ELSE receipt[s]]
    /\ UNCHANGED <<asked, forgets, session, wire, app, faults>>

-----------------------------------------------------------------------------
(* record_exit, run by a reporter k: the thread of an Exit frame, an       *)
(* adoption, or a spawn call with a deferred exit.                         *)

NoteEnded(s) ==
    /\ held' = held \ {s} /\ late' = late \ {s} /\ exited' = exited \cup {s}
    /\ UNCHANGED live

Goes(k, s, to) == report' = [report EXCEPT ![k][s].at = to]
Done(k, s) == report' = [report EXCEPT ![k][s] = Idle]

FaultyDefer(k, s) ==          \* drops the exit instead of keeping it
    /\ report[k][s].at = "reporting" /\ proxy[s] = "starting"
    /\ Done(k, s)
    /\ UNCHANGED <<outside, spawns, vouched, adopter, claims, store>>

\* Its start is not recorded yet: the exit waits for the spawn call.
Defer(k, s) ==
    /\ report[k][s].at = "reporting" /\ proxy[s] = "starting"
    /\ deferred' = [deferred EXCEPT ![s] = report[k][s].exit]
    /\ Done(k, s)
    /\ UNCHANGED <<outside, spawn, proxy, vouched, adopter, claims, store>>

FaultyYieldClaim(k, s) ==     \* a second reporter also has the host forget it
    /\ report[k][s].at = "reporting" /\ proxy[s] # "starting" /\ s \in recording
    /\ Goes(k, s, "clearing")
    /\ UNCHANGED <<outside, spawns, vouched, adopter, claims, store>>

\* ExitClaim::Recording: another reporter is on it.
YieldClaim(k, s) ==
    /\ report[k][s].at = "reporting" /\ proxy[s] # "starting" /\ s \in recording
    /\ Done(k, s)
    /\ UNCHANGED <<outside, spawns, vouched, adopter, claims, store>>

\* ExitClaim::Recorded: only the proxy and the host's copy go.
KnownAlready(k, s) ==
    /\ report[k][s].at = "reporting" /\ proxy[s] # "starting"
    /\ s \notin recording /\ s \in ended
    /\ proxy' = [proxy EXCEPT ![s] = "none"]
    /\ Goes(k, s, "clearing")
    /\ UNCHANGED <<outside, spawn, deferred, vouched, adopter, claims, store>>

FaultyClaim(k, s) ==          \* looks only at claims in progress
    /\ report[k][s].at = "reporting" /\ proxy[s] # "starting"
    /\ s \notin recording
    /\ recording' = recording \cup {s}
    /\ Goes(k, s, "recording")
    /\ UNCHANGED <<outside, spawns, vouched, adopter, ended, store>>

\* ExitClaim::Mine.
Claim(k, s) ==
    /\ report[k][s].at = "reporting" /\ proxy[s] # "starting"
    /\ s \notin recording /\ s \notin ended
    /\ recording' = recording \cup {s}
    /\ Goes(k, s, "recording")
    /\ UNCHANGED <<outside, spawns, vouched, adopter, ended, store>>

\* What a run's first ending is stays; a repeated one is answered, not written.
Records(s, e) == recordedAs' = [recordedAs EXCEPT ![s] = IF @ = NoExit THEN e ELSE @]

\* The bookkeeping is over, whatever became of it, and record_exit goes on.
Booked(k, s) ==
    /\ report[k][s].at = "recording"
    /\ Goes(k, s, "announcing")
    /\ UNCHANGED <<host, wire, spawns, vouched, adopter, claims>>

Observed(s) == times' = [times EXCEPT ![s] = @ + 1]

\* observer.finished: the store takes it, and the journal's copy is retired.
Finish(k, s) ==
    /\ Booked(k, s) /\ Observed(s)
    /\ Records(s, report[k][s].exit)
    /\ journal' = [journal EXCEPT ![s] = NoExit]
    /\ UNCHANGED <<unbooked, faults>>

\* The store refuses it; it is kept on disk for the next reconciliation.
Refused(k, s) ==
    /\ faults < MaxFaults /\ faults' = faults + 1
    /\ Booked(k, s) /\ Observed(s)
    /\ journal' = [journal EXCEPT ![s] = report[k][s].exit]
    /\ UNCHANGED <<recordedAs, unbooked>>

\* Nothing is kept: the journal fails as well, or `finished` panics (which is
\* caught), or there is no observer, since the proxy has none and the store
\* cannot be read for one.  The exit is announced and forgotten all the same.
Unbooked(k, s) ==
    /\ faults < MaxFaults /\ faults' = faults + 1
    /\ Booked(k, s) /\ (Observed(s) \/ UNCHANGED times)
    /\ unbooked' = unbooked \cup {s}
    /\ UNCHANGED <<recordedAs, journal>>

\* The proxy goes and the exit is announced.
Announce(k, s) ==
    /\ report[k][s].at = "announcing"
    /\ proxy' = [proxy EXCEPT ![s] = "none"]
    /\ Goes(k, s, "forgetting")
    /\ UNCHANGED <<outside, spawn, deferred, vouched, adopter, claims, store>>

\* The host may forget it; then the claim, if any, is dropped.
Forget(k, s) ==
    /\ report[k][s].at \in {"forgetting", "clearing"}
    /\ forgets' = IF connected THEN forgets \cup {s} ELSE forgets
    /\ IF report[k][s].at = "forgetting"
       THEN recording' = recording \ {s} /\ ended' = ended \cup {s}
       ELSE UNCHANGED claims
    /\ Done(k, s)
    /\ UNCHANGED <<up, asked, session, receipt, wire, spawns, vouched,
                   adopter, store, faults>>

RecordExit(k, s) ==
    Defer(k, s) \/ YieldClaim(k, s) \/ KnownAlready(k, s) \/ Claim(k, s)
        \/ Finish(k, s) \/ Refused(k, s) \/ Unbooked(k, s) \/ Announce(k, s) \/ Forget(k, s)

\* receipts::replay, at the start of a reconciliation: a run whose terminal the
\* app still holds, or may hold, is left to its observer (tracks_run).
Replay(s) ==
    /\ journal[s] # NoExit /\ adopted /\ proxy[s] = "none"
    /\ Records(s, journal[s])
    /\ journal' = [journal EXCEPT ![s] = NoExit]
    /\ UNCHANGED <<outside, spawns, vouched, adopter, claims, report, unbooked,
                   times>>

\* An Exit frame reaches delivery: noted there, recorded on its own thread.
DeliverExit(s) ==
    /\ s \in frames
    /\ frames' = frames \ {s}
    /\ NoteEnded(s)
    /\ report' = [report EXCEPT !["frame"][s] = Reporting("real")]
    /\ UNCHANGED <<host, connected, spawns, adopter, claims, store, faults>>

-----------------------------------------------------------------------------
(* HostClient::spawn.                                                      *)

\* The proxy first, then the request: output, and even the exit, can arrive
\* before the reply.
Ask(s) ==
    /\ connected /\ spawn[s] = "new"
    /\ proxy' = [proxy EXCEPT ![s] = "starting"]
    /\ spawn' = [spawn EXCEPT ![s] = "asking"]
    /\ asked' = asked \cup {s}
    /\ UNCHANGED <<up, forgets, session, receipt, wire, deferred, vouched,
                   adopter, claims, report, store, faults>>

Answered(s) ==
    /\ spawn[s] = "asking" /\ session[s] # "unborn"
    /\ spawn' = [spawn EXCEPT ![s] = "answered"]
    /\ UNCHANGED <<outside, proxy, deferred, vouched, adopter, claims,
                   report, store>>

\* SPAWN_DEADLINE passes; the host may start it all the same.
Unanswered(s) ==
    /\ spawn[s] = "asking"
    /\ spawn' = [spawn EXCEPT ![s] = "failing"]
    /\ UNCHANGED <<outside, proxy, deferred, vouched, adopter, claims,
                   report, store>>

FaultyConfirm(s) ==           \* an open adoption is not told
    /\ spawn[s] = "answered"
    /\ held' = IF s \in exited THEN held ELSE held \cup {s}
    /\ spawn' = [spawn EXCEPT ![s] = "confirmed"]
    /\ UNCHANGED <<outside, proxy, deferred, live, late, exited, adopter,
                   claims, report, store>>

\* (A) vouched for, and kept from an adoption whose listing is older.
Confirm(s) ==
    /\ spawn[s] = "answered"
    /\ held' = IF s \in exited THEN held ELSE held \cup {s}
    /\ late' = IF s \in exited \/ adoption = "idle" THEN late ELSE late \cup {s}
    /\ spawn' = [spawn EXCEPT ![s] = "confirmed"]
    /\ UNCHANGED <<outside, proxy, deferred, live, exited, adopter, claims,
                   report, store>>

TakeDeferred(s) ==
    /\ deferred' = [deferred EXCEPT ![s] = NoExit]
    /\ IF deferred[s] = NoExit
       THEN UNCHANGED <<report, vouched>>
       ELSE /\ report' = [report EXCEPT !["spawn"][s] = Reporting(deferred[s])]
            /\ NoteEnded(s)

\* (B) no longer starting; (C) an exit that overtook the reply is recorded.
Started(s) ==
    /\ spawn[s] = "confirmed"
    /\ spawn' = [spawn EXCEPT ![s] = "started"]
    /\ proxy' = [proxy EXCEPT ![s] = IF @ = "starting" THEN "ready" ELSE @]
    /\ TakeDeferred(s)
    /\ UNCHANGED <<outside, adopter, claims, store>>

Failed(s) ==
    /\ spawn[s] = "failing"
    /\ spawn' = [spawn EXCEPT ![s] = "failed"]
    /\ proxy' = [proxy EXCEPT ![s] = "none"]
    /\ TakeDeferred(s)
    /\ UNCHANGED <<outside, adopter, claims, store>>

Spawn(s) == Answered(s) \/ Confirm(s) \/ Started(s) \/ Failed(s)

-----------------------------------------------------------------------------
(* connect and adopt, under the `connecting` lock.                         *)

\* A connection is open, nothing is vouched for on it, the adoption window
\* is open.
Connect ==
    /\ ~connected /\ adoption = "idle" /\ up
    /\ connected' = TRUE /\ live' = FALSE /\ late' = {}
    /\ adoption' = "asking"
    /\ UNCHANGED <<host, frames, spawns, held, exited, adopted, listed,
                   skipped, unaccounted, todo, claims, report, store, faults>>

\* The host answers List.
List ==
    /\ adoption = "asking" /\ connected /\ up
    /\ listed' = {s \in Sessions : session[s] = "running"}
    /\ adoption' = "listed"
    /\ UNCHANGED <<outside, spawns, vouched, adopted, skipped, unaccounted,
                   todo, claims, report, store>>

\* The connection went before the listing was published: nothing is.
AdoptionFails ==
    /\ adoption \in {"asking", "listed"} /\ ~connected
    /\ adoption' = "idle" /\ late' = {} /\ listed' = {}
    /\ UNCHANGED <<outside, spawns, live, held, exited, adopted, skipped,
                   unaccounted, todo, claims, report, store>>

FaultyPublish ==              \* forgets which exits are newer than the listing
    /\ adoption = "listed" /\ connected
    /\ held' = late \cup listed /\ live' = TRUE
    /\ skipped' = {}
    /\ adoption' = "published"
    /\ UNCHANGED <<outside, spawns, late, exited, adopted, listed,
                   unaccounted, todo, claims, report, store>>

\* publish_listing: less the exits reported since, plus the late spawns.
Publish ==
    /\ adoption = "listed" /\ connected
    /\ held' = late \cup (listed \ exited) /\ live' = TRUE
    /\ skipped' = listed \cap exited
    /\ adoption' = "published"
    /\ UNCHANGED <<outside, spawns, late, exited, adopted, listed,
                   unaccounted, todo, claims, report, store>>

MakeProxies ==
    /\ adoption = "published"
    /\ proxy' = [s \in Sessions |->
                    IF proxy[s] = "none" /\ s \in listed \ skipped THEN "ready"
                    ELSE proxy[s]]
    /\ adopted' = TRUE /\ skipped' = {}
    /\ adoption' = "proxied"
    /\ UNCHANGED <<outside, spawn, deferred, vouched, listed, unaccounted,
                   todo, claims, report, store>>

\* The host answers Receipts, or the connection is gone and there are none.
ReadReceipts ==
    /\ adoption = "proxied"
    /\ \/ /\ connected /\ up
          /\ todo' = [s \in Sessions |->
                         IF receipt[s] \in Exits THEN receipt[s] ELSE NoExit]
       \/ ~connected /\ UNCHANGED todo
    /\ adoption' = "receipts"
    /\ UNCHANGED <<outside, spawns, vouched, adopted, listed, skipped,
                   unaccounted, claims, report, store>>

NoneReporting == \A s \in Sessions : report["adopt"][s] = Idle

\* One at a time, on the adoption's own thread.
AdoptExit(s) ==
    /\ adoption \in {"receipts", "gone"} /\ todo[s] # NoExit /\ NoneReporting
    /\ todo' = [todo EXCEPT ![s] = NoExit]
    /\ NoteEnded(s)
    /\ report' = [report EXCEPT !["adopt"][s] = Reporting(todo[s])]
    /\ UNCHANGED <<outside, spawns, adopted, adoption, listed, skipped,
                   unaccounted, claims, store>>

AllAdopted == todo = Nothing /\ NoneReporting

\* The proxies scan, before `late` and `exited` are read.
Scan ==
    /\ adoption = "receipts" /\ AllAdopted
    /\ unaccounted' = {s \in Sessions : proxy[s] = "ready"} \ listed
    /\ adoption' = "scanned"
    /\ UNCHANGED <<outside, spawns, vouched, adopted, listed, skipped, todo,
                   claims, report, store>>

FaultyGiveUp ==               \* ends whatever was not listed
    /\ adoption = "scanned"
    /\ todo' = [s \in Sessions |-> IF s \in unaccounted THEN "lost" ELSE NoExit]
    /\ unaccounted' = {} /\ adoption' = "gone"
    /\ UNCHANGED <<outside, spawns, vouched, adopted, listed, skipped,
                   claims, report, store>>

\* Neither listed, nor confirmed since, nor reported: ended with HOST_ENDED.
GiveUp ==
    /\ adoption = "scanned"
    /\ todo' = [s \in Sessions |->
                   IF s \in unaccounted \ (late \cup exited) THEN "lost" ELSE NoExit]
    /\ unaccounted' = {} /\ adoption' = "gone"
    /\ UNCHANGED <<outside, spawns, vouched, adopted, listed, skipped,
                   claims, report, store>>

Adopted ==
    /\ adoption = "gone" /\ AllAdopted
    /\ adoption' = "idle" /\ late' = {} /\ listed' = {}
    /\ UNCHANGED <<outside, spawns, live, held, exited, adopted, skipped,
                   unaccounted, todo, claims, report, store>>

Adopt == List \/ AdoptionFails \/ Publish \/ MakeProxies \/ ReadReceipts
            \/ Scan \/ GiveUp \/ Adopted \/ \E s \in Sessions : AdoptExit(s)

-----------------------------------------------------------------------------
(* Faults.                                                                 *)

\* `lost`: calls in flight fail.  What was on the wire may have arrived.
LoseConnection ==
    /\ connected /\ faults < MaxFaults
    /\ connected' = FALSE /\ live' = FALSE
    /\ spawn' = [s \in Sessions |-> IF spawn[s] = "asking" THEN "failing" ELSE spawn[s]]
    /\ asked' \in SUBSET asked /\ forgets' \in SUBSET forgets
    /\ frames' \in SUBSET frames
    /\ faults' = faults + 1
    /\ UNCHANGED <<up, session, receipt, proxy, deferred, held, late, exited,
                   adopter, claims, report, store>>

\* Its sessions, and what it had not written, die with the host.
HostDies ==
    /\ up /\ faults < MaxFaults
    /\ up' = FALSE /\ asked' = {} /\ forgets' = {}
    /\ session' = [s \in Sessions |->
          CASE session[s] \in {"running", "reaped"} -> "dead"
            [] session[s] = "written" -> "over"
            [] OTHER -> session[s]]
    /\ connected' = FALSE /\ live' = FALSE
    /\ spawn' = [s \in Sessions |-> IF spawn[s] = "asking" THEN "failing" ELSE spawn[s]]
    /\ frames' \in SUBSET frames
    /\ faults' = faults + 1
    /\ UNCHANGED <<receipt, proxy, deferred, held, late, exited, adopter,
                   claims, report, store>>

\* The app quits or crashes, and is started again: nothing but the host's
\* state and the store is left.
AppRestarts ==
    /\ faults < MaxFaults
    /\ asked' \in SUBSET asked /\ forgets' \in SUBSET forgets
    /\ connected' = FALSE /\ frames' = {}
    /\ spawn' = [s \in Sessions |-> IF spawn[s] = "new" THEN "new" ELSE "failed"]
    /\ proxy' = [s \in Sessions |-> "none"] /\ deferred' = Nothing
    /\ live' = FALSE /\ held' = {} /\ late' = {} /\ exited' = {}
    /\ adopted' = FALSE /\ adoption' = "idle"
    /\ listed' = {} /\ skipped' = {} /\ unaccounted' = {} /\ todo' = Nothing
    /\ recording' = {} /\ ended' = {}
    /\ report' = [k \in Reporters |-> [s \in Sessions |-> Idle]]
    /\ times' = [s \in Sessions |-> 0]
    /\ faults' = faults + 1
    /\ UNCHANGED <<up, session, receipt, recordedAs, journal, unbooked>>

Next ==
    \/ \E s \in Sessions :
         \/ HostStarts(s) \/ HostRefuses(s) \/ HostReaps(s) \/ HostWrites(s)
         \/ HostTells(s) \/ HostForgets(s)
         \/ Ask(s) \/ Unanswered(s) \/ Spawn(s)
         \/ DeliverExit(s) \/ Replay(s)
         \/ \E k \in Reporters : RecordExit(k, s)
    \/ StartHost \/ Connect \/ Adopt
    \/ LoseConnection \/ HostDies \/ AppRestarts

Spec == Init /\ [][Next]_vars

(* Fairness.  Threads of the host and of the app run on, and the app, once *)
(* it has lost the host, connects to it again: by itself a few times, and  *)
(* then whenever anything calls it.  Nothing is assumed of sessions ending *)
(* or of the host answering a Spawn; faults stop only at their bound.      *)
Fairness ==
    /\ \A s \in Sessions :
         /\ WF_vars(HostWrites(s)) /\ WF_vars(HostTells(s))
         /\ WF_vars(Spawn(s)) /\ WF_vars(DeliverExit(s))
         /\ \A k \in Reporters : WF_vars(RecordExit(k, s))
    /\ WF_vars(StartHost) /\ WF_vars(Connect) /\ WF_vars(Adopt)

FairSpec == Spec /\ Fairness

-----------------------------------------------------------------------------
(* Properties.                                                             *)

TypeOK ==
    /\ up \in BOOLEAN /\ connected \in BOOLEAN
    /\ asked \subseteq Sessions /\ forgets \subseteq Sessions
    /\ frames \subseteq Sessions
    /\ session \in [Sessions -> {"unborn", "running", "reaped", "written", "over",
                                 "dead"}]
    /\ receipt \in [Sessions -> {"none", "spawned"} \cup Exits]
    /\ spawn \in [Sessions -> {"new", "asking", "answered", "confirmed", "started",
                               "failing", "failed"}]
    /\ proxy \in [Sessions -> {"none", "starting", "ready"}]
    /\ deferred \in [Sessions -> Exits \cup {NoExit}]
    /\ live \in BOOLEAN /\ held \subseteq Sessions /\ late \subseteq Sessions
    /\ exited \subseteq Sessions /\ adopted \in BOOLEAN
    /\ adoption \in {"idle", "asking", "listed", "published", "proxied", "receipts",
                     "scanned", "gone"}
    /\ listed \subseteq Sessions /\ skipped \subseteq Sessions
    /\ unaccounted \subseteq Sessions
    /\ todo \in [Sessions -> Exits \cup {NoExit}]
    /\ recording \subseteq Sessions /\ ended \subseteq Sessions
    /\ report \in [Reporters -> [Sessions -> ReportStates]]
    /\ recordedAs \in [Sessions -> Exits \cup {NoExit}]
    /\ journal \in [Sessions -> Exits \cup {NoExit}] /\ unbooked \subseteq Sessions
    /\ times \in [Sessions -> Nat] /\ faults \in 0..MaxFaults

(* However many reports of an exit an app gets, and however they overlap,  *)
(* it runs the bookkeeping for it once.                                    *)
RecordedOnce == \A s \in Sessions : times[s] <= 1

\* The exit is in the store, or in the journal that is replayed into it.
OnRecord(s) == recordedAs[s] # NoExit \/ journal[s] # NoExit

(* The host forgets no exit that is in neither the store nor the journal:  *)
(* its receipt is there for the next connect.  The exception is an exit    *)
(* whose bookkeeping ran and left nothing: record_exit has it forgotten    *)
(* all the same.  Exits reported but not yet booked, by whatever reporter  *)
(* and across whatever losses, have no exception.                          *)
UnrecordedIsKept ==
    \A s \in Sessions : ~OnRecord(s) /\ s \notin unbooked =>
        /\ session[s] \in {"running", "reaped"} => receipt[s] # "none"
        /\ session[s] \in {"written", "over"} => receipt[s] \in Exits

(* The app never gives up, as ended with its host, a session the host      *)
(* still holds, started at whatever moment of an adoption.                 *)
RunningIsNotGivenUp ==
    \A s \in Sessions :
        "lost" \in {recordedAs[s], journal[s]} => session[s] # "running"

(* holds_session answers from the open connection, and never for a session *)
(* whose exit was reported, whatever order listing, reply and exit come in.*)
VouchedIsCurrent == (live => connected) /\ held \cap exited = {}

(* Nor does it deny a running session that this app knows.                 *)
RunningIsVouched ==
    live => \A s \in Sessions :
        session[s] = "running" /\ proxy[s] = "ready" => s \in held

(* Every exit, whether told, found in a receipt, deferred, or closed by    *)
(* the next host, is recorded in the end, or journaled if the store will   *)
(* not take it, unless its bookkeeping left nothing.                       *)
ExitsAreRecorded ==
    \A s \in Sessions :
        session[s] \in {"written", "over", "dead"} ~> OnRecord(s) \/ s \in unbooked

(* The inductive invariants behind RecordedOnce and UnrecordedIsKept.      *)

Owns(k, s) == report[k][s].at \in {"recording", "announcing", "forgetting"}

\* A claim has one owner, and outlives its bookkeeping as `recorded`.
ClaimInv ==
    /\ \A s \in Sessions : \A k \in Reporters : Owns(k, s) => s \in recording
    /\ \A s \in Sessions : \A j, k \in Reporters : Owns(j, s) /\ Owns(k, s) => j = k
    /\ \A s \in Sessions : s \in recording => s \notin ended
    /\ \A s \in Sessions : \A k \in Reporters :
          report[k][s].at = "recording" => times[s] = 0
    /\ \A s \in Sessions : s \notin recording /\ s \notin ended => times[s] = 0
    /\ RecordedOnce

\* Whoever may have the host forget an exit knows that its bookkeeping is over.
Settled(s) == OnRecord(s) \/ s \in unbooked

KeptInv ==
    /\ \A s \in Sessions : \A k \in Reporters :
          report[k][s].at \in {"announcing", "forgetting", "clearing"} => Settled(s)
    /\ \A s \in Sessions : s \in ended \cup forgets => Settled(s)
    /\ UnrecordedIsKept

(* The claim of record_exit: the host's copy goes after the run's receipt  *)
(* is written, and cannot outlive an exit that was never recorded.         *)
ForgottenIsOnRecord == \A s \in Sessions : s \in forgets => OnRecord(s)

(* The claim of client.rs: an app that was away records the real status of *)
(* what ended meanwhile; only a session whose host died is recorded as     *)
(* having ended with it.                                                   *)
LostOnlyWithItsHost ==
    \A s \in Sessions : recordedAs[s] = "lost" => session[s] = "dead"

(* The claim of publish_listing: no proxy is made for a session whose exit *)
(* was reported after the listing was taken.                               *)
NoProxyOnceRecorded ==
    \A s \in Sessions :
        s \in ended /\ adoption = "idle" /\ (\A k \in Reporters : report[k][s] = Idle)
            => proxy[s] = "none"

=============================================================================
