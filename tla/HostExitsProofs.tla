-------------------------- MODULE HostExitsProofs --------------------------
(***************************************************************************)
(* Proofs about HostExits, for any set of sessions and any bound on faults *)
(* (the claims of client.rs: claim_exit, and "touching neither the proxy   *)
(* nor the host").  ClaimInv and KeptInv are proved inductive beside the   *)
(* types; RecordedOnce and UnrecordedIsKept are conjuncts of them.         *)
(* VouchInv, which gives VouchedIsCurrent, needs no types.  KnowledgeInv   *)
(* is about running sessions: nobody has news of their end, and an app     *)
(* that listed them knows them.                                            *)
(***************************************************************************)
EXTENDS HostExits, TLAPS

(* What the other proofs need of the types: the functions are functions.   *)
Shape ==
    /\ report \in [Reporters -> [Sessions -> ReportStates]]
    /\ todo \in [Sessions -> Exits \cup {NoExit}]
    /\ deferred \in [Sessions -> Exits \cup {NoExit}]
    /\ receipt \in [Sessions -> {"none", "spawned"} \cup Exits]
    /\ times \in [Sessions -> Nat]
    /\ recordedAs \in [Sessions -> Exits \cup {NoExit}]
    /\ journal \in [Sessions -> Exits \cup {NoExit}]
    /\ DOMAIN session = Sessions

USE DEF Reporters

LEMMA ShapeOf == TypeOK => Shape
  BY DEF TypeOK, Shape, Exits

(* A reporter's step writes its own entry of `report` and nothing else.    *)
LEMMA ReportUpdates ==
    ASSUME report \in [Reporters -> [Sessions -> ReportStates]],
           NEW k \in Reporters, NEW s \in Sessions, NEW r \in ReportStates,
           NEW new, new = [report EXCEPT ![k][s] = r]
    PROVE  /\ new \in [Reporters -> [Sessions -> ReportStates]]
           /\ new[k][s] = r
           /\ \A j \in Reporters, t \in Sessions :
                 j # k \/ t # s => new[j][t] = report[j][t]
  OBVIOUS

(* The same when only the place changes.                                   *)
LEMMA PlaceUpdates ==
    ASSUME report \in [Reporters -> [Sessions -> ReportStates]],
           NEW k \in Reporters, NEW s \in Sessions, NEW to \in Places,
           Goes(k, s, to), report[k][s] # Idle
    PROVE  /\ report' \in [Reporters -> [Sessions -> ReportStates]]
           /\ report'[k][s].at = to
           /\ \A j \in Reporters, t \in Sessions :
                 j # k \/ t # s => report'[j][t] = report[j][t]
<1> DEFINE r == [report[k][s] EXCEPT !.at = to]
<1>1. report[k][s] \in ReportStates
  OBVIOUS
<1>2. r \in ReportStates /\ r.at = to
  BY <1>1 DEF ReportStates, Places
<1>3. report' = [report EXCEPT ![k][s] = r]
  BY DEF Goes
<1> HIDE DEF r
<1> QED
  BY <1>2, <1>3, ReportUpdates

(* How each action that moves a reporter moves it.                         *)
Moves(k, s, at) ==
    /\ report' \in [Reporters -> [Sessions -> ReportStates]]
    /\ report'[k][s].at = at
    /\ \A j \in Reporters, t \in Sessions :
          j # k \/ t # s => report'[j][t] = report[j][t]

LEMMA GoesMoves ==
    ASSUME Shape, NEW k \in Reporters, NEW s \in Sessions, NEW to \in Places,
           Goes(k, s, to), report[k][s] # Idle
    PROVE  Moves(k, s, to)
  BY PlaceUpdates DEF Shape, Moves

LEMMA DoneMoves ==
    ASSUME Shape, NEW k \in Reporters, NEW s \in Sessions, Done(k, s)
    PROVE  Moves(k, s, "idle")
<1>1. Idle \in ReportStates /\ Idle.at = "idle"
  BY DEF Idle, ReportStates
<1> QED
  BY <1>1, ReportUpdates DEF Shape, Done, Moves

LEMMA ReportingMoves ==
    ASSUME Shape, NEW k \in Reporters, NEW s \in Sessions, NEW e \in Exits,
           report' = [report EXCEPT ![k][s] = Reporting(e)]
    PROVE  Moves(k, s, "reporting")
<1>1. Reporting(e) \in ReportStates /\ Reporting(e).at = "reporting"
  BY DEF Reporting, ReportStates, Places
<1> QED
  BY <1>1, ReportUpdates DEF Shape, Moves

LEMMA BookedMoves ==
    ASSUME Shape, NEW k \in Reporters, NEW s \in Sessions, Booked(k, s)
    PROVE  Moves(k, s, "announcing")
  BY GoesMoves DEF Booked, Places, Idle

(* TakeDeferred starts a report or leaves `report` alone.                  *)
LEMMA TakeDeferredMoves ==
    ASSUME Shape, NEW s \in Sessions, TakeDeferred(s)
    PROVE  Moves("spawn", s, "reporting") \/ UNCHANGED report
<1>1. CASE deferred[s] = NoExit
  BY <1>1 DEF TakeDeferred
<1>2. CASE deferred[s] # NoExit
  <2>1. report' = [report EXCEPT !["spawn"][s] = Reporting(deferred[s])]
    BY <1>2 DEF TakeDeferred
  <2>2. deferred[s] \in Exits
    BY <1>2 DEF Shape
  <2> QED
    BY <2>1, <2>2, ReportingMoves
<1> QED
  BY <1>1, <1>2

-----------------------------------------------------------------------------
(* Types.                                                                  *)
LEMMA TypeInit == Init => TypeOK
<1> SUFFICES ASSUME Init PROVE TypeOK
  OBVIOUS
<1>1. faults \in 0..MaxFaults /\ times \in [Sessions -> Nat]
  BY FaultsAssumption DEF Init
<1> QED
  BY <1>1, Zenon DEF Init, TypeOK, Nothing, ReportStates

LEMMA TypeStep ==
    ASSUME TypeOK, [Next]_vars
    PROVE  TypeOK'
<1> USE ShapeOf DEF Exits, NoExit
<1>1. ASSUME NEW s \in Sessions
      PROVE  /\ HostStarts(s) \/ HostRefuses(s) \/ HostReaps(s) \/ HostWrites(s)
                  \/ HostTells(s) \/ HostForgets(s) => TypeOK'
             /\ Ask(s) \/ Unanswered(s) \/ Answered(s) \/ Confirm(s) => TypeOK'
  <2> USE DEF TypeOK, app, spawns, vouched, adopter, claims, store, wire, outside, host
  <2>1. HostStarts(s) => TypeOK'
    BY DEF HostStarts
  <2>2. HostRefuses(s) => TypeOK'
    BY DEF HostRefuses
  <2>3. HostReaps(s) => TypeOK'
    BY DEF HostReaps
  <2>4. HostWrites(s) => TypeOK'
    BY DEF HostWrites
  <2>5. HostTells(s) => TypeOK'
    BY DEF HostTells
  <2>6. HostForgets(s) => TypeOK'
    BY DEF HostForgets
  <2>7. Ask(s) => TypeOK'
    BY DEF Ask
  <2>8. Unanswered(s) => TypeOK'
    BY DEF Unanswered
  <2>9. Answered(s) => TypeOK'
    BY DEF Answered
  <2>10. Confirm(s) => TypeOK'
    BY DEF Confirm
  <2> QED
    BY <2>1, <2>2, <2>3, <2>4, <2>5, <2>6, <2>7, <2>8, <2>9, <2>10
<1>2. ASSUME NEW s \in Sessions, Started(s) \/ Failed(s)
      PROVE  TypeOK'
  <2>1. report' \in [Reporters -> [Sessions -> ReportStates]]
    BY <1>2, TakeDeferredMoves DEF Started, Failed, Moves, TypeOK
  <2> QED
    BY <1>2, <2>1 DEF TypeOK, Started, Failed, TakeDeferred, NoteEnded, wire, vouched,
                      adopter, claims, store, outside, host
<1>3. ASSUME NEW s \in Sessions, DeliverExit(s) \/ AdoptExit(s)
      PROVE  TypeOK'
  <2>1. CASE DeliverExit(s)
    <3>1. report' \in [Reporters -> [Sessions -> ReportStates]]
      BY <2>1, ReportingMoves DEF DeliverExit, Moves
    <3> QED
      BY <2>1, <3>1 DEF TypeOK, DeliverExit, NoteEnded, wire, spawns, adopter, claims,
                        store, host
  <2>2. CASE AdoptExit(s)
    <3>1. report' \in [Reporters -> [Sessions -> ReportStates]]
      BY <2>2, ReportingMoves DEF AdoptExit, Moves, Shape
    <3> QED
      BY <2>2, <3>1 DEF TypeOK, AdoptExit, NoteEnded, wire, spawns, claims, store,
                        outside, host
  <2> QED
    BY <1>3, <2>1, <2>2
<1>4. ASSUME NEW s \in Sessions, NEW k \in Reporters, RecordExit(k, s)
      PROVE  TypeOK'
  <2> USE DEF TypeOK, Moves, wire, outside, host, spawns, vouched, adopter, claims, store
  <2>1. CASE Defer(k, s)
    <3>1. Moves(k, s, "idle")
      BY <2>1, DoneMoves DEF Defer
    <3>2. report[k][s].exit \in Exits \cup {NoExit}
      BY DEF ReportStates, Idle
    <3> QED
      BY <2>1, <3>1, <3>2 DEF Defer
  <2>2. CASE YieldClaim(k, s)
    BY <2>2, DoneMoves DEF YieldClaim
  <2>3. CASE KnownAlready(k, s)
    BY <2>3, GoesMoves DEF KnownAlready, Places, Idle
  <2>4. CASE Claim(k, s)
    BY <2>4, GoesMoves DEF Claim, Places, Idle
  <2>5. CASE Finish(k, s) \/ Refused(k, s) \/ Unbooked(k, s)
    <3>1. Moves(k, s, "announcing")
      BY <2>5, BookedMoves DEF Finish, Refused, Unbooked
    <3>2. report[k][s].exit \in Exits \cup {NoExit}
      BY DEF ReportStates, Idle
    <3>3. /\ recordedAs' \in [Sessions -> Exits \cup {NoExit}]
          /\ journal' \in [Sessions -> Exits \cup {NoExit}]
          /\ unbooked' \subseteq Sessions
      BY <2>5, <3>2 DEF Finish, Refused, Unbooked, Records
    <3>4. times' \in [Sessions -> Nat]
      BY <2>5 DEF Finish, Refused, Unbooked, Observed
    <3>5. faults' \in 0..MaxFaults
      BY <2>5, FaultsAssumption DEF Finish, Refused, Unbooked
    <3>6. Booked(k, s)
      BY <2>5 DEF Finish, Refused, Unbooked
    <3> QED
      BY <3>1, <3>3, <3>4, <3>5, <3>6 DEF Booked
  <2>6. CASE Announce(k, s)
    BY <2>6, GoesMoves DEF Announce, Places, Idle
  <2>7. CASE Forget(k, s)
    BY <2>7, DoneMoves DEF Forget
  <2> QED
    BY <1>4, <2>1, <2>2, <2>3, <2>4, <2>5, <2>6, <2>7 DEF RecordExit
<1>5. CASE StartHost \/ Connect
  <2> USE DEF TypeOK, app, spawns, vouched, adopter, claims, store, wire, outside, host
  <2>1. StartHost => TypeOK'
    BY DEF StartHost
  <2>2. ASSUME Connect PROVE TypeOK'
    <3>1. /\ connected' \in BOOLEAN /\ live' \in BOOLEAN /\ late' \subseteq Sessions
          /\ adoption' \in {"idle", "asking", "listed", "published", "proxied",
                             "receipts", "scanned", "gone"}
      BY <2>2 DEF Connect
    <3>2. UNCHANGED <<host, frames, spawns, held, exited, adopted, listed, skipped,
                      unaccounted, todo, claims, report, store, faults>>
      BY <2>2 DEF Connect
    <3> QED
      BY <3>1, <3>2
  <2> QED
    BY <1>5, <2>1, <2>2
<1>6. CASE List \/ AdoptionFails
  BY <1>6 DEF TypeOK, List, AdoptionFails, Nothing, app, spawns, vouched,
           adopter, claims, store, wire, outside, host
<1>7. CASE Publish \/ MakeProxies
  <2> USE DEF TypeOK, app, spawns, vouched, adopter, claims, store, wire, outside, host
  <2>1. Publish => TypeOK'
    BY DEF Publish
  <2>2. MakeProxies => TypeOK'
    BY DEF MakeProxies
  <2> QED
    BY <1>7, <2>1, <2>2
<1>8. CASE ReadReceipts \/ Scan
  BY <1>8 DEF TypeOK, ReadReceipts, Scan, Nothing, app, spawns, vouched,
           adopter, claims, store, wire, outside, host
<1>9. CASE GiveUp \/ Adopted
  BY <1>9 DEF TypeOK, GiveUp, Adopted, Nothing, app, spawns, vouched,
           adopter, claims, store, wire, outside, host
<1>10. CASE LoseConnection
  <2>1. faults < MaxFaults /\ faults' = faults + 1
    BY <1>10 DEF LoseConnection
  <2>2. faults' \in 0..MaxFaults
    BY <2>1, FaultsAssumption DEF TypeOK
  <2>3. UNCHANGED <<up, session, receipt, proxy, deferred, held, late, exited, adopter,
                    claims, report, store>>
    BY <1>10 DEF LoseConnection
  <2>4. /\ connected' = FALSE /\ live' = FALSE
        /\ asked' \subseteq Sessions /\ forgets' \subseteq Sessions
        /\ frames' \subseteq Sessions
    BY <1>10 DEF LoseConnection, TypeOK
  <2>5. spawn' = [s \in Sessions |-> IF spawn[s] = "asking" THEN "failing" ELSE spawn[s]]
    BY <1>10 DEF LoseConnection
  <2> QED
    BY <2>2, <2>3, <2>4, <2>5 DEF TypeOK, adopter, claims, store
<1>11. CASE HostDies
  <2>1. faults < MaxFaults /\ faults' = faults + 1
    BY <1>11 DEF HostDies
  <2>2. faults' \in 0..MaxFaults
    BY <2>1, FaultsAssumption DEF TypeOK
  <2>3. UNCHANGED <<receipt, proxy, deferred, held, late, exited, adopter, claims,
                    report, store>>
    BY <1>11 DEF HostDies
  <2>4. /\ up' = FALSE /\ connected' = FALSE /\ live' = FALSE
        /\ asked' \subseteq Sessions /\ forgets' \subseteq Sessions
        /\ frames' \subseteq Sessions
    BY <1>11 DEF HostDies, TypeOK
  <2>5. spawn' = [s \in Sessions |-> IF spawn[s] = "asking" THEN "failing" ELSE spawn[s]]
    BY <1>11 DEF HostDies
  <2>6. session' \in [Sessions -> {"unborn", "running", "reaped", "written", "over",
                                 "dead"}]
    BY <1>11 DEF HostDies, TypeOK
  <2> QED
    BY <2>2, <2>3, <2>4, <2>5, <2>6 DEF TypeOK, adopter, claims, store
<1>12. CASE AppRestarts
  <2>1. faults < MaxFaults /\ faults' = faults + 1
    BY <1>12 DEF AppRestarts
  <2>2. faults' \in 0..MaxFaults
    BY <2>1, FaultsAssumption DEF TypeOK
  <2>3. UNCHANGED <<up, session, receipt, recordedAs, journal, unbooked>>
    BY <1>12 DEF AppRestarts
  <2>4. /\ connected' = FALSE /\ frames' = {}
        /\ live' = FALSE /\ held' = {} /\ late' = {} /\ exited' = {}
        /\ adopted' = FALSE /\ adoption' = "idle"
        /\ listed' = {} /\ skipped' = {} /\ unaccounted' = {}
        /\ recording' = {} /\ ended' = {}
        /\ asked' \subseteq Sessions /\ forgets' \subseteq Sessions
    BY <1>12 DEF AppRestarts, TypeOK
  <2>5. /\ todo' \in [Sessions -> Exits \cup {NoExit}]
        /\ deferred' \in [Sessions -> Exits \cup {NoExit}]
        /\ proxy' \in [Sessions -> {"none", "starting", "ready"}]
    BY <1>12 DEF AppRestarts, Nothing
  <2>6. report' \in [Reporters -> [Sessions -> ReportStates]]
    BY <1>12 DEF AppRestarts, ReportStates
  <2>7. times' \in [Sessions -> Nat]
    BY <1>12 DEF AppRestarts
  <2>8. spawn' \in [Sessions -> {"new", "asking", "answered", "confirmed", "started",
                                "failing", "failed"}]
    BY <1>12 DEF AppRestarts
  <2> QED
    BY <2>2, <2>3, <2>4, <2>5, <2>6, <2>7, <2>8 DEF TypeOK
<1>13. CASE UNCHANGED vars
  BY <1>13 DEF TypeOK, vars, app, spawns, vouched, adopter, claims, store, wire,
               outside, host
<1>14. ASSUME NEW s \in Sessions, Replay(s)
       PROVE  TypeOK'
  BY <1>14 DEF TypeOK, Replay, Records, spawns, vouched, adopter, claims, wire,
               outside, host
<1> QED
  BY <1>1, <1>2, <1>3, <1>4, <1>5, <1>6, <1>7, <1>8, <1>9, <1>10, <1>11, <1>12, <1>13,
     <1>14 DEF Next, Spawn, Adopt

(* Every value the client, the host and the disk can hold, for any         *)
(* sessions and any number of faults.                                      *)
THEOREM TypeCorrect == Spec => []TypeOK
<1> QED
  BY TypeInit, TypeStep, PTL DEF Spec

-----------------------------------------------------------------------------
(* One owner per claim, and the bookkeeping once.                          *)

(* A reporter that comes to a place where it owns nothing disturbs nothing.*)
LEMMA OwningNothing ==
    ASSUME Shape, ClaimInv, NEW k \in Reporters, NEW s \in Sessions,
           NEW at \in {"idle", "reporting", "clearing"}, Moves(k, s, at),
           UNCHANGED <<claims, times>>
    PROVE  ClaimInv'
  BY DEF ClaimInv, Owns, RecordedOnce, Moves, claims

LEMMA NotReporting ==
    ASSUME ClaimInv, UNCHANGED <<claims, report, times>>
    PROVE  ClaimInv'
  BY DEF ClaimInv, Owns, RecordedOnce, claims

LEMMA ClaimInit == Init => ClaimInv
  BY DEF Init, ClaimInv, Owns, RecordedOnce, Idle

LEMMA ClaimStep ==
    ASSUME Shape, ClaimInv, [Next]_vars
    PROVE  ClaimInv'
<1>1. ASSUME NEW s \in Sessions,
             HostStarts(s) \/ HostRefuses(s) \/ HostReaps(s) \/ HostWrites(s)
               \/ HostTells(s) \/ HostForgets(s)
      PROVE  ClaimInv'
  BY <1>1, NotReporting DEF HostStarts, HostRefuses, HostReaps, HostWrites, HostTells,
                            HostForgets, app, store
<1>2. ASSUME NEW s \in Sessions, Ask(s) \/ Unanswered(s) \/ Answered(s) \/ Confirm(s)
      PROVE  ClaimInv'
  BY <1>2, NotReporting DEF Ask, Unanswered, Answered, Confirm, store
<1>3. ASSUME NEW s \in Sessions, Started(s) \/ Failed(s)
      PROVE  ClaimInv'
  <2>1. UNCHANGED <<claims, times>>
    BY <1>3 DEF Started, Failed, store
  <2>2. Moves("spawn", s, "reporting") \/ UNCHANGED report
    BY <1>3, TakeDeferredMoves DEF Started, Failed
  <2> QED
    BY <2>1, <2>2, OwningNothing, NotReporting
<1>4. ASSUME NEW s \in Sessions, DeliverExit(s)
      PROVE  ClaimInv'
  <2>1. Moves("frame", s, "reporting")
    BY <1>4, ReportingMoves DEF DeliverExit, Exits
  <2> QED
    BY <1>4, <2>1, OwningNothing DEF DeliverExit, store
<1>5. ASSUME NEW s \in Sessions, AdoptExit(s)
      PROVE  ClaimInv'
  <2>1. Moves("adopt", s, "reporting")
    BY <1>5, ReportingMoves DEF AdoptExit, Shape
  <2> QED
    BY <1>5, <2>1, OwningNothing DEF AdoptExit, store
<1>6. ASSUME NEW s \in Sessions, NEW k \in Reporters, RecordExit(k, s)
      PROVE  ClaimInv'
  <2>1. CASE Defer(k, s) \/ YieldClaim(k, s)
    BY <2>1, DoneMoves, OwningNothing DEF Defer, YieldClaim, store
  <2>2. CASE KnownAlready(k, s)
    BY <2>2, GoesMoves, OwningNothing DEF KnownAlready, Places, Idle, store
  <2>3. CASE Claim(k, s)
    <3>1. Moves(k, s, "recording")
      BY <2>3, GoesMoves DEF Claim, Places, Idle
    <3>2. /\ recording' = recording \cup {s} /\ s \notin recording /\ s \notin ended
          /\ UNCHANGED <<ended, times>>
      BY <2>3 DEF Claim, store
    <3> QED
      BY <3>1, <3>2 DEF ClaimInv, Owns, RecordedOnce, Moves
  <2>4. CASE Finish(k, s) \/ Refused(k, s) \/ Unbooked(k, s)
    <3>1. Moves(k, s, "announcing") /\ report[k][s].at = "recording"
      BY <2>4, BookedMoves DEF Finish, Refused, Unbooked, Booked
    <3>2. (Observed(s) \/ UNCHANGED times) /\ UNCHANGED claims
      BY <2>4 DEF Finish, Refused, Unbooked, Booked
    <3>3. s \in recording /\ times[s] = 0
      BY <3>1 DEF ClaimInv, Owns
    <3>4. times'[s] \in {0, 1} /\ \A t \in Sessions : t # s => times'[t] = times[t]
      BY <3>2, <3>3 DEF Shape, Observed
    <3>5. \A j \in Reporters : j # k => report[j][s].at # "recording"
      BY <3>1 DEF ClaimInv, Owns
    <3> QED
      BY <3>1, <3>2, <3>3, <3>4, <3>5 DEF ClaimInv, Owns, RecordedOnce, Moves, claims
  <2>5. CASE Announce(k, s)
    <3>1. Moves(k, s, "forgetting") /\ report[k][s].at = "announcing"
      BY <2>5, GoesMoves DEF Announce, Places, Idle
    <3>2. UNCHANGED <<claims, times>>
      BY <2>5 DEF Announce, store
    <3> QED
      BY <3>1, <3>2 DEF ClaimInv, Owns, RecordedOnce, Moves, claims
  <2>6. CASE Forget(k, s)
    <3>1. Moves(k, s, "idle") /\ UNCHANGED times
      BY <2>6, DoneMoves DEF Forget, store
    <3>2. CASE report[k][s].at = "clearing"
      BY <2>6, <3>1, <3>2, OwningNothing DEF Forget
    <3>3. CASE report[k][s].at = "forgetting"
      <4>1. recording' = recording \ {s} /\ ended' = ended \cup {s}
        BY <2>6, <3>3 DEF Forget
      <4>2. s \in recording /\ \A j \in Reporters : j # k => ~Owns(j, s)
        BY <3>3 DEF ClaimInv, Owns
      <4> QED
        BY <3>1, <4>1, <4>2 DEF ClaimInv, Owns, RecordedOnce, Moves
    <3> QED
      BY <2>6, <3>2, <3>3 DEF Forget
  <2> QED
    BY <1>6, <2>1, <2>2, <2>3, <2>4, <2>5, <2>6 DEF RecordExit
<1>7. CASE StartHost \/ Connect \/ LoseConnection \/ HostDies
  BY <1>7, NotReporting DEF StartHost, Connect, LoseConnection, HostDies, app, store
<1>8. CASE List \/ AdoptionFails \/ Publish \/ MakeProxies \/ ReadReceipts \/ Scan
             \/ GiveUp \/ Adopted
  BY <1>8, NotReporting DEF List, AdoptionFails, Publish, MakeProxies, ReadReceipts,
                            Scan, GiveUp, Adopted, store
<1>9. CASE AppRestarts
  BY <1>9 DEF AppRestarts, ClaimInv, Owns, RecordedOnce, Idle
<1>10. CASE UNCHANGED vars
  BY <1>10, NotReporting DEF vars, app, store
<1>11. ASSUME NEW s \in Sessions, Replay(s)
       PROVE  ClaimInv'
  BY <1>11, NotReporting DEF Replay
<1> QED
  BY <1>1, <1>2, <1>3, <1>4, <1>5, <1>6, <1>7, <1>8, <1>9, <1>10, <1>11 DEF Next, Spawn, Adopt

(* An app runs the bookkeeping of an exit at most once: record_exit and    *)
(* claim_exit, whatever the reports and the faults.                        *)
THEOREM Once == Spec => []RecordedOnce
<1>1. Init => TypeOK /\ ClaimInv
  BY TypeInit, ClaimInit
<1>2. TypeOK /\ ClaimInv /\ [Next]_vars => TypeOK' /\ ClaimInv'
  BY TypeStep, ShapeOf, ClaimStep
<1>3. ClaimInv => RecordedOnce
  BY DEF ClaimInv
<1> QED
  BY <1>1, <1>2, <1>3, PTL DEF Spec

-----------------------------------------------------------------------------
(* No exit is forgotten before its bookkeeping.                            *)

Knowing == {"announcing", "forgetting", "clearing"}

(* A step that settles one exit leaves those of other sessions as they are.*)
SettlesOne(s) ==
    /\ Settled(s)'
    /\ \A t \in Sessions : t # s =>
          /\ recordedAs'[t] = recordedAs[t] /\ journal'[t] = journal[t]
          /\ t \in unbooked' <=> t \in unbooked

(* A reporter that comes to a place it may be in without knowing, or with  *)
(* the exit settled, disturbs nothing.                                     *)
LEMMA ReporterMoved ==
    ASSUME Shape, KeptInv, NEW k \in Reporters, NEW s \in Sessions, NEW at,
           Moves(k, s, at), at \notin Knowing \/ Settled(s),
           UNCHANGED <<host, ended, store>>
    PROVE  KeptInv'
  BY DEF KeptInv, UnrecordedIsKept, Settled, OnRecord, Moves, Knowing, host, store

LEMMA OnlyTheHost ==
    ASSUME KeptInv, UNCHANGED <<ended, report, recordedAs, journal, unbooked>>,
           UnrecordedIsKept',
           forgets' \subseteq forgets
    PROVE  KeptInv'
  BY DEF KeptInv, Settled, OnRecord

LEMMA NotTheHost ==
    ASSUME KeptInv, UNCHANGED <<host, ended, report, recordedAs, journal, unbooked>>
    PROVE  KeptInv'
  BY DEF KeptInv, UnrecordedIsKept, Settled, OnRecord, host

LEMMA KeptInit == Init => KeptInv
  BY DEF Init, KeptInv, UnrecordedIsKept, OnRecord, Nothing, Idle

LEMMA KeptStep ==
    ASSUME Shape, KeptInv, [Next]_vars
    PROVE  KeptInv'
<1> USE DEF Exits, NoExit
<1>1. ASSUME NEW s \in Sessions,
             HostStarts(s) \/ HostReaps(s) \/ HostWrites(s) \/ HostTells(s)
               \/ HostForgets(s)
      PROVE  KeptInv'
  <2>1. /\ UNCHANGED <<ended, report, recordedAs, journal, unbooked>>
        /\ forgets' \subseteq forgets
    BY <1>1 DEF HostStarts, HostReaps, HostWrites, HostTells, HostForgets, app,
                claims, store
  <2>2. CASE HostStarts(s)
    BY <2>1, <2>2, OnlyTheHost DEF HostStarts, KeptInv, UnrecordedIsKept, OnRecord,
                             Shape
  <2>3. CASE HostReaps(s)
    BY <2>1, <2>3, OnlyTheHost DEF HostReaps, KeptInv, UnrecordedIsKept, OnRecord,
                             Shape
  <2>4. CASE HostWrites(s)
    BY <2>1, <2>4, OnlyTheHost DEF HostWrites, KeptInv, UnrecordedIsKept, OnRecord,
                             Shape
  <2>5. CASE HostTells(s)
    BY <2>1, <2>5, OnlyTheHost DEF HostTells, KeptInv, UnrecordedIsKept, OnRecord,
                             Shape
  <2>6. CASE HostForgets(s)
    <3>1. Settled(s)
      BY <2>6 DEF HostForgets, KeptInv
    <3> QED
      BY <2>1, <2>6, <3>1, OnlyTheHost DEF HostForgets, KeptInv, UnrecordedIsKept,
                                           Settled, OnRecord, Shape
  <2> QED
    BY <1>1, <2>2, <2>3, <2>4, <2>5, <2>6
<1>2. ASSUME NEW s \in Sessions,
             HostRefuses(s) \/ Ask(s) \/ Unanswered(s) \/ Answered(s) \/ Confirm(s)
      PROVE  KeptInv'
  BY <1>2, OnlyTheHost DEF HostRefuses, Ask, Unanswered, Answered, Confirm, KeptInv,
                           UnrecordedIsKept, OnRecord, claims, store, outside, host
<1>3. ASSUME NEW s \in Sessions, Started(s) \/ Failed(s)
      PROVE  KeptInv'
  <2>1. UNCHANGED <<host, ended, store>>
    BY <1>3 DEF Started, Failed, claims, outside
  <2>2. Moves("spawn", s, "reporting") \/ UNCHANGED report
    BY <1>3, TakeDeferredMoves DEF Started, Failed
  <2> QED
    BY <2>1, <2>2, ReporterMoved, NotTheHost DEF Knowing, store
<1>4. ASSUME NEW s \in Sessions, DeliverExit(s)
      PROVE  KeptInv'
  <2>1. Moves("frame", s, "reporting")
    BY <1>4, ReportingMoves DEF DeliverExit
  <2> QED
    BY <1>4, <2>1, ReporterMoved DEF DeliverExit, claims, Knowing
<1>5. ASSUME NEW s \in Sessions, AdoptExit(s)
      PROVE  KeptInv'
  <2>1. Moves("adopt", s, "reporting")
    BY <1>5, ReportingMoves DEF AdoptExit, Shape
  <2> QED
    BY <1>5, <2>1, ReporterMoved DEF AdoptExit, claims, outside, Knowing
<1>6. ASSUME NEW s \in Sessions, NEW k \in Reporters, RecordExit(k, s)
      PROVE  KeptInv'
  <2>1. CASE Defer(k, s) \/ YieldClaim(k, s)
    BY <2>1, DoneMoves, ReporterMoved DEF Defer, YieldClaim, claims, outside,
                                          Knowing
  <2>2. CASE KnownAlready(k, s)
    <3>1. Moves(k, s, "clearing")
      BY <2>2, GoesMoves DEF KnownAlready, Places, Idle
    <3>2. Settled(s)
      BY <2>2 DEF KnownAlready, KeptInv
    <3> QED
      BY <2>2, <3>1, <3>2, ReporterMoved DEF KnownAlready, claims, outside
  <2>3. CASE Claim(k, s)
    BY <2>3, GoesMoves, ReporterMoved DEF Claim, Places, Idle, outside, Knowing
  <2>4. CASE Finish(k, s) \/ Refused(k, s) \/ Unbooked(k, s)
    <3>1. Moves(k, s, "announcing") /\ UNCHANGED <<host, ended>>
      BY <2>4, BookedMoves DEF Finish, Refused, Unbooked, Booked, claims
    <3>2. report[k][s].exit # NoExit
      BY <2>4 DEF Shape, ReportStates, Idle, Finish, Refused, Unbooked, Booked
    <3>3. SettlesOne(s)
      <4>1. CASE Finish(k, s)
        BY <3>2, <4>1 DEF Finish, Records, SettlesOne, Settled, OnRecord, Shape
      <4>2. CASE Refused(k, s)
        BY <3>2, <4>2 DEF Refused, SettlesOne, Settled, OnRecord, Shape
      <4>3. CASE Unbooked(k, s)
        BY <4>3 DEF Unbooked, SettlesOne, Settled
      <4> QED
        BY <2>4, <4>1, <4>2, <4>3
    <3> QED
      BY <3>1, <3>3 DEF KeptInv, UnrecordedIsKept, SettlesOne, Settled, OnRecord, Moves,
                        host
  <2>5. CASE Announce(k, s)
    <3>1. Moves(k, s, "forgetting")
      BY <2>5, GoesMoves DEF Announce, Places, Idle
    <3>2. Settled(s)
      BY <2>5 DEF Announce, KeptInv
    <3> QED
      BY <2>5, <3>1, <3>2, ReporterMoved DEF Announce, claims, outside
  <2>6. CASE Forget(k, s)
    <3>1. Moves(k, s, "idle")
      BY <2>6, DoneMoves DEF Forget
    <3>2. Settled(s)
      BY <2>6 DEF Forget, KeptInv
    <3>3. /\ forgets' \subseteq forgets \cup {s} /\ ended' \subseteq ended \cup {s}
          /\ UNCHANGED <<session, receipt, recordedAs, journal, unbooked>>
      BY <2>6 DEF Forget, claims, store
    <3> QED
      BY <3>1, <3>2, <3>3 DEF KeptInv, UnrecordedIsKept, Settled, OnRecord, Moves
  <2> QED
    BY <1>6, <2>1, <2>2, <2>3, <2>4, <2>5, <2>6 DEF RecordExit
<1>7. CASE StartHost
  BY <1>7, OnlyTheHost DEF StartHost, KeptInv, UnrecordedIsKept, OnRecord, Shape, app, claims,
                           store
<1>8. CASE LoseConnection
  BY <1>8, OnlyTheHost DEF LoseConnection, KeptInv, UnrecordedIsKept, OnRecord, claims,
                                store
<1>9. CASE HostDies
  <2>1. /\ UNCHANGED <<ended, report, recordedAs, journal, unbooked, receipt>>
        /\ forgets' \subseteq forgets
    BY <1>9 DEF HostDies, claims, store
  <2>2. ASSUME NEW s \in Sessions
        PROVE  /\ session'[s] \notin {"running", "reaped"}
               /\ session'[s] \in {"written", "over"} => session[s] \in {"written", "over"}
    BY <1>9 DEF HostDies
  <2> QED
    BY <2>1, <2>2, OnlyTheHost DEF KeptInv, UnrecordedIsKept, OnRecord
<1>10. CASE Connect \/ List \/ AdoptionFails \/ Publish \/ MakeProxies \/ ReadReceipts
              \/ Scan \/ GiveUp \/ Adopted
  BY <1>10, NotTheHost DEF Connect, List, AdoptionFails, Publish, MakeProxies,
                           ReadReceipts, Scan, GiveUp, Adopted, claims, store, outside
<1>11. CASE AppRestarts
  BY <1>11 DEF AppRestarts, KeptInv, UnrecordedIsKept, Settled, OnRecord, Idle
<1>12. CASE UNCHANGED vars
  BY <1>12, NotTheHost DEF vars, app, claims, store, outside
<1>13. ASSUME NEW s \in Sessions, Replay(s)
       PROVE  KeptInv'
  <2>1. SettlesOne(s)
    BY <1>13 DEF Replay, Records, SettlesOne, Settled, OnRecord, Shape
  <2>2. UNCHANGED <<host, ended, report>>
    BY <1>13 DEF Replay, claims, outside
  <2> QED
    BY <2>1, <2>2 DEF KeptInv, UnrecordedIsKept, SettlesOne, Settled, OnRecord, host
<1> QED
  BY <1>1, <1>2, <1>3, <1>4, <1>5, <1>6, <1>7, <1>8, <1>9, <1>10, <1>11, <1>12, <1>13
     DEF Next, Spawn, Adopt

(* The host never forgets an exit before some app's bookkeeping for it is  *)
(* over, and then it is stored, journaled, or one that left nothing: the   *)
(* order of record_exit's last steps, and who sends Forget, over faults.   *)
THEOREM Kept == Spec => []UnrecordedIsKept
<1>1. Init => TypeOK /\ KeptInv
  BY TypeInit, KeptInit
<1>2. TypeOK /\ KeptInv /\ [Next]_vars => TypeOK' /\ KeptInv'
  BY TypeStep, ShapeOf, KeptStep
<1>3. KeptInv => UnrecordedIsKept
  BY DEF KeptInv
<1> QED
  BY <1>1, <1>2, <1>3, PTL DEF Spec

-----------------------------------------------------------------------------
(* What is vouched for is current.                                         *)

VouchInv == VouchedIsCurrent /\ late \cap exited = {}

LEMMA NotVouching ==
    ASSUME VouchInv, UNCHANGED <<vouched, connected>>
    PROVE  VouchInv'
  BY DEF VouchInv, VouchedIsCurrent, vouched

LEMMA NotedIsNotVouched ==
    ASSUME VouchInv, NEW s \in Sessions, NoteEnded(s), UNCHANGED connected
    PROVE  VouchInv'
  BY DEF VouchInv, VouchedIsCurrent, NoteEnded

LEMMA VouchStep ==
    ASSUME VouchInv, [Next]_vars
    PROVE  VouchInv'
<1>1. ASSUME NEW s \in Sessions,
             HostStarts(s) \/ HostRefuses(s) \/ HostReaps(s) \/ HostWrites(s)
               \/ HostTells(s) \/ HostForgets(s)
      PROVE  VouchInv'
  BY <1>1, NotVouching DEF HostStarts, HostRefuses, HostReaps, HostWrites, HostTells,
                           HostForgets, app, wire
<1>2. ASSUME NEW s \in Sessions, Ask(s) \/ Unanswered(s) \/ Answered(s)
      PROVE  VouchInv'
  BY <1>2, NotVouching DEF Ask, Unanswered, Answered, outside, wire
<1>3. ASSUME NEW s \in Sessions, Confirm(s)
      PROVE  VouchInv'
  <2>1. /\ held' = IF s \in exited THEN held ELSE held \cup {s}
        /\ late' = IF s \in exited \/ adoption = "idle" THEN late ELSE late \cup {s}
        /\ UNCHANGED <<live, connected, exited>>
    BY <1>3 DEF Confirm, outside, wire
  <2> QED
    BY <2>1 DEF VouchInv, VouchedIsCurrent
<1>4. ASSUME NEW s \in Sessions, Started(s) \/ Failed(s)
      PROVE  VouchInv'
  <2>1. TakeDeferred(s) /\ UNCHANGED connected
    BY <1>4 DEF Started, Failed, outside, wire
  <2>2. NoteEnded(s) \/ UNCHANGED vouched
    BY <2>1 DEF TakeDeferred
  <2> QED
    BY <2>1, <2>2, NotedIsNotVouched, NotVouching
<1>5. ASSUME NEW s \in Sessions, DeliverExit(s) \/ AdoptExit(s)
      PROVE  VouchInv'
  <2>1. NoteEnded(s) /\ UNCHANGED connected
    BY <1>5 DEF DeliverExit, AdoptExit, outside, wire
  <2> QED
    BY <2>1, NotedIsNotVouched
<1>6. ASSUME NEW s \in Sessions, NEW k \in Reporters, RecordExit(k, s)
      PROVE  VouchInv'
  <2>1. UNCHANGED <<vouched, connected>>
    BY <1>6 DEF RecordExit, Defer, YieldClaim, KnownAlready, Claim, Finish, Refused,
                Unbooked, Booked, Announce, Forget, outside, wire
  <2> QED
    BY <2>1, NotVouching
<1>7. CASE StartHost \/ List \/ MakeProxies \/ ReadReceipts \/ Scan \/ GiveUp
  BY <1>7, NotVouching DEF StartHost, List, MakeProxies, ReadReceipts, Scan, GiveUp,
                           app, outside, wire
<1>8. CASE AdoptionFails \/ Adopted
  <2>1. late' = {} /\ UNCHANGED <<live, held, exited, connected>>
    BY <1>8 DEF AdoptionFails, Adopted, outside, wire
  <2> QED
    BY <2>1 DEF VouchInv, VouchedIsCurrent
<1>9. CASE Publish
  <2>1. /\ connected /\ held' = late \cup (listed \ exited)
        /\ UNCHANGED <<late, exited, connected>>
    BY <1>9 DEF Publish, outside, wire
  <2> QED
    BY <2>1 DEF VouchInv, VouchedIsCurrent
<1>10. CASE Connect \/ LoseConnection \/ HostDies
  <2>1. ~live' /\ late' \subseteq late /\ UNCHANGED <<held, exited>>
    BY <1>10 DEF Connect, LoseConnection, HostDies
  <2> QED
    BY <2>1 DEF VouchInv, VouchedIsCurrent
<1>11. CASE AppRestarts
  BY <1>11 DEF AppRestarts, VouchInv, VouchedIsCurrent
<1>12. CASE UNCHANGED vars
  BY <1>12, NotVouching DEF vars, app, outside, wire
<1>13. ASSUME NEW s \in Sessions, Replay(s)
       PROVE  VouchInv'
  BY <1>13, NotVouching DEF Replay, outside, wire
<1> QED
  BY <1>1, <1>2, <1>3, <1>4, <1>5, <1>6, <1>7, <1>8, <1>9, <1>10, <1>11, <1>12, <1>13
     DEF Next, Spawn, Adopt

(* holds_session answers only from the open connection, and for no session *)
(* whose exit was reported (Vouched, note_ended, publish_listing).         *)
THEOREM Vouching == Spec => []VouchedIsCurrent
<1>1. Init => VouchInv
  BY DEF Init, VouchInv, VouchedIsCurrent
<1>2. VouchInv /\ [Next]_vars => VouchInv'
  BY VouchStep
<1>3. VouchInv => VouchedIsCurrent
  BY DEF VouchInv
<1> QED
  BY <1>1, <1>2, <1>3, PTL DEF Spec

-----------------------------------------------------------------------------
(* A running session is neither given up nor denied.                       *)

(* What a session that did not start, or an earlier moment of its start,   *)
(* cannot have; the host runs no session while it is down.                 *)
StartInv ==
    /\ \A s \in Sessions : session[s] = "unborn" =>
          /\ spawn[s] \in {"new", "asking", "failing", "failed"}
          /\ proxy[s] # "ready" /\ receipt[s] # "spawned"
          /\ s \notin listed /\ s \notin unaccounted
    /\ \A s \in Sessions : s \in asked => session[s] = "unborn" /\ spawn[s] # "new"
    /\ \A s \in Sessions : spawn[s] = "new" => session[s] = "unborn"
    /\ \A s \in Sessions : session[s] = "running" => up

(* Nobody has news of the end of a session that did not end.               *)
Unheard(s) ==
    /\ receipt[s] \notin Exits /\ recordedAs[s] = NoExit /\ journal[s] = NoExit
    /\ todo[s] = NoExit /\ deferred[s] = NoExit
    /\ s \notin frames /\ s \notin exited
    /\ \A k \in Reporters : report[k][s] = Idle

NewsInv == \A s \in Sessions : session[s] \in {"unborn", "running"} => Unheard(s)

(* From the listing on, a running session the app knows was listed or was  *)
(* confirmed since; and it is vouched for.                                 *)
Confirmed(s) == spawn[s] \in {"confirmed", "started"}

KnownInv ==
    /\ adoption \notin {"idle", "asking"} =>
          \A s \in Sessions : session[s] = "running" /\ (Confirmed(s) \/ proxy[s] = "ready")
                                  => s \in listed \cup late
    /\ adoption = "scanned" =>
          \A s \in unaccounted : /\ s \notin listed
                                 /\ session[s] = "running" => s \in late
    /\ live =>
          \A s \in Sessions :
              /\ session[s] = "running"
              /\ Confirmed(s) \/ proxy[s] = "ready" \/ (adoption = "published" /\ s \in listed)
              => s \in held

LEMMA StartInit == Init => StartInv
  BY DEF Init, StartInv

LEMMA StartStep ==
    ASSUME TypeOK, StartInv, [Next]_vars
    PROVE  StartInv'
<1> USE DEF StartInv, TypeOK, outside, host, wire, spawns, adopter
<1>1. ASSUME NEW s \in Sessions,
             HostStarts(s) \/ HostRefuses(s) \/ HostReaps(s) \/ HostWrites(s)
               \/ HostTells(s) \/ HostForgets(s)
      PROVE  StartInv'
  <2>1. HostStarts(s) => StartInv'
    BY DEF HostStarts, app
  <2>2. HostRefuses(s) => StartInv'
    BY DEF HostRefuses
  <2>3. HostReaps(s) => StartInv'
    BY DEF HostReaps, app
  <2>4. HostWrites(s) => StartInv'
    BY DEF HostWrites, app, Exits
  <2>5. HostTells(s) => StartInv'
    BY DEF HostTells, app
  <2>6. HostForgets(s) => StartInv'
    BY DEF HostForgets, app
  <2> QED
    BY <1>1, <2>1, <2>2, <2>3, <2>4, <2>5, <2>6
<1>2. ASSUME NEW s \in Sessions,
             Ask(s) \/ Unanswered(s) \/ Answered(s) \/ Confirm(s)
      PROVE  StartInv'
  <2>1. Ask(s) => StartInv'
    BY DEF Ask
  <2>2. Unanswered(s) => StartInv'
    BY DEF Unanswered
  <2>3. Answered(s) => StartInv'
    BY DEF Answered
  <2>4. Confirm(s) => StartInv'
    BY DEF Confirm
  <2> QED
    BY <1>2, <2>1, <2>2, <2>3, <2>4
<1>3. ASSUME NEW s \in Sessions, Started(s) \/ Failed(s)
      PROVE  StartInv'
  <2>1. Started(s) => StartInv'
    BY DEF Started
  <2>2. Failed(s) => StartInv'
    BY DEF Failed
  <2> QED
    BY <1>3, <2>1, <2>2
<1>4. ASSUME NEW s \in Sessions, DeliverExit(s) \/ AdoptExit(s)
      PROVE  StartInv'
  BY <1>4 DEF DeliverExit, AdoptExit
<1>5. ASSUME NEW s \in Sessions, NEW k \in Reporters, RecordExit(k, s)
      PROVE  StartInv'
  <2>1. UNCHANGED <<up, asked, session, receipt, spawn, listed, unaccounted>>
    BY <1>5 DEF RecordExit, Defer, YieldClaim, KnownAlready, Claim, Finish, Refused,
                Unbooked, Booked, Announce, Forget
  <2>2. \A t \in Sessions : proxy'[t] = proxy[t] \/ proxy'[t] = "none"
    BY <1>5 DEF RecordExit, Defer, YieldClaim, KnownAlready, Claim, Finish, Refused,
                Unbooked, Booked, Announce, Forget
  <2> QED
    BY <2>1, <2>2
<1>6. CASE StartHost
  BY <1>6 DEF StartHost, app
<1>7. CASE Connect \/ AdoptionFails \/ Publish \/ ReadReceipts \/ GiveUp \/ Adopted
  BY <1>7 DEF Connect, AdoptionFails, Publish, ReadReceipts, GiveUp, Adopted
<1>8. CASE List \/ MakeProxies \/ Scan
  BY <1>8 DEF List, MakeProxies, Scan
<1>9. CASE LoseConnection
  <2>1. /\ UNCHANGED <<up, session, receipt, proxy, listed, unaccounted>>
        /\ asked' \subseteq asked
    BY <1>9 DEF LoseConnection
  <2>2. \A t \in Sessions :
            spawn'[t] = IF spawn[t] = "asking" THEN "failing" ELSE spawn[t]
    BY <1>9 DEF LoseConnection
  <2> QED
    BY <2>1, <2>2
<1>10. CASE HostDies
  <2>1. /\ UNCHANGED <<receipt, proxy, listed, unaccounted>>
        /\ asked' = {}
    BY <1>10 DEF HostDies
  <2>2. \A t \in Sessions :
            spawn'[t] = IF spawn[t] = "asking" THEN "failing" ELSE spawn[t]
    BY <1>10 DEF HostDies
  <2>3. \A t \in Sessions :
            /\ session'[t] # "running"
            /\ session'[t] = "unborn" <=> session[t] = "unborn"
    BY <1>10 DEF HostDies
  <2> QED
    BY <2>1, <2>2, <2>3
<1>11. CASE AppRestarts
  <2>1. /\ UNCHANGED <<up, session, receipt>>
        /\ asked' \subseteq asked /\ listed' = {} /\ unaccounted' = {}
    BY <1>11 DEF AppRestarts
  <2>2. \A t \in Sessions :
            /\ spawn'[t] = IF spawn[t] = "new" THEN "new" ELSE "failed"
            /\ proxy'[t] = "none"
    BY <1>11 DEF AppRestarts
  <2> QED
    BY <2>1, <2>2
<1>12. CASE UNCHANGED vars
  BY <1>12 DEF vars, app
<1>13. ASSUME NEW s \in Sessions, Replay(s)
       PROVE  StartInv'
  BY <1>13 DEF Replay
<1> QED
  BY <1>1, <1>2, <1>3, <1>4, <1>5, <1>6, <1>7, <1>8, <1>9, <1>10, <1>11, <1>12, <1>13
     DEF Next, Spawn, Adopt

(* What a step may leave alone of the news of a session.                   *)
SameNews(s) ==
    /\ receipt'[s] = receipt[s] /\ recordedAs'[s] = recordedAs[s]
    /\ journal'[s] = journal[s]
    /\ todo'[s] = todo[s] /\ deferred'[s] = deferred[s]
    /\ s \in frames' => s \in frames
    /\ s \in exited' => s \in exited
    /\ \A k \in Reporters : report'[k][s] = report[k][s]

(* A step that has news of one ended session only.                         *)
LEMMA NewsOfOne ==
    ASSUME NewsInv, NEW s \in Sessions, session[s] \notin {"unborn", "running"},
           UNCHANGED session, \A t \in Sessions : t # s => SameNews(t)
    PROVE  NewsInv'
  BY DEF NewsInv, Unheard, SameNews

LEMMA NoNews ==
    ASSUME NewsInv, UNCHANGED session, \A t \in Sessions : SameNews(t)
    PROVE  NewsInv'
  BY DEF NewsInv, Unheard, SameNews

LEMMA NewsInit == Init => NewsInv
  BY DEF Init, NewsInv, Unheard, Nothing, NoExit, Exits

LEMMA NewsStep ==
    ASSUME TypeOK, StartInv, NewsInv, KnownInv, [Next]_vars
    PROVE  NewsInv'
<1> USE ShapeOf
<1>1. ASSUME NEW s \in Sessions,
             HostStarts(s) \/ HostReaps(s) \/ HostWrites(s)
               \/ HostTells(s) \/ HostForgets(s)
      PROVE  NewsInv'
  <2>1. /\ UNCHANGED <<recordedAs, journal, todo, deferred, exited, report>>
        /\ \A t \in Sessions : t # s => session'[t] = session[t] /\ receipt'[t] = receipt[t]
        /\ frames' \subseteq frames \cup {s}
    BY <1>1 DEF HostStarts, HostReaps, HostWrites, HostTells, HostForgets, app, spawns,
                vouched, adopter, store, wire, TypeOK
  <2>2. session'[s] \in {"unborn", "running"} => Unheard(s)'
    <3>1. CASE HostStarts(s)
      <4>1. Unheard(s)
        BY <3>1 DEF HostStarts, StartInv, NewsInv
      <4>2. receipt'[s] = "spawned" /\ frames' = frames
        BY <3>1 DEF HostStarts, TypeOK, wire
      <4> QED
        BY <2>1, <4>1, <4>2 DEF Unheard, Exits
    <3>2. CASE HostReaps(s) \/ HostWrites(s) \/ HostTells(s)
      BY <3>2 DEF HostReaps, HostWrites, HostTells, TypeOK
    <3>3. CASE HostForgets(s)
      <4>1. receipt'[s] = "none" /\ frames' = frames /\ session' = session
        BY <3>3 DEF HostForgets, TypeOK, wire
      <4> QED
        BY <2>1, <4>1 DEF Unheard, Exits, NewsInv
    <3> QED
      BY <1>1, <3>1, <3>2, <3>3
  <2>3. ASSUME NEW t \in Sessions, t # s, session'[t] \in {"unborn", "running"}
        PROVE  Unheard(t)'
    BY <2>1, <2>3 DEF NewsInv, Unheard
  <2> QED
    BY <2>2, <2>3 DEF NewsInv
<1>2. ASSUME NEW s \in Sessions,
             HostRefuses(s) \/ Ask(s) \/ Unanswered(s) \/ Answered(s) \/ Confirm(s)
      PROVE  NewsInv'
  <2>1. UNCHANGED <<session, receipt, recordedAs, journal, todo, deferred, exited,
                  report, frames>>
    BY <1>2 DEF HostRefuses, Ask, Unanswered, Answered, Confirm, vouched, adopter, store,
                wire, outside, host
  <2> QED
    BY <2>1, NoNews DEF SameNews
<1>3. ASSUME NEW s \in Sessions, Started(s) \/ Failed(s)
      PROVE  NewsInv'
  <2>1. TakeDeferred(s) /\ UNCHANGED <<session, receipt, recordedAs, journal, todo, frames>>
    BY <1>3 DEF Started, Failed, adopter, store, wire, outside, host
  <2>2. CASE deferred[s] = NoExit
    <3>1. UNCHANGED <<report, exited>> /\ \A t \in Sessions : deferred'[t] = deferred[t]
      BY <2>1, <2>2 DEF TakeDeferred, vouched, TypeOK
    <3> QED
      BY <2>1, <3>1, NoNews DEF SameNews
  <2>3. CASE deferred[s] # NoExit
    <3>1. session[s] \notin {"unborn", "running"}
      BY <2>3 DEF NewsInv, Unheard
    <3>2. report' = [report EXCEPT !["spawn"][s] = Reporting(deferred[s])]
      BY <2>1, <2>3 DEF TakeDeferred
    <3>3. deferred[s] \in Exits
      BY <2>3 DEF TypeOK
    <3>4. Moves("spawn", s, "reporting")
      BY <3>2, <3>3, ReportingMoves
    <3>5. exited' = exited \cup {s}
      BY <2>1, <2>3 DEF TakeDeferred, NoteEnded
    <3>6. \A t \in Sessions : t # s => deferred'[t] = deferred[t]
      BY <2>1 DEF TakeDeferred, TypeOK
    <3> QED
      BY <2>1, <3>1, <3>4, <3>5, <3>6, NewsOfOne DEF SameNews, Moves
  <2> QED
    BY <2>2, <2>3
<1>4. ASSUME NEW s \in Sessions, DeliverExit(s)
      PROVE  NewsInv'
  <2>1. Moves("frame", s, "reporting")
    BY <1>4, ReportingMoves DEF DeliverExit, Exits
  <2>2. session[s] \notin {"unborn", "running"}
    BY <1>4 DEF DeliverExit, NewsInv, Unheard
  <2>3. /\ UNCHANGED <<session, receipt, recordedAs, journal, todo, deferred>>
        /\ frames' \subseteq frames /\ exited' = exited \cup {s}
    BY <1>4 DEF DeliverExit, NoteEnded, host, spawns, adopter, store
  <2> QED
    BY <2>1, <2>2, <2>3, NewsOfOne DEF SameNews, Moves
<1>5. ASSUME NEW s \in Sessions, AdoptExit(s)
      PROVE  NewsInv'
  <2>1. Moves("adopt", s, "reporting")
    BY <1>5, ReportingMoves DEF AdoptExit, Shape
  <2>2. session[s] \notin {"unborn", "running"}
    BY <1>5 DEF AdoptExit, NewsInv, Unheard
  <2>3. /\ UNCHANGED <<session, receipt, recordedAs, journal, deferred, frames>>
        /\ exited' = exited \cup {s}
        /\ \A t \in Sessions : t # s => todo'[t] = todo[t]
    BY <1>5 DEF AdoptExit, NoteEnded, host, wire, outside, spawns, store, TypeOK
  <2> QED
    BY <2>1, <2>2, <2>3, NewsOfOne DEF SameNews, Moves
<1>6. ASSUME NEW s \in Sessions, NEW k \in Reporters, RecordExit(k, s)
      PROVE  NewsInv'
  <2>1. report[k][s] # Idle
    BY <1>6 DEF RecordExit, Defer, YieldClaim, KnownAlready, Claim, Finish, Refused,
                Unbooked, Booked, Announce, Forget, Idle
  <2>2. session[s] \notin {"unborn", "running"}
    BY <2>1 DEF NewsInv, Unheard
  <2>3. \E at \in Places \cup {"idle"} : Moves(k, s, at)
    <3>1. CASE Defer(k, s) \/ YieldClaim(k, s) \/ Forget(k, s)
      BY <3>1, DoneMoves DEF Defer, YieldClaim, Forget
    <3>2. CASE KnownAlready(k, s) \/ Claim(k, s)
      BY <2>1, <3>2, GoesMoves DEF KnownAlready, Claim, Places
    <3>3. CASE Announce(k, s)
      BY <2>1, <3>3, GoesMoves DEF Announce, Places
    <3>4. CASE Finish(k, s) \/ Refused(k, s) \/ Unbooked(k, s)
      BY <3>4, BookedMoves DEF Finish, Refused, Unbooked, Places
    <3> QED
      BY <1>6, <3>1, <3>2, <3>3, <3>4 DEF RecordExit
  <2>4. UNCHANGED <<session, receipt, todo, exited, frames>>
    BY <1>6 DEF RecordExit, Defer, YieldClaim, KnownAlready, Claim, Finish, Refused,
                Unbooked, Booked, Announce, Forget, vouched, adopter, wire, outside, host
  <2>5. \A t \in Sessions : t # s =>
            recordedAs'[t] = recordedAs[t] /\ journal'[t] = journal[t]
    <3>1. CASE Finish(k, s) \/ Refused(k, s) \/ Unbooked(k, s)
      BY <3>1 DEF Finish, Refused, Unbooked, Records, TypeOK
    <3>2. CASE Defer(k, s) \/ YieldClaim(k, s) \/ KnownAlready(k, s) \/ Claim(k, s)
                 \/ Announce(k, s) \/ Forget(k, s)
      BY <3>2 DEF Defer, YieldClaim, KnownAlready, Claim, Announce, Forget, store
    <3> QED
      BY <1>6, <3>1, <3>2 DEF RecordExit
  <2>6. \A t \in Sessions : t # s => deferred'[t] = deferred[t]
    BY <1>6 DEF RecordExit, Defer, YieldClaim, KnownAlready, Claim, Finish, Refused,
                Unbooked, Booked, Announce, Forget, spawns, TypeOK
  <2> QED
    BY <2>2, <2>3, <2>4, <2>5, <2>6, NewsOfOne DEF SameNews, Moves
<1>7. CASE StartHost
  <2>1. UNCHANGED <<session, recordedAs, journal, todo, deferred, exited,
                  report, frames>>
    BY <1>7 DEF StartHost, app, spawns, vouched, adopter, store, wire
  <2>2. \A t \in Sessions : session[t] \in {"unborn", "running"} => receipt'[t] = receipt[t]
    BY <1>7 DEF StartHost, StartInv
  <2> QED
    BY <2>1, <2>2 DEF NewsInv, Unheard
<1>8. CASE Connect \/ List \/ AdoptionFails \/ Publish \/ MakeProxies \/ Scan \/ Adopted
  <2>1. UNCHANGED <<session, receipt, recordedAs, journal, todo, deferred, exited,
                  report, frames>>
    BY <1>8 DEF Connect, List, AdoptionFails, Publish, MakeProxies, Scan, Adopted,
                spawns, vouched, adopter, store, wire, outside, host
  <2> QED
    BY <2>1, NoNews DEF SameNews
<1>9. CASE ReadReceipts
  <2>1. UNCHANGED <<session, receipt, recordedAs, journal, deferred, exited, report, frames>>
    BY <1>9 DEF ReadReceipts, spawns, vouched, store, wire, outside, host
  <2>2. \A t \in Sessions : todo'[t] = todo[t] \/ receipt[t] \in Exits \/ todo'[t] = NoExit
    BY <1>9 DEF ReadReceipts
  <2> QED
    BY <2>1, <2>2 DEF NewsInv, Unheard
<1>10. CASE GiveUp
  <2>1. UNCHANGED <<session, receipt, recordedAs, journal, deferred, exited, report, frames>>
    BY <1>10 DEF GiveUp, spawns, vouched, store, wire, outside, host
  <2>2. \A t \in Sessions : session[t] \in {"unborn", "running"} => todo'[t] = NoExit
    BY <1>10 DEF GiveUp, KnownInv, StartInv
  <2> QED
    BY <2>1, <2>2 DEF NewsInv, Unheard
<1>11. CASE LoseConnection
  <2>1. /\ UNCHANGED <<session, receipt, recordedAs, journal, todo, deferred, exited, report>>
        /\ frames' \subseteq frames
    BY <1>11 DEF LoseConnection, adopter, store
  <2> QED
    BY <2>1, NoNews DEF SameNews
<1>12. CASE HostDies
  <2>1. /\ UNCHANGED <<receipt, recordedAs, journal, todo, deferred, exited, report>>
        /\ frames' \subseteq frames
    BY <1>12 DEF HostDies, adopter, store
  <2>2. \A t \in Sessions :
            session'[t] \in {"unborn", "running"} => session[t] = "unborn"
    BY <1>12 DEF HostDies
  <2> QED
    BY <2>1, <2>2 DEF NewsInv, Unheard
<1>13. CASE AppRestarts
  <2>1. UNCHANGED <<session, receipt, recordedAs, journal>> /\ frames' = {} /\ exited' = {}
    BY <1>13 DEF AppRestarts
  <2>2. \A t \in Sessions : todo'[t] = NoExit /\ deferred'[t] = NoExit
    BY <1>13 DEF AppRestarts, Nothing
  <2>3. \A t \in Sessions : \A k \in Reporters : report'[k][t] = Idle
    BY <1>13 DEF AppRestarts
  <2> QED
    BY <2>1, <2>2, <2>3 DEF NewsInv, Unheard
<1>14. CASE UNCHANGED vars
  <2>1. UNCHANGED <<session, receipt, recordedAs, journal, todo, deferred, exited,
                  report, frames>>
    BY <1>14 DEF vars, app, spawns, vouched, adopter, store, wire, outside, host
  <2> QED
    BY <2>1, NoNews DEF SameNews
<1>15. ASSUME NEW s \in Sessions, Replay(s)
       PROVE  NewsInv'
  <2>1. session[s] \notin {"unborn", "running"}
    BY <1>15 DEF Replay, NewsInv, Unheard
  <2>2. UNCHANGED <<session, receipt, todo, deferred, exited, report, frames>>
    BY <1>15 DEF Replay, spawns, vouched, adopter, wire, outside, host
  <2>3. \A t \in Sessions : t # s =>
            recordedAs'[t] = recordedAs[t] /\ journal'[t] = journal[t]
    BY <1>15 DEF Replay, Records, TypeOK
  <2> QED
    BY <2>1, <2>2, <2>3, NewsOfOne DEF SameNews
<1> QED
  BY <1>1, <1>2, <1>3, <1>4, <1>5, <1>6, <1>7, <1>8, <1>9, <1>10, <1>11, <1>12, <1>13, <1>14,
     <1>15
     DEF Next, Spawn, Adopt

(* What the app knows of running sessions, and what it vouches for, when   *)
(* the adoption does not move on.                                          *)
LEMMA KnownStays ==
    ASSUME KnownInv, UNCHANGED <<adoption, listed, unaccounted>>,
           live' => live,
           \A s \in Sessions : session'[s] = "running" =>
               /\ session[s] = "running"
               /\ Confirmed(s)' => Confirmed(s)
               /\ proxy'[s] = "ready" => Confirmed(s) \/ proxy[s] = "ready"
               /\ s \in late => s \in late'
               /\ s \in held => s \in held',
           unaccounted \subseteq Sessions
    PROVE  KnownInv'
<1> USE DEF KnownInv
<1>1. (adoption \notin {"idle", "asking"} =>
          \A s \in Sessions : session[s] = "running" /\ (Confirmed(s) \/ proxy[s] = "ready")
                                  => s \in listed \cup late)'
  OBVIOUS
<1>2. (adoption = "scanned" =>
          \A s \in unaccounted : /\ s \notin listed
                                 /\ session[s] = "running" => s \in late)'
  OBVIOUS
<1>3. (live =>
          \A s \in Sessions :
              /\ session[s] = "running"
              /\ Confirmed(s) \/ proxy[s] = "ready" \/ (adoption = "published" /\ s \in listed)
              => s \in held)'
  OBVIOUS
<1> QED
  BY <1>1, <1>2, <1>3

(* A session whose exit was noted does not run.                            *)
LEMMA NotedDoesNotRun ==
    ASSUME NewsInv, NEW s \in Sessions, ~Unheard(s)
    PROVE  session[s] # "running"
  BY DEF NewsInv

LEMMA KnownStep ==
    ASSUME TypeOK, StartInv, NewsInv, KnownInv, [Next]_vars
    PROVE  KnownInv'
<1>0. unaccounted \subseteq Sessions /\ listed \subseteq Sessions
  BY DEF TypeOK
<1>1. ASSUME NEW s \in Sessions,
             HostRefuses(s) \/ HostReaps(s) \/ HostWrites(s) \/ HostTells(s)
               \/ HostForgets(s)
      PROVE  KnownInv'
  <2>1. UNCHANGED <<adoption, listed, unaccounted, live, late, held, proxy>>
    BY <1>1 DEF HostRefuses, HostReaps, HostWrites, HostTells, HostForgets, app, spawns,
                vouched, adopter
  <2>2. \A t \in Sessions : session'[t] = "running" => session[t] = "running"
    BY <1>1 DEF HostRefuses, HostReaps, HostWrites, HostTells, HostForgets, TypeOK
  <2>3. \A t \in Sessions : Confirmed(t)' => Confirmed(t)
    BY <1>1 DEF HostRefuses, HostReaps, HostWrites, HostTells, HostForgets, app, spawns,
                Confirmed, TypeOK
  <2> QED
    BY <1>0, <2>1, <2>2, <2>3, KnownStays
<1>2. ASSUME NEW s \in Sessions, HostStarts(s)
      PROVE  KnownInv'
  <2>1. UNCHANGED <<adoption, listed, unaccounted, live, late, held, proxy, spawn>>
    BY <1>2 DEF HostStarts, app, spawns, vouched, adopter
  <2>2. \A t \in Sessions : t # s => session'[t] = session[t]
    BY <1>2 DEF HostStarts, TypeOK
  <2>3. session[s] = "unborn"
    BY <1>2 DEF HostStarts, StartInv
  <2>4. ~Confirmed(s) /\ proxy[s] # "ready" /\ s \notin listed /\ s \notin unaccounted
    BY <2>3 DEF StartInv, Confirmed
  <2> QED
    BY <1>0, <2>1, <2>2, <2>4 DEF KnownInv, Confirmed
<1>3. ASSUME NEW s \in Sessions, Ask(s) \/ Unanswered(s) \/ Answered(s)
      PROVE  KnownInv'
  <2>1. UNCHANGED <<adoption, listed, unaccounted, live, late, held, session>>
    BY <1>3 DEF Ask, Unanswered, Answered, vouched, adopter, outside, host
  <2>2. \A t \in Sessions : Confirmed(t)' => Confirmed(t)
    BY <1>3 DEF Ask, Unanswered, Answered, Confirmed, TypeOK
  <2>3. \A t \in Sessions : proxy'[t] = "ready" => proxy[t] = "ready"
    BY <1>3 DEF Ask, Unanswered, Answered, TypeOK
  <2> QED
    BY <1>0, <2>1, <2>2, <2>3, KnownStays
<1>4. ASSUME NEW s \in Sessions, Confirm(s)
      PROVE  KnownInv'
  <2>1. /\ UNCHANGED <<adoption, listed, unaccounted, live, proxy, session>>
        /\ held \subseteq held' /\ late \subseteq late'
    BY <1>4 DEF Confirm, adopter, outside, host
  <2>2. \A t \in Sessions : t # s /\ Confirmed(t)' => Confirmed(t)
    BY <1>4 DEF Confirm, Confirmed, TypeOK
  <2>3. session[s] = "running" =>
            s \in held' /\ (adoption # "idle" => s \in late')
    BY <1>4 DEF Confirm, NewsInv, Unheard
  <2>4. (adoption \notin {"idle", "asking"} =>
          \A t \in Sessions : session[t] = "running" /\ (Confirmed(t) \/ proxy[t] = "ready")
                                  => t \in listed \cup late)'
    BY <2>1, <2>2, <2>3 DEF KnownInv
  <2>5. (adoption = "scanned" =>
          \A t \in unaccounted : /\ t \notin listed
                                 /\ session[t] = "running" => t \in late)'
    BY <2>1 DEF KnownInv
  <2>6. (live =>
          \A t \in Sessions :
              /\ session[t] = "running"
              /\ Confirmed(t) \/ proxy[t] = "ready" \/ (adoption = "published" /\ t \in listed)
              => t \in held)'
    BY <2>1, <2>2, <2>3 DEF KnownInv
  <2> QED
    BY <2>4, <2>5, <2>6 DEF KnownInv
<1>5. ASSUME NEW s \in Sessions, Started(s) \/ Failed(s)
      PROVE  KnownInv'
  <2>1. TakeDeferred(s) /\ UNCHANGED <<session, adoption, listed, unaccounted>>
    BY <1>5 DEF Started, Failed, adopter, outside, host
  <2>2. /\ live' = live
        /\ \A t \in Sessions : session[t] = "running" =>
               (t \in late => t \in late') /\ (t \in held => t \in held')
    <3>1. CASE deferred[s] = NoExit
      BY <2>1, <3>1 DEF TakeDeferred, vouched
    <3>2. CASE deferred[s] # NoExit
      <4>1. session[s] # "running"
        BY <3>2, NotedDoesNotRun DEF Unheard
      <4> QED
        BY <2>1, <3>2, <4>1 DEF TakeDeferred, NoteEnded
    <3> QED
      BY <3>1, <3>2
  <2>3. \A t \in Sessions : Confirmed(t)' => Confirmed(t)
    BY <1>5 DEF Started, Failed, Confirmed, TypeOK
  <2>4. \A t \in Sessions : proxy'[t] = "ready" => Confirmed(t) \/ proxy[t] = "ready"
    BY <1>5 DEF Started, Failed, Confirmed, TypeOK
  <2> QED
    BY <1>0, <2>1, <2>2, <2>3, <2>4, KnownStays
<1>6. ASSUME NEW s \in Sessions, DeliverExit(s) \/ AdoptExit(s)
      PROVE  KnownInv'
  <2>1. /\ NoteEnded(s)
        /\ UNCHANGED <<session, adoption, listed, unaccounted, proxy, spawn>>
    BY <1>6 DEF DeliverExit, AdoptExit, adopter, spawns, outside, host
  <2>2. session[s] # "running"
    BY <1>6, NotedDoesNotRun DEF DeliverExit, AdoptExit, Unheard
  <2> QED
    BY <1>0, <2>1, <2>2, KnownStays DEF NoteEnded, Confirmed
<1>7. ASSUME NEW s \in Sessions, NEW k \in Reporters, RecordExit(k, s)
      PROVE  KnownInv'
  <2>1. UNCHANGED <<session, adoption, listed, unaccounted, live, late, held, spawn>>
    BY <1>7 DEF RecordExit, Defer, YieldClaim, KnownAlready, Claim, Finish, Refused,
                Unbooked, Booked, Announce, Forget, vouched, adopter, spawns, outside, host
  <2>2. \A t \in Sessions : proxy'[t] = "ready" => proxy[t] = "ready"
    BY <1>7 DEF RecordExit, Defer, YieldClaim, KnownAlready, Claim, Finish, Refused,
                Unbooked, Booked, Announce, Forget, spawns, TypeOK
  <2> QED
    BY <1>0, <2>1, <2>2, KnownStays DEF Confirmed
<1>8. CASE StartHost
  BY <1>0, <1>8, KnownStays DEF StartHost, app, spawns, vouched, adopter, Confirmed
<1>9. CASE Connect
  <2>1. ~live' /\ adoption' = "asking"
    BY <1>9 DEF Connect
  <2> QED
    BY <2>1 DEF KnownInv
<1>10. CASE List
  <2>1. /\ adoption' = "listed" /\ UNCHANGED <<session, live, held, late, proxy, spawn>>
        /\ listed' = {s \in Sessions : session[s] = "running"}
    BY <1>10 DEF List, vouched, spawns, outside, host
  <2> QED
    BY <2>1 DEF KnownInv, Confirmed
<1>11. CASE AdoptionFails \/ Adopted
  <2>1. adoption' = "idle" /\ UNCHANGED <<session, live, held, proxy, spawn>>
    BY <1>11 DEF AdoptionFails, Adopted, spawns, outside, host
  <2> QED
    BY <2>1 DEF KnownInv, Confirmed
<1>12. CASE Publish
  <2>1. /\ adoption = "listed" /\ adoption' = "published"
        /\ held' = late \cup (listed \ exited)
        /\ UNCHANGED <<session, late, listed, proxy, spawn>>
    BY <1>12 DEF Publish, spawns, outside, host
  <2>2. \A s \in Sessions : session[s] = "running" => s \notin exited
    BY DEF NewsInv, Unheard
  <2> QED
    BY <2>1, <2>2 DEF KnownInv, Confirmed
<1>13. CASE MakeProxies
  <2>1. /\ adoption = "published" /\ adoption' = "proxied"
        /\ UNCHANGED <<session, live, held, late, listed, spawn>>
    BY <1>13 DEF MakeProxies, vouched, spawns, outside, host
  <2>2. \A s \in Sessions : proxy'[s] = "ready" => proxy[s] = "ready" \/ s \in listed
    BY <1>13 DEF MakeProxies
  <2> QED
    BY <2>1, <2>2 DEF KnownInv, Confirmed
<1>14. CASE ReadReceipts
  <2>1. /\ adoption = "proxied" /\ adoption' = "receipts"
        /\ UNCHANGED <<session, live, held, late, listed, proxy, spawn>>
    BY <1>14 DEF ReadReceipts, vouched, spawns, outside, host
  <2> QED
    BY <2>1 DEF KnownInv, Confirmed
<1>15. CASE Scan
  <2>1. /\ adoption = "receipts" /\ adoption' = "scanned"
        /\ unaccounted' = {s \in Sessions : proxy[s] = "ready"} \ listed
        /\ UNCHANGED <<session, live, held, late, listed, proxy, spawn>>
    BY <1>15 DEF Scan, vouched, spawns, outside, host
  <2> QED
    BY <2>1 DEF KnownInv, Confirmed
<1>16. CASE GiveUp
  <2>1. /\ adoption = "scanned" /\ adoption' = "gone"
        /\ UNCHANGED <<session, live, held, late, listed, proxy, spawn>>
    BY <1>16 DEF GiveUp, vouched, spawns, outside, host
  <2> QED
    BY <2>1 DEF KnownInv, Confirmed
<1>17. CASE LoseConnection
  <2>1. /\ live' = FALSE
        /\ UNCHANGED <<session, adoption, listed, unaccounted, held, late, proxy>>
    BY <1>17 DEF LoseConnection, adopter
  <2>2. \A t \in Sessions : Confirmed(t)' => Confirmed(t)
    BY <1>17 DEF LoseConnection, Confirmed
  <2> QED
    BY <1>0, <2>1, <2>2, KnownStays
<1>18. CASE HostDies
  <2>1. /\ live' = FALSE
        /\ UNCHANGED <<adoption, listed, unaccounted, held, late, proxy>>
    BY <1>18 DEF HostDies, adopter
  <2>2. \A t \in Sessions : session'[t] # "running"
    BY <1>18 DEF HostDies
  <2> QED
    BY <1>0, <2>1, <2>2, KnownStays
<1>19. CASE AppRestarts
  <2>1. live' = FALSE /\ adoption' = "idle"
    BY <1>19 DEF AppRestarts
  <2> QED
    BY <2>1 DEF KnownInv
<1>20. CASE UNCHANGED vars
  BY <1>0, <1>20, KnownStays DEF vars, app, spawns, vouched, adopter, outside, host,
                                 Confirmed
<1>21. ASSUME NEW s \in Sessions, Replay(s)
       PROVE  KnownInv'
  BY <1>0, <1>21, KnownStays DEF Replay, spawns, vouched, adopter, outside, host, Confirmed
<1> QED
  BY <1>1, <1>2, <1>3, <1>4, <1>5, <1>6, <1>7, <1>8, <1>9, <1>10, <1>11, <1>12, <1>13,
     <1>14, <1>15, <1>16, <1>17, <1>18, <1>19, <1>20, <1>21
     DEF Next, Spawn, Adopt

KnowledgeInv == TypeOK /\ StartInv /\ NewsInv /\ KnownInv

LEMMA KnowledgeAlways == Spec => []KnowledgeInv
<1>1. Init => KnowledgeInv
  BY TypeInit, StartInit, NewsInit DEF KnowledgeInv, KnownInv, Init
<1>2. KnowledgeInv /\ [Next]_vars => KnowledgeInv'
  BY TypeStep, StartStep, NewsStep, KnownStep DEF KnowledgeInv
<1> QED
  BY <1>1, <1>2, PTL DEF Spec

(* However an adoption and the spawns that overlap it interleave, the app  *)
(* never records as ended with its host a session that still runs          *)
(* (adopt's scan of the proxies, `late` and `exited`).                     *)
THEOREM RunningIsKept == Spec => []RunningIsNotGivenUp
<1>1. KnowledgeInv => RunningIsNotGivenUp
  BY DEF KnowledgeInv, NewsInv, Unheard, RunningIsNotGivenUp, NoExit
<1> QED
  BY <1>1, KnowledgeAlways, PTL

(* Nor does holds_session deny a running session this app has a proxy for, *)
(* while it vouches for any.                                               *)
THEOREM RunningIsKnown == Spec => []RunningIsVouched
<1>1. KnowledgeInv => RunningIsVouched
  BY DEF KnowledgeInv, KnownInv, RunningIsVouched
<1> QED
  BY <1>1, KnowledgeAlways, PTL

=============================================================================
