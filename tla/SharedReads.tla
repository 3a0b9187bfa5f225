---------------------------- MODULE SharedReads ----------------------------
(***************************************************************************)
(* Identical reads that share one child process while they queue at the    *)
(* spawn gate (run_read_shared, engine/git_cli.rs).                        *)
(*                                                                         *)
(* One key: calls under different keys share nothing.  A call runs on a    *)
(* thread of its own, and the steps here are its critical sections: the    *)
(* table of queued reads (with the retry slot of one flight, locked inside *)
(* it), and the result of one flight.  A call that leads creates one       *)
(* flight and ends with it, so a flight is named by the call that leads.   *)
(* The gate and the child are a choice: when it is admitted, how it ends.  *)
(* When a call's own deadline has passed is a choice too, and final.       *)
(*                                                                         *)
(* Left out: reads that are not shared (no working directory), the output  *)
(* kept from a read that met its deadline, counters, and the wording of    *)
(* errors.                                                                 *)
(***************************************************************************)
EXTENDS FiniteSets

CONSTANTS Calls,  \* calls of run_read_shared with the same key
          None

Outcomes == {"answer", "failure", "deadline"}

ASSUME NoneIsNoCall == None \notin Calls /\ None \notin Outcomes

VARIABLES pc,       \* where each call is
          on,       \* the flight it leads or has joined
          after,    \* the flight whose leader timed out on it last
          expired,  \* calls whose own deadline has passed
          reads,    \* the table's entry: the flight that may be joined
          result,   \* of each flight: what its leader published
          retry,    \* of each flight: the flight that asks again for it
          started,  \* flights whose child has started
          outcome,  \* what each call returned, or a leader is about to
          old       \* what had started or ended when each call was made

shared == <<reads, result, retry>>
vars == <<pc, on, after, expired, reads, result, retry, started, outcome, old>>

\* Calls between their start and their return.
Asking == {c \in Calls : pc[c] \notin {"out", "done"}}

\* Flights nobody may join that has not been waiting since before.
Over == started \union {c \in Calls : pc[c] = "done"}

TypeOK ==
    /\ pc \in [Calls -> {"out", "asking", "waiting", "queued", "running",
                         "closing", "publishing", "done"}]
    /\ on \in [Calls -> Calls \union {None}]
    /\ after \in [Calls -> Calls \union {None}]
    /\ expired \in SUBSET Calls
    /\ reads \in Calls \union {None}
    /\ result \in [Calls -> Outcomes \union {None}]
    /\ retry \in [Calls -> Calls \union {None}]
    /\ started \in SUBSET Calls
    /\ outcome \in [Calls -> Outcomes \union {None}]
    /\ old \in [Calls -> SUBSET Calls]

-----------------------------------------------------------------------------
Init ==
    /\ pc = [c \in Calls |-> "out"]
    /\ on = [c \in Calls |-> None]
    /\ after = [c \in Calls |-> None]
    /\ expired = {}
    /\ reads = None
    /\ result = [c \in Calls |-> None]
    /\ retry = [c \in Calls |-> None]
    /\ started = {}
    /\ outcome = [c \in Calls |-> None]
    /\ old = [c \in Calls |-> {}]

\* The call is made: its deadline is set.
Call(c) ==
    /\ pc[c] = "out"
    /\ pc' = [pc EXCEPT ![c] = "asking"]
    /\ old' = [old EXCEPT ![c] = Over]
    /\ UNCHANGED <<shared, on, after, expired, started, outcome>>

\* The flight a call finds: the retry its last flight's callers share, however
\* far its child has got, or else the one that is queued.
Known(c) ==
    IF after[c] # None /\ retry[after[c]] # None THEN retry[after[c]] ELSE reads

FaultySetRetry(c, flight) == retry

\* The first to ask again decides where the others go.
SetRetry(c, flight) ==
    IF after[c] # None /\ retry[after[c]] = None
      THEN [retry EXCEPT ![after[c]] = flight]
      ELSE retry

Join(c) ==
    /\ pc[c] = "asking" /\ Known(c) # None
    /\ pc' = [pc EXCEPT ![c] = "waiting"]
    /\ on' = [on EXCEPT ![c] = Known(c)]
    /\ retry' = SetRetry(c, Known(c))
    /\ UNCHANGED <<reads, result, after, expired, started, outcome, old>>

Lead(c) ==
    /\ pc[c] = "asking" /\ Known(c) = None
    /\ pc' = [pc EXCEPT ![c] = "queued"]
    /\ on' = [on EXCEPT ![c] = c]
    /\ reads' = c
    /\ retry' = SetRetry(c, c)
    /\ UNCHANGED <<result, after, expired, started, outcome, old>>

\* close_shared_read: the entry goes, if it is still this flight's.
Closed(c) == IF reads = c THEN None ELSE reads

FaultyAdmit(c) ==
    /\ pc[c] = "queued"
    /\ pc' = [pc EXCEPT ![c] = "running"]
    /\ started' = started \union {c}
    /\ UNCHANGED <<shared, on, after, expired, outcome, old>>

\* The gate admits the leader, which closes its flight and then starts its
\* child; what others do in between they could have done before.
Admit(c) ==
    /\ pc[c] = "queued"
    /\ pc' = [pc EXCEPT ![c] = "running"]
    /\ reads' = Closed(c)
    /\ started' = started \union {c}
    /\ UNCHANGED <<result, retry, on, after, expired, outcome, old>>

\* The leader's run ends: refused by the gate, failed to start, killed at its
\* deadline (which is no earlier than the call's), answered, or unwound by a
\* panic, which is published as a failure.
End(c) ==
    /\ pc[c] \in {"queued", "running"}
    /\ pc' = [pc EXCEPT ![c] = "closing"]
    /\ \E o \in Outcomes :
         /\ o = "answer" => pc[c] = "running"
         /\ o = "deadline" => c \in expired
         /\ outcome' = [outcome EXCEPT ![c] = o]
    /\ UNCHANGED <<shared, on, after, expired, started, old>>

Close(c) ==
    /\ pc[c] = "closing"
    /\ pc' = [pc EXCEPT ![c] = "publishing"]
    /\ reads' = Closed(c)
    /\ UNCHANGED <<result, retry, on, after, expired, started, outcome, old>>

FaultyPublish(c) ==
    /\ pc[c] = "publishing"
    /\ pc' = [pc EXCEPT ![c] = "done"]
    /\ result' = IF c \in started THEN [result EXCEPT ![c] = outcome[c]] ELSE result
    /\ UNCHANGED <<reads, retry, on, after, expired, started, outcome, old>>

Publish(c) ==
    /\ pc[c] = "publishing"
    /\ pc' = [pc EXCEPT ![c] = "done"]
    /\ result' = [result EXCEPT ![c] = outcome[c]]
    /\ UNCHANGED <<reads, retry, on, after, expired, started, outcome, old>>

\* A joiner's return.
Return(c, o) ==
    /\ pc' = [pc EXCEPT ![c] = "done"]
    /\ outcome' = [outcome EXCEPT ![c] = o]
    /\ UNCHANGED <<shared, on, after, expired, started, old>>

FaultyRead(c) ==
    /\ pc[c] = "waiting" /\ result[on[c]] # None
    /\ Return(c, result[on[c]])

\* The joiner finds a result.  A leader's timeout is no answer to a call with
\* time left: it asks again.
Read(c) ==
    /\ pc[c] = "waiting" /\ result[on[c]] # None
    /\ IF result[on[c]] = "deadline" /\ c \notin expired
         THEN /\ pc' = [pc EXCEPT ![c] = "asking"]
              /\ after' = [after EXCEPT ![c] = on[c]]
              /\ on' = [on EXCEPT ![c] = None]
              /\ UNCHANGED <<shared, expired, started, outcome, old>>
         ELSE Return(c, result[on[c]])

\* The joiner's own deadline comes first, or before it asks again.
TimeOut(c) ==
    /\ c \in expired
    /\ \/ pc[c] = "waiting" /\ result[on[c]] = None
       \/ pc[c] = "asking" /\ after[c] # None
    /\ Return(c, "deadline")

\* A leader that has ended its run does not look at the clock again.
Expire(c) ==
    /\ pc[c] \in {"asking", "waiting", "queued", "running"} /\ c \notin expired
    /\ expired' = expired \union {c}
    /\ UNCHANGED <<shared, pc, on, after, started, outcome, old>>

\* What c's thread does by itself once the call is made.
Run(c) ==
    \/ Join(c) \/ Lead(c)
    \/ Admit(c) \/ End(c) \/ Close(c) \/ Publish(c)
    \/ Read(c)

Next == \E c \in Calls : Call(c) \/ Run(c) \/ TimeOut(c) \/ Expire(c)

Spec == Init /\ [][Next]_vars

(* Threads run: a leader's wait and its child end (each has a deadline),    *)
(* and notified joiners wake.  No joiner needs its own deadline to come.    *)
LiveSpec == Spec /\ \A c \in Calls : WF_vars(Run(c))

-----------------------------------------------------------------------------
(* Properties. *)

(* An answer is of a child that started after the call was made: it has     *)
(* seen every write the caller has, through any chain of retries (a flight  *)
(* leaves the table when it is admitted, before its child starts; a retry   *)
(* stays reachable for those that were waiting).                            *)
AnswersAreFresh == \A c \in Calls : outcome[c] = "answer" => on[c] \notin old[c]

(* A call reports a deadline only when its own has passed, whoever's child  *)
(* it waited on.                                                            *)
DeadlineIsOwn == \A c \in Calls : outcome[c] = "deadline" => c \in expired

Leads(c) == on[c] = c

(* All the joiners a leader's timeout sends back meet one new child, not    *)
(* one each, and no child for callers that came after it was started.       *)
OneRetry ==
    \A c, d \in Calls :
       Leads(c) /\ Leads(d) /\ after[c] # None /\ after[c] = after[d] => c = d

(* Every call returns, though its leader is refused, fails to start, panics *)
(* or times out, and though its own deadline never comes.                   *)
EveryCallReturns == \A c \in Calls : c \in Asking ~> pc[c] = "done"

=============================================================================
