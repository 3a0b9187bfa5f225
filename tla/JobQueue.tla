------------------------------ MODULE JobQueue ------------------------------
(***************************************************************************)
(* What a terminal command executor promises those that submit to it       *)
(* (terminal/executor.rs): jobs start in the order they were accepted, at  *)
(* most Width at a time, each once, and every accepted job is taken.  No   *)
(* threads, no counters, no wakeups.                                       *)
(***************************************************************************)
EXTENDS Naturals, FiniteSets, Sequences

CONSTANTS Jobs, Width

VARIABLES queue,    \* accepted, not yet taken
          running,  \* taken and not ended
          over      \* ended, or skipped because nobody awaits them

jobVars == <<queue, running, over>>

Init == queue = <<>> /\ running = {} /\ over = {}

Known == {queue[i] : i \in 1..Len(queue)} \union running \union over

Accept(j) ==
    /\ j \notin Known
    /\ queue' = Append(queue, j)
    /\ UNCHANGED <<running, over>>

Start ==
    /\ queue # <<>> /\ Cardinality(running) < Width
    /\ running' = running \union {Head(queue)}
    /\ queue' = Tail(queue)
    /\ UNCHANGED over

Skip ==
    /\ queue # <<>> /\ Cardinality(running) < Width
    /\ over' = over \union {Head(queue)}
    /\ queue' = Tail(queue)
    /\ UNCHANGED running

End(j) ==
    /\ j \in running
    /\ running' = running \ {j}
    /\ over' = over \union {j}
    /\ UNCHANGED queue

Next == (\E j \in Jobs : Accept(j) \/ End(j)) \/ Start \/ Skip

Spec == Init /\ [][Next]_jobVars

(* A job at the front of the queue is taken, and one that is taken ends.    *)
FairSpec ==
    /\ Spec
    /\ WF_jobVars(Start \/ Skip)
    /\ \A j \in Jobs : WF_jobVars(End(j))

=============================================================================
