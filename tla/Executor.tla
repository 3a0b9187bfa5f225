------------------------------ MODULE Executor ------------------------------
(***************************************************************************)
(* A terminal command executor: a bounded queue served by threads that are *)
(* started on demand and retire when idle (terminal/executor.rs).  A lane  *)
(* of a session is one with MaxThreads = 1, the control pool a wider one.  *)
(*                                                                         *)
(* The steps are the critical sections of the state's lock, and what       *)
(* happens without it: a notification (sent after the lock is released),   *)
(* a wait's timeout, a wakeup for no reason, and the job itself.  A thread *)
(* that waits leaves the wait first and takes the lock later.              *)
(*                                                                         *)
(* Left out: what jobs do, their panics (contained, so an end like any     *)
(* other), timing and logging.  Whether a thread can be started is a       *)
(* choice.                                                                 *)
(***************************************************************************)
EXTENDS Naturals, FiniteSets, Sequences

CONSTANTS Jobs,        \* one per call of run or spawn
          Awaited,     \* those of run, which holds the executor for its caller
          Workers,     \* names for threads, used again
          MaxThreads,
          Capacity,
          None

ASSUME ExecutorAssumption ==
    /\ IsFiniteSet(Workers) /\ Cardinality(Workers) > MaxThreads
    /\ MaxThreads \in Nat \ {0} /\ Capacity \in Nat \ {0}
    /\ Awaited \subseteq Jobs /\ None \notin Jobs

VARIABLES jobs,       \* the queue
          threads,    \* State.threads
          idle,       \* State.idle
          closed,     \* State.closed
          worker,     \* where each thread is
          work,       \* the job each thread runs
          job,        \* what has become of each job
          dropped,    \* awaited jobs whose caller has left
          notifying,  \* submissions past the lock that have yet to notify
          closing     \* whether the drop of the handle has yet to notify

vars == <<jobs, threads, idle, closed, worker, work, job, dropped, notifying, closing>>

InWait == {"waiting", "woken", "timedOut"}
Alive == {w \in Workers : worker[w] # "none"}
Waiting == {w \in Workers : worker[w] = "waiting"}

TypeOK ==
    /\ jobs \in Seq(Jobs) /\ Len(jobs) <= Capacity
    /\ threads \in 0..MaxThreads /\ idle \in 0..MaxThreads
    /\ closed \in BOOLEAN /\ closing \in BOOLEAN
    /\ worker \in [Workers -> {"none", "looking", "running"} \union InWait]
    /\ work \in [Workers -> Jobs \union {None}]
    /\ job \in [Jobs -> {"out", "queued", "running", "over", "refused"}]
    /\ dropped \in SUBSET Awaited /\ notifying \in SUBSET Jobs

Init ==
    /\ jobs = <<>> /\ threads = 0 /\ idle = 0 /\ closed = FALSE
    /\ worker = [w \in Workers |-> "none"]
    /\ work = [w \in Workers |-> None]
    /\ job = [j \in Jobs |-> "out"]
    /\ dropped = {} /\ notifying = {} /\ closing = FALSE

-----------------------------------------------------------------------------
(* submit.  Whoever submits holds the executor, which is then not closed.   *)

Unsubmitted == <<idle, closed, work, dropped, closing>>

Refuse(j) ==
    /\ job' = [job EXCEPT ![j] = "refused"]
    /\ UNCHANGED <<jobs, threads, worker, notifying>>

Accept(j) ==
    /\ jobs' = Append(jobs, j)
    /\ job' = [job EXCEPT ![j] = "queued"]
    /\ notifying' = notifying \union {j}

\* More jobs wait than idle threads are about to take.
WantsThread == Len(jobs) + 1 > idle /\ threads < MaxThreads

Submit(j) ==
    /\ job[j] = "out" /\ ~closed
    /\ IF Len(jobs) >= Capacity
         THEN Refuse(j)
         ELSE \/ /\ ~WantsThread
                 /\ Accept(j)
                 /\ UNCHANGED <<threads, worker>>
              \/ /\ WantsThread  \* a thread is started
                 /\ Accept(j)
                 /\ threads' = threads + 1
                 /\ \E w \in Workers \ Alive : worker' = [worker EXCEPT ![w] = "looking"]
              \/ /\ WantsThread /\ threads > 0  \* none can be, but there is one
                 /\ Accept(j)
                 /\ UNCHANGED <<threads, worker>>
              \/ /\ WantsThread /\ threads = 0  \* nothing could ever serve it
                 /\ Refuse(j)
    /\ UNCHANGED Unsubmitted

FaultyNotify(j) ==
    /\ j \in notifying
    /\ notifying' = notifying \ {j}
    /\ UNCHANGED <<jobs, threads, idle, closed, worker, work, job, dropped, closing>>

\* notify_one, once the lock is released.
Notify(j) ==
    /\ j \in notifying
    /\ notifying' = notifying \ {j}
    /\ IF Waiting = {}
         THEN UNCHANGED worker
         ELSE \E w \in Waiting : worker' = [worker EXCEPT ![w] = "woken"]
    /\ UNCHANGED <<jobs, threads, idle, closed, work, job, dropped, closing>>

\* The caller's future is dropped while it awaits the answer.
Leave(j) ==
    /\ j \in Awaited \ (dropped \union notifying)
    /\ job[j] \in {"queued", "running"}
    /\ dropped' = dropped \union {j}
    /\ UNCHANGED <<jobs, threads, idle, closed, worker, work, job, notifying, closing>>

\* The last handle goes: nobody is in a call, and nobody awaits one.
Close ==
    /\ ~closed /\ notifying = {}
    /\ \A j \in Awaited \ dropped : job[j] \notin {"queued", "running"}
    /\ closed' = TRUE /\ closing' = TRUE
    /\ UNCHANGED <<jobs, threads, idle, worker, work, job, dropped, notifying>>

FaultyNotifyAll ==
    /\ closing
    /\ closing' = FALSE
    /\ UNCHANGED <<jobs, threads, idle, closed, worker, work, job, dropped, notifying>>

NotifyAll ==
    /\ closing
    /\ closing' = FALSE
    /\ worker' = [w \in Workers |-> IF w \in Waiting THEN "woken" ELSE worker[w]]
    /\ UNCHANGED <<jobs, threads, idle, closed, work, job, dropped, notifying>>

-----------------------------------------------------------------------------
(* work: a thread that can take the lock takes it and looks at the queue.   *)

Looking(w) == worker[w] \in {"looking", "woken", "timedOut"}

\* State.idle when w has the lock, back from a wait or not.
IdleWithout(w) == IF worker[w] \in InWait THEN idle - 1 ELSE idle

\* A job nobody awaits any more is skipped at once.  A caller that leaves after
\* the job is taken and before it looks could have left before.
Take(w) ==
    /\ Looking(w) /\ jobs # <<>>
    /\ jobs' = Tail(jobs)
    /\ idle' = IdleWithout(w)
    /\ IF Head(jobs) \in dropped
         THEN /\ job' = [job EXCEPT ![Head(jobs)] = "over"]
              /\ worker' = [worker EXCEPT ![w] = "looking"]
              /\ UNCHANGED work
         ELSE /\ job' = [job EXCEPT ![Head(jobs)] = "running"]
              /\ worker' = [worker EXCEPT ![w] = "running"]
              /\ work' = [work EXCEPT ![w] = Head(jobs)]
    /\ UNCHANGED <<threads, closed, dropped, notifying, closing>>

FaultyRetires(w) == worker[w] = "timedOut" \/ (jobs = <<>> /\ closed)

\* A thread ends only under the lock that shows it there is nothing to do.
Retires(w) == jobs = <<>> /\ (worker[w] = "timedOut" \/ closed)

Retire(w) ==
    /\ Looking(w) /\ Retires(w)
    /\ threads' = threads - 1
    /\ idle' = IdleWithout(w)
    /\ worker' = [worker EXCEPT ![w] = "none"]
    /\ UNCHANGED <<jobs, closed, work, job, dropped, notifying, closing>>

Wait(w) ==
    /\ Looking(w) /\ jobs = <<>> /\ ~Retires(w)
    /\ idle' = IdleWithout(w) + 1
    /\ worker' = [worker EXCEPT ![w] = "waiting"]
    /\ UNCHANGED <<jobs, threads, closed, work, job, dropped, notifying, closing>>

\* The wait ends by its timeout, or for no reason.
Wake(w) ==
    /\ worker[w] = "waiting"
    /\ \E s \in {"woken", "timedOut"} : worker' = [worker EXCEPT ![w] = s]
    /\ UNCHANGED <<jobs, threads, idle, closed, work, job, dropped, notifying, closing>>

\* The job ends, or panics.
Finish(w) ==
    /\ worker[w] = "running"
    /\ worker' = [worker EXCEPT ![w] = "looking"]
    /\ work' = [work EXCEPT ![w] = None]
    /\ job' = [job EXCEPT ![work[w]] = "over"]
    /\ UNCHANGED <<jobs, threads, idle, closed, dropped, notifying, closing>>

Look(w) == Take(w) \/ Retire(w) \/ Wait(w)

Next ==
    \/ \E j \in Jobs : Submit(j) \/ Notify(j) \/ Leave(j)
    \/ Close \/ NotifyAll
    \/ \E w \in Workers : Look(w) \/ Wake(w) \/ Finish(w)

Spec == Init /\ [][Next]_vars

(* Threads run, jobs end (a write gives up after its budget), and whoever   *)
(* has released the lock goes on to notify.  No wait has to time out.       *)
LiveSpec ==
    /\ Spec
    /\ \A w \in Workers : WF_vars(Look(w)) /\ WF_vars(Finish(w))
    /\ \A j \in Jobs : WF_vars(Notify(j))
    /\ WF_vars(NotifyAll)

-----------------------------------------------------------------------------
(* Properties. *)

(* A job in the queue has a thread that will look at it without any wait    *)
(* timing out: one is awake, or a submission is about to wake one.          *)
JobsAreSeen ==
    jobs # <<>> =>
       \/ \E w \in Workers : Looking(w) \/ worker[w] = "running"
       \/ notifying # {} /\ Waiting # {}

(* Callers see a queue: accepted jobs start in order, no more at once than  *)
(* there may be threads (a lane never runs two), and each once; under       *)
(* LiveSpec, each is taken though threads retire and none can be started.   *)
Queue == INSTANCE JobQueue
           WITH queue <- jobs, Width <- MaxThreads,
                running <- {j \in Jobs : job[j] = "running"},
                over <- {j \in Jobs : job[j] = "over"}

IsAQueue == Queue!FairSpec

(* No thread outlives the executor.                                         *)
ThreadsEnd == closed ~> Alive = {}

=============================================================================
