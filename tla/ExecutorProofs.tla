--------------------------- MODULE ExecutorProofs ---------------------------
(***************************************************************************)
(* The safety of the executor for any number of jobs and threads, and that *)
(* it implements the queue its callers see.                                *)
(*                                                                         *)
(* Two invariants carry it: the counters are the threads there are, so a   *)
(* submission that starts none leaves one that will look; and a job is in  *)
(* one place (Placed), so that taking one frees no other's thread.         *)
(***************************************************************************)
EXTENDS Executor, FiniteSetTheorems, TLAPS

Sleeping == {w \in Workers : worker[w] \in InWait}
Busy == {w \in Workers : worker[w] = "running"}

(* The counters submit decides by are the threads there are: none is        *)
(* counted after it has ended, and idle counts the waits whose thread has   *)
(* not taken the lock again, notified or not.                               *)
CountersHold ==
    /\ threads = Cardinality(Alive)
    /\ idle = Cardinality({w \in Workers : worker[w] \in InWait})

\* Where each accepted job is.
Placed ==
    /\ \A i \in 1..Len(jobs) : job[jobs[i]] = "queued"
    /\ \A i, k \in 1..Len(jobs) : jobs[i] = jobs[k] => i = k
    /\ \A w \in Busy : work[w] \in Jobs /\ job[work[w]] = "running"
    /\ \A v, w \in Busy : work[v] = work[w] => v = w
    /\ \A j \in Jobs : job[j] = "running" => \E w \in Busy : work[w] = j

IInv == TypeOK /\ CountersHold /\ Placed /\ JobsAreSeen

-----------------------------------------------------------------------------
(* The counters. *)
LEMMA Counted ==
    ASSUME IInv
    PROVE  /\ IsFiniteSet(Workers) /\ IsFiniteSet(Alive) /\ IsFiniteSet(Sleeping)
           /\ Sleeping \subseteq Alive /\ Busy \subseteq Alive /\ Busy \cap Sleeping = {}
           /\ threads = Cardinality(Alive) /\ idle = Cardinality(Sleeping)
           /\ threads \in Nat /\ idle \in Nat /\ MaxThreads \in Nat /\ threads <= MaxThreads
           /\ threads > 0 => Alive # {}
           /\ idle > 0 => Sleeping # {}
<1>1. /\ IsFiniteSet(Workers) /\ MaxThreads \in Nat /\ threads \in 0..MaxThreads
      /\ threads = Cardinality(Alive) /\ idle = Cardinality(Sleeping)
  BY ExecutorAssumption DEF IInv, TypeOK, CountersHold, Sleeping
<1>2. /\ Alive \in SUBSET Workers /\ Sleeping \in SUBSET Alive /\ Busy \subseteq Alive
      /\ Busy \cap Sleeping = {}
  BY DEF Alive, Sleeping, Busy, InWait
<1>3. IsFiniteSet(Alive)
  BY <1>1, <1>2, FS_Subset
<1>4. IsFiniteSet(Sleeping)
  BY <1>2, <1>3, FS_Subset
<1>5. Cardinality(Alive) \in Nat /\ Cardinality(Sleeping) \in Nat
  BY <1>3, <1>4, FS_CardinalityType
<1>6. /\ Cardinality(Alive) = 0 <=> Alive = {}
      /\ Cardinality(Sleeping) = 0 <=> Sleeping = {}
  BY <1>3, <1>4, FS_EmptySet
<1> QED
  BY <1>1, <1>2, <1>3, <1>4, <1>5, <1>6

LEMMA IdleLess ==
    ASSUME IInv, NEW w \in Workers, Looking(w)
    PROVE  /\ IdleWithout(w) = Cardinality(Sleeping \ {w})
           /\ IsFiniteSet(Sleeping \ {w}) /\ IdleWithout(w) \in 0..MaxThreads
           /\ w \in Alive
<1>1. /\ IsFiniteSet(Sleeping) /\ IsFiniteSet(Alive) /\ idle = Cardinality(Sleeping)
      /\ threads = Cardinality(Alive) /\ Sleeping \subseteq Alive
      /\ threads \in Nat /\ idle \in Nat /\ MaxThreads \in Nat /\ threads <= MaxThreads
  BY Counted
<1>2. w \in Alive /\ (w \in Sleeping <=> worker[w] \in InWait)
  BY DEF Looking, Alive, Sleeping
<1>3. /\ IsFiniteSet(Sleeping \ {w})
      /\ Cardinality(Sleeping \ {w}) = IF w \in Sleeping THEN Cardinality(Sleeping) - 1
                                                         ELSE Cardinality(Sleeping)
  BY <1>1, FS_RemoveElement
<1>4. Cardinality(Sleeping \ {w}) \in Nat
  BY <1>3, FS_CardinalityType
<1>5. Cardinality(Sleeping \ {w}) <= Cardinality(Alive)
  BY <1>1, FS_Subset
<1>6. IdleWithout(w) = Cardinality(Sleeping \ {w})
  BY <1>1, <1>2, <1>3 DEF IdleWithout
<1> QED
  BY <1>1, <1>2, <1>3, <1>4, <1>5, <1>6

(* A step that moves one thread or none between places of the same count.   *)
LEMMA CountStays ==
    ASSUME IInv, UNCHANGED <<threads, idle>>, Alive' = Alive, Sleeping' = Sleeping
    PROVE  CountersHold'
BY DEF IInv, CountersHold, Sleeping

(* A queue that is looked at by a thread that is awake. *)
LEMMA SeenByAwake ==
    ASSUME NEW w \in Workers, worker'[w] \in {"looking", "woken", "timedOut", "running"}
    PROVE  JobsAreSeen'
BY DEF JobsAreSeen, Looking

-----------------------------------------------------------------------------
(* A job that is accepted joins the queue. *)
LEMMA AcceptKeeps ==
    ASSUME IInv, NEW j \in Jobs, job[j] = "out", Len(jobs) < Capacity, Accept(j),
           UNCHANGED work, Busy' = Busy
    PROVE  /\ jobs' \in Seq(Jobs) /\ Len(jobs') <= Capacity
           /\ job' \in [Jobs -> {"out", "queued", "running", "over", "refused"}]
           /\ notifying' \in SUBSET Jobs /\ j \in notifying'
           /\ Placed'
<1>1. /\ TypeOK /\ Placed /\ jobs \in Seq(Jobs) /\ Capacity \in Nat
      /\ jobs' = Append(jobs, j) /\ job' = [job EXCEPT ![j] = "queued"]
      /\ notifying' = notifying \union {j}
  BY ExecutorAssumption DEF IInv, TypeOK, Accept
<1>2. /\ job' \in [Jobs -> {"out", "queued", "running", "over", "refused"}]
      /\ job'[j] = "queued" /\ \A d \in Jobs : d # j => job'[d] = job[d]
      /\ notifying' \in SUBSET Jobs
  BY <1>1 DEF TypeOK
<1>3. /\ jobs' \in Seq(Jobs) /\ Len(jobs') = Len(jobs) + 1 /\ Len(jobs') <= Capacity
      /\ \A i \in 1..Len(jobs) : jobs'[i] = jobs[i] /\ jobs[i] \in Jobs
      /\ jobs'[Len(jobs) + 1] = j
  BY <1>1
<1>4. \A i \in 1..Len(jobs) : jobs[i] # j
  BY <1>1 DEF Placed
<1>5. Placed'
  <2>1. \A i \in 1..Len(jobs') : job'[jobs'[i]] = "queued"
    BY <1>1, <1>2, <1>3, <1>4 DEF Placed
  <2>2. \A i, k \in 1..Len(jobs') : jobs'[i] = jobs'[k] => i = k
    BY <1>1, <1>3, <1>4 DEF Placed
  <2>3. \A w \in Busy' : work'[w] \in Jobs /\ job'[work'[w]] = "running"
    BY <1>1, <1>2 DEF Placed
  <2>4. \A u, w \in Busy' : work'[u] = work'[w] => u = w
    BY <1>1 DEF Placed
  <2>5. \A d \in Jobs : job'[d] = "running" => \E w \in Busy' : work'[w] = d
    BY <1>1, <1>2 DEF Placed
  <2> QED
    BY <2>1, <2>2, <2>3, <2>4, <2>5 DEF Placed
<1> QED
  BY <1>1, <1>2, <1>3, <1>5

LEMMA RefuseKeeps ==
    ASSUME IInv, NEW j \in Jobs, job[j] = "out", Refuse(j), UNCHANGED Unsubmitted
    PROVE  IInv'
<1>1. /\ TypeOK /\ Placed /\ JobsAreSeen
      /\ job' = [job EXCEPT ![j] = "refused"]
      /\ UNCHANGED <<jobs, threads, idle, closed, worker, work, dropped, notifying, closing>>
  BY DEF IInv, Refuse, Unsubmitted
<1>2. /\ job' \in [Jobs -> {"out", "queued", "running", "over", "refused"}]
      /\ job'[j] = "refused" /\ \A d \in Jobs : d # j => job'[d] = job[d]
  BY <1>1 DEF TypeOK
<1>3. TypeOK'
  BY <1>1, <1>2 DEF TypeOK
<1>4. CountersHold'
  BY <1>1, CountStays DEF Alive, Sleeping
<1>5. Placed'
  <2>1. Busy' = Busy /\ \A i \in 1..Len(jobs) : jobs[i] \in Jobs
    BY <1>1 DEF Busy, TypeOK
  <2> QED
    BY <1>1, <1>2, <2>1 DEF Placed
<1>6. JobsAreSeen'
  BY <1>1 DEF JobsAreSeen, Looking, Waiting
<1> QED
  BY <1>3, <1>4, <1>5, <1>6 DEF IInv

LEMMA SubmitKeeps ==
    ASSUME IInv, NEW j \in Jobs, Submit(j)
    PROVE  IInv'
<1>1. job[j] = "out" /\ UNCHANGED <<idle, closed, work, dropped, closing>> /\ UNCHANGED Unsubmitted
  BY DEF Submit, Unsubmitted
<1>2. CASE Refuse(j)
  BY <1>1, <1>2, RefuseKeeps
<1>3. CASE /\ Len(jobs) < Capacity /\ Accept(j) /\ UNCHANGED <<threads, worker>>
           /\ ~WantsThread \/ threads > 0
  <2>1. Alive # {}
    <3>1. CASE threads > 0
      BY <3>1, Counted
    <3>2. CASE ~WantsThread /\ ~(threads > 0)
      <4>1. Len(jobs) \in Nat /\ MaxThreads > 0
        BY ExecutorAssumption DEF IInv, TypeOK
      <4>2. idle > 0
        BY <3>2, <4>1, Counted DEF WantsThread
      <4> QED
        BY <4>2, Counted
    <3> QED
      BY <1>3, <3>1, <3>2
  <2>2. Busy' = Busy /\ Alive' = Alive /\ Sleeping' = Sleeping
    BY <1>3 DEF Busy, Alive, Sleeping
  <2>3. CountersHold'
    BY <1>1, <1>3, <2>2, CountStays
  <2>4. /\ jobs' \in Seq(Jobs) /\ Len(jobs') <= Capacity
        /\ job' \in [Jobs -> {"out", "queued", "running", "over", "refused"}]
        /\ notifying' \in SUBSET Jobs /\ j \in notifying'
        /\ Placed'
    BY <1>1, <1>3, <2>2, AcceptKeeps
  <2>5. TypeOK'
    BY <1>1, <1>3, <2>4 DEF IInv, TypeOK
  <2>6. JobsAreSeen'
    <3>1. PICK v \in Alive : TRUE
      BY <2>1
    <3>2. /\ v \in Workers
          /\ v \in Waiting \/ worker'[v] \in {"looking", "woken", "timedOut", "running"}
      BY <1>3 DEF Alive, Waiting, IInv, TypeOK, InWait
    <3>3. CASE v \in Waiting
      BY <1>3, <2>4, <3>3 DEF JobsAreSeen, Waiting
    <3> QED
      BY <3>2, <3>3, SeenByAwake
  <2> QED
    BY <2>3, <2>4, <2>5, <2>6 DEF IInv
<1>4. ASSUME NEW w \in Workers \ Alive, Len(jobs) < Capacity, WantsThread, Accept(j),
             threads' = threads + 1, worker' = [worker EXCEPT ![w] = "looking"]
      PROVE  IInv'
  <2>1. /\ worker' \in [Workers -> {"none", "looking", "running"} \union InWait]
        /\ worker'[w] = "looking" /\ \A u \in Workers : u # w => worker'[u] = worker[u]
    BY <1>4 DEF IInv, TypeOK
  <2>2. Alive' = Alive \union {w} /\ Sleeping' = Sleeping /\ Busy' = Busy
    BY <1>4, <2>1 DEF Alive, Sleeping, Busy, InWait
  <2>3. Cardinality(Alive \union {w}) = Cardinality(Alive) + 1
    BY <1>4, Counted, FS_AddElement
  <2>4. CountersHold'
    <3>1. threads' = Cardinality(Alive')
      BY <1>4, <2>2, <2>3, Counted
    <3>2. idle' = Cardinality(Sleeping')
      BY <1>1, <2>2, Counted
    <3> QED
      BY <3>1, <3>2 DEF CountersHold, Sleeping
  <2>5. threads' \in 0..MaxThreads
    BY <1>4, Counted DEF WantsThread
  <2>6. /\ jobs' \in Seq(Jobs) /\ Len(jobs') <= Capacity
        /\ job' \in [Jobs -> {"out", "queued", "running", "over", "refused"}]
        /\ notifying' \in SUBSET Jobs
        /\ Placed'
    BY <1>1, <1>4, <2>2, AcceptKeeps
  <2>7. JobsAreSeen'
    BY <2>1, SeenByAwake
  <2>8. TypeOK'
    BY <1>1, <2>1, <2>5, <2>6 DEF IInv, TypeOK
  <2> QED
    BY <2>4, <2>6, <2>7, <2>8 DEF IInv
<1>5. Len(jobs) >= Capacity \/ Len(jobs) < Capacity
  BY ExecutorAssumption DEF IInv, TypeOK
<1>6. CASE Len(jobs) >= Capacity
  BY <1>2, <1>6 DEF Submit
<1>7. CASE Len(jobs) < Capacity
  <2>1. ~(Len(jobs) >= Capacity)
    BY <1>7, ExecutorAssumption DEF IInv, TypeOK
  <2>2. \/ Refuse(j)
        \/ Accept(j) /\ UNCHANGED <<threads, worker>> /\ (~WantsThread \/ threads > 0)
        \/ /\ WantsThread /\ Accept(j) /\ threads' = threads + 1
           /\ \E w \in Workers \ Alive : worker' = [worker EXCEPT ![w] = "looking"]
    BY <2>1 DEF Submit
  <2>3. CASE Accept(j) /\ UNCHANGED <<threads, worker>> /\ (~WantsThread \/ threads > 0)
    BY <1>3, <1>7, <2>3
  <2>4. CASE /\ WantsThread /\ Accept(j) /\ threads' = threads + 1
             /\ \E w \in Workers \ Alive : worker' = [worker EXCEPT ![w] = "looking"]
    BY <1>4, <1>7, <2>4
  <2> QED
    BY <1>2, <2>2, <2>3, <2>4
<1> QED
  BY <1>5, <1>6, <1>7

(* A step that only moves threads between places where they run no job, and *)
(* leaves a job in the queue to one that will look.                         *)
LEMMA MoveKeeps ==
    ASSUME IInv, UNCHANGED <<jobs, threads, idle, work, job>>,
           closed' \in BOOLEAN, closing' \in BOOLEAN, dropped' \in SUBSET Awaited,
           notifying' \in SUBSET Jobs,
           worker' \in [Workers -> {"none", "looking", "running"} \union InWait],
           \A w \in Workers : worker'[w] = worker[w] \/ {worker[w], worker'[w]} \subseteq InWait,
           JobsAreSeen'
    PROVE  IInv'
<1>1. TypeOK /\ Placed
  BY DEF IInv
<1>2. Alive' = Alive /\ Sleeping' = Sleeping /\ Busy' = Busy
  BY DEF Alive, Sleeping, Busy, InWait
<1>3. TypeOK'
  BY <1>1 DEF TypeOK
<1>4. CountersHold'
  BY <1>2, CountStays
<1>5. Placed'
  BY <1>1, <1>2 DEF Placed
<1> QED
  BY <1>3, <1>4, <1>5 DEF IInv

LEMMA NotifyKeeps ==
    ASSUME IInv, NEW j \in Jobs, Notify(j)
    PROVE  IInv'
<1>1. /\ TypeOK /\ JobsAreSeen /\ j \in notifying /\ notifying' = notifying \ {j}
      /\ UNCHANGED <<jobs, threads, idle, closed, work, job, dropped, closing>>
  BY DEF IInv, Notify
<1>2. CASE Waiting = {}
  <2>1. worker' = worker
    BY <1>2 DEF Notify
  <2>2. JobsAreSeen'
    BY <1>1, <1>2, <2>1 DEF JobsAreSeen, Looking
  <2> QED
    BY <1>1, <2>1, <2>2, MoveKeeps DEF TypeOK
<1>3. CASE Waiting # {}
  <2>1. PICK w \in Waiting : worker' = [worker EXCEPT ![w] = "woken"]
    BY <1>3 DEF Notify
  <2>2. /\ w \in Workers /\ worker[w] = "waiting" /\ worker'[w] = "woken"
        /\ worker' \in [Workers -> {"none", "looking", "running"} \union InWait]
        /\ \A u \in Workers : u # w => worker'[u] = worker[u]
    BY <1>1, <2>1 DEF TypeOK, Waiting, InWait
  <2>3. JobsAreSeen'
    BY <2>2, SeenByAwake
  <2>4. \A u \in Workers : worker'[u] = worker[u] \/ {worker[u], worker'[u]} \subseteq InWait
    BY <2>2 DEF InWait
  <2> QED
    BY <1>1, <2>2, <2>3, <2>4, MoveKeeps DEF TypeOK
<1> QED
  BY <1>2, <1>3

LEMMA LeaveKeeps ==
    ASSUME IInv, NEW j \in Jobs, Leave(j)
    PROVE  IInv'
<1>1. /\ TypeOK /\ JobsAreSeen /\ j \in Awaited /\ dropped' = dropped \union {j}
      /\ UNCHANGED <<jobs, threads, idle, closed, worker, work, job, notifying, closing>>
  BY DEF IInv, Leave
<1>2. JobsAreSeen'
  BY <1>1 DEF JobsAreSeen, Looking, Waiting
<1> QED
  BY <1>1, <1>2, MoveKeeps DEF TypeOK

LEMMA CloseKeeps ==
    ASSUME IInv, Close
    PROVE  IInv'
<1>1. /\ TypeOK /\ JobsAreSeen /\ closed' = TRUE /\ closing' = TRUE
      /\ UNCHANGED <<jobs, threads, idle, worker, work, job, dropped, notifying>>
  BY DEF IInv, Close
<1>2. JobsAreSeen'
  BY <1>1 DEF JobsAreSeen, Looking, Waiting
<1> QED
  BY <1>1, <1>2, MoveKeeps DEF TypeOK

LEMMA NotifyAllKeeps ==
    ASSUME IInv, NotifyAll
    PROVE  IInv'
<1>1. /\ TypeOK /\ JobsAreSeen /\ closing' = FALSE
      /\ worker' = [w \in Workers |-> IF w \in Waiting THEN "woken" ELSE worker[w]]
      /\ UNCHANGED <<jobs, threads, idle, closed, work, job, dropped, notifying>>
  BY DEF IInv, NotifyAll
<1>2. /\ worker' \in [Workers -> {"none", "looking", "running"} \union InWait]
      /\ \A u \in Workers : worker'[u] = worker[u] \/ {worker[u], worker'[u]} \subseteq InWait
  BY <1>1 DEF TypeOK, Waiting, InWait
<1>3. JobsAreSeen'
  <2>1. CASE Waiting = {}
    BY <1>1, <2>1 DEF JobsAreSeen, Looking, Waiting
  <2>2. CASE Waiting # {}
    BY <1>1, <2>2, SeenByAwake DEF Waiting
  <2> QED
    BY <2>1, <2>2
<1> QED
  BY <1>1, <1>2, <1>3, MoveKeeps DEF TypeOK

LEMMA WakeKeeps ==
    ASSUME IInv, NEW w \in Workers, Wake(w)
    PROVE  IInv'
<1>1. PICK s \in {"woken", "timedOut"} : worker' = [worker EXCEPT ![w] = s]
  BY DEF Wake
<1>2. /\ TypeOK /\ worker[w] = "waiting"
      /\ UNCHANGED <<jobs, threads, idle, closed, work, job, dropped, notifying, closing>>
  BY DEF IInv, Wake
<1>3. /\ worker'[w] = s /\ \A u \in Workers : u # w => worker'[u] = worker[u]
      /\ worker' \in [Workers -> {"none", "looking", "running"} \union InWait]
  BY <1>1, <1>2 DEF TypeOK, InWait
<1>4. JobsAreSeen'
  BY <1>3, SeenByAwake
<1>5. \A u \in Workers : worker'[u] = worker[u] \/ {worker[u], worker'[u]} \subseteq InWait
  BY <1>2, <1>3 DEF InWait
<1> QED
  BY <1>2, <1>3, <1>4, <1>5, MoveKeeps DEF TypeOK

-----------------------------------------------------------------------------
(* The thread that has the lock. *)
LEMMA TakeKeeps ==
    ASSUME IInv, NEW w \in Workers, Take(w)
    PROVE  IInv'
<1> DEFINE h == Head(jobs)
<1>1. /\ TypeOK /\ Placed /\ Looking(w) /\ jobs # <<>> /\ jobs \in Seq(Jobs)
      /\ jobs' = Tail(jobs) /\ idle' = IdleWithout(w)
      /\ UNCHANGED <<threads, closed, dropped, notifying, closing>>
  BY DEF IInv, TypeOK, Take
<1>2. /\ h \in Jobs /\ h = jobs[1] /\ 1 \in 1..Len(jobs) /\ job[h] = "queued"
      /\ jobs' \in Seq(Jobs) /\ Len(jobs') = Len(jobs) - 1 /\ Len(jobs') <= Capacity
      /\ \A i \in 1..Len(jobs') : jobs'[i] = jobs[i + 1] /\ i + 1 \in 1..Len(jobs)
  BY <1>1, ExecutorAssumption DEF TypeOK, Placed
<1>3. \A i \in 1..Len(jobs') : jobs'[i] \in Jobs /\ jobs'[i] # h /\ job[jobs'[i]] = "queued"
  BY <1>1, <1>2 DEF Placed
<1>4. \A i, k \in 1..Len(jobs') : jobs'[i] = jobs'[k] => i = k
  BY <1>1, <1>2 DEF Placed
<1>5. w \notin Busy /\ \A v \in Busy : work[v] # h
  BY <1>1, <1>2 DEF Looking, Busy, Placed
<1> HIDE DEF h
<1>6. \/ /\ job' = [job EXCEPT ![h] = "over"]
         /\ worker' = [worker EXCEPT ![w] = "looking"] /\ work' = work
      \/ /\ job' = [job EXCEPT ![h] = "running"]
         /\ worker' = [worker EXCEPT ![w] = "running"] /\ work' = [work EXCEPT ![w] = h]
  BY DEF Take, h
<1>7. /\ worker' \in [Workers -> {"none", "looking", "running"} \union InWait]
      /\ work' \in [Workers -> Jobs \union {None}]
      /\ job' \in [Jobs -> {"out", "queued", "running", "over", "refused"}]
      /\ worker'[w] \in {"looking", "running"}
      /\ \A u \in Workers : u # w => worker'[u] = worker[u] /\ work'[u] = work[u]
      /\ \A d \in Jobs : d # h => job'[d] = job[d]
      /\ \/ job'[h] = "over" /\ worker'[w] = "looking"
         \/ job'[h] = "running" /\ worker'[w] = "running" /\ work'[w] = h
  BY <1>1, <1>2, <1>6 DEF TypeOK
<1>8. Alive' = Alive /\ Sleeping' = Sleeping \ {w}
      /\ Busy' = IF worker'[w] = "running" THEN Busy \union {w} ELSE Busy
  BY <1>1, <1>5, <1>7 DEF Alive, Sleeping, Busy, InWait, Looking
<1>9. CountersHold' /\ idle' \in 0..MaxThreads
  <2>1. idle' = Cardinality(Sleeping \ {w}) /\ idle' \in 0..MaxThreads
    BY <1>1, IdleLess
  <2>2. idle' = Cardinality(Sleeping')
    BY <1>8, <2>1
  <2>3. threads' = Cardinality(Alive')
    BY <1>1, <1>8, Counted
  <2> QED
    BY <2>1, <2>2, <2>3 DEF CountersHold, Sleeping
<1>10. TypeOK'
  BY <1>1, <1>2, <1>7, <1>9 DEF TypeOK
<1>11. Placed'
  <2>1. \A i \in 1..Len(jobs') : job'[jobs'[i]] = "queued"
    BY <1>3, <1>7
  <2>2. \A u \in Busy' : work'[u] \in Jobs /\ job'[work'[u]] = "running"
    BY <1>1, <1>2, <1>5, <1>7, <1>8 DEF Placed, Busy
  <2>3. \A u, v \in Busy' : work'[u] = work'[v] => u = v
    BY <1>1, <1>5, <1>7, <1>8 DEF Placed, Busy
  <2>4. ASSUME NEW d \in Jobs, job'[d] = "running" PROVE \E u \in Busy' : work'[u] = d
    <3>1. CASE d = h
      BY <1>7, <1>8, <2>4, <3>1
    <3>2. CASE d # h
      <4>1. PICK u \in Busy : work[u] = d
        BY <1>1, <1>7, <2>4, <3>2 DEF Placed
      <4> QED
        BY <1>5, <1>7, <1>8, <4>1 DEF Busy
    <3> QED
      BY <3>1, <3>2
  <2> QED
    BY <1>4, <2>1, <2>2, <2>3, <2>4 DEF Placed
<1>12. JobsAreSeen'
  BY <1>7, SeenByAwake
<1> QED
  BY <1>9, <1>10, <1>11, <1>12 DEF IInv

LEMMA RetireKeeps ==
    ASSUME IInv, NEW w \in Workers, Retire(w)
    PROVE  IInv'
<1>1. /\ TypeOK /\ Placed /\ Looking(w) /\ jobs = <<>>
      /\ threads' = threads - 1 /\ idle' = IdleWithout(w)
      /\ worker' = [worker EXCEPT ![w] = "none"]
      /\ UNCHANGED <<jobs, closed, work, job, dropped, notifying, closing>>
  BY DEF IInv, Retire, Retires
<1>2. /\ worker' \in [Workers -> {"none", "looking", "running"} \union InWait]
      /\ worker'[w] = "none" /\ \A u \in Workers : u # w => worker'[u] = worker[u]
  BY <1>1 DEF TypeOK
<1>3. Alive' = Alive \ {w} /\ Sleeping' = Sleeping \ {w} /\ Busy' = Busy /\ w \in Alive
  BY <1>1, <1>2 DEF Alive, Sleeping, Busy, InWait, Looking
<1>4. /\ idle' = Cardinality(Sleeping \ {w}) /\ idle' \in 0..MaxThreads
  BY <1>1, IdleLess
<1>5. Cardinality(Alive \ {w}) = Cardinality(Alive) - 1 /\ threads > 0
  <2>1. IsFiniteSet(Alive) /\ threads = Cardinality(Alive) /\ threads \in Nat
    BY Counted
  <2>2. Cardinality(Alive) # 0
    BY <1>3, <2>1, FS_EmptySet
  <2>3. Cardinality(Alive \ {w}) = Cardinality(Alive) - 1
    BY <1>3, <2>1, FS_RemoveElement
  <2> QED
    BY <2>1, <2>2, <2>3
<1>6. threads' = Cardinality(Alive \ {w}) /\ threads' \in 0..MaxThreads
  BY <1>1, <1>5, Counted
<1>7. CountersHold'
  <2>1. threads' = Cardinality(Alive')
    BY <1>3, <1>6
  <2>2. idle' = Cardinality(Sleeping')
    BY <1>3, <1>4
  <2> QED
    BY <2>1, <2>2 DEF CountersHold, Sleeping
<1>8. TypeOK'
  BY <1>1, <1>2, <1>4, <1>6 DEF TypeOK
<1>9. Placed' /\ JobsAreSeen'
  BY <1>1, <1>3 DEF Placed, JobsAreSeen
<1> QED
  BY <1>7, <1>8, <1>9 DEF IInv

LEMMA WaitKeeps ==
    ASSUME IInv, NEW w \in Workers, Wait(w)
    PROVE  IInv'
<1>1. /\ TypeOK /\ Placed /\ Looking(w) /\ jobs = <<>>
      /\ idle' = IdleWithout(w) + 1 /\ worker' = [worker EXCEPT ![w] = "waiting"]
      /\ UNCHANGED <<jobs, threads, closed, work, job, dropped, notifying, closing>>
  BY DEF IInv, Wait
<1>2. /\ worker' \in [Workers -> {"none", "looking", "running"} \union InWait]
      /\ worker'[w] = "waiting" /\ \A u \in Workers : u # w => worker'[u] = worker[u]
  BY <1>1 DEF TypeOK, InWait
<1>3. /\ Alive' = Alive /\ Sleeping' = (Sleeping \ {w}) \union {w} /\ Busy' = Busy
      /\ Sleeping' \subseteq Alive
  BY <1>1, <1>2 DEF Alive, Sleeping, Busy, InWait, Looking
<1>4. /\ IdleWithout(w) = Cardinality(Sleeping \ {w}) /\ IsFiniteSet(Sleeping \ {w})
      /\ IdleWithout(w) \in Nat
  BY <1>1, IdleLess
<1>5. Cardinality((Sleeping \ {w}) \union {w}) = Cardinality(Sleeping \ {w}) + 1
  BY <1>4, FS_AddElement
<1>6. idle' = Cardinality(Sleeping')
  BY <1>1, <1>3, <1>4, <1>5
<1>7. Cardinality(Sleeping') <= Cardinality(Alive)
  BY <1>3, Counted, FS_Subset
<1>8. idle' \in 0..MaxThreads
  BY <1>1, <1>4, <1>6, <1>7, Counted
<1>9. CountersHold'
  <2>1. threads' = Cardinality(Alive')
    BY <1>1, <1>3, Counted
  <2> QED
    BY <1>6, <2>1 DEF CountersHold, Sleeping
<1>10. TypeOK'
  BY <1>1, <1>2, <1>8 DEF TypeOK
<1>11. Placed' /\ JobsAreSeen'
  BY <1>1, <1>3 DEF Placed, JobsAreSeen
<1> QED
  BY <1>9, <1>10, <1>11 DEF IInv

LEMMA FinishKeeps ==
    ASSUME IInv, NEW w \in Workers, Finish(w)
    PROVE  IInv'
<1>1. /\ TypeOK /\ Placed /\ w \in Busy /\ work[w] \in Jobs /\ job[work[w]] = "running"
      /\ worker' = [worker EXCEPT ![w] = "looking"] /\ work' = [work EXCEPT ![w] = None]
      /\ job' = [job EXCEPT ![work[w]] = "over"]
      /\ UNCHANGED <<jobs, threads, idle, closed, dropped, notifying, closing>>
  BY DEF IInv, Finish, Placed, Busy
<1>2. /\ worker' \in [Workers -> {"none", "looking", "running"} \union InWait]
      /\ work' \in [Workers -> Jobs \union {None}]
      /\ job' \in [Jobs -> {"out", "queued", "running", "over", "refused"}]
      /\ worker'[w] = "looking" /\ job'[work[w]] = "over"
      /\ \A u \in Workers : u # w => worker'[u] = worker[u] /\ work'[u] = work[u]
      /\ \A d \in Jobs : d # work[w] => job'[d] = job[d]
  BY <1>1 DEF TypeOK
<1>3. Alive' = Alive /\ Sleeping' = Sleeping /\ Busy' = Busy \ {w}
  BY <1>1, <1>2 DEF Alive, Sleeping, Busy, InWait
<1>4. CountersHold'
  BY <1>1, <1>3, CountStays
<1>5. TypeOK'
  BY <1>1, <1>2 DEF TypeOK
<1>6. Placed'
  <2>1. \A i \in 1..Len(jobs') : job'[jobs'[i]] = "queued"
    <3>1. \A i \in 1..Len(jobs) : jobs[i] \in Jobs /\ job[jobs[i]] = "queued"
      BY <1>1 DEF Placed, TypeOK
    <3> QED
      BY <1>1, <1>2, <3>1
  <2>2. \A u \in Busy' : work'[u] \in Jobs /\ job'[work'[u]] = "running"
    BY <1>1, <1>2, <1>3 DEF Placed, Busy
  <2>3. \A u, v \in Busy' : work'[u] = work'[v] => u = v
    BY <1>1, <1>2, <1>3 DEF Placed, Busy
  <2>4. \A d \in Jobs : job'[d] = "running" => \E u \in Busy' : work'[u] = d
    BY <1>1, <1>2, <1>3 DEF Placed, Busy
  <2> QED
    BY <1>1, <2>1, <2>2, <2>3, <2>4 DEF Placed
<1>7. JobsAreSeen'
  BY <1>2, SeenByAwake
<1> QED
  BY <1>4, <1>5, <1>6, <1>7 DEF IInv

-----------------------------------------------------------------------------
LEMMA InitHolds == Init => IInv
<1> SUFFICES ASSUME Init PROVE IInv
  OBVIOUS
<1>1. TypeOK
  <2>1. jobs \in Seq(Jobs) /\ Len(jobs) = 0
    BY DEF Init
  <2>2. /\ threads \in 0..MaxThreads /\ idle \in 0..MaxThreads /\ Len(jobs) <= Capacity
    BY <2>1, ExecutorAssumption DEF Init
  <2>3. /\ worker \in [Workers -> {"none", "looking", "running"} \union InWait]
        /\ work \in [Workers -> Jobs \union {None}]
        /\ job \in [Jobs -> {"out", "queued", "running", "over", "refused"}]
    BY DEF Init
  <2> QED
    BY <2>1, <2>2, <2>3 DEF Init, TypeOK
<1>2. CountersHold
  <2>1. Alive = {} /\ {w \in Workers : worker[w] \in InWait} = {}
    BY DEF Init, Alive, InWait
  <2> QED
    BY <2>1, FS_EmptySet DEF Init, CountersHold
<1>3. Placed /\ JobsAreSeen
  BY DEF Init, Placed, Busy, JobsAreSeen
<1> QED
  BY <1>1, <1>2, <1>3 DEF IInv

LEMMA StepKeeps == IInv /\ [Next]_vars => IInv'
<1> SUFFICES ASSUME IInv, [Next]_vars PROVE IInv'
  OBVIOUS
<1>1. ASSUME NEW j \in Jobs, Submit(j) \/ Notify(j) \/ Leave(j) PROVE IInv'
  BY <1>1, SubmitKeeps, NotifyKeeps, LeaveKeeps
<1>2. CASE Close \/ NotifyAll
  BY <1>2, CloseKeeps, NotifyAllKeeps
<1>3. ASSUME NEW w \in Workers, Look(w) \/ Wake(w) \/ Finish(w) PROVE IInv'
  BY <1>3, TakeKeeps, RetireKeeps, WaitKeeps, WakeKeeps, FinishKeeps DEF Look
<1>4. CASE UNCHANGED vars
  <2>1. UNCHANGED <<jobs, threads, idle, closed, worker, work, job, dropped, notifying, closing>>
    BY <1>4 DEF vars
  <2>2. JobsAreSeen'
    BY <2>1 DEF IInv, JobsAreSeen, Looking, Waiting
  <2> QED
    BY <2>1, <2>2, MoveKeeps DEF IInv, TypeOK
<1> QED
  BY <1>1, <1>2, <1>3, <1>4 DEF Next

(* The inductive invariant holds in every reachable state.                  *)
THEOREM Invariance == Spec => []IInv
BY InitHolds, StepKeeps, PTL DEF Spec

(* Every variable keeps its type: the queue within its capacity, the thread *)
(* count within its limit.                                                  *)
THEOREM TypeCorrect == Spec => []TypeOK
<1>1. IInv => TypeOK
  BY DEF IInv
<1> QED
  BY <1>1, Invariance, PTL

(* What submit decides by is true of the threads.                           *)
THEOREM CountersAreTrue == Spec => []CountersHold
<1>1. IInv => CountersHold
  BY DEF IInv
<1> QED
  BY <1>1, Invariance, PTL

(* No job is left to a wait's timeout, whatever retires or fails to start.  *)
THEOREM EveryJobIsSeen == Spec => []JobsAreSeen
<1>1. IInv => JobsAreSeen
  BY DEF IInv
<1> QED
  BY <1>1, Invariance, PTL

-----------------------------------------------------------------------------
(* The queue. *)

\* The mapped variables.
Running == {j \in Jobs : job[j] = "running"}
Over == {j \in Jobs : job[j] = "over"}

(* A thread that looks leaves room for one more job: those that run have    *)
(* other threads.                                                           *)
LEMMA RoomToStart ==
    ASSUME IInv, NEW w \in Workers, Looking(w)
    PROVE  Cardinality(Running) < MaxThreads
<1>1. /\ IsFiniteSet(Alive) /\ threads = Cardinality(Alive) /\ threads \in Nat
      /\ threads <= MaxThreads /\ MaxThreads \in Nat /\ Busy \subseteq Alive
  BY Counted
<1>2. w \in Alive /\ w \notin Busy
  BY DEF Looking, Alive, Busy
<1>3. IsFiniteSet(Alive \ {w}) /\ Cardinality(Alive \ {w}) = Cardinality(Alive) - 1
  BY <1>1, <1>2, FS_RemoveElement
<1>4. IsFiniteSet(Busy) /\ Cardinality(Busy) <= Cardinality(Alive \ {w})
  BY <1>1, <1>2, <1>3, FS_Subset
<1> DEFINE f == [v \in Busy |-> work[v]]
<1>5. f \in Surjection(Busy, Running)
  <2>1. f \in [Busy -> Running]
    BY DEF IInv, Placed, Running
  <2>2. \A j \in Running : \E v \in Busy : f[v] = j
    BY DEF IInv, Placed, Running
  <2> QED
    BY <2>1, <2>2 DEF Surjection
<1> HIDE DEF f
<1>6. IsFiniteSet(Running) /\ Cardinality(Running) <= Cardinality(Busy)
  BY <1>4, <1>5, FS_Surjection
<1>7. /\ Cardinality(Running) \in Nat /\ Cardinality(Busy) \in Nat
      /\ Cardinality(Alive \ {w}) \in Nat
  BY <1>3, <1>4, <1>6, FS_CardinalityType
<1> QED
  BY <1>1, <1>3, <1>4, <1>6, <1>7

(* The queue counts as the executor does.                                   *)
LEMMA SameCount == \A S : Queue!Cardinality(S) = Cardinality(S)
BY DEF Queue!Cardinality, Cardinality, Queue!IsFiniteSet, IsFiniteSet

(* A step in which no job moves is no step of the queue.                    *)
LEMMA QueueStutters ==
    ASSUME jobs' = jobs,
           \A j \in Jobs : {job[j], job'[j]} \cap {"running", "over"} # {} => job'[j] = job[j]
    PROVE  UNCHANGED Queue!jobVars
<1>1. Running' = Running /\ Over' = Over
  BY DEF Running, Over
<1> QED
  BY <1>1 DEF Queue!jobVars, Running, Over

LEMMA SubmitAccepts ==
    ASSUME IInv, NEW j \in Jobs, Submit(j)
    PROVE  [Queue!Next]_Queue!jobVars
<1>1. job[j] = "out" /\ job \in [Jobs -> {"out", "queued", "running", "over", "refused"}]
      /\ jobs \in Seq(Jobs)
  BY DEF Submit, IInv, TypeOK
<1>2. CASE Refuse(j)
  <2>1. jobs' = jobs /\ job' = [job EXCEPT ![j] = "refused"]
    BY <1>2 DEF Refuse
  <2> QED
    BY <1>1, <2>1, QueueStutters
<1>3. CASE Accept(j)
  <2>1. jobs' = Append(jobs, j) /\ job' = [job EXCEPT ![j] = "queued"]
    BY <1>3 DEF Accept
  <2>2. Running' = Running /\ Over' = Over /\ j \notin Running /\ j \notin Over
    BY <1>1, <2>1 DEF Running, Over
  <2>3. j \notin {jobs[i] : i \in 1..Len(jobs)}
    BY <1>1 DEF IInv, Placed
  <2>4. Queue!Accept(j)
    BY <2>1, <2>2, <2>3 DEF Queue!Accept, Queue!Known, Running, Over
  <2> QED
    BY <2>4 DEF Queue!Next
<1> QED
  BY <1>2, <1>3 DEF Submit

LEMMA TakeStarts ==
    ASSUME IInv, NEW w \in Workers, Take(w)
    PROVE  Queue!Next
<1> DEFINE h == Head(jobs)
<1>1. /\ jobs # <<>> /\ jobs' = Tail(jobs) /\ h \in Jobs /\ job[h] = "queued"
      /\ job \in [Jobs -> {"out", "queued", "running", "over", "refused"}]
      /\ Cardinality(Running) < MaxThreads
  <2>1. /\ jobs # <<>> /\ jobs' = Tail(jobs) /\ Looking(w) /\ jobs \in Seq(Jobs)
        /\ job \in [Jobs -> {"out", "queued", "running", "over", "refused"}]
    BY DEF Take, IInv, TypeOK
  <2>2. h = jobs[1] /\ 1 \in 1..Len(jobs) /\ h \in Jobs
    BY <2>1
  <2> QED
    BY <2>1, <2>2, RoomToStart DEF IInv, Placed
<1>2. job' = [job EXCEPT ![h] = "over"] \/ job' = [job EXCEPT ![h] = "running"]
  BY DEF Take
<1>3. CASE job' = [job EXCEPT ![h] = "over"]
  <2>1. Running' = Running /\ Over' = Over \union {h}
    BY <1>1, <1>3 DEF Running, Over
  <2>2. Queue!Skip
    BY <1>1, <2>1, SameCount DEF Queue!Skip, Running, Over
  <2> QED
    BY <2>2 DEF Queue!Next
<1>4. CASE job' = [job EXCEPT ![h] = "running"]
  <2>1. Running' = Running \union {h} /\ Over' = Over
    BY <1>1, <1>4 DEF Running, Over
  <2>2. Queue!Start
    BY <1>1, <2>1, SameCount DEF Queue!Start, Running, Over
  <2> QED
    BY <2>2 DEF Queue!Next
<1> QED
  BY <1>2, <1>3, <1>4

LEMMA FinishEnds ==
    ASSUME IInv, NEW w \in Workers, Finish(w)
    PROVE  Queue!Next
<1>1. PICK j \in Jobs : j = work[w]
  BY DEF Finish, IInv, Placed, Busy
<1>2. /\ job[j] = "running" /\ jobs' = jobs /\ job' = [job EXCEPT ![j] = "over"]
      /\ job \in [Jobs -> {"out", "queued", "running", "over", "refused"}]
  BY <1>1 DEF Finish, IInv, TypeOK, Placed, Busy
<1>3. Running' = Running \ {j} /\ Over' = Over \union {j} /\ j \in Running
  BY <1>2 DEF Running, Over
<1>4. Queue!End(j)
  BY <1>2, <1>3 DEF Queue!End, Running, Over
<1> QED
  BY <1>4 DEF Queue!Next

LEMMA InitIsQueue == Init => Queue!Init
<1> SUFFICES ASSUME Init PROVE Queue!Init
  OBVIOUS
<1>1. Running = {} /\ Over = {} /\ jobs = <<>>
  BY DEF Init, Running, Over
<1> QED
  BY <1>1 DEF Queue!Init, Running, Over

LEMMA StepIsQueue == IInv /\ [Next]_vars => [Queue!Next]_Queue!jobVars
<1> SUFFICES ASSUME IInv, [Next]_vars PROVE [Queue!Next]_Queue!jobVars
  OBVIOUS
<1>1. ASSUME NEW j \in Jobs, Submit(j) PROVE [Queue!Next]_Queue!jobVars
  BY <1>1, SubmitAccepts
<1>2. ASSUME NEW w \in Workers, Take(w) \/ Finish(w) PROVE [Queue!Next]_Queue!jobVars
  BY <1>2, TakeStarts, FinishEnds
<1>3. CASE UNCHANGED <<jobs, job>>
  BY <1>3, QueueStutters
<1>4. CASE \E j \in Jobs : Notify(j) \/ Leave(j)
  BY <1>3, <1>4 DEF Notify, Leave
<1>5. CASE Close \/ NotifyAll
  BY <1>3, <1>5 DEF Close, NotifyAll
<1>6. CASE \E w \in Workers : Retire(w) \/ Wait(w) \/ Wake(w)
  BY <1>3, <1>6 DEF Retire, Wait, Wake
<1>7. CASE UNCHANGED vars
  BY <1>3, <1>7 DEF vars
<1> QED
  BY <1>1, <1>2, <1>4, <1>5, <1>6, <1>7 DEF Next, Look

(* The executor is a queue: jobs start in the order they were accepted, no  *)
(* more at once than it may have threads, each once.                        *)
THEOREM ImplementsQueue == Spec => Queue!Spec
<1>1. Spec => []IInv
  BY Invariance
<1> QED
  BY <1>1, InitIsQueue, StepIsQueue, PTL DEF Spec, Queue!Spec

=============================================================================
