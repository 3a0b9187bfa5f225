------------------------- MODULE SharedReadsProofs -------------------------
(***************************************************************************)
(* The safety of shared reads, for any number of identical calls.          *)
(*                                                                         *)
(* What makes an answer fresh is an order: what had started or ended when  *)
(* a call was made is closed under "is sent back to its retry", backwards  *)
(* (RetryIsLater).  So a chain of retries that starts at a flight the call *)
(* joined in the queue never reaches a child older than the call.          *)
(***************************************************************************)
EXTENDS SharedReads, TLAPS

\* Who leads, who has joined, and what they may refer to.
Roles ==
    /\ \A c \in Calls :
         /\ pc[c] = "out" => on[c] = None /\ after[c] = None
         /\ pc[c] = "asking" => on[c] = None
         /\ pc[c] = "waiting" => on[c] # None /\ on[c] # c
         /\ pc[c] \in {"queued", "running", "closing", "publishing"} => on[c] = c
         /\ pc[c] = "queued" => c \notin started
         /\ c \in started => on[c] = c /\ pc[c] \in {"running", "closing", "publishing", "done"}
         /\ result[c] # None => pc[c] = "done"
         /\ retry[c] # None => result[c] # None /\ on[retry[c]] = retry[c]
         /\ after[c] # None => result[after[c]] # None
    /\ reads # None => pc[reads] \in {"queued", "closing"} /\ reads \notin started

RetryIsLater ==
    \A c, f \in Calls : retry[f] # None /\ retry[f] \in old[c] => f \in old[c]

Fresh ==
    \A c \in Calls :
       /\ old[c] \subseteq Over
       /\ on[c] \notin old[c]
       /\ after[c] \notin old[c]

RetryIsShared == \A c \in Calls : Leads(c) /\ after[c] # None => retry[after[c]] = c

(* There is one flight at most in the queue, and it can be joined: the end  *)
(* of an earlier one does not take a later one's entry away.                *)
QueuedIsKnown == \A c \in Calls : pc[c] = "queued" => reads = c

IInv ==
    /\ TypeOK /\ Roles /\ RetryIsLater /\ Fresh /\ RetryIsShared
    /\ QueuedIsKnown /\ DeadlineIsOwn

-----------------------------------------------------------------------------
(* What a call finds is older than nothing the call is older than. *)
LEMMA KnownIsFresh ==
    ASSUME IInv, NEW c \in Calls, pc[c] = "asking"
    PROVE  /\ Known(c) \in Calls \union {None} /\ Known(c) \notin old[c]
           /\ Known(c) # c
           /\ after[c] # None /\ retry[after[c]] = None /\ Known(c) # None =>
                \A d \in Calls : Known(c) \notin old[d]
<1>1. reads # None => reads \in Calls /\ reads \notin Over /\ reads # c
  BY DEF IInv, TypeOK, Roles, Over
<1>2. \A d \in Calls : reads \notin old[d]
  <2> SUFFICES ASSUME NEW d \in Calls PROVE reads \notin old[d]
    OBVIOUS
  <2>1. old[d] \subseteq Calls /\ old[d] \subseteq Over
    BY DEF IInv, TypeOK, Fresh
  <2> QED
    BY <1>1, <2>1, NoneIsNoCall
<1>3. CASE Known(c) = reads
  BY <1>1, <1>2, <1>3, NoneIsNoCall DEF IInv, TypeOK
<1>4. CASE /\ after[c] # None /\ retry[after[c]] # None
           /\ Known(c) = retry[after[c]]
  <2>1. after[c] \in Calls /\ retry[after[c]] \in Calls /\ after[c] \notin old[c]
    BY <1>4 DEF IInv, TypeOK, Fresh
  <2>2. retry[after[c]] \notin old[c]
    BY <1>4, <2>1 DEF IInv, RetryIsLater
  <2>3. retry[after[c]] # c
    BY <1>4, <2>1, NoneIsNoCall DEF IInv, Roles
  <2> QED
    BY <1>4, <2>1, <2>2, <2>3
<1> QED
  BY <1>3, <1>4 DEF Known

(* The retry slot of a flight is set once, to a flight newer than any call. *)
LEMMA SetRetryKeeps ==
    ASSUME IInv, NEW c \in Calls, pc[c] = "asking", NEW g \in Calls, on' \in [Calls -> Calls \union {None}],
           on'[g] = g, \A f \in Calls : on[f] = f => on'[f] = f,
           after[c] # None /\ retry[after[c]] = None => \A d \in Calls : g \notin old[d],
           retry' = SetRetry(c, g), result' = result, old' = old
    PROVE  /\ retry' \in [Calls -> Calls \union {None}]
           /\ RetryIsLater'
           /\ \A f \in Calls : retry'[f] # None => result'[f] # None /\ on'[retry'[f]] = retry'[f]
           /\ \A f \in Calls : retry[f] # None => retry'[f] = retry[f]
           /\ after[c] # None /\ retry[after[c]] = None => retry'[after[c]] = g
<1>1. CASE after[c] # None /\ retry[after[c]] = None
  <2>1. after[c] \in Calls /\ retry' = [retry EXCEPT ![after[c]] = g] /\ result[after[c]] # None
    BY <1>1 DEF IInv, TypeOK, Roles, SetRetry
  <2>2. retry' \in [Calls -> Calls \union {None}]
    BY <2>1 DEF IInv, TypeOK
  <2>3. \A f \in Calls : retry'[f] = IF f = after[c] THEN g ELSE retry[f]
    BY <2>1 DEF IInv, TypeOK
  <2>4. RetryIsLater'
    BY <1>1, <2>1, <2>3 DEF IInv, RetryIsLater
  <2>5. \A f \in Calls : retry[f] # None => retry[f] \in Calls /\ on[retry[f]] = retry[f] /\ result[f] # None
    BY DEF IInv, TypeOK, Roles
  <2> QED
    BY <1>1, <2>1, <2>2, <2>3, <2>4, <2>5
<1>2. CASE ~(after[c] # None /\ retry[after[c]] = None)
  <2>1. retry' = retry
    BY <1>2 DEF SetRetry
  <2>2. RetryIsLater'
    BY <2>1 DEF IInv, RetryIsLater
  <2>3. \A f \in Calls : retry[f] # None => retry[f] \in Calls /\ on[retry[f]] = retry[f] /\ result[f] # None
    BY DEF IInv, TypeOK, Roles
  <2> QED
    BY <1>2, <2>1, <2>2, <2>3 DEF IInv, TypeOK
<1> QED
  BY <1>1, <1>2

LEMMA JoinKeeps ==
    ASSUME IInv, NEW c \in Calls, Join(c)
    PROVE  IInv'
<1> DEFINE g == Known(c)
<1>1. /\ TypeOK /\ Roles /\ RetryIsShared /\ Fresh /\ QueuedIsKnown /\ DeadlineIsOwn
      /\ pc[c] = "asking" /\ on[c] = None /\ g # None
  BY DEF IInv, Roles, Join
<1>2. /\ g \in Calls /\ g \notin old[c] /\ g # c
      /\ after[c] # None /\ retry[after[c]] = None => \A d \in Calls : g \notin old[d]
  BY <1>1, KnownIsFresh
<1>3. on[g] = g
  <2>1. reads # None => reads \in Calls /\ on[reads] = reads
    BY <1>1 DEF TypeOK, Roles
  <2>2. after[c] # None /\ retry[after[c]] # None =>
          after[c] \in Calls /\ on[retry[after[c]]] = retry[after[c]]
    BY <1>1 DEF TypeOK, Roles
  <2> QED
    BY <1>1, <2>1, <2>2 DEF Known
<1> HIDE DEF g
<1>4. /\ pc' = [pc EXCEPT ![c] = "waiting"] /\ on' = [on EXCEPT ![c] = g]
      /\ retry' = SetRetry(c, g)
      /\ UNCHANGED <<reads, result, after, expired, started, outcome, old>>
  BY DEF Join, g
<1>5. /\ pc' \in [Calls -> {"out", "asking", "waiting", "queued", "running",
                            "closing", "publishing", "done"}]
      /\ on' \in [Calls -> Calls \union {None}]
      /\ on'[g] = g /\ on'[c] = g /\ pc'[c] = "waiting"
      /\ \A d \in Calls : d # c => on'[d] = on[d] /\ pc'[d] = pc[d]
  BY <1>1, <1>2, <1>3, <1>4 DEF TypeOK
<1>6. \A f \in Calls : on[f] = f => on'[f] = f
  BY <1>1, <1>5, NoneIsNoCall
<1>7. /\ retry' \in [Calls -> Calls \union {None}]
      /\ RetryIsLater'
      /\ \A f \in Calls : retry'[f] # None => result'[f] # None /\ on'[retry'[f]] = retry'[f]
      /\ \A f \in Calls : retry[f] # None => retry'[f] = retry[f]
  BY <1>1, <1>2, <1>4, <1>5, <1>6, SetRetryKeeps
<1>8. TypeOK'
  BY <1>1, <1>4, <1>5, <1>7 DEF TypeOK
<1>9. Roles'
  <2>1. \A d \in Calls : retry'[d] # None => result'[d] # None /\ on'[retry'[d]] = retry'[d]
    BY <1>7
  <2>2. reads' # None => pc'[reads'] \in {"queued", "closing"} /\ reads' \notin started'
    BY <1>1, <1>4, <1>5 DEF Roles, TypeOK
  <2>3. ASSUME NEW d \in Calls
        PROVE  /\ pc'[d] = "out" => on'[d] = None /\ after'[d] = None
               /\ pc'[d] = "asking" => on'[d] = None
               /\ pc'[d] = "waiting" => on'[d] # None /\ on'[d] # d
               /\ pc'[d] \in {"queued", "running", "closing", "publishing"} => on'[d] = d
               /\ pc'[d] = "queued" => d \notin started'
               /\ d \in started' => on'[d] = d /\ pc'[d] \in {"running", "closing", "publishing", "done"}
               /\ result'[d] # None => pc'[d] = "done"
               /\ after'[d] # None => result'[after'[d]] # None
    <3>1. CASE d = c
      BY <1>1, <1>2, <1>4, <1>5, <3>1, NoneIsNoCall DEF Roles
    <3>2. CASE d # c
      BY <1>1, <1>4, <1>5, <3>2 DEF Roles
    <3> QED
      BY <3>1, <3>2
  <2> QED
    BY <2>1, <2>2, <2>3 DEF Roles
<1>10. Fresh'
  <2>1. Over \subseteq Over'
    BY <1>1, <1>4, <1>5 DEF Over
  <2> QED
    BY <1>1, <1>2, <1>4, <1>5, <2>1 DEF Fresh
<1>11. RetryIsShared'
  BY <1>1, <1>2, <1>4, <1>5, <1>7, NoneIsNoCall DEF RetryIsShared, Leads, TypeOK
<1>12. QueuedIsKnown' /\ DeadlineIsOwn'
  BY <1>1, <1>4, <1>5 DEF QueuedIsKnown, DeadlineIsOwn
<1> QED
  BY <1>7, <1>8, <1>9, <1>10, <1>11, <1>12 DEF IInv

LEMMA LeadKeeps ==
    ASSUME IInv, NEW c \in Calls, Lead(c)
    PROVE  IInv'
<1>1. /\ TypeOK /\ Roles /\ RetryIsShared /\ Fresh /\ QueuedIsKnown /\ DeadlineIsOwn
      /\ pc[c] = "asking" /\ on[c] = None
      /\ c \notin started /\ reads = None
      /\ after[c] # None => retry[after[c]] = None
  BY DEF IInv, Roles, Lead, Known
<1>2. \A d \in Calls : c \notin old[d]
  BY <1>1 DEF Fresh, Over
<1>3. /\ pc' = [pc EXCEPT ![c] = "queued"] /\ on' = [on EXCEPT ![c] = c]
      /\ reads' = c /\ retry' = SetRetry(c, c)
      /\ UNCHANGED <<result, after, expired, started, outcome, old>>
  BY DEF Lead
<1>4. /\ pc' \in [Calls -> {"out", "asking", "waiting", "queued", "running",
                            "closing", "publishing", "done"}]
      /\ on' \in [Calls -> Calls \union {None}]
      /\ on'[c] = c /\ pc'[c] = "queued"
      /\ \A d \in Calls : d # c => on'[d] = on[d] /\ pc'[d] = pc[d]
  BY <1>1, <1>3 DEF TypeOK
<1>5. \A f \in Calls : on[f] = f => on'[f] = f
  BY <1>4
<1>6. /\ retry' \in [Calls -> Calls \union {None}]
      /\ RetryIsLater'
      /\ \A f \in Calls : retry'[f] # None => result'[f] # None /\ on'[retry'[f]] = retry'[f]
      /\ \A f \in Calls : retry[f] # None => retry'[f] = retry[f]
      /\ after[c] # None => retry'[after[c]] = c
  BY <1>1, <1>2, <1>3, <1>4, <1>5, SetRetryKeeps
<1>7. TypeOK'
  BY <1>1, <1>3, <1>4, <1>6 DEF TypeOK
<1>8. Roles'
  <2>1. reads' # None => pc'[reads'] \in {"queued", "closing"} /\ reads' \notin started'
    BY <1>1, <1>3, <1>4
  <2>2. ASSUME NEW d \in Calls
        PROVE  /\ pc'[d] = "out" => on'[d] = None /\ after'[d] = None
               /\ pc'[d] = "asking" => on'[d] = None
               /\ pc'[d] = "waiting" => on'[d] # None /\ on'[d] # d
               /\ pc'[d] \in {"queued", "running", "closing", "publishing"} => on'[d] = d
               /\ pc'[d] = "queued" => d \notin started'
               /\ d \in started' => on'[d] = d /\ pc'[d] \in {"running", "closing", "publishing", "done"}
               /\ result'[d] # None => pc'[d] = "done"
               /\ after'[d] # None => result'[after'[d]] # None
    <3>1. CASE d = c
      BY <1>1, <1>3, <1>4, <3>1 DEF Roles
    <3>2. CASE d # c
      BY <1>1, <1>3, <1>4, <3>2 DEF Roles
    <3> QED
      BY <3>1, <3>2
  <2> QED
    BY <1>6, <2>1, <2>2 DEF Roles
<1>9. Fresh'
  <2>1. Over \subseteq Over'
    BY <1>1, <1>3, <1>4 DEF Over
  <2> QED
    BY <1>1, <1>2, <1>3, <1>4, <2>1 DEF Fresh
<1>10. RetryIsShared'
  BY <1>1, <1>3, <1>4, <1>6, NoneIsNoCall DEF RetryIsShared, Leads, TypeOK
<1>11. QueuedIsKnown' /\ DeadlineIsOwn'
  <2>1. ASSUME NEW d \in Calls, pc'[d] = "queued" PROVE reads' = d
    BY <1>1, <1>3, <1>4, <2>1, NoneIsNoCall DEF QueuedIsKnown
  <2> QED
    BY <1>1, <1>3, <2>1 DEF QueuedIsKnown, DeadlineIsOwn
<1> QED
  BY <1>6, <1>7, <1>8, <1>9, <1>10, <1>11 DEF IInv

(* A step that sets no retry slot and makes no call keeps the order; what   *)
(* had started or ended only grows.                                         *)
LEMMA OrderStays ==
    ASSUME IInv, UNCHANGED <<retry, old>>, Over \subseteq Over',
           \A d \in Calls : on'[d] = on[d] \/ on'[d] = None,
           \A d \in Calls : after'[d] = after[d] \/ after'[d] = on[d]
    PROVE  RetryIsLater' /\ Fresh'
<1>1. RetryIsLater'
  BY DEF IInv, RetryIsLater
<1>2. \A d \in Calls : None \notin old[d]
  BY NoneIsNoCall DEF IInv, TypeOK
<1>3. Fresh'
  BY <1>2 DEF IInv, Fresh
<1> QED
  BY <1>1, <1>3

LEMMA CallKeeps ==
    ASSUME IInv, NEW c \in Calls, Call(c)
    PROVE  IInv'
<1>1. /\ TypeOK /\ Roles /\ RetryIsShared /\ Fresh /\ QueuedIsKnown /\ DeadlineIsOwn
      /\ pc[c] = "out" /\ RetryIsLater
  BY DEF IInv, Call
<1>2. /\ pc' = [pc EXCEPT ![c] = "asking"] /\ old' = [old EXCEPT ![c] = Over]
      /\ UNCHANGED <<shared, on, after, expired, started, outcome>>
  BY DEF Call
<1>3. Over \subseteq Over' /\ Over \subseteq Calls
  BY <1>1, <1>2 DEF Over, TypeOK
<1>4. TypeOK'
  BY <1>1, <1>2, <1>3 DEF TypeOK, shared
<1>5. Roles'
  BY <1>1, <1>2 DEF Roles, TypeOK, shared
<1>6. old' \in [Calls -> SUBSET Calls] /\ old'[c] = Over
      /\ \A d \in Calls : d # c => old'[d] = old[d]
  BY <1>1, <1>2, <1>3 DEF TypeOK
<1>7. RetryIsLater'
  <2> SUFFICES ASSUME NEW d \in Calls, NEW f \in Calls,
                      retry'[f] # None, retry'[f] \in old'[d]
               PROVE  f \in old'[d]
    BY DEF RetryIsLater
  <2>1. CASE d = c
    <3>1. pc[f] = "done"
      BY <1>1, <1>2 DEF Roles, shared
    <3> QED
      BY <1>6, <2>1, <3>1 DEF Over
  <2>2. CASE d # c
    BY <1>1, <1>2, <1>6, <2>2 DEF RetryIsLater, shared
  <2> QED
    BY <2>1, <2>2
<1>8. Fresh'
  <2>1. on[c] = None /\ after[c] = None /\ None \notin Over
    BY <1>1, <1>3, NoneIsNoCall DEF Roles
  <2> QED
    BY <1>1, <1>2, <1>3, <1>6, <2>1 DEF Fresh
<1>9. RetryIsShared' /\ QueuedIsKnown' /\ DeadlineIsOwn'
  BY <1>1, <1>2 DEF RetryIsShared, Leads, QueuedIsKnown, DeadlineIsOwn, shared, TypeOK
<1> QED
  BY <1>4, <1>5, <1>7, <1>8, <1>9 DEF IInv

LEMMA AdmitKeeps ==
    ASSUME IInv, NEW c \in Calls, Admit(c)
    PROVE  IInv'
<1>1. /\ TypeOK /\ Roles /\ RetryIsShared /\ QueuedIsKnown /\ DeadlineIsOwn
      /\ pc[c] = "queued" /\ on[c] = c /\ reads = c
  BY DEF IInv, Admit, Roles, QueuedIsKnown
<1>2. /\ pc' = [pc EXCEPT ![c] = "running"] /\ reads' = None
      /\ started' = started \union {c}
      /\ UNCHANGED <<result, retry, on, after, expired, outcome, old>>
  BY <1>1 DEF Admit, Closed
<1>3. RetryIsLater' /\ Fresh'
  BY <1>1, <1>2, OrderStays DEF Over, TypeOK
<1>4. TypeOK'
  BY <1>1, <1>2 DEF TypeOK
<1>5. Roles'
  BY <1>1, <1>2 DEF Roles, TypeOK
<1>6. RetryIsShared' /\ DeadlineIsOwn'
  BY <1>1, <1>2 DEF RetryIsShared, Leads, DeadlineIsOwn
<1>7. QueuedIsKnown'
  BY <1>1, <1>2 DEF QueuedIsKnown, TypeOK
<1> QED
  BY <1>3, <1>4, <1>5, <1>6, <1>7 DEF IInv

LEMMA EndKeeps ==
    ASSUME IInv, NEW c \in Calls, End(c)
    PROVE  IInv'
<1>1. /\ TypeOK /\ Roles /\ RetryIsShared /\ QueuedIsKnown /\ DeadlineIsOwn
      /\ pc[c] \in {"queued", "running"} /\ on[c] = c
  BY DEF IInv, End, Roles
<1>2. PICK o \in Outcomes :
         /\ o = "deadline" => c \in expired
         /\ outcome' = [outcome EXCEPT ![c] = o]
  BY DEF End
<1>3. /\ pc' = [pc EXCEPT ![c] = "closing"]
      /\ UNCHANGED <<shared, on, after, expired, started, old>>
  BY DEF End
<1>4. RetryIsLater' /\ Fresh'
  BY <1>1, <1>3, OrderStays DEF Over, TypeOK, shared
<1>5. TypeOK'
  BY <1>1, <1>2, <1>3 DEF TypeOK, shared
<1>6. Roles'
  BY <1>1, <1>3 DEF Roles, TypeOK, shared
<1>7. RetryIsShared' /\ QueuedIsKnown'
  BY <1>1, <1>3 DEF RetryIsShared, Leads, QueuedIsKnown, shared, TypeOK
<1>8. DeadlineIsOwn'
  BY <1>1, <1>2, <1>3 DEF DeadlineIsOwn, TypeOK
<1> QED
  BY <1>4, <1>5, <1>6, <1>7, <1>8 DEF IInv

LEMMA CloseKeeps ==
    ASSUME IInv, NEW c \in Calls, Close(c)
    PROVE  IInv'
<1>1. /\ TypeOK /\ Roles /\ RetryIsShared /\ QueuedIsKnown /\ DeadlineIsOwn
      /\ pc[c] = "closing" /\ on[c] = c
  BY DEF IInv, Close, Roles
<1>2. /\ pc' = [pc EXCEPT ![c] = "publishing"]
      /\ reads' = IF reads = c THEN None ELSE reads
      /\ UNCHANGED <<result, retry, on, after, expired, started, outcome, old>>
  BY DEF Close, Closed
<1>3. RetryIsLater' /\ Fresh'
  BY <1>1, <1>2, OrderStays DEF Over, TypeOK
<1>4. TypeOK'
  BY <1>1, <1>2 DEF TypeOK
<1>5. Roles'
  BY <1>1, <1>2 DEF Roles, TypeOK
<1>6. RetryIsShared' /\ DeadlineIsOwn'
  BY <1>1, <1>2 DEF RetryIsShared, Leads, DeadlineIsOwn
<1>7. QueuedIsKnown'
  BY <1>1, <1>2 DEF QueuedIsKnown, TypeOK
<1> QED
  BY <1>3, <1>4, <1>5, <1>6, <1>7 DEF IInv

LEMMA PublishKeeps ==
    ASSUME IInv, NEW c \in Calls, Publish(c)
    PROVE  IInv'
<1>1. /\ TypeOK /\ Roles /\ RetryIsShared /\ QueuedIsKnown /\ DeadlineIsOwn
      /\ pc[c] = "publishing"
  BY DEF IInv, Publish
<1>a. on[c] = c /\ result[c] = None
  BY <1>1 DEF Roles
<1>b. reads # c
  BY <1>1, NoneIsNoCall DEF Roles
<1>2. /\ pc' = [pc EXCEPT ![c] = "done"]
      /\ result' = [result EXCEPT ![c] = outcome[c]]
      /\ UNCHANGED <<reads, retry, on, after, expired, started, outcome, old>>
  BY DEF Publish
<1>3. RetryIsLater' /\ Fresh'
  BY <1>1, <1>a, <1>b, <1>2, OrderStays DEF Over, TypeOK
<1>4. TypeOK'
  BY <1>1, <1>a, <1>b, <1>2 DEF TypeOK
<1>5. Roles'
  <2>1. \A d \in Calls : d # c => result'[d] = result[d] /\ pc'[d] = pc[d]
    BY <1>1, <1>a, <1>b, <1>2 DEF TypeOK
  <2>2. \A d \in Calls : result[d] # None => result'[d] # None
    BY <1>a, <2>1
  <2> QED
    BY <1>1, <1>a, <1>b, <1>2, <2>1, <2>2 DEF Roles, TypeOK
<1>6. RetryIsShared' /\ QueuedIsKnown' /\ DeadlineIsOwn'
  BY <1>1, <1>a, <1>b, <1>2 DEF RetryIsShared, Leads, QueuedIsKnown, DeadlineIsOwn, TypeOK
<1> QED
  BY <1>3, <1>4, <1>5, <1>6 DEF IInv

LEMMA ReturnKeeps ==
    ASSUME IInv, NEW c \in Calls, pc[c] \in {"asking", "waiting"},
           NEW o \in Outcomes \union {None}, o = "deadline" => c \in expired, Return(c, o)
    PROVE  IInv'
<1>1. /\ TypeOK /\ Roles /\ RetryIsShared /\ QueuedIsKnown /\ DeadlineIsOwn
      /\ c \notin started
  BY DEF IInv, Roles
<1>2. /\ pc' = [pc EXCEPT ![c] = "done"] /\ outcome' = [outcome EXCEPT ![c] = o]
      /\ UNCHANGED <<shared, on, after, expired, started, old>>
  BY DEF Return
<1>3. RetryIsLater' /\ Fresh'
  <2>1. Over \subseteq Over'
    BY <1>1, <1>2 DEF Over, TypeOK
  <2> QED
    BY <1>2, <2>1, OrderStays DEF shared
<1>4. TypeOK'
  BY <1>1, <1>2 DEF TypeOK, shared
<1>5. Roles'
  BY <1>1, <1>2 DEF Roles, TypeOK, shared
<1>6. RetryIsShared' /\ QueuedIsKnown' /\ DeadlineIsOwn'
  BY <1>1, <1>2 DEF RetryIsShared, Leads, QueuedIsKnown, DeadlineIsOwn, TypeOK, shared
<1> QED
  BY <1>3, <1>4, <1>5, <1>6 DEF IInv

LEMMA ReadKeeps ==
    ASSUME IInv, NEW c \in Calls, Read(c)
    PROVE  IInv'
<1>1. /\ TypeOK /\ Roles /\ RetryIsShared /\ QueuedIsKnown /\ DeadlineIsOwn
      /\ pc[c] = "waiting" /\ on[c] \in Calls /\ on[c] # c /\ c \notin started
      /\ result[on[c]] # None
  BY DEF IInv, TypeOK, Roles, Read
<1>2. CASE result[on[c]] = "deadline" /\ c \notin expired
  <2>1. /\ pc' = [pc EXCEPT ![c] = "asking"] /\ after' = [after EXCEPT ![c] = on[c]]
        /\ on' = [on EXCEPT ![c] = None]
        /\ UNCHANGED <<shared, expired, started, outcome, old>>
    BY <1>2 DEF Read
  <2>2. /\ pc'[c] = "asking" /\ after'[c] = on[c] /\ on'[c] = None
        /\ \A d \in Calls : d # c => pc'[d] = pc[d] /\ after'[d] = after[d] /\ on'[d] = on[d]
    BY <1>1, <2>1 DEF TypeOK
  <2>3. RetryIsLater' /\ Fresh'
    <3>1. \A d \in Calls : on'[d] = on[d] \/ on'[d] = None
      BY <2>2
    <3>2. \A d \in Calls : after'[d] = after[d] \/ after'[d] = on[d]
      BY <2>2
    <3>3. Over \subseteq Over' /\ UNCHANGED <<retry, old>>
      BY <1>1, <2>1, <2>2 DEF Over, shared
    <3> QED
      BY <3>1, <3>2, <3>3, OrderStays
  <2>4. TypeOK'
    BY <1>1, <2>1 DEF TypeOK, shared
  <2>5. \A f \in Calls : on[f] = f => on'[f] = f
    BY <1>1, <2>2
  <2>6. Roles'
    <3>1. reads' # None => pc'[reads'] \in {"queued", "closing"} /\ reads' \notin started'
      BY <1>1, <2>1, <2>2 DEF Roles, TypeOK, shared
    <3>2. \A d \in Calls : retry'[d] # None => result'[d] # None /\ on'[retry'[d]] = retry'[d]
      BY <1>1, <2>1, <2>5 DEF Roles, TypeOK, shared
    <3>3. ASSUME NEW d \in Calls
          PROVE  /\ pc'[d] = "out" => on'[d] = None /\ after'[d] = None
                 /\ pc'[d] = "asking" => on'[d] = None
                 /\ pc'[d] = "waiting" => on'[d] # None /\ on'[d] # d
                 /\ pc'[d] \in {"queued", "running", "closing", "publishing"} => on'[d] = d
                 /\ pc'[d] = "queued" => d \notin started'
                 /\ d \in started' =>
                      on'[d] = d /\ pc'[d] \in {"running", "closing", "publishing", "done"}
                 /\ result'[d] # None => pc'[d] = "done"
                 /\ retry'[d] # None => result'[d] # None /\ on'[retry'[d]] = retry'[d]
                 /\ after'[d] # None => result'[after'[d]] # None
      <4>1. CASE d = c
        BY <1>1, <2>1, <2>2, <3>2, <4>1 DEF Roles, shared
      <4>2. CASE d # c
        BY <1>1, <2>1, <2>2, <3>2, <4>2 DEF Roles, shared
      <4> QED
        BY <4>1, <4>2
    <3> QED
      BY <3>1, <3>3, Zenon DEF Roles
  <2>7. RetryIsShared'
    BY <1>1, <2>1, <2>2, NoneIsNoCall DEF RetryIsShared, Leads, shared
  <2>8. QueuedIsKnown' /\ DeadlineIsOwn'
    BY <1>1, <2>1, <2>2 DEF QueuedIsKnown, DeadlineIsOwn, shared
  <2> QED
    BY <2>3, <2>4, <2>6, <2>7, <2>8 DEF IInv
<1>3. CASE ~(result[on[c]] = "deadline" /\ c \notin expired)
  <2>1. Return(c, result[on[c]]) /\ result[on[c]] \in Outcomes \union {None}
    BY <1>1, <1>3 DEF Read, TypeOK
  <2> QED
    BY <1>1, <1>3, <2>1, ReturnKeeps
<1> QED
  BY <1>2, <1>3

LEMMA StepKeeps == IInv /\ [Next]_vars => IInv'
<1> SUFFICES ASSUME IInv, [Next]_vars PROVE IInv'
  OBVIOUS
<1>1. ASSUME NEW c \in Calls, Call(c) PROVE IInv'
  BY <1>1, CallKeeps
<1>2. ASSUME NEW c \in Calls, Run(c) PROVE IInv'
  BY <1>2, JoinKeeps, LeadKeeps, AdmitKeeps, EndKeeps, CloseKeeps, PublishKeeps, ReadKeeps
     DEF Run
<1>3. ASSUME NEW c \in Calls, TimeOut(c) PROVE IInv'
  BY <1>3, ReturnKeeps DEF TimeOut, Outcomes
<1>4. ASSUME NEW c \in Calls, Expire(c) PROVE IInv'
  <2>1. expired' = expired \union {c}
        /\ UNCHANGED <<shared, pc, on, after, started, outcome, old>>
    BY <1>4 DEF Expire
  <2>2. RetryIsLater' /\ Fresh'
    BY <2>1, OrderStays DEF Over, shared
  <2>3. TypeOK' /\ Roles' /\ RetryIsShared' /\ QueuedIsKnown'
    BY <2>1 DEF IInv, TypeOK, Roles, RetryIsShared, Leads, QueuedIsKnown, shared
  <2>4. DeadlineIsOwn'
    BY <2>1 DEF IInv, DeadlineIsOwn
  <2> QED
    BY <2>2, <2>3, <2>4 DEF IInv
<1>5. CASE UNCHANGED vars
  <2>1. UNCHANGED <<pc, on, after, expired, reads, result, retry, started, outcome, old>>
    BY <1>5 DEF vars
  <2>2. RetryIsLater' /\ Fresh'
    BY <2>1, OrderStays DEF Over
  <2>3. TypeOK' /\ Roles' /\ RetryIsShared' /\ QueuedIsKnown' /\ DeadlineIsOwn'
    BY <2>1 DEF IInv, TypeOK, Roles, RetryIsShared, Leads, QueuedIsKnown, DeadlineIsOwn
  <2> QED
    BY <2>2, <2>3 DEF IInv
<1> QED
  BY <1>1, <1>2, <1>3, <1>4, <1>5 DEF Next

LEMMA InitHolds == Init => IInv
<1> SUFFICES ASSUME Init PROVE IInv
  OBVIOUS
<1>1. TypeOK
  BY DEF Init, TypeOK
<1>2. Roles
  BY NoneIsNoCall DEF Init, Roles
<1>3. QueuedIsKnown /\ DeadlineIsOwn
  BY NoneIsNoCall DEF Init, QueuedIsKnown, DeadlineIsOwn, Outcomes
<1>4. RetryIsLater /\ Fresh /\ RetryIsShared
  BY DEF Init, RetryIsLater, Fresh, RetryIsShared
<1> QED
  BY <1>1, <1>2, <1>3, <1>4 DEF IInv

-----------------------------------------------------------------------------
(* The inductive invariant holds in every reachable state. *)
THEOREM Invariance == Spec => []IInv
BY InitHolds, StepKeeps, PTL DEF Spec

(* Every variable keeps its type. *)
THEOREM TypeCorrect == Spec => []TypeOK
<1>1. IInv => TypeOK
  BY DEF IInv
<1> QED
  BY <1>1, Invariance, PTL

(* No call is answered by a child older than itself, however many leaders   *)
(* time out on the way to its answer.                                       *)
THEOREM AnswersFresh == Spec => []AnswersAreFresh
<1>1. IInv => AnswersAreFresh
  BY DEF IInv, Fresh, AnswersAreFresh
<1> QED
  BY <1>1, Invariance, PTL

(* No call reports a deadline that is another's.                            *)
THEOREM DeadlinesAreOwn == Spec => []DeadlineIsOwn
<1>1. IInv => DeadlineIsOwn
  BY DEF IInv
<1> QED
  BY <1>1, Invariance, PTL

(* However many joiners a timeout sends back, one of them leads.            *)
THEOREM OneRetryEach == Spec => []OneRetry
<1>1. IInv => OneRetry
  BY DEF IInv, RetryIsShared, OneRetry
<1> QED
  BY <1>1, Invariance, PTL

(* One flight at most is queued, and it can be joined.                      *)
THEOREM QueuedAreKnown == Spec => []QueuedIsKnown
<1>1. IInv => QueuedIsKnown
  BY DEF IInv
<1> QED
  BY <1>1, Invariance, PTL
=============================================================================
