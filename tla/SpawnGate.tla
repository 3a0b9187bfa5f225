----------------------------- MODULE SpawnGate -----------------------------
(***************************************************************************)
(* The gate every git and gh child process of one GitPulse process passes  *)
(* (SpawnGate, engine/git_cli.rs): a counting semaphore with three classes *)
(* of caller, a bucket of rate tokens of its own, and the record it shares *)
(* with the user's other processes (SharedBudget).                         *)
(*                                                                         *)
(* A caller waits by polling.  Each pass of its loop is one critical       *)
(* section of the gate's mutex, left twice: for the caller's cancel check, *)
(* before each pass, and for the question to the shared record, in the     *)
(* middle of one.  The condition variable is waited on with a timeout, so  *)
(* a waiting caller may make its next pass at any time and needs no        *)
(* wake-up.                                                                *)
(*                                                                         *)
(* Modelled: the production gate, rate-limited and with its record open.   *)
(* What the record answers is a choice, and so is when a deadline, the     *)
(* queue budget or the pause between two questions has passed.  Left out:  *)
(* counters, labels and log lines, the levels a refusal message names, and *)
(* callers refused on arrival under memory pressure, which change nothing  *)
(* but a counter.                                                          *)
(***************************************************************************)
EXTENDS Integers, Sequences, FiniteSets

CONSTANTS Interactive, \* callers doing what the user asked for
          Reactive,    \* refreshes
          Shedding,    \* background work that is shed when the rate is spent
          Awaiting,    \* background reads that asked to wait for the rate
          Limit,       \* children that may run at once
          Burst,       \* tokens the gate's own bucket holds
          MaxUser,     \* bound of the model: calls made by Interactive
          MaxDue       \* bound of the model: tokens one refill may add

Background == Shedding \union Awaiting
Callers == Interactive \union Reactive \union Background

ASSUME ClassesDiffer ==
    /\ Interactive \intersect Reactive = {}
    /\ Interactive \intersect Background = {}
    /\ Reactive \intersect Background = {}
    /\ Shedding \intersect Awaiting = {}

ASSUME CallersFinite == IsFiniteSet(Callers)

ASSUME GateSize == Limit \in Nat \ {0} /\ Burst \in Nat \ {0}

ASSUME Bounds == MaxUser \in Nat /\ MaxDue \in Nat \ {0}

VARIABLES pc,        \* where each caller is
          inFlight, background,                \* children running
          waitingInteractive, waitingBackground,
          tokens,    \* of the gate's own bucket
          due,       \* tokens the clock owes it since the last refill
          line,      \* reactive callers that have no shared token, by arrival
          holds,     \* callers whose reservation counts as waiting
          granted,   \* callers that hold a token of the shared record
          denied,    \* callers the record has denied since they arrived
          short,     \* callers whose wait for a token has begun
          users      \* calls made by Interactive so far

counts == <<inFlight, background>>
vars == <<pc, inFlight, background, waitingInteractive, waitingBackground,
          tokens, due, line, holds, granted, denied, short, users>>

-----------------------------------------------------------------------------
(* The gate's arithmetic. *)

BackgroundReserve == Burst \div 4

FloorFor(c) == IF c \in Background THEN BackgroundReserve ELSE 0

BackgroundShare == IF Limit \div 4 = 0 THEN 1 ELSE Limit \div 4

\* The bucket after a refill.
Refilled == IF tokens + due > Burst THEN Burst ELSE tokens + due

Less(n) == IF n = 0 THEN 0 ELSE n - 1

TokensAvailable(c, level) == c \in Interactive \/ level > FloorFor(c)

FaultySlotIsLeft == inFlight < Limit

\* A background caller that waits keeps one slot from the reactive ones.
SlotIsLeft ==
    \/ waitingBackground = 0
    \/ background > 0
    \/ inFlight + 1 < Limit

Eligible(c) ==
    \/ c \in Interactive
    \/ c \in Background /\ waitingInteractive = 0 /\ background < BackgroundShare
    \/ c \in Reactive /\ waitingInteractive = 0 /\ SlotIsLeft

InLine(c) == \E i \in 1..Len(line) : line[i] = c

Place(c) == CHOOSE i \in 1..Len(line) : line[i] = c

\* The line without c.
LeaveLine(c) ==
    IF InLine(c)
      THEN [i \in 1..Len(line) - 1 |-> IF i < Place(c) THEN line[i] ELSE line[i + 1]]
      ELSE line

FaultyAtFront(c) == TRUE

\* Nobody who may ask first is before c.
AtFront(c) == InLine(c) => line[1] = c

TypeOK ==
    /\ pc \in [Callers -> {"out", "waiting", "asking", "running"}]
    /\ inFlight \in Nat /\ background \in Nat
    /\ waitingInteractive \in Nat /\ waitingBackground \in Nat
    /\ tokens \in 0..Burst /\ due \in 0..MaxDue
    /\ line \in Seq(Reactive)
    /\ holds \in SUBSET Callers /\ granted \in SUBSET Callers
    /\ denied \in SUBSET Callers /\ short \in SUBSET Callers
    /\ users \in 0..MaxUser

-----------------------------------------------------------------------------
Init ==
    /\ pc = [c \in Callers |-> "out"]
    /\ inFlight = 0 /\ background = 0
    /\ waitingInteractive = 0 /\ waitingBackground = 0
    /\ tokens = Burst /\ due = 0
    /\ line = <<>>
    /\ holds = {} /\ granted = {} /\ denied = {} /\ short = {}
    /\ users = 0

\* acquire_judged up to its loop: the caller is counted and takes its place.
Arrive(c) ==
    /\ pc[c] = "out"
    /\ c \in Interactive => users < MaxUser
    /\ users' = IF c \in Interactive THEN users + 1 ELSE users
    /\ pc' = [pc EXCEPT ![c] = "waiting"]
    /\ waitingInteractive' = IF c \in Interactive THEN waitingInteractive + 1
                             ELSE waitingInteractive
    /\ waitingBackground' = IF c \in Background THEN waitingBackground + 1
                            ELSE waitingBackground
    /\ holds' = IF c \in Reactive THEN holds ELSE holds \union {c}
    /\ line' = IF c \in Reactive THEN Append(line, c) ELSE line
    /\ UNCHANGED <<counts, tokens, due, granted, denied, short>>

FaultyGiveBack(c) ==
    /\ holds' = holds \ {c}
    /\ waitingInteractive' = IF c \in holds \intersect Interactive
                               THEN Less(waitingInteractive) ELSE waitingInteractive
    /\ waitingBackground' = waitingBackground
    /\ line' = LeaveLine(c)
    /\ granted' = granted \ {c} /\ denied' = denied \ {c} /\ short' = short \ {c}

\* What every way out of the wait does: the place in the line and the waiting
\* count go back, and a shared token not spent is lost.
GiveBack(c) ==
    /\ holds' = holds \ {c}
    /\ waitingInteractive' = IF c \in holds \intersect Interactive
                               THEN Less(waitingInteractive) ELSE waitingInteractive
    /\ waitingBackground' = IF c \in holds \intersect Background
                              THEN Less(waitingBackground) ELSE waitingBackground
    /\ line' = LeaveLine(c)
    /\ granted' = granted \ {c} /\ denied' = denied \ {c} /\ short' = short \ {c}

\* The cancel check says so, or the deadline has passed.
GiveUp(c) ==
    /\ pc[c] = "waiting"
    /\ pc' = [pc EXCEPT ![c] = "out"]
    /\ GiveBack(c)
    /\ UNCHANGED <<counts, tokens, due, users>>

\* The cancel check panics: the reservation's drop gives back what it holds.
Unwind(c) ==
    /\ pc[c] = "waiting"
    /\ pc' = [pc EXCEPT ![c] = "out"]
    /\ IF c \in holds \/ InLine(c)
         THEN GiveBack(c)
         ELSE /\ granted' = granted \ {c}
              /\ denied' = denied \ {c}
              /\ short' = short \ {c}
              /\ UNCHANGED <<holds, line, waitingInteractive, waitingBackground>>
    /\ UNCHANGED <<counts, tokens, due, users>>

\* The pass admits c; level is what the bucket holds.
Start(c, level) ==
    /\ pc' = [pc EXCEPT ![c] = "running"]
    /\ inFlight' = inFlight + 1
    /\ background' = IF c \in Background THEN background + 1 ELSE background
    /\ tokens' = IF c \in Interactive THEN level ELSE Less(level)
    /\ GiveBack(c)

\* The pass ends the call: shed, or out of its queue budget.
Refuse(c, level) ==
    /\ c \in Shedding \/ c \in short
    /\ pc' = [pc EXCEPT ![c] = "out"]
    /\ tokens' = level
    /\ GiveBack(c)
    /\ UNCHANGED counts

\* The pass leaves c waiting.  An awaiting reader counts as waiting only while
\* it is a slot it waits for.
Nap(c, ok, level) ==
    /\ pc' = [pc EXCEPT ![c] = "waiting"]
    /\ tokens' = level
    /\ short' = IF ok THEN short \ {c} ELSE short \union {c}
    /\ IF c \notin Awaiting \/ (ok <=> c \in holds)
         THEN UNCHANGED <<holds, waitingBackground>>
         ELSE IF ok
           THEN holds' = holds \union {c} /\ waitingBackground' = waitingBackground + 1
           ELSE holds' = holds \ {c} /\ waitingBackground' = Less(waitingBackground)
    /\ UNCHANGED <<counts, waitingInteractive>>

\* The end of a pass that found tokens for c or none (ok).
Conclude(c, ok, eligible, level) ==
    \/ ok /\ eligible /\ inFlight < Limit /\ Start(c, level)
    \/ ~ok /\ Refuse(c, level)
    \/ /\ IF ok THEN ~(eligible /\ inFlight < Limit) ELSE c \notin Shedding
       /\ Nap(c, ok, level)
       /\ UNCHANGED <<line, granted, denied>>

\* Whether a pass that finds the bucket at level would go on to the record.
AsksShared(c, level) ==
    /\ TokensAvailable(c, level) /\ AtFront(c)
    /\ c \notin Interactive /\ c \notin granted
    /\ inFlight < Limit /\ Eligible(c)

\* A pass that does not ask: there is nothing to ask for, or the pause since
\* the last denial is not over.
Pass(c) ==
    /\ pc[c] = "waiting"
    /\ \/ /\ ~AsksShared(c, Refilled)
          /\ Conclude(c, TokensAvailable(c, Refilled) /\ AtFront(c), Eligible(c), Refilled)
       \/ /\ AsksShared(c, Refilled)
          /\ c \in denied /\ c \notin Shedding
          /\ Conclude(c, FALSE, Eligible(c), Refilled)
    /\ due' = 0
    /\ UNCHANGED users

\* The pass releases the mutex and asks the shared record.
Ask(c) ==
    /\ pc[c] = "waiting"
    /\ AsksShared(c, Refilled)
    /\ pc' = [pc EXCEPT ![c] = "asking"]
    /\ tokens' = Refilled /\ due' = 0
    /\ UNCHANGED <<counts, waitingInteractive, waitingBackground, line, holds,
                   granted, denied, short, users>>

FaultyGrantedSlot(c) ==
    LET ok == TokensAvailable(c, tokens) IN
    /\ pc[c] = "asking"
    /\ \/ ok /\ Eligible(c) /\ Start(c, tokens)
       \/ ~ok /\ Refuse(c, tokens)
       \/ /\ IF ok THEN ~Eligible(c) ELSE c \notin Shedding
          /\ Nap(c, ok, tokens)
          /\ granted' = granted \union {c}
          /\ line' = LeaveLine(c)
          /\ denied' = denied
    /\ UNCHANGED <<due, users>>

FaultyGrantedUser(c) ==
    LET ok == TokensAvailable(c, tokens)
        eligible == c \in Background => background < BackgroundShare IN
    /\ pc[c] = "asking"
    /\ \/ ok /\ eligible /\ inFlight < Limit /\ Start(c, tokens)
       \/ ~ok /\ Refuse(c, tokens)
       \/ /\ IF ok THEN ~(eligible /\ inFlight < Limit) ELSE c \notin Shedding
          /\ Nap(c, ok, tokens)
          /\ granted' = granted \union {c}
          /\ line' = LeaveLine(c)
          /\ denied' = denied
    /\ UNCHANGED <<due, users>>

FaultyGrantedToken(c) ==
    /\ pc[c] = "asking"
    /\ \/ Eligible(c) /\ inFlight < Limit /\ Start(c, tokens)
       \/ /\ ~(Eligible(c) /\ inFlight < Limit)
          /\ Nap(c, TRUE, tokens)
          /\ granted' = granted \union {c}
          /\ line' = LeaveLine(c)
          /\ denied' = denied
    /\ UNCHANGED <<due, users>>

\* The answer, with the mutex taken again, is a token (or the record could not
\* be read): the caller leaves the line, and the slots and the bucket are read
\* again.  A token without a slot is kept for the next pass.
Granted(c) ==
    LET ok == TokensAvailable(c, tokens) IN
    /\ pc[c] = "asking"
    /\ \/ ok /\ Eligible(c) /\ inFlight < Limit /\ Start(c, tokens)
       \/ ~ok /\ Refuse(c, tokens)
       \/ /\ IF ok THEN ~(Eligible(c) /\ inFlight < Limit) ELSE c \notin Shedding
          /\ Nap(c, ok, tokens)
          /\ granted' = granted \union {c}
          /\ line' = LeaveLine(c)
          /\ denied' = denied
    /\ UNCHANGED <<due, users>>

\* The answer is no.
Denied(c) ==
    /\ pc[c] = "asking"
    /\ \/ Refuse(c, tokens)
       \/ /\ c \notin Shedding
          /\ Nap(c, FALSE, tokens)
          /\ denied' = denied \union {c}
          /\ UNCHANGED <<line, granted>>
    /\ UNCHANGED <<due, users>>

\* The child ends and its permit is dropped.
Finish(c) ==
    /\ pc[c] = "running"
    /\ pc' = [pc EXCEPT ![c] = "out"]
    /\ inFlight' = Less(inFlight)
    /\ background' = IF c \in Background THEN Less(background) ELSE background
    /\ UNCHANGED <<waitingInteractive, waitingBackground, tokens, due, line,
                   holds, granted, denied, short, users>>

\* Time for one more token has passed.
Tick ==
    /\ due < MaxDue
    /\ due' = due + 1
    /\ UNCHANGED <<pc, counts, waitingInteractive, waitingBackground, tokens,
                   line, holds, granted, denied, short, users>>

Next ==
    \/ Tick
    \/ \E c \in Callers :
         \/ Arrive(c) \/ GiveUp(c) \/ Unwind(c)
         \/ Pass(c) \/ Ask(c) \/ Granted(c) \/ Denied(c) \/ Finish(c)

Spec == Init /\ [][Next]_vars

(* Callers poll, questions are answered, children end, pauses end and time  *)
(* passes.  The record does not deny reactive callers for ever, but it owes *)
(* nothing to any one of them.  Nobody need call, give up or be refused.    *)
LiveSpec ==
    /\ Spec
    /\ WF_vars(Tick)
    /\ \A c \in Callers :
         /\ WF_vars(Pass(c) \/ Ask(c)) /\ WF_vars(Ask(c))
         /\ WF_vars(Granted(c) \/ Denied(c)) /\ WF_vars(Finish(c))
    /\ SF_vars(\E c \in Reactive : Granted(c))

-----------------------------------------------------------------------------
(* Properties. *)

Waiting == {c \in Callers : pc[c] \in {"waiting", "asking"}}
Running == {c \in Callers : pc[c] = "running"}

(* The counts of running children are those of the children: no slot is     *)
(* leaked or given twice, and neither ceiling is passed (in_flight and      *)
(* background, changed by acquire_judged and by the permit's drop).         *)
SlotsCounted ==
    /\ inFlight = Cardinality(Running) /\ inFlight <= Limit
    /\ background = Cardinality(Running \intersect Background)
    /\ background <= BackgroundShare

(* A count of waiting callers, or a place in the line, belongs to a caller  *)
(* that waits, however the waits before it ended: a stranded one would keep *)
(* every refresh out for good (WaitReservation).                            *)
NothingStranded ==
    /\ holds \subseteq Waiting
    /\ waitingInteractive = Cardinality(Waiting \intersect Interactive)
    /\ waitingBackground = Cardinality(holds \intersect Background)
    /\ Waiting \intersect (Interactive \union Shedding) \subseteq holds
    /\ \A r \in Reactive : InLine(r) <=> r \in Waiting \ granted
    /\ \A i, j \in 1..Len(line) : line[i] = line[j] => i = j

(* A background reader that is short of tokens keeps no slot from a         *)
(* reactive read that has one (the hold and release of acquire_judged).     *)
ShortKeepsNoSlot == short \intersect Awaiting \intersect holds = {}

Starts(c) == pc[c] # "running" /\ pc'[c] = "running"

(* No refresh and no background work starts while a user action waits,      *)
(* though the gate was unlocked between the check and the start.            *)
UserActionsFirst ==
    [][\A c \in Callers \ Interactive :
         Starts(c) => Waiting \intersect Interactive = {}]_vars

(* Every start but a user action's takes one token that was there, above    *)
(* the reserve if it is background work: the subtraction never saturates.   *)
StartsArePaid ==
    [][\A c \in Callers \ Interactive :
         Starts(c) => /\ tokens' >= FloorFor(c)
                      /\ tokens' + 1 \in {tokens, Refilled}]_vars

(* A reactive caller in the line leaves it in the end, whatever later       *)
(* arrivals do: each token that lands is the oldest waiter's.               *)
ReactiveIsServed == \A c \in Reactive : InLine(c) ~> ~InLine(c)

(* Sustained reactive traffic does not postpone background work: while some *)
(* waits for a slot, either it starts, is told that the rate is spent or    *)
(* gives up, or other background work gets the slot.                        *)
BackgroundIsServed ==
    \A c \in Background : c \in holds ~> (c \notin holds \/ background > 0)

=============================================================================
