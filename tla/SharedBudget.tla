---------------------------- MODULE SharedBudget ----------------------------
(***************************************************************************)
(* The spawn-rate budget every process of one user draws from              *)
(* (engine/git_cli/shared_budget.rs): one record in a file, taken under a  *)
(* mutex that excludes the threads of a process and an advisory lock that  *)
(* excludes other processes, refilled from the wall clock, and rewritten   *)
(* in three staged writes any of which can be cut short by an error or by  *)
(* the death of the process.                                               *)
(*                                                                         *)
(* The clock is read before the locks are waited for (take_leveled), so a  *)
(* take can meet an anchor later than its own reading; refill then moves   *)
(* the anchor back.  `passed`, `granted` and `reread` are not in the code. *)
(* `reread` is the time such takes let the record count again; the budget  *)
(* is kept once it is allowed for, and not otherwise.                      *)
(*                                                                         *)
(* A tick is the unit of the anchor, `TicksPerToken` of them earn a token  *)
(* (125 ms at the shipped rate, which divides a second exactly).  A step   *)
(* of the wall clock backwards falls between takes; a step forwards is a   *)
(* run of ticks.                                                           *)
(***************************************************************************)
EXTENDS Integers

CONSTANTS
    Processes,          \* processes that opted into the shared record
    Threads,            \* their threads that ask
    ProcessOf,          \* the process of each
    Burst, TicksPerToken,
    Floors,             \* the reserve each class of caller leaves
    None,
    ClockAtStart,       \* the wall clock's first reading
    MaxTicks,           \* bound: ticks of the clock
    MaxFaults           \* bound: failed writes, dead processes, clock steps

ASSUME RateAssumption == Burst \in Nat \ {0} /\ TicksPerToken \in Nat \ {0}
ASSUME FloorsAssumption == Floors \subseteq 0..(Burst - 1)
ASSUME ThreadsAssumption == ProcessOf \in [Threads -> Processes]
ASSUME BoundsAssumption ==
    ClockAtStart \in Nat /\ MaxTicks \in Nat /\ MaxFaults \in Nat
ASSUME NoneAssumption == None \notin Processes \union Threads

VARIABLES
    wall,       \* the wall clock, in ticks
    file,       \* the record's bytes: what they decode as, and the two counts
    guard,      \* per process: the thread holding the in-process mutex
    advisory,   \* the process holding the advisory lock
    pc,         \* where each thread's take is
    take,       \* what each thread's take has read and decided
    answer,     \* what the take that ended last had decided, and returned
    passed,     \* ticks of the clock so far
    granted,    \* takes that got a token from the record
    reread,     \* ticks the record has been made to count twice
    faults

locks == <<guard, advisory>>
counts == <<passed, granted, reread>>
vars == <<wall, file, guard, advisory, pc, take, answer, passed, granted, reread, faults>>

\* "blanked" is this layout's record with the first byte of its magic out of
\* place; "foreign" stands for every other content that does not decode.
Layouts == {"empty", "current", "blanked", "foreign", "newer"}
Record == [layout : Layouts, tokens : 0..Burst, at : Nat]

TakeAt(now) == [now |-> now, grant |-> FALSE, tokens |-> 0, at |-> 0, again |-> 0]
NoTake == TakeAt(0)

Waiting == {"guard", "advisory"}
Writing == {"blank", "body", "commit"}
Updating(t) == pc[t] \in Writing \union {"read"}

\* What the take is committed to once it has read the record.
Decided(t) == IF pc[t] \in Writing THEN IF take[t].grant THEN "grant" ELSE "deny" ELSE "none"

Init ==
    /\ wall = ClockAtStart
    /\ file \in {[layout |-> l, tokens |-> 0, at |-> 0] : l \in Layouts \ {"current", "blanked"}}
    /\ guard = [p \in Processes |-> None] /\ advisory = None
    /\ pc = [t \in Threads |-> "idle"]
    /\ take = [t \in Threads |-> NoTake]
    /\ answer = [decided |-> "none", returned |-> "none"]
    /\ passed = 0 /\ granted = 0 /\ reread = 0 /\ faults = 0

-----------------------------------------------------------------------------
(* Reading the record.                                                     *)

\* What the record says before refilling; an undecodable one is an empty
\* budget that refills from now, one never written is a full burst.
ReadState(now) ==
    IF file.layout = "current" THEN [tokens |-> file.tokens, at |-> file.at]
    ELSE [tokens |-> IF file.layout = "empty" THEN Burst ELSE 0, at |-> now]

Earned(s, now) == (now - s.at) \div TicksPerToken

\* Whole tokens; the remainder stays on the anchor.  A clock behind the anchor
\* re-anchors and adds nothing.
Refilled(s, now) ==
    IF now < s.at THEN [tokens |-> s.tokens, at |-> now]
    ELSE IF Earned(s, now) >= Burst THEN [tokens |-> Burst, at |-> now]
    ELSE [tokens |-> IF s.tokens + Earned(s, now) < Burst
                     THEN s.tokens + Earned(s, now) ELSE Burst,
          at     |-> s.at + TicksPerToken * Earned(s, now)]

\* Ticks between an anchor and the clock.
Since(at) == IF at < wall THEN wall - at ELSE 0

\* Ticks already counted, or given up, that a take reading `now` makes the
\* record count again.
CountedAgain(now) ==
    IF file.layout = "current"
    THEN IF now < file.at THEN Since(now) - Since(file.at) ELSE 0
    ELSE IF file.layout = "empty" THEN 0 ELSE Since(now)

-----------------------------------------------------------------------------
(* A take.                                                                 *)

Unlock(t) ==
    /\ guard' = [guard EXCEPT ![ProcessOf[t]] = IF @ = t THEN None ELSE @]
    /\ advisory' = IF advisory = ProcessOf[t] THEN None ELSE advisory

Finish(t, returned) ==
    /\ pc' = [pc EXCEPT ![t] = "idle"]
    /\ take' = [take EXCEPT ![t] = NoTake]
    /\ answer' = [decided |-> Decided(t), returned |-> returned]

\* take_leveled: the clock is read, then the locks are asked for.  The floor
\* its caller passes matters, and is chosen, once the record is read.
Ask(t) ==
    /\ pc[t] = "idle"
    /\ pc' = [pc EXCEPT ![t] = "guard"]
    /\ take' = [take EXCEPT ![t] = TakeAt(wall)]
    /\ UNCHANGED <<wall, file, locks, answer, counts, faults>>

TakeGuard(t) ==
    /\ pc[t] = "guard" /\ guard[ProcessOf[t]] = None
    /\ guard' = [guard EXCEPT ![ProcessOf[t]] = t]
    /\ pc' = [pc EXCEPT ![t] = "advisory"]
    /\ UNCHANGED <<wall, file, advisory, take, answer, counts, faults>>

\* The lock belongs to the open file, so it does not exclude a process's own
\* threads.
TakeAdvisory(t) ==
    /\ pc[t] = "advisory" /\ advisory \in {None, ProcessOf[t]}
    /\ advisory' = ProcessOf[t]
    /\ pc' = [pc EXCEPT ![t] = "read"]
    /\ UNCHANGED <<wall, file, guard, take, answer, counts, faults>>

\* LOCK_PATIENCE passes while another holds one of the two.
LosePatience(t) ==
    /\ \/ pc[t] = "guard" /\ guard[ProcessOf[t]] # None /\ UNCHANGED guard
       \/ /\ pc[t] = "advisory" /\ advisory \notin {None, ProcessOf[t]}
          /\ guard' = [guard EXCEPT ![ProcessOf[t]] = None]
    /\ Finish(t, "Unavailable")
    /\ UNCHANGED <<wall, file, advisory, counts, faults>>

\* A newer layout's record is its writer's, and one that cannot be read
\* answers nothing.
Unreached(t) ==
    /\ pc[t] = "read"
    /\ \/ file.layout = "newer" /\ UNCHANGED faults
       \/ faults < MaxFaults /\ faults' = faults + 1
    /\ Unlock(t)
    /\ Finish(t, "Unavailable")
    /\ UNCHANGED <<wall, file, counts>>

\* The record after refilling, before this take spends from it.
Level(t) == Refilled(ReadState(take[t].now), take[t].now)

\* A clean denial whose anchor did not move back need not be written; whether
\* the handle's last written denial still vouches for the record is left open.
MayDenyUnwritten(t, floor) ==
    /\ Level(t).tokens <= floor
    /\ file.layout = "current" /\ Level(t).at >= file.at

DenyUnwritten(t, floor) ==
    /\ pc[t] = "read" /\ file.layout # "newer"
    /\ MayDenyUnwritten(t, floor)
    /\ Unlock(t)
    /\ Finish(t, "Denied")
    /\ UNCHANGED <<wall, file, counts, faults>>

Decide(t, floor) ==
    /\ pc[t] = "read" /\ file.layout # "newer"
    /\ LET grant == Level(t).tokens > floor
       IN take' = [take EXCEPT ![t] =
                     [@ EXCEPT !.grant = grant,
                               !.tokens = IF grant THEN Level(t).tokens - 1 ELSE Level(t).tokens,
                               !.at = Level(t).at,
                               !.again = CountedAgain(take[t].now)]]
    /\ pc' = [pc EXCEPT ![t] = "blank"]
    /\ UNCHANGED <<wall, file, locks, answer, counts, faults>>

FaultyBlank(t) ==           \* one write over the old bytes: nothing is blanked
    /\ pc[t] = "blank"
    /\ pc' = [pc EXCEPT ![t] = "body"]
    /\ UNCHANGED <<wall, file, locks, take, answer, counts, faults>>

\* The three staged writes: the record is undecodable from the first to the last.
Blank(t) ==
    /\ pc[t] = "blank"
    /\ file' = [file EXCEPT !.layout = "blanked"]
    /\ pc' = [pc EXCEPT ![t] = "body"]
    /\ UNCHANGED <<wall, locks, take, answer, counts, faults>>

Body(t) ==
    /\ pc[t] = "body"
    /\ file' = [file EXCEPT !.tokens = take[t].tokens, !.at = take[t].at]
    /\ pc' = [pc EXCEPT ![t] = "commit"]
    /\ UNCHANGED <<wall, locks, take, answer, counts, faults>>

Commit(t) ==
    /\ pc[t] = "commit"
    /\ file' = [file EXCEPT !.layout = "current"]
    /\ granted' = IF take[t].grant THEN granted + 1 ELSE granted
    /\ reread' = reread + take[t].again
    /\ Unlock(t)
    /\ Finish(t, IF take[t].grant THEN "Granted" ELSE "Denied")
    /\ UNCHANGED <<wall, passed, faults>>

\* What an update cut at its present step leaves: in the body, a prefix of it.
Cut(t) ==
    {file} \union (IF pc[t] = "body" THEN {[file EXCEPT !.tokens = take[t].tokens]} ELSE {})

FaultyUnwritten(t) == "Unavailable"     \* a failed write is a record out of reach

\* The answer of a take whose write failed: a denial stays one.
Unwritten(t) == IF take[t].grant THEN "Unavailable" ELSE "DeniedUnrecorded"

WriteFails(t) ==
    /\ pc[t] \in Writing /\ faults < MaxFaults
    /\ file' \in Cut(t)
    /\ Unlock(t)
    /\ Finish(t, Unwritten(t))
    /\ faults' = faults + 1
    /\ UNCHANGED <<wall, counts>>

\* The process dies where it stands and starts again; the kernel drops the
\* advisory lock with its descriptors.
Die(p) ==
    /\ faults < MaxFaults /\ faults' = faults + 1
    /\ IF \E t \in Threads : ProcessOf[t] = p /\ pc[t] \in Writing
       THEN \E t \in Threads : ProcessOf[t] = p /\ pc[t] \in Writing /\ file' \in Cut(t)
       ELSE UNCHANGED file
    /\ guard' = [guard EXCEPT ![p] = None]
    /\ advisory' = IF advisory = p THEN None ELSE advisory
    /\ pc' = [t \in Threads |-> IF ProcessOf[t] = p THEN "idle" ELSE pc[t]]
    /\ take' = [t \in Threads |-> IF ProcessOf[t] = p THEN NoTake ELSE take[t]]
    /\ UNCHANGED <<wall, answer, counts>>

-----------------------------------------------------------------------------
(* The clock.                                                              *)

Tick ==
    /\ passed < MaxTicks
    /\ wall' = wall + 1 /\ passed' = passed + 1
    /\ UNCHANGED <<file, locks, pc, take, answer, granted, reread, faults>>

StepBack ==
    /\ faults < MaxFaults /\ faults' = faults + 1
    /\ \A t \in Threads : pc[t] = "idle"
    /\ wall' \in 0..(wall - 1)
    /\ UNCHANGED <<file, locks, pc, take, answer, counts>>

TakeStep(t) ==
    \/ Ask(t) \/ TakeGuard(t) \/ TakeAdvisory(t) \/ LosePatience(t)
    \/ Unreached(t)
    \/ \E floor \in Floors : DenyUnwritten(t, floor) \/ Decide(t, floor)
    \/ Blank(t) \/ Body(t) \/ Commit(t) \/ WriteFails(t)

Next ==
    \/ \E t \in Threads : TakeStep(t)
    \/ \E p \in Processes : Die(p)
    \/ Tick \/ StepBack

Spec == Init /\ [][Next]_vars

-----------------------------------------------------------------------------
(* Properties.                                                             *)

TypeOK ==
    /\ wall \in Nat /\ passed \in Nat /\ granted \in Nat /\ reread \in Nat /\ faults \in Nat
    /\ file \in Record
    /\ guard \in [Processes -> Threads \union {None}]
    /\ advisory \in Processes \union {None}
    /\ pc \in [Threads -> {"idle", "read"} \union Waiting \union Writing]
    /\ take \in [Threads ->
         [now : Nat, grant : BOOLEAN, tokens : 0..Burst,
          at : Nat, again : Nat]]
    /\ answer \in [decided : {"none", "grant", "deny"},
         returned : {"none", "Granted", "Denied", "DeniedUnrecorded", "Unavailable"}]

\* The two locks together leave one thread, of all processes, between reading
\* the record and the end of its update: the threads of one process share the
\* open file and so the advisory lock, and the mutex does not reach other
\* processes.
OneUpdate == \A t, u \in Threads : Updating(t) /\ Updating(u) => t = u

\* A take that read the record and found it spent down to its floor is a
\* denial whatever its write, or the process next to it, then does: only a
\* record that was not reached, or a grant that was not recorded, lets a
\* caller fall back on its own bucket.
DenialStands ==
    answer.decided = "deny" => answer.returned \in {"Denied", "DeniedUnrecorded"}

\* What all processes together are granted is a budget of one burst and the
\* rate, over the time that passed and the time takes made the record count
\* again, although updates are cut anywhere, processes die, records are found
\* torn and the clock is stepped.
Rate == INSTANCE RateBudget WITH elapsed <- passed + reread
WithinBudget == Rate!Spec

\* The comment of refill ("re-anchors at `now` and mints nothing") and the
\* tests named ..._cannot_mint_past_burst_plus_rate: grants stay within the
\* burst and the time that passed.  A take that read the clock before it
\* waited for the locks re-anchors behind a peer's update.
BurstPlusRate == TicksPerToken * granted <= TicksPerToken * Burst + passed

=============================================================================
