--------------------------- MODULE TranscriptLog ---------------------------
(***************************************************************************)
(* The terminal host's saved transcripts: what becomes of every byte a     *)
(* session prints, and what a read says of it                              *)
(* (src-tauri/src/terminal/host/transcripts.rs).                           *)
(*                                                                         *)
(* A session's ring copies each chunk to a queue bounded in bytes; one     *)
(* supervised thread writes the queue to two segment files per session.    *)
(* Chunks are one unit each, numbered from 1 per session.  `saved` is what *)
(* was ever appended to a session's segments, in order: the number of a    *)
(* chunk, -n for a marker naming n dropped chunks, and End.  A segment is  *)
(* a range of `saved`; rotation and eviction only move the ranges.         *)
(*                                                                         *)
(* One step is one critical section or one file operation.  Left out:      *)
(* terminal ids used again and the run a read names, unsynced pages lost,  *)
(* partial writes (a failed one marks the session failed, whatever it left *)
(* behind), clipping and masking of what is read, permissions and links.   *)
(***************************************************************************)
EXTENDS Integers, Sequences, FiniteSetsExt, Functions

CONSTANTS
    Sessions,
    QueueBytes,       \* Limits::queue_bytes
    OpCost,           \* OP_COST: what an operation counts beyond its bytes
    SegmentItems,     \* Limits::segment_bytes, in chunks and markers
    TotalItems,       \* Limits::total_bytes, likewise
    Readable,         \* sessions whose transcript is read
    MarkersMayPanic,  \* whether appending a marker may panic
    MaxPrinted,       \* bound: chunks the sessions print
    MaxFaults         \* bound: failed file operations and panics

ASSUME SizesAssumption ==
    /\ OpCost \in Nat \ {0} /\ QueueBytes \in Nat /\ TotalItems \in Nat
    /\ SegmentItems \in Nat /\ SegmentItems > 1 /\ Readable \subseteq Sessions

VARIABLES
    state,      \* of each session: "new", "running", "ended", "failed to start"
    printed,    \* chunks each session has printed to its tap
    ops,        \* Queue.ops
    cost,       \* Queue.cost
    gaps,       \* Queue.gaps: dropped, no marker queued yet
    marking,    \* Queue.marking: marker queued or in the writer's hands
    recording,  \* Queue.recording
    queued,     \* Queue.queued
    done,       \* Queue.done
    shutdown,   \* Queue.shutdown
    writer,     \* where the writer thread is
    batch,      \* operations it has taken and not finished, the current first
    logs,       \* Inner.files: sessions whose log the writer has open
    dirty,      \* those with unsynced output
    failures,   \* Inner.failures
    notes,      \* sessions with an .err file
    saved,      \* what was ever appended to each session's segments
    segments,   \* of each session: the files that exist and what they hold
    read,       \* the read in progress, or its answer
    host,       \* which host process runs: the second starts after a crash
    faults      \* faults so far

programs == <<state, printed>>
queueVars == <<ops, cost, gaps, marking, recording, queued, shutdown>>
disk == <<saved, segments, notes>>
vars == <<programs, queueVars, done, writer, batch, logs, dirty, failures, disk,
          read, host, faults>>

End == 0

\* How many printed chunks an item of a log accounts for.
Accounts(item) == IF item > 0 THEN 1 ELSE -item

\* The first n of the numbers w, added up.
AddedUp(w, n) ==
    LET upTo[i \in 0..n] == IF i = 0 THEN 0 ELSE upTo[i - 1] + w[i]
    IN  upTo[n]

\* How many printed chunks the first n items of a log account for.
Covered(items, n) == AddedUp([i \in DOMAIN items |-> Accounts(items[i])], n)

NoSegments == [newest |-> 0, previous |-> FALSE, current |-> FALSE,
               previousFrom |-> 0, currentFrom |-> 0]
NoRead == [at |-> "none"]
NoFile == [file |-> 0, from |-> 0, to |-> 0]

Init ==
    /\ state = [s \in Sessions |-> "new"] /\ printed = [s \in Sessions |-> 0]
    /\ ops = <<>> /\ cost = 0 /\ recording = {} /\ shutdown = FALSE
    /\ gaps = [s \in Sessions |-> 0] /\ marking = [s \in Sessions |-> 0]
    /\ queued = 0 /\ done = 0
    /\ writer = "looking" /\ batch = <<>> /\ logs = {} /\ dirty = {}
    /\ failures = {} /\ notes = {}
    /\ saved = [s \in Sessions |-> <<>>]
    /\ segments = [s \in Sessions |-> NoSegments]
    /\ read = NoRead /\ host = 1 /\ faults = 0

-----------------------------------------------------------------------------
(* The sessions' side: never waits on the disk.                            *)

Op(kind, s, n) == [op |-> kind, session |-> s, n |-> n]

\* Of the first n operations of a queue: a session's chunks, and the chunks
\* that its markers stand for.
ChunksIn(queue, s, n) ==
    AddedUp([i \in DOMAIN queue |->
        IF queue[i].op = "Data" /\ queue[i].session = s THEN 1 ELSE 0], n)
GapsIn(queue, s, n) ==
    AddedUp([i \in DOMAIN queue |->
        IF queue[i].op = "Gap" /\ queue[i].session = s THEN queue[i].n ELSE 0], n)

\* Queue.push of each operation in `new`, and the wake-up that follows.
Queue(new, bytes) ==
    /\ ops' = ops \o new /\ queued' = queued + Len(new) /\ cost' = cost + bytes
    /\ writer' = IF writer = "waiting" THEN "looking" ELSE writer

\* mark_gap: the marker for what was dropped, moved from gaps to marking.
Marker(s) == IF gaps[s] > 0 THEN <<Op("Gap", s, gaps[s])>> ELSE <<>>
FaultyMarkGap(s) ==           \* forgets the bytes once their marker is queued
    /\ gaps' = [gaps EXCEPT ![s] = 0]
    /\ UNCHANGED marking

MarkGap(s) ==
    /\ gaps' = [gaps EXCEPT ![s] = 0]
    /\ marking' = [marking EXCEPT ![s] = @ + gaps[s]]

\* arm, before the spawn.
Arm(s) ==
    /\ state[s] = "new" /\ ~shutdown
    /\ state' = [state EXCEPT ![s] = "running"]
    /\ recording' = recording \cup {s}
    /\ gaps' = [gaps EXCEPT ![s] = 0]
    /\ Queue(<<Op("Open", s, 0)>>, 0)
    /\ UNCHANGED <<printed, marking, shutdown, done, batch, logs, dirty, failures,
                   disk, read, host, faults>>

TotalPrinted == FoldFunction(+, 0, printed)

ChunkCost == 1 + OpCost

FaultyFits == ~shutdown /\ cost <= QueueBytes      \* without the chunk itself

Fits == ~shutdown /\ cost + ChunkCost <= QueueBytes

\* push_data of a chunk there is no room for, or after shutdown began.
DropChunk(s) ==
    /\ state[s] = "running" /\ TotalPrinted < MaxPrinted
    /\ ~Fits
    /\ printed' = [printed EXCEPT ![s] = @ + 1]
    /\ gaps' = [gaps EXCEPT ![s] = @ + 1]
    /\ UNCHANGED <<state, ops, cost, marking, recording, queued, shutdown, done,
                   writer, batch, logs, dirty, failures, disk, read, host, faults>>

FaultyKeepChunk(s) ==         \* the marker follows the next chunk
    /\ state[s] = "running" /\ TotalPrinted < MaxPrinted
    /\ Fits
    /\ printed' = [printed EXCEPT ![s] = @ + 1]
    /\ MarkGap(s)
    /\ Queue(<<Op("Data", s, printed[s] + 1)>> \o Marker(s),
             ChunkCost + IF gaps[s] > 0 THEN OpCost ELSE 0)
    /\ UNCHANGED <<state, recording, shutdown, done, batch, logs, dirty, failures,
                   disk, read, host, faults>>

\* push_data of a chunk that fits: the marker of an earlier gap goes first.
KeepChunk(s) ==
    /\ state[s] = "running" /\ TotalPrinted < MaxPrinted
    /\ Fits
    /\ printed' = [printed EXCEPT ![s] = @ + 1]
    /\ MarkGap(s)
    /\ Queue(Append(Marker(s), Op("Data", s, printed[s] + 1)),
             ChunkCost + IF gaps[s] > 0 THEN OpCost ELSE 0)
    /\ UNCHANGED <<state, recording, shutdown, done, batch, logs, dirty, failures,
                   disk, read, host, faults>>

FaultyCloseUnmarked(s, now) ==     \* ends the log without the last marker
    /\ state[s] = "running"
    /\ state' = [state EXCEPT ![s] = now]
    /\ recording' = recording \ {s}
    /\ IF shutdown THEN UNCHANGED <<ops, queued, cost, writer>>
                   ELSE Queue(<<Op("Close", s, 0)>>, 0)
    /\ UNCHANGED <<printed, gaps, marking, shutdown, done, batch, logs, dirty, failures,
                   disk, read, host, faults>>

\* The ring is dropped, and its tap with it: close.
Close(s, now) ==
    /\ state[s] = "running"
    /\ state' = [state EXCEPT ![s] = now]
    /\ recording' = recording \ {s}
    /\ IF shutdown
       THEN UNCHANGED <<gaps, marking, ops, queued, cost, writer>>
       ELSE MarkGap(s) /\ Queue(Append(Marker(s), Op("Close", s, 0)), 0)
    /\ UNCHANGED <<printed, shutdown, done, batch, logs, dirty, failures, disk, read,
                   host, faults>>

EndSession(s) == Close(s, "ended")

\* The spawn failed before the program ran.
FailToStart(s) == printed[s] = 0 /\ Close(s, "failed to start")

\* discard, after a spawn that failed.
Discard(s) ==
    /\ state[s] = "failed to start"
    /\ state' = [state EXCEPT ![s] = "ended"]
    /\ IF shutdown THEN UNCHANGED <<ops, queued, cost, writer>>
                   ELSE Queue(<<Op("Discard", s, 0)>>, 0)
    /\ UNCHANGED <<printed, gaps, marking, recording, shutdown, done, batch, logs,
                   dirty, failures, disk, read, host, faults>>

\* The host stops: no more is taken, what is queued is still written.
Shutdown ==
    /\ ~shutdown
    /\ shutdown' = TRUE
    /\ writer' = IF writer = "waiting" THEN "looking" ELSE writer
    /\ UNCHANGED <<programs, ops, cost, gaps, marking, recording, queued, done, batch,
                   logs, dirty, failures, disk, read, host, faults>>

-----------------------------------------------------------------------------
(* The writer thread.                                                      *)

\* Batch::take.
TakeBatch ==
    /\ writer = "looking" /\ ops # <<>>
    /\ batch' = ops /\ ops' = <<>> /\ cost' = 0
    /\ writer' = "applying"
    /\ UNCHANGED <<programs, gaps, marking, recording, queued, shutdown, done, logs,
                   dirty, failures, disk, read, host, faults>>

Wait ==
    /\ writer = "looking" /\ ops = <<>> /\ ~shutdown
    /\ writer' = "waiting"
    /\ UNCHANGED <<programs, queueVars, done, batch, logs, dirty, failures, disk, read,
                   host, faults>>

\* wait_timeout ran out (it is used only while something is unsynced).
SyncIdle ==
    /\ writer = "waiting" /\ dirty # {}
    /\ dirty' = {} /\ writer' = "looking"
    /\ UNCHANGED <<programs, queueVars, done, batch, logs, failures, disk, read, host,
                   faults>>

\* close_all, and the thread returns.
Stopped ==
    /\ writer = "looking" /\ ops = <<>> /\ shutdown
    /\ logs' = {} /\ dirty' = {} /\ writer' = "stopped"
    /\ UNCHANGED <<programs, queueVars, done, batch, failures, disk, read, host,
                   faults>>

\* The batch is finished and dropped.
BatchDone ==
    /\ writer = "applying" /\ batch = <<>>
    /\ done' = queued - Len(ops)
    /\ writer' = "looking"
    /\ UNCHANGED <<programs, queueVars, batch, logs, dirty, failures, disk, read, host,
                   faults>>

Current == Head(batch)
Applying(kinds) == writer = "applying" /\ batch # <<>> /\ Current.op \in kinds

\* fail: the reason is remembered, and noted on disk if that can be done.
Fail(lost) ==
    /\ failures' = failures \cup lost
    /\ \E noted \in {{}, lost \ failures} : notes' = notes \cup noted

Fault == faults < MaxFaults /\ faults' = faults + 1

\* A session's new log.
ApplyOpen ==
    /\ Applying({"Open"})
    /\ LET s == Current.session
       IN  \/ /\ failures' = failures \ {s}
              /\ logs' = logs \cup {s}
              /\ segments' = [segments EXCEPT ![s] = [NoSegments EXCEPT !.newest = 1,
                                                                        !.current = TRUE]]
              /\ UNCHANGED <<notes, faults>>
           \/ Fault /\ Fail({s}) /\ UNCHANGED <<logs, segments>>
    /\ writer' = "applied"
    /\ UNCHANGED <<programs, queueVars, done, batch, dirty, saved, read, host>>

ApplyDiscard ==
    /\ Applying({"Discard"})
    /\ LET s == Current.session
       IN  IF s \in logs
           THEN UNCHANGED <<segments, notes, failures>>
           ELSE /\ segments' = [segments EXCEPT ![s] = NoSegments]
                /\ notes' = notes \ {s} /\ failures' = failures \ {s}
    /\ writer' = "applied"
    /\ UNCHANGED <<programs, queueVars, done, batch, logs, dirty, saved, read, host,
                   faults>>

\* What append and write_ended put in the log.
Item == CASE Current.op = "Data" -> Current.n
          [] Current.op = "Gap" -> -Current.n
          [] OTHER -> End

\* Where an operation with something to append to an open log is.
Appending(step) ==
    /\ writer = step /\ batch # <<>> /\ Current.op \in {"Data", "Gap", "Close"}
    /\ Current.session \notin failures
    /\ Current.op = "Close" /\ step = "applying" => Current.session \in logs

\* A closing log leaves the writer's map before anything else is done to it.
Closing == logs' = logs \ {Current.session} /\ dirty' = dirty \ {Current.session}

\* A log that failed takes no more, and no end marker either.
AppendSkipped ==
    /\ Applying({"Data", "Gap", "Close"}) /\ ~Appending("applying")
    /\ IF Current.op = "Close" THEN Closing /\ writer' = "enforcing"
                               ELSE writer' = "applied" /\ UNCHANGED <<logs, dirty>>
    /\ UNCHANGED <<programs, queueVars, done, batch, failures, disk, read, host, faults>>

Used(s) == Len(saved[s]) - segments[s].currentFrom
             + IF segments[s].newest > 1 THEN 1 ELSE 0    \* the CONTINUED line

HasRoom(s) == Used(s) < SegmentItems

Logs(s) == IF Current.op = "Close" THEN Closing
           ELSE logs' = logs /\ dirty' = dirty \cup {s}

WriteItem ==
    /\ Appending("applying") \/ Appending("rotated")
    /\ LET s == Current.session
       IN  /\ HasRoom(s)
           /\ saved' = [saved EXCEPT ![s] = Append(@, Item)]
           /\ Logs(s)
    /\ writer' = IF writer = "rotated" \/ Current.op = "Close" THEN "enforcing"
                                                               ELSE "applied"
    /\ UNCHANGED <<programs, queueVars, done, batch, failures, notes, segments, read,
                   host, faults>>

\* rotate: the current segment becomes the previous one, replacing it.
Rename ==
    /\ Appending("applying")
    /\ LET s == Current.session
       IN  /\ ~HasRoom(s)
           /\ segments' = [segments EXCEPT ![s] =
                  [newest |-> @.newest + 1, previous |-> TRUE, current |-> FALSE,
                   previousFrom |-> @.currentFrom, currentFrom |-> Len(saved[s])]]
           /\ Logs(s)
    /\ writer' = "renamed"
    /\ UNCHANGED <<programs, queueVars, done, batch, failures, notes, saved, read, host,
                   faults>>

\* ... and a new one begins.
NewSegment ==
    /\ Appending("renamed")
    /\ segments' = [segments EXCEPT ![Current.session].current = TRUE]
    /\ writer' = "rotated"
    /\ UNCHANGED <<programs, queueVars, done, batch, logs, dirty, failures, notes, saved,
                   read, host, faults>>

\* The write, the rename or the new segment failed.
AppendFails ==
    /\ \E step \in {"applying", "renamed", "rotated"} : Appending(step)
    /\ Fault
    /\ Fail({Current.session})
    /\ IF Current.op = "Close" THEN Closing /\ writer' = "enforcing"
                               ELSE writer' = "applied" /\ UNCHANGED <<logs, dirty>>
    /\ UNCHANGED <<programs, queueVars, done, batch, saved, segments, read, host>>

OnDisk == {s \in Sessions : segments[s].previous \/ segments[s].current}

Held(s) ==
    (IF segments[s].current THEN Used(s) ELSE 0)
      + IF ~segments[s].previous THEN 0
        ELSE segments[s].currentFrom - segments[s].previousFrom
               + IF segments[s].newest > 2 THEN 1 ELSE 0

HeldPrevious(s) == Held(s) - IF segments[s].current THEN Used(s) ELSE 0

\* What sweep may choose to delete: whole sessions past their age or the
\* total, then, if the live ones alone are over it, their previous segments.
Evictable(live, gone, cut) ==
    LET left == MapThenSumSet(Held, OnDisk \ gone)
        over(c) == left - MapThenSumSet(HeldPrevious, c) > TotalItems
    IN  /\ over({}) => gone = OnDisk \ live
        /\ over(cut) => cut = {s \in live : segments[s].previous}
        /\ cut # {} => \E s \in cut : over(cut \ {s})

Swept(gone, cut) == [s \in Sessions |->
    IF s \in gone THEN [segments[s] EXCEPT !.previous = FALSE, !.current = FALSE]
    ELSE [segments[s] EXCEPT !.previous = @ /\ s \notin cut]]

Sweep(live) ==
    \E gone \in SUBSET (OnDisk \ live),
       cut \in SUBSET {s \in live : segments[s].previous} :
        /\ Evictable(live, gone, cut)
        /\ segments' = Swept(gone, cut)
        /\ notes' = notes \ gone
        /\ read' = IF read.at # "none" /\ read.session \in gone \cup cut
                   THEN [read EXCEPT !.evicted = TRUE] ELSE read

\* enforce, after a rotation and as a session ends.
Enforce ==
    /\ writer = "enforcing"
    /\ Sweep(logs)
    /\ writer' = "applied"
    /\ UNCHANGED <<programs, queueVars, done, batch, logs, dirty, failures, saved, host,
                   faults>>

\* An operation is over; Marked gives back what a marker held.
Applied ==
    /\ writer = "applied"
    /\ marking' = IF Current.op = "Gap"
                  THEN [marking EXCEPT ![Current.session] = @ - Current.n] ELSE marking
    /\ batch' = Tail(batch) /\ writer' = "applying"
    /\ UNCHANGED <<programs, ops, cost, gaps, recording, queued, shutdown, done, logs,
                   dirty, failures, disk, read, host, faults>>

-----------------------------------------------------------------------------
(* A panic: the batch is dropped, what it had left marked failed, and the  *)
(* supervisor runs the writer again, or gives up on it.                    *)

Busy == writer \in {"applying", "renamed", "rotated", "enforcing"} /\ batch # <<>>

Panic ==
    /\ Busy /\ Current.op # "Gap"
    /\ Fault
    /\ writer' = "unwinding"
    /\ logs' = IF Current.op = "Close" THEN logs \ {Current.session} ELSE logs
    /\ dirty' = dirty \cap logs'
    /\ UNCHANGED <<programs, queueVars, done, batch, failures, disk, read, host>>

\* The marker's bytes are given back as the append unwinds, before the batch.
PanicInMarker ==
    /\ MarkersMayPanic
    /\ Busy /\ Current.op = "Gap"
    /\ Fault
    /\ marking' = [marking EXCEPT ![Current.session] = @ - Current.n]
    /\ writer' = "unwinding"
    /\ UNCHANGED <<programs, ops, cost, gaps, recording, queued, shutdown, done, batch,
                   logs, dirty, failures, disk, read, host>>

BatchFails ==
    /\ writer = "unwinding"
    /\ Fail({batch[i].session : i \in DOMAIN batch})
    /\ writer' = "failed"
    /\ UNCHANGED <<programs, queueVars, done, batch, logs, dirty, saved, segments, read,
                   host, faults>>

\* run_supervised: after a wait the writer runs again, or never.
RunAgain == writer' \in {"looking", "given up"}

\* Markers of the batch's other operations are given back; all count as done.
BatchReleased ==
    /\ writer = "failed"
    /\ marking' = [s \in Sessions |-> marking[s] - GapsIn(Tail(batch), s, Len(batch) - 1)]
    /\ batch' = <<>> /\ done' = queued - Len(ops)
    /\ RunAgain
    /\ UNCHANGED <<programs, ops, cost, gaps, recording, queued, shutdown, logs, dirty,
                   failures, disk, read, host, faults>>

Writer ==
    \/ TakeBatch \/ Wait \/ Stopped \/ BatchDone \/ ApplyOpen \/ ApplyDiscard
    \/ AppendSkipped \/ WriteItem \/ Rename \/ NewSegment \/ Enforce \/ Applied
    \/ BatchFails \/ BatchReleased

-----------------------------------------------------------------------------
(* A host dies, and another reads what it left.                            *)

HostDies ==
    /\ host = 1 /\ host' = 2
    /\ state' = [s \in Sessions |-> IF state[s] = "new" THEN "new" ELSE "ended"]
    /\ ops' = <<>> /\ cost' = 0 /\ recording' = {} /\ shutdown' = FALSE
    /\ gaps' = [s \in Sessions |-> 0] /\ marking' = [s \in Sessions |-> 0]
    /\ queued' = 0 /\ done' = 0
    /\ writer' = "looking" /\ batch' = <<>> /\ logs' = {} /\ dirty' = {} /\ failures' = {}
    /\ \E gone \in SUBSET OnDisk :      \* sweep, as the store is opened
           /\ Evictable({}, gone, {})
           /\ segments' = Swept(gone, {})
           /\ notes' = notes \ gone
    /\ read' = NoRead
    /\ UNCHANGED <<printed, saved, faults>>

-----------------------------------------------------------------------------
(* A read that names no run, of any session that was armed.                *)

unread == <<programs, queueVars, done, writer, batch, logs, dirty, failures, disk, host,
            faults>>

Ask(s) ==
    /\ read.at = "none" /\ s \in Readable /\ state[s] # "new"
    /\ read' = [at |-> "settling", session |-> s, target |-> queued, owed |-> printed[s],
                evicted |-> FALSE, settled |-> FALSE, live |-> FALSE, unrecorded |-> 0,
                error |-> FALSE, previous |-> NoFile, current |-> NoFile]
    /\ UNCHANGED unread

\* settle: everything queued before is done, or the deadline has passed.
Settled(settled) ==
    /\ read.at = "settling" /\ (settled <=> done >= read.target)
    /\ read' = [read EXCEPT !.at = "settled", !.settled = settled]
    /\ UNCHANGED unread

Settle == Settled(TRUE)
SettleTimesOut == Settled(FALSE)

\* Liveness and the dropped bytes not yet in the text, at one moment.
LookAtQueue ==
    /\ read.at = "settled"
    /\ read' = [read EXCEPT !.at = "looked",
                            !.live = read.session \in recording,
                            !.unrecorded = gaps[read.session] + marking[read.session]]
    /\ UNCHANGED unread

FaultyLookForFailure ==       \* trusts the disk alone
    /\ read.at = "looked"
    /\ read' = [read EXCEPT !.at = "opening",
                            !.error = read.session \in IF read.live THEN {} ELSE notes]
    /\ UNCHANGED unread

\* Why recording stopped: from memory, or from the note an earlier host left.
LookForFailure ==
    /\ read.at = "looked"
    /\ read' = [read EXCEPT !.at = "opening",
            !.error = read.session \in failures \cup IF read.live THEN {} ELSE notes]
    /\ UNCHANGED unread

\* A segment as it is when it is opened: which file, and how much is in it.
Opened(exists, number, from, to) ==
    IF exists THEN [file |-> number, from |-> from, to |-> to] ELSE NoFile

OpenPrevious ==
    /\ read.at = "opening"
    /\ LET g == segments[read.session]
       IN  read' = [read EXCEPT !.at = "half open",
               !.previous = Opened(g.previous, g.newest - 1, g.previousFrom, g.currentFrom)]
    /\ UNCHANGED unread

OpenCurrent ==
    /\ read.at = "half open"
    /\ LET g == segments[read.session]
       IN  read' = [read EXCEPT !.at = "open",
               !.current = Opened(g.current, g.newest, g.currentFrom,
                                  Len(saved[read.session]))]
    /\ UNCHANGED unread

FaultyIsCurrent(opened, exists, number) ==      \* by its name, not its identity
    exists => opened.file # 0

FaultyIsCurrentIfOpened(opened, exists, number) ==      \* only what was opened
    exists /\ opened.file # 0 => opened.file = number

\* Segment::is_current: the name leads to what was opened, or to nothing.
IsCurrent(opened, exists, number) == exists => opened.file = number

BothCurrent ==
    LET g == segments[read.session]
    IN  /\ IsCurrent(read.previous, g.previous, g.newest - 1)
        /\ IsCurrent(read.current, g.current, g.newest)

\* A rotation came in between: both are opened again, or the read gives up.
ReadAgain ==
    /\ read.at = "open" /\ ~BothCurrent
    /\ \E at \in {"opening", "unreadable"} :
           read' = [read EXCEPT !.at = at, !.previous = NoFile, !.current = NoFile]
    /\ UNCHANGED unread

\* Found, with what the segments held when they were opened; Missing; or
\* that it could not be recorded.
ReadFound ==
    /\ read.at = "open" /\ BothCurrent
    /\ read' = [read EXCEPT !.at = IF read.previous.file # 0 \/ read.current.file # 0
                                   THEN "found" ELSE IF read.error THEN "unreadable"
                                                               ELSE "missing"]
    /\ UNCHANGED unread

ReadReturns ==
    /\ read.at \in {"found", "missing", "unreadable"}
    /\ read' = NoRead
    /\ UNCHANGED unread

Read ==
    \/ Settle \/ SettleTimesOut \/ LookAtQueue \/ LookForFailure \/ OpenPrevious
    \/ OpenCurrent \/ ReadAgain \/ ReadFound \/ ReadReturns

Next ==
    \/ Writer \/ SyncIdle \/ AppendFails \/ Panic \/ PanicInMarker \/ Shutdown \/ HostDies \/ Read
    \/ \E s \in Sessions :
           Arm(s) \/ DropChunk(s) \/ KeepChunk(s) \/ EndSession(s) \/ FailToStart(s)
             \/ Discard(s) \/ Ask(s)

Spec == Init /\ [][Next]_vars

\* The writer's thread runs while it has something to do, and its timed wait
\* ends; nothing is assumed of programs, failures or reads.
FairSpec == Spec /\ WF_vars(Writer) /\ WF_vars(SyncIdle)

-----------------------------------------------------------------------------
(* Properties.                                                             *)

OpType == [op : {"Open", "Data", "Gap", "Close", "Discard"}, session : Sessions, n : Nat]
FileType == [file : Nat, from : Nat, to : Nat]
ReadType == [at : {"settling", "settled", "looked", "opening", "half open", "open", "found",
                   "missing", "unreadable"},
             session : Sessions, target : Nat, owed : Nat, evicted : BOOLEAN,
             settled : BOOLEAN, live : BOOLEAN, unrecorded : Nat, error : BOOLEAN,
             previous : FileType, current : FileType]

TypeOK ==
    /\ state \in [Sessions -> {"new", "running", "ended", "failed to start"}]
    /\ printed \in [Sessions -> Nat]
    /\ ops \in Seq(OpType) /\ batch \in Seq(OpType)
    /\ cost \in Nat /\ queued \in Nat /\ done \in 0..queued /\ shutdown \in BOOLEAN
    /\ gaps \in [Sessions -> Nat] /\ marking \in [Sessions -> Nat]
    /\ recording \subseteq Sessions /\ dirty \subseteq logs /\ logs \subseteq Sessions
    /\ failures \subseteq Sessions /\ notes \subseteq Sessions
    /\ writer \in {"looking", "waiting", "stopped", "applying", "applied", "renamed",
                   "rotated", "enforcing", "unwinding", "failed", "given up"}
    /\ saved \in [Sessions -> Seq(Int)]
    /\ segments \in [Sessions -> [newest : Nat, previous : BOOLEAN, current : BOOLEAN,
                                  previousFrom : Nat, currentFrom : Nat]]
    /\ read \in ReadType \cup {NoRead}

(* A gap is in the text, where it happened, and never silent: every chunk  *)
(* in a log is preceded by chunks and markers that account for all that    *)
(* was printed before it.                                                  *)
GapsInPlace ==
    \A s \in Sessions : \A i \in DOMAIN saved[s] :
        saved[s][i] > 0 => saved[s][i] = Covered(saved[s], i)

(* The end marker is what a later host trusts: it is the last thing in a   *)
(* log whose chunks and markers account for all the session printed.       *)
EndMeansWhole ==
    \A s \in Sessions : \A i \in DOMAIN saved[s] :
        saved[s][i] = End => i = Len(saved[s]) /\ Covered(saved[s], i) = printed[s]

Pending(s) == ChunksIn(batch, s, Len(batch)) + ChunksIn(ops, s, Len(ops))

\* Chunks of the operation in hand that are already in the log.
Twice(s) ==
    IF writer \in {"enforcing", "applied"} /\ batch # <<>> /\ Current.session = s
    THEN CASE Current.op = "Gap" -> Current.n [] Current.op = "Data" -> 1 [] OTHER -> 0
    ELSE 0

(* While a session is recorded by this host, a printed chunk is in its     *)
(* log, in the queue, in a marker in the log, or in exactly one of the     *)
(* counts a read reports.                                                  *)
EveryByteCounted ==
    \A s \in Sessions \ failures :
        host = 1 /\ writer \notin {"unwinding", "failed"} =>
            Covered(saved[s], Len(saved[s])) + Pending(s) + gaps[s] + marking[s] - Twice(s)
                = printed[s]

(* The queue is over its bound by no more than one marker, and a segment   *)
(* never is.                                                               *)
StaysBounded ==
    /\ cost <= QueueBytes + OpCost
    /\ \A s \in Sessions : segments[s].current => Used(s) <= SegmentItems

Newest == IF read.current.file = 0 THEN read.previous ELSE read.current

SawEnd == Newest.to > 0 /\ saved[read.session][Newest.to] = End

\* The answer's recording_error is set.
Complains == read.error \/ (~read.live /\ ~SawEnd)

AccountsForAll ==
    Covered(saved[read.session], Newest.to) + read.unrecorded >= read.owed

(* A read that says the log is settled and complains of nothing leaves out *)
(* nothing that was printed before it was asked: what is not in the text   *)
(* is in a marker, or in unrecorded_bytes.                                 *)
ReadLeavesNothingOut ==
    read.at = "found" /\ ~read.evicted /\ read.settled /\ ~Complains => AccountsForAll

HasHole == /\ read.previous.file # 0 /\ read.current.file # 0
           /\ read.previous.to # read.current.from

(* However the log is rotated while it is read, what is read has no hole.  *)
ReadHasNoHole == read.at = "found" /\ ~read.evicted => ~HasHole

(* A settled read that says nothing is saved is told so by the disk: it    *)
(* does not come of opening the two names on both sides of a rotation.     *)
MissingMeansGone ==
    read.at = "missing" /\ ~read.evicted /\ read.settled => read.session \notin OnDisk

(* Every session that ends gets its end marker, unless its recording       *)
(* failed or the store is stopping: whoever queues the close wakes the     *)
(* writer.                                                                 *)
EndReachesTheLog ==
    \A s \in Sessions :
        state[s] = "ended" /\ printed[s] > 0 ~>
                             \/ saved[s] # <<>> /\ saved[s][Len(saved[s])] = End
                             \/ s \in failures \/ shutdown \/ host = 2
                             \/ writer = "given up"

(* What was written to a log is synced though no more is printed.          *)
IdleIsSynced == dirty # {} ~> dirty = {} \/ writer = "given up"

(* The claim of is_current: a segment unlinked since it was opened is      *)
(* still a whole, consistent snapshot.                                     *)
UnlinkedIsConsistent == read.at = "found" => ~HasHole

(* The claim of docs/TERMINAL_HOST.md: the queue is bounded to queue_bytes *)
(* with each operation counting for its bytes plus OP_COST.                *)
QueueWithinItsBound == cost <= QueueBytes

(* The claim of docs/TERMINAL_HOST.md: a byte the host dropped is not left *)
(* out of both the text and the count, unless the recording stopped and    *)
(* the read says so.                                                       *)
DroppedIsNeverUnsaid == ReadLeavesNothingOut

=============================================================================
