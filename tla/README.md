# TLA+ models of GitPulse

GitPulse is a desktop git client whose terminals run coding agents. This
directory holds TLA+ specifications of its concurrent core, the TLC
configurations that check them on small instances, and TLAPS proofs of the
results that matter most for every instance. `PROJECT.json` maps each
definition to the lines of source it stands for, lists what each run checks and
which bug each property catches. Paths below are relative to
`src/src-tauri/src/` unless they start with `docs/`.

## What is in the system

| Part | State it keeps | What happens to it | What makes it hard | Model |
|---|---|---|---|---|
| Flow control (`terminal/flow.rs`) | credit outstanding, credit of failed sends, four flags | reserve, shed, acknowledge, detach, attach, stop | a blocked reserver; acknowledgements that are late or for a chunk that may have failed | `OutputFlow`, `OutputCredit` |
| Output path (`terminal/{mod,ring,sink}.rs`) | the ring of newest output, its detach mark, the slot of the current view, the `dead` flag, the registry | the reader keeps, routes and sends each chunk; views let go, take over, acknowledge; the user closes | four locks with different extents; a takeover replays while the reader waits | `TerminalOutput` |
| Terminal host (`terminal/host/{server,receipts}.rs`) | sessions, one receipt file per session | spawn, reap, record, tell, forget, recover after a crash | outlives the app; its registry, its files and its frames change one after another | `HostExits` |
| Host client (`terminal/host/client.rs`) | the connection, proxies, what it vouches for, exits claimed and recorded | spawn, adopt after each connect, record exits from three sources, reconnect | a listing, a reply and an exit frame overtake each other; each report runs on its own thread | `HostExits` |
| Transcripts (`terminal/host/transcripts.rs`) | a bounded queue with counts of what was dropped, two segment files per session, failures | copy, mark, append, rotate, evict, close, read | a full queue; a read between two file operations; a panic or a death between two writes | `TranscriptLog` |
| Executor (`terminal/executor.rs`) | a bounded job queue, counts of threads and of idle ones | submit, take, wait, retire, close | notifications sent without the lock; the last worker retiring as a job arrives | `Executor`, implements `JobQueue` |
| Spawn gate (`engine/git_cli.rs`, `SpawnGate`) | children running, callers waiting by class, a token bucket, the line of reactive reads | wait, ask the shared record, start, give up, finish | the mutex is released twice in every pass; starvation between classes | `SpawnGate` |
| Spawn budget record (`engine/git_cli/shared_budget.rs`) | a record in a file, a mutex and an advisory lock over it | take: lock, read, refill, three staged writes | processes that die mid-write; threads that share a descriptor; the wall clock | `SharedBudget`, implements `RateBudget` |
| Shared reads (`engine/git_cli.rs`, `run_read_shared`) | the queued read of each key, its result, the flight that asks again | lead, join, admit, publish, retry | joiners depend on a leader that may fail, panic or time out | `SharedReads` |
| Ref listing cache, single flight (`engine/ref_cache.rs`, `singleflight.rs`) | answers kept under a stamp of the files they depend on; calls in flight per key | stamp, look up, join, run, keep, retire | writes during the walk, the run and the lookup, and two in one tick; a leader that panics | `RefCache` |
| Daemon lock, supervisor (`daemon_lock.rs`, `supervisor.rs`) | a kernel lock and an owner record; restart counts | acquire, probe, restart | probes racing a start | planned |
| Teardown (`teardown.rs`, `HostClient::disconnect`) | `leaving`, deadlines | quit | a quit racing a connect | planned |
| Load governor (`sysload/governor.rs`) | held tier, override | observe, decide | hysteresis and expiry | planned |
| Watcher (`watcher/`) | pending paths, storm count | coalesce, flush | bursts | planned |
| Agent bus, agent mailbox, alerts, hooks, verification driver, reconcile | stores and queues | claims, messages, rate limits, task runs | several processes over one store | candidates |
| Engine, ledger, ingest, storage, tasks, MCP, desktop, updates, process guard, `crates/gitpulse-worktree` | databases, repositories, windows | run git, parse, index, draw | mostly I/O and data | not modelled |
| Front end (`src/src/lib`) | what the page shows | renders channels, acknowledges | the model keeps what it acknowledges | as an environment |

Vendored crates, the test harness, scripts and documentation are left aside.

How they interact. The reader thread of a session pushes each chunk to its ring,
asks the flow for credit, and sends the chunk to the view in its slot. The view
repays by session id. In the usual build the sessions live in a second process,
the terminal host, which sends the app frames over one socket; the app keeps a
proxy per session. When a session ends the host takes it out of its registry,
writes the exit to the session's receipt, and sends a frame; the app records the
exit in its store, or in a journal beside it if the store refuses, and asks the
host to forget the receipt. When the app connects
it lists the sessions, reads the receipts, and ends whatever neither accounts
for.

Every git command of a process goes through the spawn gate. An identical read that
is still queued at the gate is joined instead of queued again; the first of them
waits at the gate for a slot and a token, and, if it is not a user action, for a
token of the record that all processes of the user draw from. Session commands
(writes, resizes, closes) run as jobs of an executor: a lane of one thread per
session for what must stay in order, a wider pool for the rest. Listings of refs are
answered from a cache when the files they depend on look the same; its misses are
shared reads, and expensive questions asked at once run once.

The properties that make the parts correct are stated in the modules and
summarised under *Runs*. The hazards they answer to, each at its line, are the
list `hazards` in `PROJECT.json`.

## Modules

**`OutputFlow`** is `flow.rs` and nothing else: the record behind its mutex, and
one operator per way each method returns. `reserve` becomes six: refused, held,
dropped, resumed, delivered, stalled. Waiting on the condition variable is not
an action: while the window is full only `ReserveStall` (the deadline passes) is
enabled, and an acknowledgement, a detach or a stop enables another. Time is
therefore the choice of when the deadline passes. Its callers are state machines
that extend it.

**`OutputCredit`** drives the flow as its callers do, and keeps a ledger beside
it of what the view really owes (`owed`), what earlier views still owe
(`stale`), what failed sends cost (`lost`) and what late acknowledgements repaid
(`late`). These are history: no action's guard reads them except to say that a
view acknowledges only bytes it got. One reserver exists at a time because
`deliver` and `hand_to` hold the ring's lock from the reservation to the send.

**`TerminalOutput`** is the output path of one session at the grain of its
locks. The ring's lock is held across steps and is the variable `lock`; the
registry's map lock and the flow's mutex are each held for a single step.
`reader`, `calls`, `takeover` and `closing` are program counters of the reader
thread, of detach calls, of `Takeover::hand_to` and of `kill_session`. Output is
a number per chunk, so the ring's content is the last `RingBytes` numbers and
what a view saw is a sequence of numbers and the end marker. `Eof` stands for
every way the reader loop ends, since each sets `dead` and stops the flow.

**`HostExits`** is the protocol by which an exit comes to be recorded, between
the host, its receipts on disk and the app. One action is what a thread does
under one lock, or between two calls to the host. `report` is the program
counter of `record_exit` for each of its three callers and each session;
`adoption` that of `adopt`, of which there is one at a time. `recordedAs`
outlives the app, as the store does; `times` counts the bookkeeping of one app.
The bookkeeping can fail: `Refused` is the store turning the exit down and the
journal keeping it (`journal`, replayed by `Replay` at the next reconciliation),
`Unbooked` is everything that keeps nothing: no observer, because the proxy has none
and the store cannot be read for one, a panic in `finished`, or a journal that fails
too. `record_exit` announces the exit and sends `Forget` after any of them.
`unbooked` remembers these exits, for the properties to except. `Unbooked` may happen
to any exit: whether the proxy holds an observer is not kept.
A connection, the host and the app may each be lost at any moment: what was on
the wire is then delivered in part, and an app that restarts keeps nothing but
its store.

**`Executor`** is a lane or pool of the terminal commands. Its steps are the
critical sections of the state's lock and what happens without it: a notification,
the end of a wait by timeout or for no reason, and the job. A thread leaves its
wait (`woken`, `timedOut`) before it takes the lock, and `idle` still counts it
then, as in the code. Thread names are used again, so `Workers` has at least one
more than may live. Whether a thread can be started is a choice. `Close` is the
drop of the last handle, which an awaited `run` and a submission in progress each
hold. A caller whose future is dropped between a worker's taking the job and its
look at the reply is folded into one that leaves before the take: the two leave the
same job skipped. A cancel that comes later changes nothing but who reads the
result.

**`JobQueue`** is what a caller of the executor may rely on: a queue, at most
`Width` jobs at once, each once, and each taken. It knows of no thread.

**`SpawnGate`** is one gate. A pass of `acquire_judged`'s loop is an action;
`Ask`, then `Granted` or `Denied`, is a pass that releases the mutex for the
shared record, and `GiveUp` and `Unwind` are what the released mutex before each
pass allows. `holds` is `WaitReservation.held`, `line` the tickets. What the record
answers is a choice; `SharedBudget` is the record.

**`SharedBudget`** is the record and the takes of several threads of several
processes. The two locks, the read, and each of the three staged writes is an
action, so that a death (`Die`) or an error (`WriteFails`) can fall between any
two, and a body cut short leaves its first field. `passed`, `granted` and
`reread` are history: time that passed, tokens handed out, and time a late take
made the record count twice.

**`RateBudget`** is a burst and a rate, and nothing about files.

**`SharedReads`** is `run_read_shared` for one key. A flight is named by the call
that leads it. The gate and the child are the choice of when a leader is admitted
and how its run ends; a panic is published as a failure, as `Publish` does. `old` is
history: what had started or ended when a call was made.

**`TranscriptLog`** is the store of saved output. The sessions' side is one action
per critical section of the queue's lock; the writer's steps are its looks at the
queue, each file operation, and each release of a count; a read's are its wait, its
look at the queue, its look for a failure, and its two opens. `saved` is what was
ever appended for a session, and a segment is a range of it, so that rotation and
eviction move bounds and lose nothing of what the properties compare with. `faults`
counts failed file operations and panics; a panic drops the batch in the order the
code's destructors do (`PanicInMarker`, `BatchFails`, `BatchReleased`). A panic that
loses a Close leaves the log among the open ones, as in the code: the sweep takes it
for a running one until the host ends. `HostDies` restarts the store on what is on
disk.

**`RefCache`** is the cache of ref listings with the single flight in front of it,
for one question of one repository. The stamped files are two: one that is always
there and one that comes and goes. What a file holds is a version; what a stamp sees
of it is the tick of its last write, so two writes of one tick look alike, as an
append in place or an inode used again does. The walk reads one file and then the
other, and so does git, with writes between any two steps. A flight is named by its
leader and its key is the leader's stamp. A call that came by `through` or
`through_stamped` looks up at once; one that came by `through_stamped_coalesced`
leads or joins first; the choice is in `Stamped`. Leaving with an answer and taking
the flight out of the map are two steps (`Ends`, `Retire`), since the answer is
published before. `seen` is history: what each file held during the call.

**`OutputProofs`** (of `OutputCredit` and `TerminalOutput`), **`HostExitsProofs`**,
**`ExecutorProofs`**, **`SpawnGateProofs`**, **`SharedBudgetProofs`**,
**`SharedReadsProofs`**, **`RefCacheProofs`** and **`TranscriptLogProofs`** hold the
theorems. **`MC...`**
modules hold the values TLC needs.

A definition named `Faulty...` is a variant of the one below it with a plausible
bug. No specification uses one. `PROJECT.json` pairs each property of a passing
run with the variant that makes TLC refute it.

## Runs

| Run | Instance | What it shows |
|---|---|---|
| `output_credit` | a window of 4, chunks of 1, 3 and 5 (too large), 3 sends per view, 1 takeover | `CreditConserved`: the two counters, plus what late acknowledgements repaid and the cap dropped, equal what the view owes plus what is on its way plus what failed. From it: an honest acknowledgement is not refused |
| `terminal_output` | a window and ring of 2, two views, one detach call, 4 chunks, 2 refused sends | a view is shown chunks in order, none twice; one that missed a chunk of the reader's was told, but for a replay whose send was refused; reported loss is never too high and too low only by what was held before the mark; a replay never waits; no process is ended over its output; the end marker is last, but for a view still being replayed to; a detach returns and a close ends the session without help from a view or a deadline |
| `host_exits` | one session, 4 faults: losses of the connection, the host, the app, or a store write | one bookkeeping per exit and app; no receipt forgotten while its exit is in neither store nor journal, unless its bookkeeping ran and left nothing; no running session given up; `holds_session` answers only from the open connection, never for an exited session, and never denies a running one the app knows; every exit reaches the store, the journal or a bookkeeping that failed |
| `executor` | 4 jobs, 2 of them awaited, 2 threads, a queue of 2 | callers see a fair queue (`IsAQueue`, a refinement of `JobQueue` with its fairness), a queued job is never left to sleeping threads, all threads end after the handle is dropped |
| `spawn_gate` | one user action, two refreshes and a background reader that awaits its budget, 2 slots, a bucket of 4 | slots, waiting counts and the line belong to callers; no reserve is spent that is not there; a waiting user action is never overtaken; no reactive read waits in the line for ever; background work that waits for a slot is not postponed for ever |
| `shared_budget` | 2 processes, 3 threads, a burst of 2, 2 ticks of time, 1 fault | a denial stands though its write fails; the takes of all processes are those of a `RateBudget` |
| `shared_reads` | three calls, all deadlines free | answers are fresh, deadlines are the caller's own, one child retries for all whom a timeout sent back, every call returns |
| `transcript_log` | one session of 3 chunks, a queue of one chunk (or of two free ones), segments of 2 items, 4 in all, 1 fault | a settled read that complains of nothing accounts for every byte printed before it was asked; what is read has no hole, unless the sweep deleted a segment meanwhile; a read is not told "missing" by a rotation |
| `transcript_log_two` | two sessions of 3 chunks together, 3 items in all, 1 fault, which may fall on a marker | a marker stands where its bytes were dropped; an end marker is last and its log whole; each byte is in the log, the queue or exactly one count; the queue is over its bound by one marker at most, a segment never |
| `ref_cache` | two calls, two changes of the files, two ticks | whoever is answered, from the cache, by a run of its own or by another's, gets what each file held at some moment of its own call, but for the two cases named below; every call ends, whatever fails or panics |

Two runs check a sentence of the repository's own text and find it untrue of the
code.

| Run | The text | What TLC shows |
|---|---|---|
| `output_credit_leak` | credit of a failed send "cannot hold the window shut" (`flow.rs`, `shed`) | `acknowledge` repays uncertain credit first, so acknowledgements of delivered chunks are spent on the failed one and the delivered chunks stay outstanding: the window never returns below the mark though all was repaid |
| `shared_budget_rate` | a clock stepped backwards "mints nothing" (`shared_budget.rs`, `refill`), and grants stay within burst + rate * time (the tests `..._cannot_mint_past_burst_plus_rate`) | `take_leveled` reads the clock and then waits for the locks, up to 25 ms. If a peer updates the record from a later reading meanwhile, the waiting take sees an anchor ahead of its own `now` and moves it back, and the next take is credited the time between them a second time. No fault is needed. What is lost is bounded by the wait of each such take: `WithinBudget` holds once that time (`reread`) is counted |

Ten more sentences are known not to hold. They are stated in their modules and no
configuration lists them; adding one as an `INVARIANT` of the configuration named
here, with the constants named here, makes TLC print the behaviour.

| Definition | Configuration | What happens |
|---|---|---|
| `TerminalOutput!LossIsReported` (`docs/TERMINAL_HOST.md`: the view is told when more was printed while detached than kept) | `TerminalOutput.cfg` | chunks held between the flow's detach and the ring's mark are not counted |
| `TerminalOutput!EndFollowsEveryByte` (`sink.rs`: the marker follows the session's last byte) | `TerminalOutput.cfg` | it is sent without the ring's lock and can overtake a replay |
| `HostExits!LostOnlyWithItsHost` (`client.rs`: what ended while the app was away gets its real status) | `HostExits.cfg` | the session leaves the registry before its exit is on disk; an app that connects in between records it as lost with its host |
| `HostExits!ForgottenIsOnRecord` (`client.rs`, `record_exit`: `Forget` is sent "after its run's receipt is written, so a copy the host drops early cannot outlive an exit that was never recorded") | `HostExits.cfg` | the bookkeeping finds no observer, panics, or is refused by the store and the journal; only a log line says so, and `Forget` is sent all the same, so the host drops the last copy of the real status. Reconciliation can then only release the run as uncertain |
| `HostExits!NoProxyOnceRecorded` (`publish_listing`: no proxy for an exit reported since the listing) | `HostExits.cfg` | an exit recorded between the snapshot and the proxies loop leaves a proxy behind |
| `TranscriptLog!QueueWithinItsBound` (`docs/TERMINAL_HOST.md`: the queue is "bounded to 4 MiB (each queued operation counts for its bytes plus 64)") | `TranscriptLog.cfg` | the marker of an earlier gap is queued with the next chunk that fits, after the check, so the queue is over by its cost (`StaysBounded`: by one marker at most); opening and closing operations count nothing |
| `TranscriptLog!UnlinkedIsConsistent` (`transcripts.rs`, `is_current`: "A file unlinked since it was opened is still a whole, consistent snapshot") | `TranscriptLog.cfg` with `TotalItems = 2`, `MaxPrinted = 4`, `MaxFaults = 0` | a rotation and a sweep over the total between a read's two opens: the older file it holds and the newer one are whole, the one between them is deleted, and the answer does not say so. Needs running sessions that alone exceed the total, which with the shipped limits is more than 32 of them |
| `TranscriptLog!DroppedIsNeverUnsaid` (`docs/TERMINAL_HOST.md`: a dropped byte is not left out of both the text and the count, unless `recording_error` says so) | `TranscriptLog.cfg` with `TotalItems = 3`, `MarkersMayPanic = TRUE` | a panic while a marker is appended gives the marker's bytes back before the session is marked failed. Nothing in the append is known to panic; the code provides for it, in the order shown |

| `RefCache!FilesTellAll` (`ref_cache.rs`: a write that races the child "leaves the files different from the stamp, so the next caller misses") | `RefCache.cfg` | a file that is absent when the stamp is read, there when git runs, and absent again afterwards (`refs/stash` during an autostash) leaves the files as they were stamped: the answer with the phantom is kept and served until the files change or it expires |
| `RefCache!JoinersAreCurrent` (`ref_cache.rs`: a caller that wrote after the run began "never inherits its answer") | `RefCache.cfg` | callers join under a stamp that need not have settled: after a second write in the same tick, in place, the stamp is the leader's and the writer joins a run that has read the older contents |

The two liveness properties of `TranscriptLog` (`EndReachesTheLog`: a session that
ended gets its end marker; `IdleIsSynced`: what was written is synced) hold under
`FairSpec` with one session and one fault, and with two sessions, two chunks and no
fault; they take a run of their own, which is not kept here.

Because of the first, `LossAccounted` carries the exception `unmarked`; because
of the second, `EndIsLast` carries `cutOff`; because of the third,
`RunningIsNotGivenUp` speaks of running sessions only; because of the fourth,
`UnrecordedIsKept` and `ExitsAreRecorded` except `unbooked`; because of the last two,
`AnswersAreCurrent` excepts `IsPhantom` and `JoinedTooEarly`.

### Bounds

`Window` is 4 where chunk sizes differ, so that the mark, one chunk, the window
and zero are distinct, and 2 where a chunk is one unit: full, half and empty.
Three chunks overflow a ring of two, which is what a loss and a replay that does
not start at the first chunk need, and what a reader stuck on its third chunk
needs; four are needed for one dropped in a stall between two that are shown, and
for a loss before the mark. Two refused sends let one fall in a live send and one
in a replay. Two views make one takeover; more views and takeovers are the subject of
the proofs. `MaxSends`, `MaxAttaches`, `MaxChunks`,
`MaxFailures` and `MaxFaults` bound counters that the code does not bound.
`HostExits` has one session and four faults, so that an exit can meet a lost
connection, a lost host, a lost app and a refused write; the sessions share only the adoption and the
connection, and any number of them is covered by the proofs. Only runs without a
liveness property use symmetry.

`Executor`: a queue of 2 and 2 threads let a job be refused, wait behind
another, and wait with one thread running and one asleep; a third thread name would
let one too many start. `SpawnGate`: 2 slots make the background share 1 and leave
one slot to reserve; a bucket of 4 makes the reserve 1, so that background work and
refreshes find different levels. `MaxUser` bounds the calls of user actions, `MaxDue`
the tokens one refill may add; with one call, a user action postpones the others
once, as it may by design. Callers that are shed rather than wait are left to the
proofs, which cover them.
`SharedBudget`: a burst of 2 with reserves 0 and 1, two threads of one process
(which share its descriptor) and one of another; `ClockAtStart` leaves room for a
step back. The record is never written, foreign or a newer layout's at first.
`SharedReads`: a leader that times out and two joiners to retry, or a joiner and a
newcomer, or a second flight after the first.

`TranscriptLog`: a queue of 2 with an operation costing 1 holds one chunk, so that
the second chunk is dropped unless the writer was quick, and a marker exceeds it;
segments of 2 items rotate on the third, and again with three chunks and markers.
`TotalItems` is 4 where a read must be able to find two whole segments, 3 where two
sessions must evict each other. Reads multiply the states by
their steps, so the run with two sessions has none, and the one with reads has one
session.

`RefCache`: time starts one window after the first write, so that an answer can be
kept at once. Two changes are a file made and removed, or two writes, in one tick or
in two; a second call hits, joins or inherits what the first one made. A window of one
tick is the shortest that is safe; the proofs allow any.

Modelling choices that are not bounds: a tick is 125 ms at the shipped 8 tokens a
second, so a token is a whole number of ticks; a clock stepped forwards is a run of
ticks, and one stepped back falls between takes; an error while reading the record
is one of the ways it is not reached; a take's floor is chosen when the record has
been read; whether a handle has lately proved that the record takes writes, which
decides only if a clean denial is written, is left open.

Deadlock checking is off where the system may stop: a session that ended, or
every bound used up.

### Fairness

Threads run their own straight-line code: every step of the reader after its
lock, of a takeover, of `record_exit` and of `adopt` is weakly fair. A killed
child reaches the end of its terminal. Nothing is assumed of a program's
printing, a view's acknowledgements, a user's close, a session's end, or the
stall deadline: `LetGoReturns` and `CloseEnds` must not depend on them.
`LetGoReturns` excepts the case that another view takes the session over
meanwhile and itself stalls with the ring locked, which the code allows; then
the call returns with that stall's deadline. `CloseEnds` assumes that signalling
the child does not itself fail: `kill_session` returns that error and the user
retries. In `HostExits` the app reconnects and the host is started again: the
reconnect loop makes a few attempts and any later call makes one, so that is an
assumption that the app is used. Faults stop at their bound, as they must for
anything to be recorded.

`Executor`: a thread that can take the lock does (`Look`), jobs end (each has a
budget of its own), and a submission or a drop that has released the lock notifies.
No timeout of a wait is assumed, so no property depends on a thread retiring.
`SpawnGate`: a waiting caller polls, and, if its pass would ask, in the end asks:
the pause after a denial ends before the next token is due. Questions are answered,
children end, time passes. The only strong fairness is that the record, asked again
and again by reactive reads, grants one of them in the end, whichever it is; without
it no gate could serve anybody. Nobody is assumed to give up or to be refused.
`SharedReads`: the leader's wait and its child end (each has a deadline), and
notified joiners wake; no joiner's own deadline is assumed to come. `SharedBudget`
has no liveness: a take gives up after its patience. `TranscriptLog`: the writer's
thread runs while it has something to do, and its timed wait ends; a program may
stop printing and a read may never be asked. Its supervisor may give up on a writer
that panicked too often, which both properties except. `RefCache`: a call in progress
goes on, since its walk is bounded, its child has a deadline and a follower looks
every 50 ms; it may go on by failing or by a panic. Nothing is assumed of writes or of
new calls.

## Proofs

All proofs are checked by `tlapm` with SMT, Zenon and, for the temporal steps,
PTL. They assume only the named assumptions on constants: a positive window,
positive chunk sizes, natural acknowledgements and bounds. The sets of sessions,
calls, threads and processes are arbitrary; callers of the gate and threads of the
executor are finitely many, since their number is counted.

`TypeOK` is proved of every module that has theorems, so no run repeats it.

*Credit.* `CreditInv` is inductive: types, `CreditConserved`, an empty window
while detached, and an empty ledger while detached (`LedgerCleared`). The last
is the strengthening that a takeover needs: `attach` zeroes the counters again,
and conservation survives it only because letting go zeroed the ledger.
`HonestAckAccepted` and `RepaidWindowIsEmpty` follow from it by arithmetic.

*The output path.* `OutputProofs` is in layers. Who holds the ring's lock is
known from the program counters. A stopped flow belongs to a session that is dead, so
no stall ends a process (`NeverKilledForOutput`). What a replay still has to send fits
what its view's window has left, because the ring is no larger than the window and the
reader is locked out (`ReplayFits`). What is in a view's channel is below what its
replay, or the reader, sends next (`ShownInOrder`), and the end marker is sent when no
reader is left (`EndIsLast`). A chunk skipped between two sends leaves the view lagging
or told (`NoSilentGap`). For `LossAccounted` the chunks that were
held and are no longer kept are a finite set: while the ring is marked, all printed
since the mark was held, so the takeover's count is that set's size less what was held
before the mark.

*Exits recorded once.* `ClaimInv` says that a reporter past its claim holds the
id in `recording`, that no two do, that an id in `recording` is not yet in
`ended`, and that bookkeeping has not run while the claim holder is about to
run it or nobody claimed. Hence `RecordedOnce`. The proof goes reporter by
reporter through the operator `report`: lemma `ReportUpdates` says what a move
of one reporter leaves alone.

*Exits kept.* `KeptInv` says that whoever may send a `Forget`, and every
`Forget` on the wire, is about an exit that is settled: in the store, in the journal,
or in `unbooked`. An exit never stops being settled, as a replay moves it from the
journal to the store. Hence `UnrecordedIsKept`, across losses and restarts of app and
host: an exit that no app has dealt with to the end of its bookkeeping is on disk.

*Vouching.* `VouchInv` adds to `VouchedIsCurrent` that a session in `late`, spawned
during an adoption, is not one known to have exited; it is inductive without the types.

*Running sessions.* `NewsInv`: no frame, receipt, report, record or journal speaks of the
end of a session that has not ended. `KnownInv`: from the listing on, a running session that
the app knows was listed or is in `late`, what the scan leaves over is not listed, and
what is vouched for holds it. `StartInv` supplies the moments of a start. Together they
give `RunningIsNotGivenUp` and `RunningIsVouched`, with any number of spawns during any
number of adoptions.

*One update at a time and the budget.* `SharedBudgetProofs!IInv` says who holds
which lock at which step, that a staged update's record is undecodable until its
last byte, and that what was granted, what the record holds (or an update in
progress is about to write), and the time not yet turned into tokens, are covered by
the burst and the time there was (`FileCovered`, `TakeCovered`). The second fact is
what makes a cut at any step harmless: an undecodable record holds nothing. From it
each step is a step or a stutter of `RateBudget` (`ImplementsRateBudget`).

*The gate.* `SpawnGateProofs!IInv` is what the runs check and one fact more: a shared
token and a token wait belong to a caller that waits. Every way out is `GiveBack`, so
four lemmas (a start, a departure, a nap, the rest) carry the proof. The two action
properties follow from the invariant: if a user action waits, its count is positive
and no other class is eligible, also after the gate was unlocked.

*Shared reads.* What makes an answer fresh is that whatever had started or ended when
a call was made is closed, backwards, under being sent to a retry (`RetryIsLater`): a
chain of retries from a flight the call joined in the queue never reaches a child
older than the call. `QueuedIsKnown`, that a queued flight is the table's entry, keeps
the end of one flight from removing another's.

*Executor.* The counters are the threads there are (`CountersHold`), and an accepted
job is in one place (`Placed`). A submission that starts no thread therefore leaves
one that is awake, running, or about to be woken (`JobsAreSeen`). For the
refinement, a thread that looks is not one that runs, so fewer than `MaxThreads` jobs
run when one more is taken: `ImplementsQueue` proves the safety part of `JobQueue`;
its fairness is checked by the run `executor`.

*The cache.* An answer is kept, and looked up, only under a stamp older than the clock.
Whatever is written from then on has another identity, so while a file has the stamped
one it holds what git read, and whoever stamps it so has seen that (`GoodBase`,
`GoodOpt`; the second is about a file that may be absent, and absence has no identity,
which is the phantom). Lemmas `BaseLasts` and `OptLasts` say that this is never undone,
for any answer; `Inherits` that whoever takes such an answer over under its own stamp is
current.

*The transcripts.* What a log, the queue or the batch accounts for is a sum
(`AddedUp`), so the proof needs what a sum is for every length. The lemmas `AddedUp...`
get it by induction, from the least number outside a set (`WFMin`, in `Induction`):
more numbers add themselves, a tail is a sum less its head, a sum depends on its
numbers only. On them rest the lemmas on a queue (`Queue...`) and on a log (`Log...`),
and on those one lemma per action (`...Is`: what it needs and what it changes), so
that the steps of the invariant never open an action. `IInv` is in layers, each kept
with the help of those before it:

* `Typed`, `WriterInv`: where the writer is says whether it holds a batch and of
  what, and nothing is done that was not queued.
* `MarkingInv`: `marking` is the sum of the markers on their way, in the queue, in
  what is left of the batch, or in the writer's hands. That it is not negative
  (`TypeCorrect`) is a consequence: subtraction in `marked` never goes below zero.
* `OrderInv`, `FreshInv`: through queue and batch a session's Open comes first, its
  Discard last, nothing but a Discard follows its Close, and a session whose Open is
  still to come has no log. They are what keeps an Open from truncating a log in use.
* `LedgerInv`: log, rest of the batch, queue and gap add up to no more than what was
  printed; to exactly that while the session has not failed and is not the one being
  given up; and a chunk queued bears the number that its place in the sum gives it
  (`InTurn`). `EveryByteCounted` is this sum written for a reader who knows only the
  two counts; `GapsInPlace` follows as `InTurn` reaches the log.
* `EndInv`: with a Close queued there is no gap, so the marker that is written is last
  and true (`EndMeansWhole`).
* `SegmentsInv`, `LogsInv`, `BoundInv`: the two segments are adjacent ranges of the
  log, one that is written to has room, a log stays open while something is queued
  for it, and the queue is over its bound by one marker at most (`StaysBounded`).
* `ReadInv`: what a read may rely on at each of its points. What was queued before it
  was asked is among the first `target` operations (`InTime`), so once the wait is
  over all that is left is later (`AllLater`); the look at the queue then finds log
  and counts together at least what was printed (`LookTells`), and this lasts while
  others take steps (`ToldLasts`), since a log only grows. A segment opened is older
  than the newest or still where it was, so both being current at the end means that
  no rotation lies between them (`PreviousInv`, `CurrentInv`, `FoundStep`).

`ReadLeavesNothingOut` is proved of stores in which appending a marker does not panic
(`MarkersMayPanic` is false). Without that it is false: it is the third sentence on
the transcripts in the table above. The other theorems are proved whether it may or
not. They hold for any sessions, sizes (a segment of at least two items), bounds,
faults and crashes; what a sweep deletes is any choice the totals allow, whose
sums the proof never needs.

Two invariants hold by the proofs alone and are in no run: `OneUpdate`
(`UpdatesExclude`) and `ShortKeepsNoSlot` (`ShortReadersYield`).

Every safety property that a passing run checks is a theorem. Checked by TLC and not
proved is all liveness, which is out of the prover's reach together with `ENABLED`:
`LetGoReturns`, `CloseEnds`, `ExitsAreRecorded`, `ReactiveIsServed`,
`BackgroundIsServed`, `EveryCallReturns`, `ThreadsEnd`, `EveryCallEnds` and the fair
part of `IsAQueue`. No module uses a `RECURSIVE` operator, so every module can be
proved about.

## Not modelled

* How long output is gathered before a flush, hidden tabs, readiness and
  polling: they change when a chunk is sent, and the model allows any moment.
* Spawning, options, signals, process tables: the kernel's behaviour.
* What the jobs of an executor do, and which lane a command is given.
* The load governor's refusal of a spawn before it waits, gates without a rate or
  without a shared record, reads of one key in different classes (they share
  nothing), printed prefixes kept from a read that met its deadline, and the counters
  and reports of the gate.
* Opening the spawn record, and two layouts side by side (each has its own file).
* `REMEMBERED_EXITS`: `exited` and `ended` are unbounded sets in the model.
* `disconnect` (`leaving`): an app that quits is an app that restarts.
* What becomes of a run whose exit was never recorded: reconciliation releases it as
  uncertain once its process is gone (`runs.reconcile`), perhaps before a journal is
  replayed, and an ending recorded after that is not written. The record's other
  fields (its start, a failed launch); a journal that is unreadable or whose run was
  deleted, which a replay discards; terminals without a task run, whose exits are only
  announced.
* Receipts that cannot be read while the connection stays up, and a receipt that
  cannot be written.
* `Vouched.starting`, which only makes `holds_session` answer yes for a while
  before a spawn is confirmed, and the reattaching of views after a reconnect.
* Terminal ids used again after a reboot (`retire_previous`, `keep_under_own_name`,
  `choose`), so which run a saved transcript belongs to; pages not yet synced when a
  host dies; clipping, masking, the cap of a directory scan.
* The cache's other questions and admission classes, its time to live and eviction
  order (an entry may go at any moment), clocks that step back and files with false
  times, stamps whose hashes collide, trust that is revoked.
* Content: payloads, wording, exit codes other than real or lost.

## Plan

Done: the terminal's output path and flow, the recording of exits, the executor with
its abstract queue, the spawn gate with the shared record and its abstract budget, the
shared reads, the cache with its single flight and the saved transcripts, each with
proofs. What is left, in order:

1. `TranscriptRuns`: ids used again, with the renames of an earlier run's files
   against a read that chooses among them.
2. An abstract exit log (each exit appended once) that `HostExits` implements,
   and an abstract output stream that `TerminalOutput` implements.
3. `DaemonLock` with the supervisor; the quit sequence (`Teardown`) with `leaving`
   added to `HostExits`; the `REMEMBERED_EXITS` limit as a constant.
4. `Governor` as a step function checked against its stated hysteresis, its refusal
   composed with `SpawnGate`, and `Debouncer`.
