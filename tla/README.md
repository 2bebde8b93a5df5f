# A TLA+ verification of durex

durex runs *durable background commands*: a command is a row in a storage, an
executor loads rows, calls the registered handler and writes the outcome back.
This directory models the code in `src/` in TLA+, checks the models with TLC on
small instances and proves the central invariants with TLAPS for every value of
the constants. `PROJECT.json` maps each definition to the lines it models and
lists runs, mutants, findings, hazards and theorems.

## 1. Inventory

| Component | State it keeps | Operations that change state | What makes it correct |
|---|---|---|---|
| Command instance (`instance.go`, `status.go`) | status, retries, attempt, ReadyAt, DeadlineAt, CompletedAt | the assignments of the executor's handlers | terminal means final; budgets are paid |
| Executor, queue mode (`executor*.go`) | channel `queue`, `delayedTimers`, worker goroutines, `started`/`stopping`, `ctx` | Add, execute, handleResult, handleError, handleExpired, panic recovery, replay, Start, Stop | no command lost, none run twice at once, not early, not late; work ends |
| Executor, polling mode (`executor_worker.go`, `storage/postgres.go`) | the rows and their claims | poll, ClaimPending, execute, stuck recovery by any process | one claimant at a time, a dead claimant's work is taken over |
| Maintenance (`executor_maintenance.go`) | none of its own | stuck-command loop, cleanup loop | neither loses nor revives a command |
| API (`executor_api.go`), dashboard (`dashboard.go`), command line tool (`cmd/durex`) | none of their own | Add, Cancel, CancelByTag, ReplayFromDLQ, PurgeDLQ, retry and cancel from outside | a decision taken on an old row does no harm; one active command per unique key |
| Fan-out and fan-in (`barrier.go`, `result.go`, `executor_schedule.go`) | coordinator, barrier row with the child ids and a poll count | spawnChildren, the barrier's Execute | continuation once, and only after every child succeeded |
| Rate limiter (`ratelimit.go`) | counts, limits, waiter lists | Acquire, TryAcquire, release, SetLimit, SetGlobalLimit | exact counts, limits respected, nobody sleeps on beside a free slot |
| Life cycle (`executor.go`) | `wg`, `queue`, `ctx`, `scheduleFn`, all replaced by a Start after a Stop | Start, permanent commands, Stop and its timeout | Stop returns nil only when no command is in flight |
| Storages (`storage/*.go`) | rows, in each backend's own form; transactions | every method of `storage.go`'s interfaces | each call is one step of the storage contract, with its named error |
| Registry, backoff, cron, spec builders, options, hooks, metrics | configuration, counters | see `components` | pure functions and adapters |

How they interact. Workers, timers, API callers, the replay of Start and the two
maintenance loops share the storage and the channel. Each holds a *copy* of an
instance (a Go pointer that the in-memory storage clones and SQL scans afresh),
and every write replaces the whole row without reading it first. A handler's
result travels from the worker to the storage and then, by a blocking send or a
timer, back to the channel. Barriers poll the rows of their children. The rate
limiter sits between a worker and the handler.

What is hard to test. Copies that are older than the row; a send that blocks on
a full channel; a stop or a crash between an update and a send; timers that
outlive a Stop; a wake-up lost to a cancelled waiter; a barrier that reads
children one at a time while they change; a deletion between read and write; two
callers between the check and the insert of the same key; a Start that finds the
workers of a Stop that timed out; an answer of the database that gets lost.
`PROJECT.json` lists these hazards at their lines, with the property that would
catch each.

## 2. Modules

| Module | Models | Extends |
|---|---|---|
| `RateLimiter` | `ratelimit.go`: one action per critical section of `r.mu` | |
| `Instances` | statuses and every change of an instance | |
| `QueueExecutor` | the executor in queue mode: workers, channel, timers, API, loops, life cycle | `Instances` |
| `FanIn` | a coordinator, its tasks, barriers and continuations | |
| `Polling` | the executor in polling mode: processes, workers and loops over one claiming storage | `Instances` |
| `ExecutorAPI` | many callers of one executor: unique keys, retries and cancels from three sides, permanent commands, Start and Stop with their failures | `Instances` |
| `StorageRows` | rows, queries and instances as the storages' callers see them | |
| `StorageContract` | the abstract storage of `storage.go` | `StorageRows` |
| `StorageCalls` | the callers of a storage and the state the backends share here | `StorageRows` |
| `MemoryStorage`, `SQLiteStorage`, `PostgresStorage` | the three backends, one action per method | `StorageCalls` |
| `Storages` | the three under the same callers; the refinement of `StorageContract` | the three backends |
| `MCRateLimiter`, `MCQueueExecutor`, `MCFanIn`, `MCPolling`, `MCExecutorAPI`, `MCStorages` | constants for TLC | the above |
| `InstancesProofs` | type lemmas about the changes of an instance | `Instances`, TLAPS |
| `RateLimiterProofs`, `FanInProofs`, `QueueExecutorProofs`, `QueueCopiesProofs`, `PollingProofs`, `ExecutorAPIProofs`, `StoragesProofs` | theorems | the above, TLAPS |

**RateLimiter.** `current`, `globalCt`, `limits`, `global`, `waiters` are the
fields of the struct. A caller's one-place channel is `token[c]`. Between two
critical sections a caller is at `pc`: about to loop (`acquire`), asleep
(`wait`), in the `ctx.Done` branch before `removeWaiter` (`cancelled`), or in the
handler (`held`). The select may take either ready branch. Callers come back any
number of times, so a releaser may take its slot again before the waiter it has
woken: `Acquire` is not fair, and no property says that it returns.

**QueueExecutor.** `rows` is the storage; `queue`, `delayedTimers` are the
executor's fields; `leaked` holds timers that are armed but no longer in the map
(a Start after a Stop makes a new map). `worker[w]` is the position in `execute`
with the worker's copy; `sending[a]` is a copy actor `a` is blocked on in
`queueSchedule` (a command id stands for the callback of a timer of that
command). `client[k]` is an API call between its Get and its Update. `phase`
combines `started`, `stopping` and the state of `ctx`, a table in the module says
how. The actions of a worker are the exits of `execute`: `Drop`, `HandleExpired`,
`NotReady`, `NotRegistered`, `Begin`, `WaitSlot`, `GotSlot`, `SlotRefused`, then
`ResultRepeat`, `ResultRetry`, `ResultDone` with `SpawnChild`/`SkipChild` and
`Complete`, `ErrorRetry`, `ErrorFinal`, `CallbackDone`, `Panic`. A storage call
and the local work up to the next storage call or blocking operation are one
step. `CtxAware` says whether storage calls fail after `e.cancel()`, as those of the
SQL storages do. An SQL error on an Update at another time is not in this module:
`FanIn`, `ExecutorAPI` and `Storages` have Updates that fail at any time.

**FanIn.** The coordinator's `spawnChildren` creates rows one at a time and then
the barrier; children move through active, terminal and deleted statuses; the
barrier reads the child rows one per step, then repeats, errs or spawns. The
executor's part of a child's life (retry, queueing) is collapsed into "active".
The executor is in queue mode, where a row needs a copy to be run. An Update that
fails (`CoordinatorUnsaved`, `BarrierUnsaved`, `ChildUnsaved`) leaves the row as it
was and loses the copy: the coordinator or barrier is `lost`, the child `stray`.
`Restart` is a crash or a Stop followed by Start: it loads what is due, so STARTED
rows are run again from the start, and any set of barriers between two polls and of
waiting children may be left out, since their ReadyAt may lie ahead.
`RecoverCoordinator`, `RecoverBarrier` and `RecoverChild` are the stuck-command loop
on rows nobody runs (its threshold is taken to be longer than an execution).
Cancelling or replaying the rows of coordinator and barrier themselves is left out.

**Polling.** `rows` is the shared table and `since` its column `started_at`;
`up[p]` is the life cycle of process `p`; `worker[w]` has the position in
`execute`, the copy being executed and `rest`, the claimed copies still to come;
`snap[p]` holds the rows the stuck-command loop of `p` has still to reset.
`ClaimPending` is the transaction (`FOR UPDATE SKIP LOCKED` makes select and
update one step, on any subset of the claimable rows up to the batch size);
`ClaimLost` is the commit whose answer does not arrive. `scheduleFn` is a no-op,
so an outcome is written and left to a later poll (`Settle`). `Held(w)` are the
claims a worker has not settled: no variable of the code says so, which is why
its exclusiveness is worth a proof. Here ages do matter: `Threshold` is
`stuckThreshold`, and `BatchesInTime` says that it is longer than a whole batch
takes (the clock then waits for the batches). The stuck-command query and the
reading of the clock after it are one step.

**ExecutorAPI.** Where `QueueExecutor` has one caller, a life cycle that works and
full instances, this module has any number of callers, a life cycle that fails,
and rows reduced to status and unique key. A call of Add, retry or cancel is split
between its read and its write and again before `scheduleFn`; `client[c]` is what a
caller is in the middle of, and `cli` says that the caller is the command line tool, which is
another process: it survives a crash and schedules nothing. `Start` is one step up
to the end of the replay (which may fail, and then leaves workers behind) and one
step per permanent command; `Launch` lets every worker of the run before either
leave or stay, as the `select` it was in decides. `wg` is the one field
`Start` overwrites in place, so an old worker's `Done` counts against the new
group and may panic (`Exit`). Stop is three actions: the one that waits (`Stop`,
`StopReturns`) and `StopAtOnce`, its `return nil` for an executor that is not started or
is being stopped. Before the first Start `scheduleFn` is the no-op of `New` (`Queues`).
Five history variables say what has happened to a
key, a row or the pool: `loose`, `raced`, `overrun`, `orphaned`, `quiet`; the code has none of
them, no action's guard reads them, and the properties are stated with them because
the code promises less than its documentation: they name exactly the events after
which the promise is gone.

**Storages.** `rows` is what a backend keeps: instances in memory, columns with
RFC 3339 text in SQLite (`Columns`, `ScanInstance`, `TextLE`), columns and a
foreign key in PostgreSQL (`DeleteFrom`, `ParentThere`). `held` is the instance a
caller has in hand, fresh or old; `answer` is what the last call returned; `call`
names the last call. PostgreSQL itself is external: `Written`, `Named`,
`Writable`, `Deletable` are the row locks one open transaction holds against other
statements. A write whose answer is lost (`Reply`) has taken effect and returns an
error. `StorageContract` describes the same calls over plain rows, as `storage.go`
does: each call has its named errors (`ErrAlreadyExists`, `ErrNotFound`,
`ErrStorageClosed`), and an unnamed error needs a reason: a call that was interrupted
(`call` then says so) or lost its answer, a parent the database does not know, a
transaction that has failed. A record `promise` says which sentences a backend
keeps, so that the others can still be asked of it. Four of them are plain
disagreements with `storage.go`, which `storage_strict` asks for without exception: SQLite compares
times and tags inexactly (`exactTimes`, `literalTags`), PostgreSQL's transactions do not
answer as a Storage (`txErrors`), neither keeps Timeout (`keepsTimeout`). The other three
are about what `storage.go` leaves open: foreign parents (`keepsParents`), rows after
Close (`durable`), lost answers (`local`). `Promises` says which backend makes which;
`ImplementsContract` is the refinement, and because `call` is part of it, a Delete
cannot pass for a Cleanup.

Abstractions. Payload, names, tags, tracing ids, history and error texts are left
out: no control decision reads them. Time is a clock of ticks; outside `Polling`
ages (what is old enough to be stuck or cleaned up) are left open, so any row may be. Ids are
random in the code and never reused; the model marks a deleted row `GONE`. In
`QueueExecutor` and `Polling` a Stop whose wait times out is not followed by another
Start in the same process, and one client goroutine makes the API calls while workers,
timers and loops go on; `ExecutorAPI` has the other cases, without timers and
deletions. `MaxUncharged` bounds crashes, stops, repeats and stuck recoveries
together.

## 3. Runs

Passing runs:

| Run | Instance | Shows |
|---|---|---|
| `ratelimiter` | 3 callers, 2 names, global limit 2, 2 cancellable contexts, limits changing | counts exact, limits respected, sleepers listed; while nothing is cancelled or changed nobody sleeps for ever beside a slot that stays free |
| `queue_crash` | 2 commands, 2 workers, channel of 1, budget 1, delays 0 and 2 with timers capped at 1, all API calls, one crash or repeat | nothing lost, nothing finished is carried, no concurrent runs, budget, not early, deleted stays deleted |
| `queue_stop` | 1 worker behind a limiter, children, one Stop then Start, or a recovery pass, SQL-like storage | nothing lost across a stop, budget |
| `queue_live` | 2 commands with children, errors, retries, panics, deadlines, an unregistered name; no faults | every command ends and stays ended (Cancel is not in use here); no start after a deadline |
| `polling` | 2 processes, 1 worker each, batches of 2, threshold of 2 ticks, one crash, stop or lost answer, cancel, replay, cleanup, one recovering process | no command held twice, no claim written over |
| `polling_live` | the same behind a limiter, with retries, panics, deadlines, an unregistered name | without faults no claimed row is forgotten; every command ends |
| `storage` | each backend, 2 ids, 2 ticks of half a second, 3 changes of an instance, 2 queries, batches of 1 | every call does and answers what the contract says of it, named errors included |
| `api` | 2 rows, 1 key which is also the handler's default, 2 callers, 2 workers, 2 Starts of 1 worker, 3 calls, 1 permanent command | when a key has one active command, a command one pair of hands, and when no worker is left between two runs |
| `fanin` | 2 tasks, 2 barriers, ids for a second run of the coordinator, fair workers, one fault of any kind and the stuck-command loop | continuation only after all tasks that could be created have succeeded, duplicates only from commands that are run again, barriers that somebody runs end, continuation spawned when nothing goes wrong |

Runs that find the code at variance with its documentation:

| Run | Property | Disagreement |
|---|---|---|
| `queue_cancelled` | `CancelledEnds` | two at once: a worker with an older copy writes STARTED over CANCELLED and runs the command ("a final state"), and the retry of that attempt, whose ReadyAt is ahead when the process dies, is not loaded by Start and never runs (commands "survive restarts") |
| `fanin_success` | `ContinuationEarned` | two at once: a command that cannot be created is left out of the barrier's list, and a DEAD_LETTER child counts as a success, so that the continuation of "ALL Commands" runs although none succeeded |
| `storage_strict` | `ImplementsStorageGo` | the SQL tables have no column for Timeout, so a command read back has no limit |

Each half of the first two shows by itself when an existing run is changed. In
`queue_live` `EventuallyTerminal` fails with `Faults = {"crash"}` and `MaxUncharged = 1`, and
`TerminalIsFinal` with `ApiOps = {"cancel"}`. In `fanin` `ContinuationAfterSuccess`
fails with `DeadLetter = TRUE`; that a failed Create shortens the barrier's list is
why it counts `skipped` commands.

Other disagreements show in the same way:

- `ratelimit.go:50`, Acquire "blocks until a slot is available or the context is
  canceled": with `BlocksUntilSlot` in place of `SlotsNotWasted`, `ratelimiter`
  fails. `release` hands its one wake-up to a caller that is being cancelled, which
  drops it (lines 64 and 79), and another sleeps in `Acquire` beside the free slot.
- `executor.go:213`, Stop "waits for in-flight commands to complete up to the
  shutdown timeout": with `StopWaits` in place of `QuietAfterStop`, `api` fails.
  Stop returns nil at once (lines 215-217) with commands in flight after a Start
  whose replay failed, after a Stop that timed out, and beside another Stop.
- `storage.go:36-39`, FindPending returns what has "ReadyAt <= now": with only
  `exactTimes` required in `Strict`, SQLite fails within a second, because it compares
  RFC 3339 text whose fraction has no fixed width (`sqlite.go:315`).
- `storage.go:74`, "commands must have all specified tags": with only `literalTags`
  required, SQLite's `LIKE` finds commands without the tag (`sqlite.go:663`).
- `storage.go:24-25` and `128-129`, the errors of a Transaction, which embeds Storage: with
  only `txErrors` required, PostgreSQL fails. In a transaction Update answers nil for a
  missing command, Create an unnamed error for an existing one, and Get and the
  finders "not supported in transaction context" (`postgres.go:901-957`).
- `storagetest/conformance.go:296-299`, "Memory and SQLite storage don't filter by
  ReadyAt in FindPending": they do (`memory.go:112`, `sqlite.go:306-315`), as `storage.go`
  says and `ImplementsContract` has it; the test looks only for the ready command.
- With one worker, a channel of one place and commands that ask for a retry,
  `EventuallyTerminal` of `queue_live` fails: the worker waits for ever in the send of
  its own retry to the channel only it empties (`executor_schedule.go:14`).

In `api` the exceptions `loose`, `raced`, `overrun` and `orphaned` are all needed:
without the first TLC finds two active commands of one key (`doc.go:206`: "Only one
active command with this key") by two overlapping Adds, by a spawned child, or by a
retry or an old copy's write that revives a finished command; without the second, a
command executed by two workers after two retries; without the third, a Stop that
waited and returned nil while a worker of the run before still executes
(`executor.go:124`: Start "Can be called again after Stop()"); without the fourth,
what `StopWaits` shows.

Because of these, the passing runs state what does hold: `NothingLost` excepts
`skipped`, the rows Start did not load; `FinishedNotCarried` excepts cancelled
commands; `SlotsNotWasted` is about behaviours in which no wait is cancelled and no
limit changed; `BarrierResolves` excepts barriers that nobody has a copy of;
`queue_live` has enough workers (two, of which at most one has retries to send)
that the channel cannot jam. `NoConcurrentRuns` and
`FinishedNotCarried` are checked, and with `NeverEarly` proved, without the
stuck-command loop, without Stop and, where replay is in use, with one client and
callbacks that do not panic (`Undisturbed` of `QueueCopiesProofs`): each of these
can give a command a second copy. With the loop, with a Stop or with two replaying
clients TLC finds `NoConcurrentRuns` and `NeverEarly` violated, with a replay
before a panic of the callback `NoConcurrentRuns` and `FinishedNotCarried`; these
are hazards with a note. `TerminalIsFinal`, which Cancel
breaks, holds without Cancel under the same conditions, and fails without each of
them. `DeadlineRespected` fails behind a rate limiter.

`ClaimExclusive` and `LeaseHeld` are checked, and proved, for deployments like
`SafeConfig` of `PollingProofs`. Each of its conditions is needed; without it TLC
finds `LeaseHeld` violated: batches that may outlive the threshold (a row waits
behind slow commands, is reset and claimed by another worker), two recovering
processes (the slower writes its old copy over a row that has been reset and
claimed since), two callers replaying one command, and a `Recover` that panics
after its row was replayed and claimed. `doc.go` promises that instances "can safely run
concurrently" without naming these; they are listed as hazards.

Bounds. Two commands are the least that lets copies compete for one channel
place; two workers the least that could run one command twice; a channel of one
place is full as soon as it is used. A delay of two ticks with a timer cap of one
needs the early delivery and the second timer. One crash or stop at any point,
followed by a complete restart, covers every position inside the handlers. Two
children are the least for which a barrier's reads can straddle a change. The reruns a
failed Update leads to by way of the stuck-command loop are not counted as faults, so one fault is
enough for them; combinations of faults are left to the proofs. In polling mode two processes with one worker each and
a threshold of two ticks let a row be orphaned, found, claimed again and finished
while its batch mate is still held. Three
callers are the least for which a wake-up can go to the wrong one while another
sleeps; they call without bound. (With four, a woken global waiter that goes on to sleep
for its name leaves another global waiter asleep until the next release, which comes,
since somebody holds that name's slot.) In `api` two Starts are the least for which workers of two runs meet, three calls the least for which
two overlapping ones follow an Add. In `storage` two ids give a parent and a child, and three changes of an
instance let an old copy meet a deletion; its clock has two ticks, within one
second, and what depends on later times is left to the proof. `storage_strict`
has the same ids and one change. Symmetry is used
for command ids, callers and workers, only in runs without temporal liveness
properties. `MCStorages` leaves `call`, which no action reads, out of the view: the
refinement is checked on every step, also one to a state already seen. `MCExecutorAPI`'s view
joins statuses that no action and no property tells apart.

`CHECK_DEADLOCK FALSE` is set in all passing runs but `ratelimiter` and `storage`: an idle executor at the last tick of
the clock, or callers that have made their last call, may stop. The deadlocks
that matter (everyone blocked on the channel, a sleeper nobody wakes) are caught
by the liveness properties instead.

Fairness. Time passes; goroutines that can run do run; handlers return; a stopped
or crashed executor is started again by its operator; a receive from a non-empty
channel is taken by some worker; a blocked sender that finds room again and again
gets in (the Go runtime queues senders first come, first served), hence SF on
`Enqueue` and WF elsewhere. In `Polling` the clock may be held by
`BatchesInTime` while a batch is executed, hence SF on `Tick`; polls, executions,
the recovery loop, restarts and the steps of Stop have WF. In
`RateLimiter` a caller that can go on does, and a handler returns its slot; nobody has to
call again. In `FanIn` whatever has a copy is run; nothing promises that a lost row is
ever picked up, for the stuck-command loop is optional and a restart the operator's.
Nothing forces API calls, faults or new commands.

## 4. Proofs

| Theorem | States | Argument |
|---|---|---|
| `RateLimiterProofs!TypeCorrect`, `CountsExact` | `[]TypeOK`, `[]SlotsCounted` | `TypeOK /\ SlotsCounted` is inductive: a caller enters or leaves the set of holders exactly when a count changes, so the cardinality lemmas apply; counts at zero have no holder to release |
| `RateLimiterProofs!LimitsRespected` | `NeverOverLimit` | from the type invariant: check and increment are one step |
| `RateLimiterProofs!EverySleeperListed` | `[]SleepersListed` | below |
| `QueueExecutorProofs!TypeCorrect` | `[]TypeOK` | conjunct by conjunct for every action; needs that a timer is filed under its own id and that a worker past `idle` has a copy |
| `QueueExecutorProofs!DeletedForGood` | `GoneStaysGone` | every write of a copy is guarded by the row's presence, creation by a fresh id |
| `QueueExecutorProofs!NothingIsLost` | `[]NothingLost` | below |
| `QueueExecutorProofs!BudgetKeptForever` | `[]RetryBudget` | below |
| `QueueCopiesProofs!NoStartPastDeadline` | `DeadlineRespected` without a rate limiter | below |
| `QueueCopiesProofs!RunsAreExclusive`, `FinishedLetGo` | `[]NoConcurrentRuns`, `[]FinishedNotCarried` under `Undisturbed` | below |
| `QueueCopiesProofs!NoEarlyStart` | `NeverEarly` under `Undisturbed` | below |
| `QueueCopiesProofs!FinalWithoutCancel` | `TerminalIsFinal` under `Undisturbed` without Cancel | below |
| `PollingProofs!TypeCorrect` | `[]TypeOK` | conjunct by conjunct for every action |
| `PollingProofs!ClaimsDiffer`, `LeaseKept` | `[]ClaimExclusive`, `[]LeaseHeld` under `SafeConfig` | below |
| `PollingProofs!NoneOrphaned` | `[]NoOrphans` | below |
| `StoragesProofs!TypeCorrect` | `[]TypeOK` | action by action; `Parse(Text(t)) = t` |
| `StoragesProofs!Refinement` | `ImplementsContract` | below |
| `ExecutorAPIProofs!APITypeCorrect` | `[]TypeOK` | action by action |
| `ExecutorAPIProofs!KeysUnique`, `HandsExclusive`, `NoWorkerLeft` | `[]OneActivePerKey`, `[]OneCarrier`, `[]QuietAfterStop` | below |
| `FanInProofs!TypeCorrect` | `[]TypeOK` | inductive with the shape of reads and child lists |
| `FanInProofs!SuccessFirst` | `[]ContinuationAfterSuccess` with dead-lettering off | below |
| `FanInProofs!DuplicatesBounded` | `[]DuplicatesFromReruns` | a coordinator that is past its barrier, and a barrier that is past its spawn, have used the allowance the last rerun gave; a failed Update gives none, for the row is then lost |

`SleepersListed` is split into three parts: a sleeper without a token is on its
list, a list holds only callers that wait there without a token, and each of them
once. `Release` is the step that matters: it may pop the heads of two lists. What is
popped gets its token and was on that list only, and only once, so it is neither
asleep nor listed afterwards, and everybody else keeps a place.

`NothingLost` is stated for a running executor, but what keeps it happens while one
starts. `LostInv` says it of a starting executor too, and adds that a worker about
to schedule a copy, and a client inside an API call, is not blocked in a send
(`SendFree`): otherwise a second send would overwrite the copy in the first. Then every step either lets go of no copy of a
command, or makes its row inactive, or passes the copy on; `Start` loads what is
due and puts the rest into `skipped`, and the proof covers Stop, crashes, leaked
timers and the stuck-command loop.

`RetryBudget` speaks of rows but is not inductive: a copy anywhere may overwrite
the row. `BudgetInv` says the same of *every* copy: in the queue, in tracked and
leaked timers, blocked in a send, held by a worker or a client, in the snapshots
of Start and of the stuck-command loop. A copy that is about to be started may
carry one attempt less than one that is running (`Slack`), which is what a
Started transition uses up. TLC checked `BudgetInv` first, on larger instances.

`QueueCopiesProofs` is about what the copies of a command may do to its row. Its
invariants build on one another; TLC checked the parts before the proofs.

- `FaithInv`: every copy, wherever it is, has the id and the deadline of its row. A
  step makes copies that descend from one copy, reads rows, creates one row with
  one copy, or deletes a row (`CopyStep`). `DeadlineRespected` compares the clock
  with the *row*, while `execute` looks at its copy; this is why that is enough.
- `OnceInv`: of each command at most one copy waits or is being executed, in the
  queue, a timer, a send, the replay or a worker (`Sound`); a copy about to be
  replayed belongs to a settled row that nobody holds (`ReplaySettled`), and nobody
  holds a command whose callback runs and may panic (`CallbackFree`). A crash empties all places at once,
  and the replay of the next Start fills one of them.
- `TimeInv`: the row, and the copy a pending Cancel will write over it, are never
  ready later than the copy that is held, and a worker that waits for a slot has a
  copy that is due. The clock only grows, so the check in `execute` still holds when
  the handler starts.
- `FinalInv`: without Cancel, a row is written only by the one who holds its copy,
  its creator, its deleter, a replay, or a callback that panics (which writes
  FAILED); a terminal row has no holder.

`ContinuationAfterSuccess` needs that a status the barrier *read* was honest when
read: `SuccessInv` adds that a row says COMPLETED only if the child succeeded,
that what a barrier has seen is honest in the same sense, that a barrier's
children exist, that an unborn barrier has spawned nothing, and that the children made,
those still to be spawned and those whose Create failed (`skipped`) add up to at least `Tasks`, so that a barrier
is given all the others. Success is never
forgotten, so later changes of a row do not matter.

`ClaimExclusive` rests on what everybody else writes. `Claims` adds that what is
held was STARTED (`HeldStarted`) and younger than the threshold (`HeldInTime`), so
that the stuck-command query cannot find it; that rows in a snapshot are held by
nobody and cannot be claimed until they are reset (`SnapsOrphaned`); that a row
about to be replayed is still settled (`ReplaySettled`); and that the copy being
executed has left the batch (`HeldOnce`). The proof has one lemma per kind of
step: giving up claims without a write, giving up one claim with a write to its
row, claiming, and a write by somebody else (`ShrinkStep`, `ReleaseStep`,
`MarkStep`, `WriteStep`). TLC checked the parts first.

`NoOrphans` needs only that no process is stopping before the first fault
(`Calm`): an Update then fails only when the row is not there. Every step that
takes a copy out of a batch writes a status other than STARTED over its row, and
leaves the rest of the batch where it was; `SafeConfig` is not needed.

`Refinement` needs no more than the types: the mapping `Table` scans SQLite's
columns, and each method is matched with the contract's action of the same name and
each of its errors with that action's error; only interrupted calls are matched with
`Refuse` or, inside a transaction, `Abort`. The interesting lemmas are about time
text (`TextLE` agrees with `<=` except within a second, the contract's `Vague`), about
scanning what was written, and about a transaction's overlay: what `Commit` makes of the
rows is what the transaction saw, because the locks kept others off the rows it
wrote and the parents it named.

`KeyInv` adds to `OneActivePerKey` what a caller between the two halves of Add
relies on: for a key that is not loose no other caller is there too, and nobody
holds the key. `CarrierInv` adds that a row somebody has is neither FAILED nor
DEAD_LETTER nor uncreated, which is why a retry or a creation gives it its first
pair of hands and not a second. `PoolInv` says that the wait group is the number of workers
that are there, until a Start overruns them, and that workers are there only while the
executor is started or `orphaned`. TLC checks the three properties; the
invariants were found by proving.

Assumptions are the named `ASSUME`s of the modules: finite set of callers,
natural-number limits, a channel capacity of at least one, disjoint sets of
actors. `SuccessFirst` assumes `DeadLetter = FALSE`, without which the
continuation may follow a dead-lettered child; `ClaimsDiffer` and `LeaseKept` assume `SafeConfig`.
`NoStartPastDeadline` assumes `~Limited`; `RunsAreExclusive`, `FinishedLetGo`,
`NoEarlyStart` and `FinalWithoutCancel` assume `Undisturbed`, the last also that
Cancel is not called. These describe deployments, not states: none of them is
needed for `NothingIsLost`, `BudgetKeptForever`, `DeletedForGood`, `NoneOrphaned` or
`EverySleeperListed`, which hold under every fault and call of their modules.

Only model-checked: liveness (`EventuallyTerminal`, `SlotsNotWasted`,
`BarrierResolves`, `ContinuationSpawned`), as fairness and ENABLED are beyond the
prover. Every invariant and action property of a passing run is a theorem. What is proved of time text and of pages of rows is
about definitions without recursion.

## 5. Not modelled

Left for later: `PurgeDLQ`, unique keys and permanent commands beside polling
workers; the clock read after the stuck-command query; storage hooks (observers
called after a write); `Reset` and `All` of the in-memory storage; the backoff
strategies, `mergeSpecs` and `createInstance` as functions of all their fields;
the reads of the API, the dashboard and the tool (Stats, History, lists).

Abstracted in the storages: the order of answers; a query's Name, ParentID and
creation times (inclusive in memory, strict in SQL), which filter as status and
tag do; time zones other than UTC, which SQLite's text comparison does not
survive; PostgreSQL's rounding to microseconds; the priority `ClaimPending` sorts
by first; more than one open transaction at a time.

Left out for good: JSON, HTML and SQL text, migrations, tracing, metrics, logging
and the adapters around user functions, which carry no decisions of the executor;
cron parsing, which is a third-party library; the registry, a map that is filled
before Start.

## 6. Plan

Done: rate limiter, instances, queue mode, polling mode, fan-in, the storages with
their contract and refinement, the API under concurrent callers with the life cycle,
and the theorems above. Next, in this order:

1. `Lifecycle`: an abstract specification of one command (active, terminal,
   replayed, deleted) and the refinements `QueueExecutor => Lifecycle` and
   `Polling => Lifecycle`, with the exceptions the findings show.
2. `Functions`: backoff strategies with their caps and overflow, `mergeSpecs`,
   against reference definitions over bounded inputs.
3. Polling with unique keys, permanent commands and a Stop that times out.
