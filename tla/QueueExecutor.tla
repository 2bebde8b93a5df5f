---------------------------- MODULE QueueExecutor ----------------------------
(***************************************************************************)
(* The executor in queue mode (a storage that is not a LockingStorage,     *)
(* such as memory or SQLite): one process, a bounded channel of instances, *)
(* worker goroutines, delayed timers, API callers, the stuck-command and   *)
(* cleanup loops, and the life cycle Start / Stop / crash / Start again.   *)
(*                                                                         *)
(* A worker, a timer, the queue and an API call each hold a COPY of an     *)
(* instance; the storage holds the row.  No code path reads the row again  *)
(* before it overwrites it, so the copies and the row can disagree, and    *)
(* that is what the properties are about.                                  *)
(*                                                                         *)
(* A channel send that blocks (queueSchedule) is a state of the sender:    *)
(* sending[a] is the copy actor a is trying to put on the queue, where a   *)
(* command id stands for the callback of a timer of that command.          *)
(***************************************************************************)
EXTENDS Instances, Sequences, FiniteSets

CONSTANTS
    Worker,      \* worker goroutines (parallelism)
    Client,      \* goroutines that call the API, the dashboard or PurgeDLQ
    QueueSize,   \* capacity of e.queue
    Retries,     \* retry budget of a new command
    Delays,      \* delays a caller may ask for
    Deadlines,   \* relative deadlines a caller may ask for
    Backoff,     \* delay of e.backoff before a retry
    Period,      \* repeat interval
    MaxDelay,    \* e.maxDelay, the cap on one timer
    KidPlans,    \* what a handler may spawn: sequences of delays
    Unregistered,\* ids whose command name has no handler
    DeadLetter,  \* e.deadLetterEnabled
    Limited,     \* e.rateLimiter # nil
    CtxAware,    \* does the storage fail once its context is cancelled (SQL)?
    Outcomes,    \* what a handler may do: "ok", "repeat", "retry", "error", "panic",
                 \* "callback panic" (its Expired or Recover method panics)
    ApiOps,      \* API calls in use besides Add: "cancel", "replay", "purge", "cleanup"
    Faults,      \* "crash", "stop", "stuck"
    MaxTime,     \* bound on the clock
    LastAdd,     \* commands are added up to this tick
    MaxUncharged \* bound on crashes, stops, repeats and stuck recoveries

NoDeadline == MaxTime + 1

ASSUME ExecutorAssumption ==
    /\ NoInst \notin [inst : Instance, at : Nat]
    /\ QueueSize \in Nat \ {0}
    /\ {"recovery", "start"} \cap (Worker \cup Client \cup Cmd) = {}
    /\ Worker \cap Client = {} /\ Cmd \cap (Worker \cup Client) = {}
    /\ Retries \in Nat /\ Backoff \in Nat /\ Period \in Nat \ {0} /\ MaxDelay \in Nat \ {0}
    /\ Delays \subseteq Nat /\ Deadlines \subseteq Nat
    /\ KidPlans \subseteq Seq(Nat)
    /\ Unregistered \subseteq Cmd
    /\ {DeadLetter, Limited, CtxAware} \subseteq BOOLEAN
    /\ MaxTime \in Nat /\ LastAdd \in Nat /\ MaxUncharged \in Nat

Actor == Worker \cup Client \cup {"recovery", "start"} \cup Cmd

VARIABLES
    now,           \* the clock
    phase,         \* life cycle of the process, see below
    rows,          \* the storage
    queue,         \* e.queue
    delayedTimers, \* e.delayedTimers: the tracked timer of each id
    leaked,        \* timers still armed that the map no longer tracks
    worker,        \* each worker's position in execute, with its copy
    sending,       \* copies blocked in a channel send
    client,        \* API calls between their Get and their Update
    recovering,    \* the snapshot recoverStuckCommands is working through
    replaying,     \* the snapshot Start is replaying
    skipped,       \* history: active rows the last Start did not replay
    uncharged      \* history: re-runs not charged to a retry budget

vars == <<now, phase, rows, queue, delayedTimers, leaked, worker, sending,
          client, recovering, replaying, skipped, uncharged>>

\* phase      started  stopping  e.ctx     who runs
\* "down"     no       no        live      nothing: a fresh or a crashed process
\* "starting" no       no        live      workers, and Start inside replay
\* "running"  yes      no        live      everything
\* "stopping" yes      yes       live      everything; timers not yet stopped
\* "draining" yes      yes       done      Stop waits for the workers and loops
\* "stopped"  no       yes       done      the process, but no worker
Phase == {"down", "starting", "running", "stopping", "draining", "stopped"}

Stopping == phase \in {"stopping", "draining", "stopped"}    \* e.stopping
CtxDone == phase \in {"draining", "stopped"}
Accepting == phase \in {"running", "stopping", "draining"}  \* e.started
WorkersUp == phase \in {"starting", "running", "stopping"}

Idle == [pc |-> "idle", inst |-> NoInst, todo |-> <<>>]
NoCall == [op |-> "none", inst |-> NoInst]

\* A timer carries the copy it will queue and the tick at which it fires.
Timer == [inst : Instance, at : Nat]

WorkerState ==
    [pc : {"idle", "acquire", "running", "spawn", "callback", "followup"},
     inst : Instance \cup {NoInst}, todo : Seq(Nat)]

TypeOK ==
    /\ now \in Nat
    /\ phase \in Phase
    /\ rows \in [Cmd -> Row]
    /\ \A c \in Cmd : rows[c].id = c
    /\ queue \in Seq(Instance)
    /\ Len(queue) <= QueueSize
    /\ delayedTimers \in [Cmd -> Timer \cup {NoInst}]
    /\ \A c \in Cmd : delayedTimers[c] # NoInst => delayedTimers[c].inst.id = c
    /\ leaked \subseteq Timer
    /\ worker \in [Worker -> WorkerState]
    /\ \A w \in Worker : worker[w].pc # "idle" => worker[w].inst # NoInst
    /\ sending \in [Actor -> Instance \cup {NoInst}]
    /\ client \in [Client -> [op : {"none", "cancel", "replay", "purge"},
                              inst : Instance \cup {NoInst}]]
    /\ \A k \in Client : client[k].op # "none" => client[k].inst # NoInst
    /\ recovering \subseteq Instance
    /\ replaying \subseteq Instance
    /\ skipped \subseteq Cmd
    /\ uncharged \in Nat

Init ==
    /\ now = 0
    /\ phase = "down"
    /\ rows = [c \in Cmd |-> Blank(c, "NONE")]
    /\ queue = <<>>
    /\ delayedTimers = [c \in Cmd |-> NoInst]
    /\ leaked = {}
    /\ worker = [w \in Worker |-> Idle]
    /\ sending = [a \in Actor |-> NoInst]
    /\ client = [k \in Client |-> NoCall]
    /\ recovering = {}
    /\ replaying = {}
    /\ skipped = {}
    /\ uncharged = 0
-----------------------------------------------------------------------------
(* Storage (memory.go, sqlite.go): Update replaces the whole row, and fails *)
(* when the row is missing or, for SQL, when e.ctx is cancelled.            *)
UpsertOK(i) == ~(CtxAware /\ CtxDone)  \* mutant: an upsert, as INSERT OR REPLACE would be
UpdateOK(i) == Present(rows[i.id]) /\ ~(CtxAware /\ CtxDone)
Put(i) == rows' = [rows EXCEPT ![i.id] = i]
Fresh == {c \in Cmd : rows[c].status = "NONE"}

(* Scheduling (executor_schedule.go). *)
Arm(i) ==
    LET delay == IF i.readyAt <= now THEN 0
                 ELSE IF i.readyAt - now > MaxDelay THEN MaxDelay ELSE i.readyAt - now
    IN  delayedTimers' = [delayedTimers EXCEPT ![i.id] = [inst |-> i, at |-> now + delay]]

\* Mutant: the return after the send is missing, so a ready copy gets a timer too.
ScheduleTwice(a, i) ==
    /\ sending' = IF i.readyAt <= now THEN [sending EXCEPT ![a] = i] ELSE sending
    /\ Arm(i)

\* queueSchedule: a ready copy is sent to the channel, any other gets a timer.
Schedule(a, i) ==
    IF i.readyAt <= now
    THEN sending' = [sending EXCEPT ![a] = i] /\ UNCHANGED delayedTimers
    ELSE Arm(i) /\ UNCHANGED sending

\* The two branches of the select around a send.
Enqueue(a) ==
    /\ sending[a] # NoInst
    /\ Len(queue) < QueueSize
    /\ queue' = Append(queue, sending[a])
    /\ sending' = [sending EXCEPT ![a] = NoInst]
    /\ UNCHANGED <<now, phase, rows, delayedTimers, leaked, worker, client,
                   recovering, replaying, skipped, uncharged>>

Abandon(a) ==
    /\ sending[a] # NoInst
    /\ CtxDone
    /\ sending' = [sending EXCEPT ![a] = NoInst]
    /\ UNCHANGED <<now, phase, rows, queue, delayedTimers, leaked, worker, client,
                   recovering, replaying, skipped, uncharged>>

\* The AfterFunc callback: it deletes the map entry of its id, returns when the
\* executor is stopping and otherwise sends.
Deliver(i) ==
    /\ sending[i.id] = NoInst
    /\ sending' = IF Stopping THEN sending ELSE [sending EXCEPT ![i.id] = i]

Fire(c) ==
    /\ delayedTimers[c] # NoInst /\ phase # "down"
    /\ now >= delayedTimers[c].at
    /\ Deliver(delayedTimers[c].inst)
    /\ delayedTimers' = [delayedTimers EXCEPT ![c] = NoInst]
    /\ UNCHANGED <<now, phase, rows, queue, leaked, worker, client,
                   recovering, replaying, skipped, uncharged>>

\* A timer the map lost track of deletes the entry of a newer one.
FireLeaked(t) ==
    /\ t \in leaked /\ phase # "down"
    /\ now >= t.at
    /\ Deliver(t.inst)
    /\ leaked' = (leaked \ {t}) \cup ({delayedTimers[t.inst.id]} \ {NoInst})
    /\ delayedTimers' = [delayedTimers EXCEPT ![t.inst.id] = NoInst]
    /\ UNCHANGED <<now, phase, rows, queue, worker, client,
                   recovering, replaying, skipped, uncharged>>
-----------------------------------------------------------------------------
(* execute, from the receive of a copy to the return of the handler. *)
Ready(w) == WorkersUp /\ worker[w].pc = "idle" /\ sending[w] = NoInst /\ queue # <<>>
First == Head(queue)

\* The handler's Expired or Recover method runs after the row is written.
Callback(i) ==
    IF i.id \in Unregistered THEN Idle ELSE [pc |-> "callback", inst |-> i, todo |-> <<>>]

\* The copy is dropped: its row is left for the next Start.
Drop(w) ==
    /\ Ready(w) /\ Stopping
    /\ queue' = Tail(queue)
    /\ UNCHANGED <<now, phase, rows, delayedTimers, leaked, worker, sending, client,
                   recovering, replaying, skipped, uncharged>>

HandleExpired(w) ==
    /\ Ready(w) /\ ~Stopping
    /\ now > First.deadlineAt
    /\ queue' = Tail(queue)
    /\ IF UpdateOK(First)
       THEN /\ Put(Expired(First))
            /\ worker' = [worker EXCEPT ![w] = Callback(Expired(First))]
       ELSE UNCHANGED <<rows, worker>>
    /\ UNCHANGED <<now, phase, delayedTimers, leaked, sending, client,
                   recovering, replaying, skipped, uncharged>>

\* A capped timer may deliver before ReadyAt: the copy goes back to a timer.
NotReady(w) ==
    /\ Ready(w) /\ ~Stopping
    /\ now <= First.deadlineAt /\ now < First.readyAt
    /\ queue' = Tail(queue)
    /\ Arm(First)
    /\ UNCHANGED <<now, phase, rows, leaked, worker, sending, client,
                   recovering, replaying, skipped, uncharged>>

\* Mutants: the second check of ReadyAt, or the check of the deadline, is missing.
ResolvableEarly(w) == Ready(w) /\ ~Stopping /\ now <= First.deadlineAt
ResolvableLate(w) == Ready(w) /\ ~Stopping /\ now >= First.readyAt

Resolvable(w) ==
    Ready(w) /\ ~Stopping /\ now <= First.deadlineAt /\ now >= First.readyAt

NotRegistered(w) ==
    /\ Resolvable(w) /\ First.id \in Unregistered
    /\ queue' = Tail(queue)
    /\ IF UpdateOK(First) THEN Put(Unresolved(First)) ELSE UNCHANGED rows
    /\ UNCHANGED <<now, phase, delayedTimers, leaked, worker, sending, client,
                   recovering, replaying, skipped, uncharged>>

\* The STARTED transition, and the handler is called.
RunHandler(w, i) ==
    IF UpdateOK(i)
    THEN /\ Put(Started(i))
         /\ worker' = [worker EXCEPT ![w] = [pc |-> "running", inst |-> Started(i), todo |-> <<>>]]
    ELSE /\ worker' = [worker EXCEPT ![w] = Idle]
         /\ UNCHANGED rows

Begin(w) ==
    /\ Resolvable(w) /\ First.id \notin Unregistered
    /\ ~Limited
    /\ queue' = Tail(queue)
    /\ RunHandler(w, First)
    /\ UNCHANGED <<now, phase, delayedTimers, leaked, sending, client,
                   recovering, replaying, skipped, uncharged>>

\* With a rate limiter the worker first waits for a slot (module RateLimiter)...
WaitSlot(w) ==
    /\ Resolvable(w) /\ First.id \notin Unregistered
    /\ Limited
    /\ queue' = Tail(queue)
    /\ worker' = [worker EXCEPT ![w] = [pc |-> "acquire", inst |-> First, todo |-> <<>>]]
    /\ UNCHANGED <<now, phase, rows, delayedTimers, leaked, sending, client,
                   recovering, replaying, skipped, uncharged>>

\* ...and runs once it has one, without a second look at the deadline...
GotSlot(w) ==
    /\ worker[w].pc = "acquire"
    /\ RunHandler(w, worker[w].inst)
    /\ UNCHANGED <<now, phase, queue, delayedTimers, leaked, sending, client,
                   recovering, replaying, skipped, uncharged>>

\* ...or gives up when the executor stops, leaving a timer behind.
SlotRefused(w) ==
    /\ worker[w].pc = "acquire"
    /\ CtxDone
    /\ Arm(worker[w].inst)
    /\ worker' = [worker EXCEPT ![w] = Idle]
    /\ UNCHANGED <<now, phase, rows, queue, leaked, sending, client,
                   recovering, replaying, skipped, uncharged>>
-----------------------------------------------------------------------------
(* handleResult, handleError and the panic path of safeExecute.  After the  *)
(* handler returns, the worker writes its own copy over the row.            *)
Running(w) == worker[w].pc = "running"

\* Mutant: the row is updated and the copy is not scheduled.
UpdateOnly(w, i) ==
    /\ IF UpdateOK(i) THEN Put(i) ELSE UNCHANGED rows
    /\ worker' = [worker EXCEPT ![w] = Idle]
    /\ UNCHANGED <<delayedTimers, sending>>

\* Update the row, then hand the copy to the scheduler; a failed Update ends it.
UpdateAndSchedule(w, i) ==
    /\ IF UpdateOK(i)
       THEN Put(i) /\ Schedule(w, i)
       ELSE UNCHANGED <<rows, delayedTimers, sending>>
    /\ worker' = [worker EXCEPT ![w] = Idle]

ResultRepeat(w) ==
    /\ Running(w) /\ "repeat" \in Outcomes
    /\ uncharged < MaxUncharged
    /\ UpdateAndSchedule(w, Repeating(worker[w].inst, now + Period))
    /\ uncharged' = uncharged + 1
    /\ UNCHANGED <<now, phase, queue, leaked, client, recovering, replaying, skipped>>

\* Mutant: the budget is not looked at.
ResultRetryAlways(w) ==
    /\ Running(w) /\ "retry" \in Outcomes
    /\ UpdateAndSchedule(w, Retrying(worker[w].inst))
    /\ UNCHANGED <<now, phase, queue, leaked, client, recovering, replaying, skipped, uncharged>>

\* Retry() with budget left: no backoff, the copy is ready at once.
ResultRetry(w) ==
    /\ Running(w) /\ "retry" \in Outcomes
    /\ worker[w].inst.retries > 0
    /\ UpdateAndSchedule(w, Retrying(worker[w].inst))
    /\ UNCHANGED <<now, phase, queue, leaked, client, recovering, replaying, skipped, uncharged>>

\* Success, or Retry() with the budget spent: children first, COMPLETED last.
ResultDone(w, plan) ==
    /\ Running(w)
    /\ \/ "ok" \in Outcomes
       \/ "retry" \in Outcomes /\ worker[w].inst.retries = 0 /\ plan = <<>>
    /\ worker' = [worker EXCEPT ![w] = [pc |-> "spawn", inst |-> @.inst, todo |-> plan]]
    /\ UNCHANGED <<now, phase, rows, queue, delayedTimers, leaked, sending, client,
                   recovering, replaying, skipped, uncharged>>

ErrorRetry(w) ==
    /\ Running(w) /\ "error" \in Outcomes
    /\ worker[w].inst.retries > 0
    /\ UpdateAndSchedule(w, BackedOff(worker[w].inst, now + Backoff))
    /\ UNCHANGED <<now, phase, queue, leaked, client, recovering, replaying, skipped, uncharged>>

\* Budget spent: FAILED or DEAD_LETTER, then Recover.
ErrorFinal(w) ==
    /\ Running(w) /\ "error" \in Outcomes
    /\ worker[w].inst.retries = 0
    /\ LET i == Failed(worker[w].inst, DeadLetter) IN
       IF UpdateOK(i)
       THEN Put(i) /\ worker' = [worker EXCEPT ![w] = Callback(i)]
       ELSE worker' = [worker EXCEPT ![w] = Idle] /\ UNCHANGED rows
    /\ UNCHANGED <<now, phase, queue, delayedTimers, leaked, sending, client,
                   recovering, replaying, skipped, uncharged>>

\* The commands Expired or Recover returns (none on an error) are added.
CallbackDone(w, plan) ==
    /\ worker[w].pc = "callback"
    /\ worker' = [worker EXCEPT ![w] =
          IF plan = <<>> THEN Idle ELSE [pc |-> "followup", inst |-> @.inst, todo |-> plan]]
    /\ UNCHANGED <<now, phase, rows, queue, delayedTimers, leaked, sending, client,
                   recovering, replaying, skipped, uncharged>>

\* A panic of Execute, Expired or Recover.  The update uses a context of its own,
\* so only a missing row fails it.
Panic(w) ==
    /\ \/ Running(w) /\ "panic" \in Outcomes
       \/ worker[w].pc = "callback" /\ "callback panic" \in Outcomes
    /\ IF Present(rows[worker[w].inst.id])
       THEN Put(Panicked(worker[w].inst)) ELSE UNCHANGED rows
    /\ worker' = [worker EXCEPT ![w] = Idle]
    /\ UNCHANGED <<now, phase, queue, delayedTimers, leaked, sending, client,
                   recovering, replaying, skipped, uncharged>>

\* spawnChildren creates rows directly; follow-ups of Recover and Expired go
\* through Add, which refuses unless e.started.  A failed Create skips the child,
\* and so does the model when no id is left.
CanCreate(w) ==
    /\ worker[w].pc = "followup" => Accepting
    /\ ~(CtxAware /\ CtxDone)

Spawning(w) ==
    worker[w].pc \in {"spawn", "followup"} /\ worker[w].todo # <<>> /\ sending[w] = NoInst

NextChild(w) ==
    worker' = [worker EXCEPT ![w] =
        IF @.pc = "followup" /\ Len(@.todo) = 1 THEN Idle
        ELSE [pc |-> @.pc, inst |-> @.inst, todo |-> Tail(@.todo)]]

SpawnChild(w, c) ==
    /\ Spawning(w) /\ CanCreate(w) /\ c \in Fresh
    /\ LET i == NewInstance(c, Retries, now + Head(worker[w].todo), NoDeadline) IN
       Put(i) /\ Schedule(w, i)
    /\ NextChild(w)
    /\ UNCHANGED <<now, phase, queue, leaked, client, recovering, replaying, skipped, uncharged>>

SkipChild(w) ==
    /\ Spawning(w) /\ (~CanCreate(w) \/ Fresh = {})
    /\ NextChild(w)
    /\ UNCHANGED <<now, phase, rows, queue, delayedTimers, leaked, sending, client,
                   recovering, replaying, skipped, uncharged>>

Complete(w) ==
    /\ worker[w].pc = "spawn" /\ worker[w].todo = <<>> /\ sending[w] = NoInst
    /\ IF UpdateOK(worker[w].inst) THEN Put(Completed(worker[w].inst)) ELSE UNCHANGED rows
    /\ worker' = [worker EXCEPT ![w] = Idle]
    /\ UNCHANGED <<now, phase, queue, delayedTimers, leaked, sending, client,
                   recovering, replaying, skipped, uncharged>>
-----------------------------------------------------------------------------
(* API calls.  Each reads the row, decides, and later overwrites it. *)
CanCall(k) == phase # "down" /\ client[k].op = "none" /\ sending[k] = NoInst

Add(k, c, delay, deadline) ==
    /\ CanCall(k) /\ Accepting /\ now <= LastAdd
    /\ c \in Fresh
    /\ LET i == NewInstance(c, Retries, now + delay, now + deadline) IN
       Put(i) /\ Schedule(k, i)
    /\ UNCHANGED <<now, phase, queue, leaked, worker, client, recovering, replaying,
                   skipped, uncharged>>

\* Get and the status test of Cancel, ReplayFromDLQ, the dashboard's retry (which
\* also takes FAILED rows) and the FindByStatus of PurgeDLQ.
Permits(op, r) ==
    CASE op = "cancel" -> Present(r) /\ ~IsTerminal(r.status)
      [] op = "replay" -> r.status \in {"FAILED", "DEAD_LETTER"}
      [] op = "purge"  -> r.status = "DEAD_LETTER" /\ r.done

Lookup(k, op, c) ==
    /\ CanCall(k) /\ op \in ApiOps
    /\ Permits(op, rows[c])
    /\ client' = [client EXCEPT ![k] = [op |-> op, inst |-> rows[c]]]
    /\ UNCHANGED <<now, phase, rows, queue, delayedTimers, leaked, worker, sending,
                   recovering, replaying, skipped, uncharged>>

Cancel(k) ==
    /\ client[k].op = "cancel" /\ phase # "down"
    /\ IF Present(rows[client[k].inst.id])
       THEN Put(Cancelled(client[k].inst)) ELSE UNCHANGED rows
    /\ client' = [client EXCEPT ![k] = NoCall]
    /\ UNCHANGED <<now, phase, queue, delayedTimers, leaked, worker, sending,
                   recovering, replaying, skipped, uncharged>>

ReplayFromDLQ(k) ==
    /\ client[k].op = "replay" /\ phase # "down"
    /\ LET i == Replayed(client[k].inst, now) IN
       IF Present(rows[i.id])
       THEN Put(i) /\ Schedule(k, i)
       ELSE UNCHANGED <<rows, sending, delayedTimers>>
    /\ client' = [client EXCEPT ![k] = NoCall]
    /\ UNCHANGED <<now, phase, queue, leaked, worker, recovering, replaying,
                   skipped, uncharged>>

Delete(c) ==
    rows' = [rows EXCEPT ![c] = IF Present(@) THEN Blank(c, "GONE") ELSE @]

PurgeDLQ(k) ==
    /\ client[k].op = "purge" /\ phase # "down"
    /\ Delete(client[k].inst.id)
    /\ client' = [client EXCEPT ![k] = NoCall]
    /\ UNCHANGED <<now, phase, queue, delayedTimers, leaked, worker, sending,
                   recovering, replaying, skipped, uncharged>>
-----------------------------------------------------------------------------
(* Maintenance loops.  Whether a row is old enough is left open. *)
LoopsUp == phase \in {"running", "stopping"}

Cleanup(c) ==
    /\ LoopsUp /\ "cleanup" \in ApiOps
    /\ IsTerminal(rows[c].status) /\ rows[c].done
    /\ Delete(c)
    /\ UNCHANGED <<now, phase, queue, delayedTimers, leaked, worker, sending, client,
                   recovering, replaying, skipped, uncharged>>

\* recoverStuckCommands: a snapshot of STARTED rows, then row by row.
FindStuck(S) ==
    /\ LoopsUp /\ "stuck" \in Faults
    /\ uncharged < MaxUncharged
    /\ recovering = {} /\ sending["recovery"] = NoInst
    /\ S # {} /\ \A c \in S : rows[c].status = "STARTED"
    /\ recovering' = {rows[c] : c \in S}
    /\ UNCHANGED <<now, phase, rows, queue, delayedTimers, leaked, worker, sending,
                   client, replaying, skipped, uncharged>>

RecoverStuck(i) ==
    /\ i \in recovering /\ sending["recovery"] = NoInst
    /\ recovering' = recovering \ {i}
    /\ IF UpdateOK(i)
       THEN Put(Recovered(i)) /\ Schedule("recovery", Recovered(i))
       ELSE UNCHANGED <<rows, sending, delayedTimers>>
    /\ uncharged' = uncharged + 1
    /\ UNCHANGED <<now, phase, queue, leaked, worker, client, replaying, skipped>>
-----------------------------------------------------------------------------
(* Life cycle (executor.go). *)
NoTimers == [c \in Cmd |-> NoInst]
DuePending == {c \in Cmd : rows[c].status \in {"PENDING", "REPEATING"} /\ rows[c].readyAt <= now}  \* mutant: STARTED rows left out
Due == {c \in Cmd : IsActive(rows[c].status) /\ rows[c].readyAt <= now}  \* FindPending

\* Start up to replay: runtime state is new, timers of an earlier run that are
\* still armed are forgotten, and FindPending's snapshot is taken.
Start ==
    /\ phase \in {"down", "stopped"}
    /\ phase' = "starting"
    /\ queue' = <<>>
    /\ leaked' = leaked \cup ({delayedTimers[c] : c \in Cmd} \ {NoInst})
    /\ delayedTimers' = NoTimers
    /\ sending' = [a \in Actor |-> NoInst]
    /\ replaying' = {rows[c] : c \in Due}
    /\ skipped' = {c \in Cmd : IsActive(rows[c].status) /\ rows[c].readyAt > now}
    /\ UNCHANGED <<now, rows, worker, client, recovering, uncharged>>

Replay(i) ==
    /\ phase = "starting" /\ i \in replaying /\ sending["start"] = NoInst
    /\ replaying' = replaying \ {i}
    /\ Schedule("start", i)
    /\ UNCHANGED <<now, phase, rows, queue, leaked, worker, client, recovering,
                   skipped, uncharged>>

StartDone ==
    /\ phase = "starting" /\ replaying = {} /\ sending["start"] = NoInst
    /\ phase' = "running"
    /\ UNCHANGED <<now, rows, queue, delayedTimers, leaked, worker, sending, client,
                   recovering, replaying, skipped, uncharged>>

Stop ==
    /\ phase = "running" /\ "stop" \in Faults
    /\ uncharged < MaxUncharged
    /\ uncharged' = uncharged + 1
    /\ phase' = "stopping"
    /\ UNCHANGED <<now, rows, queue, delayedTimers, leaked, worker, sending, client,
                   recovering, replaying, skipped>>

\* cancelDelayedTimers and e.cancel(), after the dashboard has been shut down.
StopCancel ==
    /\ phase = "stopping"
    /\ phase' = "draining"
    /\ delayedTimers' = NoTimers
    /\ UNCHANGED <<now, rows, queue, leaked, worker, sending, client,
                   recovering, replaying, skipped, uncharged>>

\* wg.Wait returns.  (A Stop that times out while a handler hangs is not followed
\* by another Start here; the process is then expected to exit: Crash.)
StopDone ==
    /\ phase = "draining"
    /\ \A w \in Worker : worker[w] = Idle /\ sending[w] = NoInst
    /\ recovering = {} /\ sending["recovery"] = NoInst
    /\ phase' = "stopped"
    /\ UNCHANGED <<now, rows, queue, delayedTimers, leaked, worker, sending, client,
                   recovering, replaying, skipped, uncharged>>

\* The process dies: only the storage survives.
Crash ==
    /\ phase # "down" /\ "crash" \in Faults
    /\ uncharged < MaxUncharged
    /\ uncharged' = uncharged + 1
    /\ phase' = "down"
    /\ queue' = <<>>
    /\ delayedTimers' = NoTimers
    /\ leaked' = {}
    /\ worker' = [w \in Worker |-> Idle]
    /\ sending' = [a \in Actor |-> NoInst]
    /\ client' = [k \in Client |-> NoCall]
    /\ recovering' = {}
    /\ replaying' = {}
    /\ UNCHANGED <<now, rows, skipped>>

Tick ==
    /\ now < MaxTime
    /\ now' = now + 1
    /\ UNCHANGED <<phase, rows, queue, delayedTimers, leaked, worker, sending, client,
                   recovering, replaying, skipped, uncharged>>
-----------------------------------------------------------------------------
Plans == KidPlans \cup {<<>>}

\* A worker takes a copy off the queue and decides what to do with it.
Take(w) ==
    \/ Drop(w)
    \/ HandleExpired(w)
    \/ NotReady(w)
    \/ NotRegistered(w)
    \/ Begin(w)
    \/ WaitSlot(w)

\* A worker proceeds with the copy it has.
Proceed(w) ==
    \/ GotSlot(w)
    \/ SlotRefused(w)
    \/ ResultRepeat(w)
    \/ ResultRetry(w)
    \/ \E plan \in Plans : ResultDone(w, plan)
    \/ ErrorRetry(w)
    \/ ErrorFinal(w)
    \/ \E plan \in Plans : CallbackDone(w, plan)
    \/ Panic(w)
    \/ \E c \in Cmd : SpawnChild(w, c)
    \/ SkipChild(w)
    \/ Complete(w)

Call(k) ==
    \/ \E c \in Cmd, delay \in Delays, deadline \in Deadlines \cup {NoDeadline} :
          Add(k, c, delay, deadline)
    \/ \E op \in {"cancel", "replay", "purge"}, c \in Cmd : Lookup(k, op, c)

Return(k) == Cancel(k) \/ ReplayFromDLQ(k) \/ PurgeDLQ(k)

Next ==
    \/ \E w \in Worker : Take(w) \/ Proceed(w)
    \/ \E a \in Actor : Enqueue(a) \/ Abandon(a)
    \/ \E c \in Cmd : Fire(c)
    \/ \E t \in leaked : FireLeaked(t)
    \/ \E k \in Client : Call(k) \/ Return(k)
    \/ \E c \in Cmd : Cleanup(c)
    \/ \E S \in SUBSET Cmd : FindStuck(S)
    \/ \E i \in recovering : RecoverStuck(i)
    \/ Start
    \/ \E i \in replaying : Replay(i)
    \/ StartDone
    \/ Stop
    \/ StopCancel
    \/ StopDone
    \/ Crash
    \/ Tick

Spec == Init /\ [][Next]_vars

\* Time passes; a handler returns; the operator starts the executor again; a
\* receive on a non-empty channel is taken by some worker; and since the Go
\* runtime queues blocked senders first come first served, a sender that finds
\* room again and again gets in.
Fairness ==
    /\ WF_vars(Tick)
    /\ WF_vars(Start \/ StartDone \/ StopCancel \/ StopDone)
    /\ WF_vars(\E i \in replaying : Replay(i))
    /\ WF_vars(\E w \in Worker : Take(w))
    /\ \A w \in Worker : WF_vars(Proceed(w))
    /\ \A a \in Actor : SF_vars(Enqueue(a))
    /\ WF_vars(\E a \in Actor : Abandon(a))
    /\ \A c \in Cmd : WF_vars(Fire(c))
    /\ \A k \in Client : WF_vars(Return(k))

FairSpec == Spec /\ Fairness
-----------------------------------------------------------------------------
\* The copies of command c that some worker may still execute.
InQueue(c) == \E n \in DOMAIN queue : queue[n].id = c
InTimer(c) == delayedTimers[c] # NoInst \/ \E t \in leaked : t.inst.id = c
InSend(c) == \E a \in Actor : sending[a] # NoInst /\ sending[a].id = c
InReplay(c) == \E i \in replaying : i.id = c
InWorker(c) == \E w \in Worker : worker[w].pc \in {"acquire", "running"} /\ worker[w].inst.id = c
Carried(c) == InQueue(c) \/ InTimer(c) \/ InSend(c) \/ InReplay(c) \/ InWorker(c)

\* A worker about to write COMPLETED over the row.
Completing(c) == \E w \in Worker : worker[w].pc = "spawn" /\ worker[w].inst.id = c

\* While the executor runs, no active command is forgotten: its row is PENDING,
\* STARTED or REPEATING only while the queue, a timer, a blocked send, the replay
\* or a worker holds a copy of it (the rows that the last Start itself did not
\* load excepted: those whose ReadyAt lay in the future).
NothingLost ==
    phase = "running" =>
        \A c \in Cmd : IsActive(rows[c].status) =>
            Carried(c) \/ Completing(c) \/ c \in skipped

\* A command that ended on its own (not by Cancel) has no copy left that could run
\* it again: queue, timers, sends, replay and workers have all let go of it.
FinishedNotCarried ==
    \A c \in Cmd : rows[c].status \in {"COMPLETED", "FAILED", "EXPIRED", "DEAD_LETTER"} =>
        ~Carried(c)

\* No two workers run the handler of the same command at once.
NoConcurrentRuns ==
    \A v, w \in Worker :
        worker[v].pc = "running" /\ worker[w].pc = "running"
        /\ worker[v].inst.id = worker[w].inst.id => v = w

\* Attempts are paid for: what a command has run, plus what it may still be
\* retried, never exceeds its budget and the re-runs nobody charges for (repeats,
\* crashes, stops, recoveries of stuck commands).
RetryBudget ==
    \A c \in Cmd : rows[c].attempt + rows[c].retries <= 1 + Retries + uncharged

\* A step in which worker w calls the handler of command c.
Starts(w, c) ==
    worker[w].pc # "running" /\ worker'[w].pc = "running" /\ worker'[w].inst.id = c

\* A handler is never started before the ReadyAt of its row, although a timer
\* capped at maxDelay fires early.
NeverEarly ==
    [][\A w \in Worker, c \in Cmd : Starts(w, c) => now >= rows[c].readyAt]_vars

\* A deleted row stays deleted: no late Update of a copy brings it back.
GoneStaysGone ==
    [][\A c \in Cmd : rows[c].status = "GONE" => rows'[c].status = "GONE"]_vars

\* "If the command hasn't started by this time, Expired() is called instead":
\* no handler starts after the deadline.
DeadlineRespected ==
    [][\A w \in Worker, c \in Cmd : Starts(w, c) => now <= rows[c].deadlineAt]_vars

\* "IsTerminal returns true if the status represents a final state": only a replay
\* leaves a terminal status.
TerminalIsFinal ==
    [][\A c \in Cmd : IsTerminal(rows[c].status) =>
          \/ IsTerminal(rows'[c].status) \/ rows'[c].status = "GONE"
          \/ \E k \in Client : client[k].op = "replay" /\ client[k].inst.id = c]_vars

\* Every command that is added ends: its row reaches a terminal status.  (A row
\* rescheduled beyond the last tick of the model's clock is out of its reach.)
Unfinished(c) == IsActive(rows[c].status) /\ rows[c].readyAt <= MaxTime
EventuallyTerminal == \A c \in Cmd : Unfinished(c) ~> ~Unfinished(c)

\* "Cancel cancels a pending command": a worker may still have taken it up, but a
\* command that has been cancelled comes to an end for all that, also across a
\* restart, which "pick[s] up where you left off".
CancelledEnds ==
    \A c \in Cmd : [](rows[c].status = "CANCELLED" => []<>~Unfinished(c))
=============================================================================
