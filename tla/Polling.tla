------------------------------- MODULE Polling -------------------------------
(***************************************************************************)
(* The executor in polling mode: several processes over one storage that   *)
(* implements LockingStorage (postgres.go).  A worker claims a batch of    *)
(* rows in one transaction, which marks them STARTED, and executes the     *)
(* copies one after the other; scheduleFn does nothing, since whatever is  *)
(* PENDING in the storage is found by some later poll.  Nothing records    *)
(* who claimed a row: the stuck-command loop of any process takes back a   *)
(* row that has been STARTED for longer than a threshold.                  *)
(*                                                                         *)
(* `since' is the column started_at: ClaimPending sets it, and no other    *)
(* statement leaves a row STARTED.  The priorities that order a batch are  *)
(* left open, so a batch is a set.                                         *)
(***************************************************************************)
EXTENDS Instances, FiniteSets

CONSTANTS
    Proc,           \* executor processes
    Worker,         \* polling workers of all processes
    Host,           \* the process of each worker
    Recoverer,      \* processes with stuck-command recovery enabled
    Client,         \* callers of Cancel, ReplayFromDLQ and the dashboard
    ClaimBatchSize, \* e.claimBatchSize
    Threshold,      \* e.stuckThreshold
    BatchesInTime,  \* is the threshold longer than a batch may take?
    Retries,        \* retry budget of a new command
    Delays,         \* delays a caller may ask for
    Deadlines,      \* relative deadlines a caller may ask for
    Backoff,        \* delay of e.backoff before a retry
    Period,         \* repeat interval
    Unregistered,   \* ids whose command name has no handler
    DeadLetter,     \* e.deadLetterEnabled
    Limited,        \* e.rateLimiter # nil
    CtxAware,       \* does the storage fail once its context is cancelled?
    Outcomes,       \* "ok", "repeat", "retry", "error", "panic", "callback panic"
    ApiOps,         \* "cancel", "replay", "cleanup"
    Faults,         \* "crash", "stop", "lost"
    MaxFaults,      \* bound on faults
    LastFault,      \* faults happen up to this tick
    MaxAttempt,     \* bound on the runs of a repeating command
    MaxTime,        \* bound on the clock
    LastAdd         \* commands are added up to this tick

NoDeadline == MaxTime + 1

ASSUME PollingAssumption ==
    /\ Host \in [Worker -> Proc]
    /\ Recoverer \subseteq Proc
    /\ {ClaimBatchSize, Threshold, Period} \subseteq Nat \ {0}
    /\ Retries \in Nat /\ Backoff \in Nat
    /\ Delays \subseteq Nat /\ Deadlines \subseteq Nat
    /\ Unregistered \subseteq Cmd
    /\ {BatchesInTime, DeadLetter, Limited, CtxAware} \subseteq BOOLEAN
    /\ {MaxFaults, LastFault, MaxAttempt, MaxTime, LastAdd} \subseteq Nat

VARIABLES
    now,     \* the clock
    up,      \* life cycle of each process, as phase in QueueExecutor
    rows,    \* the storage
    since,   \* started_at of each row
    worker,  \* each worker's position in execute, its copy and the rest of its batch
    client,  \* API calls between their Get and their Update
    snap,    \* the stuck rows each process's loop is working through
    faults   \* faults so far

vars == <<now, up, rows, since, worker, client, snap, faults>>

Idle == [pc |-> "loop", inst |-> NoInst, rest |-> {}]
NoCall == [op |-> "none", inst |-> NoInst]

TypeOK ==
    /\ now \in Nat
    /\ up \in [Proc -> {"down", "running", "stopping", "draining"}]
    /\ rows \in [Cmd -> Row]
    /\ \A c \in Cmd : rows[c].id = c
    /\ since \in [Cmd -> Nat]
    /\ worker \in [Worker -> [pc : {"loop", "acquire", "running", "spawn", "callback"},
                              inst : Instance \cup {NoInst}, rest : SUBSET Instance]]
    /\ \A w \in Worker : worker[w].pc # "loop" => worker[w].inst # NoInst
    /\ client \in [Client -> [op : {"none", "cancel", "replay"},
                              inst : Instance \cup {NoInst}]]
    /\ \A k \in Client : client[k].op # "none" => client[k].inst # NoInst
    /\ snap \in [Proc -> SUBSET Instance]
    /\ faults \in Nat

Init ==
    /\ now = 0
    /\ up = [p \in Proc |-> "down"]
    /\ rows = [c \in Cmd |-> Blank(c, "NONE")]
    /\ since = [c \in Cmd |-> 0]
    /\ worker = [w \in Worker |-> Idle]
    /\ client = [k \in Client |-> NoCall]
    /\ snap = [p \in Proc |-> {}]
    /\ faults = 0

Stopping(p) == up[p] \in {"stopping", "draining"}
CtxDone(p) == up[p] = "draining"

Fault(kind) ==
    /\ kind \in Faults
    /\ faults < MaxFaults /\ now <= LastFault
    /\ faults' = faults + 1
-----------------------------------------------------------------------------
(* The storage: Update replaces the whole row of an id that exists. *)
UpdateOK(p, i) == Present(rows[i.id]) /\ ~(CtxAware /\ CtxDone(p))
Put(i) == rows' = [rows EXCEPT ![i.id] = i]
Update(p, i) == IF UpdateOK(p, i) THEN Put(i) ELSE UNCHANGED rows
Fresh == {c \in Cmd : rows[c].status = "NONE"}

\* Mutant: the rows FindPending would return, STARTED ones included.
ClaimableActive == {c \in Cmd : IsActive(rows[c].status) /\ rows[c].readyAt <= now}
Claimable == {c \in Cmd : rows[c].status \in {"PENDING", "REPEATING"} /\ rows[c].readyAt <= now}

\* The transaction of ClaimPending on the rows S; rows that another transaction
\* has locked are skipped, so S need not be all there is.
MarkStarted(S) ==
    /\ S # {} /\ S \subseteq Claimable /\ Cardinality(S) <= ClaimBatchSize
    /\ rows' = [c \in Cmd |-> IF c \in S THEN Started(rows[c]) ELSE rows[c]]
    /\ since' = [c \in Cmd |-> IF c \in S THEN now ELSE since[c]]

Polls(w) == up[Host[w]] = "running" /\ worker[w].pc = "loop" /\ worker[w].rest = {}

ClaimPending(w, S) ==
    /\ Polls(w)
    /\ MarkStarted(S)
    /\ worker' = [worker EXCEPT ![w].rest = {Started(rows[c]) : c \in S}]
    /\ UNCHANGED <<now, up, client, snap, faults>>

\* The commit takes effect but its answer does not arrive: rows nobody holds.
ClaimLost(w, S) ==
    /\ Polls(w)
    /\ Fault("lost")
    /\ MarkStarted(S)
    /\ UNCHANGED <<now, up, worker, client, snap>>
-----------------------------------------------------------------------------
(* execute, for a claimed copy. *)
Takes(w, i) ==
    worker[w].pc = "loop" /\ i \in worker[w].rest /\ ~Stopping(Host[w])

\* The position after copy i has been taken off the batch.
At(w, pc, i) ==
    worker' = [worker EXCEPT ![w] = [pc |-> pc, inst |-> i, rest |-> @.rest \ {i}]]

\* Back to the loop over the batch, which goes on with the next copy.
BackToLoop(w) ==
    worker' = [worker EXCEPT ![w] = [pc |-> "loop", inst |-> NoInst, rest |-> @.rest]]

\* The rest of the batch stays STARTED in the storage.
DropRest(w) ==
    /\ worker[w].pc = "loop" /\ worker[w].rest # {}
    /\ Stopping(Host[w])
    /\ worker' = [worker EXCEPT ![w] = Idle]
    /\ UNCHANGED <<now, up, rows, since, client, snap, faults>>

HandleExpired(w, i) ==
    /\ Takes(w, i) /\ now > i.deadlineAt
    /\ Update(Host[w], Expired(i))
    /\ worker' = [worker EXCEPT ![w] =
          IF UpdateOK(Host[w], i) /\ i.id \notin Unregistered
          THEN [pc |-> "callback", inst |-> Expired(i), rest |-> @.rest \ {i}]
          ELSE [pc |-> "loop", inst |-> NoInst, rest |-> @.rest \ {i}]]
    /\ UNCHANGED <<now, up, since, client, snap, faults>>

NotRegistered(w, i) ==
    /\ Takes(w, i) /\ now <= i.deadlineAt /\ i.id \in Unregistered
    /\ Update(Host[w], Unresolved(i))
    /\ worker' = [worker EXCEPT ![w].rest = @ \ {i}]
    /\ UNCHANGED <<now, up, since, client, snap, faults>>

\* ClaimPending has made the STARTED transition: the handler is called, or the
\* worker waits for the rate limiter first.
Run(w, i) ==
    /\ Takes(w, i) /\ now <= i.deadlineAt /\ i.id \notin Unregistered
    /\ At(w, IF Limited THEN "acquire" ELSE "running", i)
    /\ UNCHANGED <<now, up, rows, since, client, snap, faults>>

GotSlot(w) ==
    /\ worker[w].pc = "acquire"
    /\ worker' = [worker EXCEPT ![w].pc = "running"]
    /\ UNCHANGED <<now, up, rows, since, client, snap, faults>>

\* Acquire fails when the executor stops; the row is to become PENDING again, by
\* an Update under the context that has just been cancelled.
SlotRefused(w) ==
    /\ worker[w].pc = "acquire"
    /\ CtxDone(Host[w])
    /\ Update(Host[w], [worker[w].inst EXCEPT !.status = "PENDING"])
    /\ BackToLoop(w)
    /\ UNCHANGED <<now, up, since, client, snap, faults>>

Running(w) == worker[w].pc = "running"

\* The outcome is written; a later poll finds the row if it is to run again.
Settle(w, i) ==
    /\ Update(Host[w], i)
    /\ BackToLoop(w)
    /\ UNCHANGED <<now, up, since, client, snap, faults>>

ResultRepeat(w) ==
    /\ Running(w) /\ "repeat" \in Outcomes
    /\ worker[w].inst.attempt < MaxAttempt
    /\ Settle(w, Repeating(worker[w].inst, now + Period))

ResultRetry(w) ==
    /\ Running(w) /\ "retry" \in Outcomes
    /\ worker[w].inst.retries > 0
    /\ Settle(w, Retrying(worker[w].inst))

\* Success, or Retry() with the budget spent: children first, COMPLETED last.
ResultDone(w) ==
    /\ Running(w)
    /\ \/ "ok" \in Outcomes
       \/ "retry" \in Outcomes /\ worker[w].inst.retries = 0
    /\ worker' = [worker EXCEPT ![w].pc = "spawn"]
    /\ UNCHANGED <<now, up, rows, since, client, snap, faults>>

\* spawnChildren, and the Adds after Expired and Recover, create any number of
\* rows; a Create that fails is skipped.
Spawn(w, c, delay) ==
    /\ worker[w].pc \in {"spawn", "callback"}
    /\ c \in Fresh /\ ~(CtxAware /\ CtxDone(Host[w]))
    /\ Put(NewInstance(c, Retries, now + delay, NoDeadline))
    /\ UNCHANGED <<now, up, since, worker, client, snap, faults>>

Complete(w) ==
    /\ worker[w].pc = "spawn"
    /\ Settle(w, Completed(worker[w].inst))

\* Mutant: the budget is not looked at.
ErrorRetryAlways(w) ==
    /\ Running(w) /\ "error" \in Outcomes
    /\ Settle(w, BackedOff(worker[w].inst, now + Backoff))

ErrorRetry(w) ==
    /\ Running(w) /\ "error" \in Outcomes
    /\ worker[w].inst.retries > 0
    /\ Settle(w, BackedOff(worker[w].inst, now + Backoff))

\* Mutant: a command that fails takes the rest of its batch with it.
ErrorFinalDropsBatch(w) ==
    /\ Running(w) /\ "error" \in Outcomes
    /\ worker[w].inst.retries = 0
    /\ Update(Host[w], Failed(worker[w].inst, DeadLetter))
    /\ worker' = [worker EXCEPT ![w] = Idle]
    /\ UNCHANGED <<now, up, since, client, snap, faults>>

ErrorFinal(w) ==
    /\ Running(w) /\ "error" \in Outcomes
    /\ worker[w].inst.retries = 0
    /\ LET i == Failed(worker[w].inst, DeadLetter) IN
       /\ Update(Host[w], i)
       /\ IF UpdateOK(Host[w], i)
          THEN worker' = [worker EXCEPT ![w] = [pc |-> "callback", inst |-> i, rest |-> @.rest]]
          ELSE BackToLoop(w)
    /\ UNCHANGED <<now, up, since, client, snap, faults>>

CallbackDone(w) ==
    /\ worker[w].pc = "callback"
    /\ BackToLoop(w)
    /\ UNCHANGED <<now, up, rows, since, client, snap, faults>>

\* The update uses a context of its own, so only a missing row fails it.
Panic(w) ==
    /\ \/ Running(w) /\ "panic" \in Outcomes
       \/ worker[w].pc = "callback" /\ "callback panic" \in Outcomes
    /\ IF Present(rows[worker[w].inst.id])
       THEN Put(Panicked(worker[w].inst)) ELSE UNCHANGED rows
    /\ BackToLoop(w)
    /\ UNCHANGED <<now, up, since, client, snap, faults>>
-----------------------------------------------------------------------------
(* API calls and loops. *)
Accepting == \E p \in Proc : up[p] # "down"

Add(k, c, delay, deadline) ==
    /\ client[k].op = "none" /\ Accepting /\ now <= LastAdd
    /\ c \in Fresh
    /\ Put(NewInstance(c, Retries, now + delay, now + deadline))
    /\ UNCHANGED <<now, up, since, worker, client, snap, faults>>

Permits(op, r) ==
    CASE op = "cancel" -> Present(r) /\ ~IsTerminal(r.status)
      [] op = "replay" -> r.status \in {"FAILED", "DEAD_LETTER"}

Lookup(k, op, c) ==
    /\ client[k].op = "none" /\ Accepting /\ op \in ApiOps
    /\ Permits(op, rows[c])
    /\ client' = [client EXCEPT ![k] = [op |-> op, inst |-> rows[c]]]
    /\ UNCHANGED <<now, up, rows, since, worker, snap, faults>>

\* The second half of Cancel, ReplayFromDLQ and the dashboard's retry.
Overwrite(k) ==
    /\ client[k].op # "none"
    /\ LET i == IF client[k].op = "cancel" THEN Cancelled(client[k].inst)
                                           ELSE Replayed(client[k].inst, now) IN
       IF Present(rows[i.id]) THEN Put(i) ELSE UNCHANGED rows
    /\ client' = [client EXCEPT ![k] = NoCall]
    /\ UNCHANGED <<now, up, since, worker, snap, faults>>

LoopsUp(p) == up[p] \in {"running", "stopping"}

Cleanup(p, c) ==
    /\ LoopsUp(p) /\ "cleanup" \in ApiOps
    /\ IsTerminal(rows[c].status) /\ rows[c].done
    /\ Put(Blank(c, "GONE"))
    /\ UNCHANGED <<now, up, since, worker, client, snap, faults>>

\* Mutants: the threshold is not looked at, or nothing is ever stuck.
StuckAtOnce(c) == rows[c].status = "STARTED"
StuckNever(c) == FALSE
Stuck(c) == rows[c].status = "STARTED" /\ now >= since[c] + Threshold

\* recoverStuckCommands: a snapshot, then row by row.  The query and the reading of
\* the clock after it are one step, so a query is taken to answer within a tick.
FindStuck(p) ==
    /\ p \in Recoverer /\ LoopsUp(p) /\ snap[p] = {}
    /\ \E c \in Cmd : Stuck(c)
    /\ snap' = [snap EXCEPT ![p] = {rows[c] : c \in {d \in Cmd : Stuck(d)}}]
    /\ UNCHANGED <<now, up, rows, since, worker, client, faults>>

RecoverStuck(p, i) ==
    /\ i \in snap[p]
    /\ snap' = [snap EXCEPT ![p] = @ \ {i}]
    /\ Update(p, Recovered(i))
    /\ UNCHANGED <<now, up, since, worker, client, faults>>
-----------------------------------------------------------------------------
(* Life cycle.  Start replays nothing in polling mode. *)
Start(p) ==
    /\ up[p] = "down"
    /\ up' = [up EXCEPT ![p] = "running"]
    /\ UNCHANGED <<now, rows, since, worker, client, snap, faults>>

Stop(p) ==
    /\ up[p] = "running"
    /\ Fault("stop")
    /\ up' = [up EXCEPT ![p] = "stopping"]
    /\ UNCHANGED <<now, rows, since, worker, client, snap>>

StopCancel(p) ==
    /\ up[p] = "stopping"
    /\ up' = [up EXCEPT ![p] = "draining"]
    /\ UNCHANGED <<now, rows, since, worker, client, snap, faults>>

StopDone(p) ==
    /\ up[p] = "draining"
    /\ \A w \in Worker : Host[w] = p => worker[w] = Idle
    /\ snap[p] = {}
    /\ up' = [up EXCEPT ![p] = "down"]
    /\ UNCHANGED <<now, rows, since, worker, client, snap, faults>>

Crash(p) ==
    /\ up[p] # "down"
    /\ Fault("crash")
    /\ up' = [up EXCEPT ![p] = "down"]
    /\ worker' = [w \in Worker |-> IF Host[w] = p THEN Idle ELSE worker[w]]
    /\ snap' = [snap EXCEPT ![p] = {}]
    /\ UNCHANGED <<now, rows, since, client>>

\* The claims a worker has not settled.
Held(w) ==
    worker[w].rest \cup
    (IF worker[w].pc \in {"acquire", "running", "spawn"} THEN {worker[w].inst} ELSE {})

Tick ==
    /\ now < MaxTime
    /\ BatchesInTime =>
          \A w \in Worker : \A i \in Held(w) : now + 1 < since[i.id] + Threshold
    /\ now' = now + 1
    /\ UNCHANGED <<up, rows, since, worker, client, snap, faults>>
-----------------------------------------------------------------------------
Claim(w) == \E S \in SUBSET Cmd : ClaimPending(w, S)

Execute(w) ==
    \/ DropRest(w)
    \/ \E i \in worker[w].rest : HandleExpired(w, i) \/ NotRegistered(w, i) \/ Run(w, i)
    \/ GotSlot(w)
    \/ SlotRefused(w)
    \/ ResultRepeat(w)
    \/ ResultRetry(w)
    \/ ResultDone(w)
    \/ Complete(w)
    \/ ErrorRetry(w)
    \/ ErrorFinal(w)
    \/ CallbackDone(w)
    \/ Panic(w)

Call(k) ==
    \/ \E c \in Cmd, delay \in Delays, deadline \in Deadlines \cup {NoDeadline} :
          Add(k, c, delay, deadline)
    \/ \E op \in {"cancel", "replay"}, c \in Cmd : Lookup(k, op, c)
    \/ Overwrite(k)

Recover(p) == FindStuck(p) \/ \E i \in snap[p] : RecoverStuck(p, i)

Next ==
    \/ \E w \in Worker : Claim(w) \/ Execute(w)
    \/ \E w \in Worker, S \in SUBSET Cmd : ClaimLost(w, S)
    \/ \E w \in Worker, c \in Cmd, delay \in Delays : Spawn(w, c, delay)
    \/ \E k \in Client : Call(k)
    \/ \E p \in Proc, c \in Cmd : Cleanup(p, c)
    \/ \E p \in Proc : Recover(p)
    \/ \E p \in Proc : Start(p) \/ Stop(p) \/ StopCancel(p) \/ StopDone(p) \/ Crash(p)
    \/ Tick

Spec == Init /\ [][Next]_vars

\* Time passes, as often as BatchesInTime lets it; workers poll and handlers return;
\* the loops run; an operator starts a process again and a Stop goes through.  No
\* caller has to finish its call.
Fairness ==
    /\ SF_vars(Tick)
    /\ \A w \in Worker : WF_vars(Claim(w)) /\ WF_vars(Execute(w))
    /\ \A p \in Proc : WF_vars(Recover(p)) /\ WF_vars(Start(p) \/ StopCancel(p) \/ StopDone(p))

FairSpec == Spec /\ Fairness
-----------------------------------------------------------------------------
\* "Multiple executor instances can safely run concurrently - each will claim
\* different commands": no command is claimed by two workers at once, nor twice
\* by one, through retries, repeats, recovery, replay and restarts.
ClaimExclusive ==
    \A v, w \in Worker : \A i \in Held(v), j \in Held(w) :
        i.id = j.id => v = w /\ i = j

\* While a worker holds a claim its copy is the row: nobody but Cancel (and then
\* the cleanup of what was cancelled) has written to it, so the outcome the worker
\* will write loses no other update.
LeaseHeld ==
    \A w \in Worker : \A i \in Held(w) :
        rows[i.id] = i \/ rows[i.id].status \in {"CANCELLED", "GONE"}

\* Without crashes, stops and lost answers no row is left STARTED that no worker
\* holds: whatever happens to one command of a batch, the others get their turn.
NoOrphans ==
    faults = 0 =>
        \A c \in Cmd : rows[c].status = "STARTED" =>
            \E w \in Worker : \E i \in Held(w) : i.id = c

\* Every command ends, although processes die with claimed rows, as long as some
\* process recovers stuck commands.
Unfinished(c) == IsActive(rows[c].status) /\ rows[c].readyAt <= MaxTime
EventuallyTerminal == \A c \in Cmd : Unfinished(c) ~> ~Unfinished(c)
=============================================================================
