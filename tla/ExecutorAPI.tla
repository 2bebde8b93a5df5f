----------------------------- MODULE ExecutorAPI -----------------------------
(***************************************************************************)
(* The executor in queue mode as many callers meet it at once: Add and     *)
(* spawned children with unique keys, cancels and retries through the API, *)
(* the dashboard and the command line tool, permanent commands, and Start  *)
(* and Stop with their wait group (executor_api.go, executor.go,           *)
(* dashboard.go, cmd/durex/commands).  Every call is split where it lets   *)
(* go of what it has read.                                                 *)
(*                                                                         *)
(* Commands are due at once and rows are not deleted: delays, timers and   *)
(* deletions are the business of QueueExecutor.  A row is its status and   *)
(* its unique key; NONE is no row.                                         *)
(***************************************************************************)
EXTENDS Instances, Integers, FiniteSets

CONSTANTS Key,          \* unique keys
          NoKey,        \* the empty key
          DefaultKey,   \* UniqueKey of the handler's Default(), or NoKey
          Client,       \* callers of the API, the dashboard or the tool
          Starter,      \* the goroutine that calls Start
          Worker,       \* worker goroutines of all runs
          Parallelism,  \* workers one Start launches
          Permanent,    \* keys of the permanent commands, NoKey for one without
          MaxStarts,    \* bound: how often Start is called
          MaxCalls      \* bound: how many calls the clients begin

Caller == Client \cup {Starter}

ASSUME APIAssumption ==
    /\ NoKey \notin Key
    /\ DefaultKey \in Key \cup {NoKey} /\ Permanent \subseteq Key \cup {NoKey}
    /\ Starter \notin Client
    /\ IsFiniteSet(Worker) /\ Parallelism \in Nat \ {0}
    /\ {"off", "idle", "leaving"} \cap Cmd = {}

VARIABLES status, key,        \* the rows
          copies,             \* copies of a row in the channel
          worker,             \* off, idle, the row it executes, or leaving
          wg,                 \* e.wg
          started, stopping,  \* the two flags; e.ctx is done while stopping
          client,             \* what a caller is in the middle of
          todo,               \* permanent commands Start has still to add
          starts, calls

\* What has happened so far; the code keeps no record of it.
VARIABLES loose,    \* keys whose rows were not only made by Adds one after another
          raced,    \* rows a retry or a Start put into the channel beside a copy
          overrun,  \* a Start came while workers of the run before were still there
          orphaned, \* a failed Start or a Stop that timed out left its workers, and no
                    \* Stop has waited for them since
          quiet     \* the last Stop to return returned nil, and no Start followed

rowVars == <<status, key>>
execVars == <<copies, worker, wg, started, stopping>>
histVars == <<loose, raced, overrun, orphaned, quiet>>
vars == <<status, key, copies, worker, wg, started, stopping, client, todo, starts, calls,
          loose, raced, overrun, orphaned, quiet>>

Idle == [op |-> "idle", cli |-> FALSE, ids |-> {}, key |-> NoKey]
Empty == [i \in Cmd |-> 0]

Init ==
    /\ status = [i \in Cmd |-> "NONE"]
    /\ key = [i \in Cmd |-> NoKey]
    /\ copies = Empty
    /\ worker = [w \in Worker |-> "off"]
    /\ wg = 0
    /\ started = FALSE /\ stopping = FALSE
    /\ client = [c \in Caller |-> Idle]
    /\ todo = {}
    /\ starts = 0 /\ calls = 0
    /\ loose = {} /\ raced = {} /\ overrun = FALSE /\ orphaned = FALSE /\ quiet = FALSE
-----------------------------------------------------------------------------
Fresh == {i \in Cmd : status[i] = "NONE"}

\* FindByUniqueKey
Holders(k) == {i \in Cmd : key[i] = k /\ IsActive(status[i])}

\* Row i is being executed; somebody is about to schedule it.
Executed(i) == \E w \in Worker : worker[w] = i
Schedules(c, i) == client[c].op = "schedule" /\ i \in client[c].ids
Scheduling(i) == \E c \in Caller : Schedules(c, i)

Live == {w \in Worker : worker[w] # "off"}

\* Start has been called in this process: e.scheduleFn is queueSchedule and no
\* longer the no-op of New.
Queues == stopping \/ Live # {}

\* A client begins a call.
Calls(c) == client[c] = Idle /\ calls < MaxCalls /\ calls' = calls + 1

Does(c, does) == client' = [client EXCEPT ![c] = does]

\* A copy goes into the channel; once e.ctx is done it may be dropped instead.
Send(i) == \/ copies' = [copies EXCEPT ![i] = @ + 1]
           \/ stopping /\ UNCHANGED copies

\* The keys that become loose when row i is written with an active status.
Reopened(i) == IF IsTerminal(status[i]) THEN {key[i]} \ {NoKey} ELSE {}
-----------------------------------------------------------------------------
\* mergeSpecs and createInstance: what the user leaves empty the handler fills in.
Merge(user) == IF user = NoKey THEN DefaultKey ELSE user

\* The keys that become loose when c has found key k free beside another caller
\* that has found it free too.
Overlap(c, k) ==
    IF \E d \in Caller \ {c} : client[d].op = "create" /\ client[d].key = k THEN {k} \ {NoKey} ELSE {}

\* Mutant: only a command that has not begun keeps its key.
MutKeyFree(k) == k = NoKey \/ {i \in Holders(k) : status[i] = "PENDING"} = {}

KeyFree(k) == k = NoKey \/ Holders(k) = {}

\* Add, first half; a key that is taken is ErrDuplicateCommand and no step.
AddCheck(c, user) ==
    LET k == Merge(user) IN
    /\ started
    /\ Calls(c)
    /\ KeyFree(k)
    /\ Does(c, [Idle EXCEPT !.op = "create", !.key = k])
    /\ loose' = loose \cup Overlap(c, k)
    /\ UNCHANGED <<rowVars, execVars, todo, starts, raced, overrun, orphaned, quiet>>

\* Add, second half: storage.Create, which may fail, and then scheduleFn.
AddCreate(c, i) ==
    /\ client[c].op = "create"
    /\ i \in Fresh
    /\ status' = [status EXCEPT ![i] = "PENDING"]
    /\ key' = [key EXCEPT ![i] = client[c].key]
    /\ Does(c, [Idle EXCEPT !.op = "schedule", !.ids = {i}])
    /\ UNCHANGED <<execVars, todo, starts, calls, histVars>>

\* The Create or the Update of a call fails.  CancelByTag then goes on with its
\* next row, as if it had not found this one.
CallFails(c) ==
    /\ client[c].op \in {"create", "retry", "cancel"}
    /\ Does(c, Idle)
    /\ UNCHANGED <<rowVars, execVars, todo, starts, calls, histVars>>

\* scheduleFn.  A retry before the first Start schedules nothing: Start will replay.
Schedule(c) ==
    /\ client[c].op = "schedule"
    /\ IF Queues THEN \E i \in client[c].ids : Send(i) ELSE UNCHANGED copies
    /\ Does(c, Idle)
    /\ UNCHANGED <<rowVars, worker, wg, started, stopping, todo, starts, calls, histVars>>
-----------------------------------------------------------------------------
\* ReplayFromDLQ, the dashboard's and the tool's retry: Get, Update, scheduleFn.
\* The tool is another process and schedules nothing.
Retriable(i) == status[i] \in {"FAILED", "DEAD_LETTER"}

RetryGet(c, i, cli) ==
    /\ Calls(c)
    /\ Retriable(i)
    /\ Does(c, [Idle EXCEPT !.op = "retry", !.cli = cli, !.ids = {i}])
    /\ UNCHANGED <<rowVars, execVars, todo, starts, histVars>>

RetryUpdate(c, i) ==
    /\ client[c].op = "retry" /\ i \in client[c].ids
    /\ status' = [status EXCEPT ![i] = "PENDING"]
    /\ Does(c, IF client[c].cli THEN Idle ELSE [Idle EXCEPT !.op = "schedule", !.ids = {i}])
    /\ loose' = loose \cup Reopened(i)
    /\ raced' = IF client[c].cli \/ Retriable(i) THEN raced ELSE raced \cup {i}
    /\ UNCHANGED <<key, execVars, todo, starts, calls, overrun, orphaned, quiet>>

\* Cancel and CancelByTag, of the API, the dashboard and the tool.
CancelGet(c, S, cli) ==
    /\ Calls(c)
    /\ S # {} /\ \A i \in S : IsActive(status[i])
    /\ Does(c, [Idle EXCEPT !.op = "cancel", !.cli = cli, !.ids = S])
    /\ UNCHANGED <<rowVars, execVars, todo, starts, histVars>>

CancelUpdate(c, i) ==
    /\ client[c].op = "cancel" /\ i \in client[c].ids
    /\ status' = [status EXCEPT ![i] = "CANCELLED"]
    /\ Does(c, IF client[c].ids = {i} THEN Idle ELSE [client[c] EXCEPT !.ids = @ \ {i}])
    /\ UNCHANGED <<key, execVars, todo, starts, calls, histVars>>
-----------------------------------------------------------------------------
\* A worker takes a copy and writes STARTED over whatever the row has become.
\* While stopping execute drops the copy.
Take(w, i) ==
    /\ worker[w] = "idle"
    /\ copies[i] > 0
    /\ copies' = [copies EXCEPT ![i] = @ - 1]
    /\ IF stopping THEN UNCHANGED <<worker, status, loose>>
       ELSE \/ /\ worker' = [worker EXCEPT ![w] = i]
               /\ status' = [status EXCEPT ![i] = "STARTED"]
               /\ loose' = loose \cup Reopened(i)
            \/ /\ \E s \in {"EXPIRED", "FAILED"} : status' = [status EXCEPT ![i] = s]
               /\ UNCHANGED <<worker, loose>>
    /\ UNCHANGED <<key, wg, started, stopping, client, todo, starts, calls, raced, overrun, orphaned, quiet>>

\* spawnChildren does not look for the child's key.
Spawn(w, i, user) ==
    LET k == Merge(user) IN
    /\ worker[w] \in Cmd
    /\ i \in Fresh
    /\ status' = [status EXCEPT ![i] = "PENDING"]
    /\ key' = [key EXCEPT ![i] = k]
    /\ Send(i)
    /\ loose' = loose \cup ({k} \ {NoKey})
    /\ UNCHANGED <<worker, wg, started, stopping, client, todo, starts, calls, raced, overrun, orphaned, quiet>>

\* handleResult and handleError: the command is over, or it is scheduled again.
Settle(w) ==
    /\ worker[w] \in Cmd
    /\ worker' = [worker EXCEPT ![w] = "idle"]
    /\ \E s \in {"COMPLETED", "FAILED", "DEAD_LETTER"} : status' = [status EXCEPT ![worker[w]] = s]
    /\ UNCHANGED <<key, copies, wg, started, stopping, client, todo, starts, calls, histVars>>

Again(w) ==
    /\ worker[w] \in Cmd
    /\ worker' = [worker EXCEPT ![w] = "idle"]
    /\ \E s \in {"PENDING", "REPEATING"} : status' = [status EXCEPT ![worker[w]] = s]
    /\ Send(worker[w])
    /\ loose' = loose \cup Reopened(worker[w])
    /\ UNCHANGED <<key, wg, started, stopping, client, todo, starts, calls, raced, overrun, orphaned, quiet>>

\* The Update fails because e.ctx is done.
WriteFails(w) ==
    /\ worker[w] \in Cmd /\ stopping
    /\ worker' = [worker EXCEPT ![w] = "idle"]
    /\ UNCHANGED <<rowVars, copies, wg, started, stopping, client, todo, starts, calls, histVars>>
-----------------------------------------------------------------------------
\* The process ends; the tool is another process.
Die ==
    /\ copies' = Empty
    /\ worker' = [w \in Worker |-> "off"]
    /\ wg' = 0
    /\ started' = FALSE /\ stopping' = FALSE
    /\ client' = [c \in Caller |-> IF client[c].cli THEN client[c] ELSE Idle]
    /\ todo' = {}
    /\ raced' = {} /\ overrun' = FALSE /\ orphaned' = FALSE /\ quiet' = FALSE
    /\ UNCHANGED <<rowVars, starts, calls, loose>>

Crash == Live # {} /\ Die

\* Mutant: Done is called twice.
MutExit(w) ==
    /\ worker[w] = "leaving" \/ (worker[w] = "idle" /\ stopping)
    /\ worker' = [worker EXCEPT ![w] = "off"]
    /\ wg' = wg - 2
    /\ UNCHANGED <<rowVars, copies, started, stopping, client, todo, starts, calls, histVars>>

\* A worker sees that e.ctx is done; a wait group below zero is a panic.
Exit(w) ==
    /\ worker[w] = "leaving" \/ (worker[w] = "idle" /\ stopping)
    /\ \/ /\ wg > 0
          /\ worker' = [worker EXCEPT ![w] = "off"]
          /\ wg' = wg - 1
          /\ UNCHANGED <<rowVars, copies, started, stopping, client, todo, starts, calls, histVars>>
       \/ wg = 0 /\ Die

\* Start: after a Stop the channel and the wait group are replaced.  A worker
\* of the run before that was waiting leaves or, like one that was executing,
\* reads the new e.ctx and e.queue and stays.  The replay may fail.
Launch(W) ==
    worker' \in {f \in [Worker -> Cmd \cup {"off", "idle", "leaving"}] :
                    \A w \in Worker : f[w] \in IF w \in W THEN {"idle"}
                                               ELSE IF worker[w] = "idle" /\ stopping
                                               THEN {"idle", "leaving"} ELSE {worker[w]}}

\* Mutants: Start keeps the old channel, or always replaces the wait group.
MutNewQueue == copies
MutNewWaitGroup == Parallelism

NewQueue == IF stopping THEN Empty ELSE copies
NewWaitGroup == Parallelism + (IF stopping THEN 0 ELSE wg)

\* replay: FindPending
Due == {i \in Cmd : IsActive(status[i])}

\* The rows somebody still has when Start comes.
Carried == {i \in Cmd : (~stopping /\ copies[i] > 0) \/ Executed(i) \/ Scheduling(i)}

Start ==
    /\ ~started
    /\ starts < MaxStarts
    /\ client[Starter] = Idle /\ todo = {}
    /\ \E W \in SUBSET {w \in Worker : worker[w] = "off"} : Cardinality(W) = Parallelism /\ Launch(W)
    /\ wg' = NewWaitGroup
    /\ stopping' = FALSE
    /\ \/ /\ copies' = [i \in Cmd |-> IF i \in Due THEN NewQueue[i] + 1 ELSE NewQueue[i]]
          /\ started' = TRUE
          /\ todo' = Permanent
          /\ raced' = raced \cup (Due \cap Carried)
          /\ UNCHANGED orphaned
       \/ copies' = NewQueue /\ orphaned' = TRUE /\ UNCHANGED <<started, todo, raced>>
    /\ starts' = starts + 1
    /\ overrun' = (overrun \/ (stopping /\ Live # {}))
    /\ quiet' = FALSE
    /\ UNCHANGED <<rowVars, client, calls, loose>>

\* startPermanentCommand; an error is logged.
StartPermanent(k) ==
    /\ k \in todo /\ client[Starter] = Idle
    /\ todo' = todo \ {k}
    /\ IF started /\ KeyFree(k)
       THEN /\ Does(Starter, [Idle EXCEPT !.op = "create", !.key = k])
            /\ loose' = loose \cup Overlap(Starter, k)
       ELSE UNCHANGED <<client, loose>>
    /\ UNCHANGED <<rowVars, execVars, starts, calls, raced, overrun, orphaned, quiet>>

Stop ==
    /\ started /\ ~stopping
    /\ stopping' = TRUE
    /\ UNCHANGED <<rowVars, copies, worker, wg, started, client, todo, starts, calls, histVars>>

\* Stop of an executor that is not started, or that is being stopped by another
\* caller: it returns nil at once, whoever is still running.
StopAtOnce ==
    /\ ~started \/ stopping
    /\ quiet' = TRUE
    /\ UNCHANGED <<rowVars, execVars, client, todo, starts, calls, loose, raced, overrun, orphaned>>

\* Stop returns: nil when the wait group is at zero, or the error of the timeout.
StopReturns ==
    /\ started /\ stopping
    /\ started' = FALSE
    /\ quiet' \in {FALSE, wg = 0}
    /\ orphaned' = ~quiet'
    /\ UNCHANGED <<rowVars, copies, worker, wg, stopping, client, todo, starts, calls, loose, raced, overrun>>
-----------------------------------------------------------------------------
Next ==
    \/ \E c \in Client, user \in Key \cup {NoKey} : AddCheck(c, user)
    \/ \E c \in Caller, i \in Cmd : AddCreate(c, i)
    \/ \E c \in Caller : CallFails(c) \/ Schedule(c)
    \/ \E c \in Client, i \in Cmd, cli \in BOOLEAN : RetryGet(c, i, cli)
    \/ \E c \in Client, i \in Cmd : RetryUpdate(c, i) \/ CancelUpdate(c, i)
    \/ \E c \in Client, S \in SUBSET Cmd, cli \in BOOLEAN : CancelGet(c, S, cli)
    \/ \E w \in Worker, i \in Cmd : Take(w, i)
    \/ \E w \in Worker, i \in Cmd, user \in Key \cup {NoKey} : Spawn(w, i, user)
    \/ \E w \in Worker : Settle(w) \/ Again(w) \/ WriteFails(w) \/ Exit(w)
    \/ Crash
    \/ Start \/ Stop \/ StopAtOnce \/ StopReturns
    \/ \E k \in Permanent : StartPermanent(k)

Spec == Init /\ [][Next]_vars
-----------------------------------------------------------------------------
TypeOK ==
    /\ status \in [Cmd -> Status \cup {"NONE"}]
    /\ key \in [Cmd -> Key \cup {NoKey}]
    /\ copies \in [Cmd -> Nat]
    /\ worker \in [Worker -> Cmd \cup {"off", "idle", "leaving"}]
    /\ wg \in Nat
    /\ started \in BOOLEAN /\ stopping \in BOOLEAN
    /\ client \in [Caller -> [op : {"idle", "create", "schedule", "retry", "cancel"}, cli : BOOLEAN,
                              ids : SUBSET Cmd, key : Key \cup {NoKey}]]
    /\ todo \subseteq Permanent
    /\ starts \in Nat /\ calls \in Nat
    /\ loose \subseteq Key /\ raced \subseteq Cmd
    /\ overrun \in BOOLEAN /\ orphaned \in BOOLEAN /\ quiet \in BOOLEAN

\* doc.go: "Only one active command with this key".  It is so for every key whose
\* commands come from Adds that do not overlap, permanent commands of every restart
\* included, until a finished or cancelled one of them is written back to life.
OneActivePerKey == \A k \in Key \ loose : \A i, j \in Holders(k) : i = j

\* A command is in one pair of hands (the channel, a worker, a caller about to
\* schedule it) unless a retry acted on a status that had changed since it read
\* it, or Start replayed a command somebody still had.
OneCarrier ==
    \A i \in Cmd \ raced :
        /\ copies[i] <= 1
        /\ \A w, v \in Worker : worker[w] = i /\ worker[v] = i => w = v
        /\ \A c, d \in Caller : Schedules(c, i) /\ Schedules(d, i) => c = d
        /\ copies[i] = 1 => ~Executed(i) /\ ~Scheduling(i)
        /\ Executed(i) => ~Scheduling(i)

\* Between two runs no worker is left: a Stop that waited and returned nil has seen
\* every worker go, those of failed Starts before it included.  Three things leave
\* workers behind: a Start whose replay failed and a Stop that timed out, until a
\* later Stop waits for them, and a Start that came too early after a Stop that
\* timed out, whose new wait group does not know the old workers.
QuietAfterStop == ~started /\ ~orphaned /\ ~overrun => Live = {}

\* The comment of Stop: "It waits for in-flight commands to complete up to the
\* shutdown timeout."  When it has returned without the error of the timeout, no
\* command is being executed.
StopWaits == quiet => \A w \in Worker : worker[w] \notin Cmd
=============================================================================
