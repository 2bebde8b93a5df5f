-------------------------------- MODULE FanIn --------------------------------
(***************************************************************************)
(* SpawnThen (fan-out / fan-in): a coordinator spawns parallel commands    *)
(* and a barrier command that polls their rows and spawns a continuation   *)
(* (executor_handlers.go handleResult, spawnChildren, spawnBarrier, and    *)
(* barrier.go).  The coordinator, the children and the barriers run on     *)
(* different workers and meet only in the storage.                         *)
(*                                                                         *)
(* What a child does is reduced to how its row may change (the details are *)
(* module QueueExecutor); when a command is run is left to fairness.  The  *)
(* executor is in queue mode: a row whose copy is gone, because an Update  *)
(* failed or because Start did not load it, is run by nobody until a later *)
(* Start or the stuck-command loop picks it up.  A row left STARTED is then*)
(* run again from the start.                                               *)
(***************************************************************************)
EXTENDS Naturals, Sequences, FiniteSets

CONSTANTS
    Child,          \* ids for the parallel commands
    Barrier,        \* ids for barrier commands
    Tasks,          \* how many commands the coordinator's Result lists
    MaxChecks,      \* polls with a missing child before the barrier errs (30)
    BarrierRetries, \* e.defaultRetries, the budget of a barrier
    DeadLetter,     \* e.deadLetterEnabled
    Faults,         \* "create", "read", "update" (a call of the storage fails),
                    \* "restart" (a crash, or Stop, then Start), "stuck" (the loop
                    \* of stuck commands), "reopen", "cancel", "cleanup"
    MaxFaults       \* bound on the faults of a behaviour

ASSUME FanInAssumption ==
    /\ Tasks \in Nat \ {0} /\ MaxChecks \in Nat /\ BarrierRetries \in Nat
    /\ DeadLetter \in BOOLEAN /\ MaxFaults \in Nat

VARIABLES
    pc,        \* where the coordinator is
    todo,      \* commands it has yet to spawn
    made,      \* childIDs, the ids it has spawned
    child,     \* status of each child's row
    stray,     \* active children nobody has a copy of
    status,    \* status of each barrier's row
    kids,      \* data.ChildIDs of each barrier
    checks,    \* _barrier_check_count of each barrier
    retries,   \* retry budget of each barrier
    at,        \* where the execution of each barrier is
    seen,      \* the child statuses it has read
    spawned,   \* continuations each barrier has spawned
    succeeded, \* history: children whose handler has succeeded
    skipped,   \* history: how many commands could not be created
    reruns,    \* history: restarts, and rows the stuck loop has put back
    faults     \* faults so far (bounds the model)

coordVars == <<pc, todo, made>>
rowVars == <<status, kids, checks, retries>>
runVars == <<at, seen>>
vars == <<coordVars, child, stray, rowVars, runVars, spawned, succeeded, skipped, reruns, faults>>

ChildStatus == {"NONE", "GONE", "ACTIVE", "COMPLETED", "FAILED", "EXPIRED",
                "CANCELLED", "DEAD_LETTER"}
ActiveStatus == {"PENDING", "STARTED", "REPEATING"}
BarrierStatus == {"NONE", "COMPLETED", "FAILED", "DEAD_LETTER"} \cup ActiveStatus

TypeOK ==
    /\ pc \in {"spawn", "complete", "lost", "done"}
    /\ todo \in 0..Tasks
    /\ made \in Seq(Child)
    /\ child \in [Child -> ChildStatus] /\ stray \subseteq Child
    /\ status \in [Barrier -> BarrierStatus]
    /\ kids \in [Barrier -> Seq(Child)]
    /\ checks \in [Barrier -> Nat]
    /\ retries \in [Barrier -> 0..BarrierRetries]
    /\ at \in [Barrier -> {"idle", "reading", "complete", "lost"}]
    /\ seen \in [Barrier -> Seq(ChildStatus)]
    /\ spawned \in [Barrier -> Nat]
    /\ succeeded \subseteq Child /\ skipped \in Nat
    /\ reruns \in Nat /\ faults \in Nat

Init ==
    /\ pc = "spawn" /\ todo = Tasks /\ made = <<>>
    /\ child = [c \in Child |-> "NONE"] /\ stray = {}
    /\ status = [b \in Barrier |-> "NONE"]
    /\ kids = [b \in Barrier |-> <<>>]
    /\ checks = [b \in Barrier |-> 0]
    /\ retries = [b \in Barrier |-> BarrierRetries]
    /\ at = [b \in Barrier |-> "idle"]
    /\ seen = [b \in Barrier |-> <<>>]
    /\ spawned = [b \in Barrier |-> 0]
    /\ succeeded = {} /\ skipped = 0
    /\ reruns = 0 /\ faults = 0

Fault(f) ==
    /\ f \in Faults /\ faults < MaxFaults
    /\ faults' = faults + 1
-----------------------------------------------------------------------------
(* The coordinator's handleResult: children, barrier, COMPLETED.  Ids come  *)
(* from a generator; which unused one it picks makes no difference.         *)
FreshChild == CHOOSE c \in Child : child[c] = "NONE"
FreshBarrier == CHOOSE b \in Barrier : status[b] = "NONE"

SpawnTask(c) ==
    /\ pc = "spawn" /\ todo > 0
    /\ child[c] = "NONE" /\ c = FreshChild
    /\ child' = [child EXCEPT ![c] = "ACTIVE"]
    /\ todo' = todo - 1
    /\ made' = Append(made, c)
    /\ UNCHANGED <<pc, stray, rowVars, runVars, spawned, succeeded, skipped, reruns, faults>>

\* A Create that fails is logged and its child left out of childIDs.
SkipTask ==
    /\ pc = "spawn" /\ todo > 0
    /\ Fault("create")
    /\ todo' = todo - 1
    /\ skipped' = skipped + 1
    /\ UNCHANGED <<pc, made, child, stray, rowVars, runVars, spawned, succeeded, reruns>>

SpawnBarrier(b) ==
    /\ pc = "spawn" /\ todo = 0 /\ made # <<>>
    /\ status[b] = "NONE" /\ b = FreshBarrier
    /\ status' = [status EXCEPT ![b] = "PENDING"]
    /\ kids' = [kids EXCEPT ![b] = made]
    /\ pc' = "complete"
    /\ UNCHANGED <<todo, made, child, stray, checks, retries, runVars, spawned, succeeded,
                   skipped, reruns, faults>>

\* No child was created, or the barrier's Create failed: no continuation.
NoBarrier ==
    /\ pc = "spawn" /\ todo = 0
    /\ IF made = <<>> THEN UNCHANGED faults ELSE Fault("create")
    /\ pc' = "complete"
    /\ UNCHANGED <<todo, made, child, stray, rowVars, runVars, spawned, succeeded, skipped, reruns>>

CoordinatorDone ==
    /\ pc = "complete"
    /\ pc' = "done"
    /\ UNCHANGED <<todo, made, child, stray, rowVars, runVars, spawned, succeeded, skipped, reruns, faults>>

\* The Update to COMPLETED fails: the row stays STARTED.
CoordinatorUnsaved ==
    /\ pc = "complete"
    /\ Fault("update")
    /\ pc' = "lost"
    /\ UNCHANGED <<todo, made, child, stray, rowVars, runVars, spawned, succeeded, skipped, reruns>>

\* The coordinator's handler returns its Result once more.
RunAgain == pc' = "spawn" /\ todo' = Tasks /\ made' = <<>>
-----------------------------------------------------------------------------
(* How a child's row changes. *)
ChildSucceeds(c) ==
    /\ child[c] = "ACTIVE" /\ c \notin stray
    /\ child' = [child EXCEPT ![c] = "COMPLETED"]
    /\ succeeded' = succeeded \cup {c}
    /\ UNCHANGED <<coordVars, stray, rowVars, runVars, spawned, skipped, reruns, faults>>

ChildFails(c, s) ==
    /\ child[c] = "ACTIVE" /\ c \notin stray
    /\ s \in {"FAILED", "EXPIRED"} \cup (IF DeadLetter THEN {"DEAD_LETTER"} ELSE {})
    /\ child' = [child EXCEPT ![c] = s]
    /\ UNCHANGED <<coordVars, stray, rowVars, runVars, spawned, succeeded, skipped, reruns, faults>>

\* The child is run, and an Update of its row fails.
ChildUnsaved(c) ==
    /\ child[c] = "ACTIVE" /\ c \notin stray
    /\ Fault("update")
    /\ succeeded' \in {succeeded, succeeded \cup {c}}
    /\ stray' = stray \cup {c}
    /\ UNCHANGED <<coordVars, child, rowVars, runVars, spawned, skipped, reruns>>

\* Cancel overwrites the row it read while it was active; the child may have
\* completed in the meantime.
CancelChild(c) ==
    /\ child[c] \in {"ACTIVE", "COMPLETED"}
    /\ Fault("cancel")
    /\ child' = [child EXCEPT ![c] = "CANCELLED"]
    /\ stray' = stray \ {c}
    /\ UNCHANGED <<coordVars, rowVars, runVars, spawned, succeeded, skipped, reruns>>

\* A dead-lettered or failed child is replayed; a worker that holds an older copy
\* of a cancelled child starts it all the same.
Reopen(c) ==
    /\ child[c] \in {"FAILED", "DEAD_LETTER", "CANCELLED"}
    /\ Fault("reopen")
    /\ child' = [child EXCEPT ![c] = "ACTIVE"]
    /\ UNCHANGED <<coordVars, stray, rowVars, runVars, spawned, succeeded, skipped, reruns>>

CleanupChild(c) ==
    /\ child[c] \notin {"NONE", "GONE", "ACTIVE"}
    /\ Fault("cleanup")
    /\ child' = [child EXCEPT ![c] = "GONE"]
    /\ UNCHANGED <<coordVars, stray, rowVars, runVars, spawned, succeeded, skipped, reruns>>
-----------------------------------------------------------------------------
(* One execution of the barrier: a Get per child, then the decision. *)
Active(b) == status[b] \in ActiveStatus

StartBarrier(b) ==
    /\ Active(b) /\ at[b] = "idle"
    /\ status' = [status EXCEPT ![b] = "STARTED"]
    /\ at' = [at EXCEPT ![b] = "reading"]
    /\ seen' = [seen EXCEPT ![b] = <<>>]
    /\ UNCHANGED <<coordVars, child, stray, kids, checks, retries, spawned, succeeded, skipped, reruns, faults>>

Reading(b) == at[b] = "reading" /\ Len(seen[b]) < Len(kids[b])

ReadChild(b) ==
    /\ Reading(b)
    /\ seen' = [seen EXCEPT ![b] = Append(@, child[kids[b][Len(seen[b]) + 1]])]
    /\ UNCHANGED <<coordVars, child, stray, rowVars, at, spawned, succeeded, skipped, reruns, faults>>

\* A Get that fails counts as a missing child.
ReadFails(b) ==
    /\ Reading(b)
    /\ Fault("read")
    /\ seen' = [seen EXCEPT ![b] = Append(@, "GONE")]
    /\ UNCHANGED <<coordVars, child, stray, rowVars, at, spawned, succeeded, skipped, reruns>>

HasRead(b) == at[b] = "reading" /\ Len(seen[b]) = Len(kids[b])
Saw(b, s) == \E i \in DOMAIN seen[b] : seen[b][i] = s

AnyFailedIgnoringCancel(b) == Saw(b, "FAILED") \/ Saw(b, "EXPIRED")  \* mutant
AnyFailed(b) == Saw(b, "FAILED") \/ Saw(b, "EXPIRED") \/ Saw(b, "CANCELLED")

ChecksLost(b) == checks[b]  \* mutant: polls with a missing child are not counted
ChecksAfter(b) == IF Saw(b, "GONE") THEN checks[b] + 1 ELSE checks[b]

\* The execution is over; its copy of the barrier is written back.
Rest(b) ==
    /\ at' = [at EXCEPT ![b] = "idle"]
    /\ seen' = [seen EXCEPT ![b] = <<>>]
    /\ UNCHANGED <<coordVars, child, stray, kids, spawned, succeeded, skipped, reruns, faults>>

\* Mutant: the barrier ends instead of repeating.
BarrierStops(b) ==
    /\ HasRead(b) /\ ~Saw(b, "GONE") /\ Saw(b, "ACTIVE")
    /\ status' = [status EXCEPT ![b] = "COMPLETED"]
    /\ Rest(b)
    /\ UNCHANGED <<checks, retries>>

\* Execute returned Repeat: a child is missing, or still active.
BarrierRepeats(b) ==
    /\ HasRead(b)
    /\ IF Saw(b, "GONE") THEN ChecksAfter(b) <= MaxChecks ELSE Saw(b, "ACTIVE")
    /\ checks' = [checks EXCEPT ![b] = ChecksAfter(b)]
    /\ status' = [status EXCEPT ![b] = "REPEATING"]
    /\ Rest(b)
    /\ UNCHANGED retries

\* handleError retries while there is budget, then gives up.
ChargeUnguarded(b) ==  \* mutant: never gives up
    /\ retries' = [retries EXCEPT ![b] = @ - 1]
    /\ status' = [status EXCEPT ![b] = "PENDING"]
Charge(b) ==
    IF retries[b] > 0
    THEN /\ retries' = [retries EXCEPT ![b] = @ - 1]
         /\ status' = [status EXCEPT ![b] = "PENDING"]
    ELSE /\ status' = [status EXCEPT ![b] = IF DeadLetter THEN "DEAD_LETTER" ELSE "FAILED"]
         /\ UNCHANGED retries

\* Execute returned an error: too many polls, or a child that failed.
BarrierErrs(b) ==
    /\ HasRead(b)
    /\ IF Saw(b, "GONE") THEN ChecksAfter(b) > MaxChecks
                         ELSE ~Saw(b, "ACTIVE") /\ AnyFailed(b)
    /\ checks' = [checks EXCEPT ![b] = ChecksAfter(b)]
    /\ Charge(b)
    /\ Rest(b)

AllDone(b) == HasRead(b) /\ ~Saw(b, "GONE") /\ ~Saw(b, "ACTIVE") /\ ~AnyFailed(b)

\* Execute returned Next(continuation) and spawnChildren created it...
SpawnContinuation(b) ==
    /\ AllDone(b)
    /\ spawned' = [spawned EXCEPT ![b] = @ + 1]
    /\ at' = [at EXCEPT ![b] = "complete"]
    /\ UNCHANGED <<coordVars, child, stray, rowVars, seen, succeeded, skipped, reruns, faults>>

\* ...or failed to: the barrier completes all the same.
LoseContinuation(b) ==
    /\ AllDone(b)
    /\ Fault("create")
    /\ at' = [at EXCEPT ![b] = "complete"]
    /\ UNCHANGED <<coordVars, child, stray, rowVars, seen, spawned, succeeded, skipped, reruns>>

BarrierForgets(b) ==  \* mutant: the barrier's row is left STARTED
    at[b] = "complete" /\ Rest(b) /\ UNCHANGED <<status, checks, retries>>

BarrierDone(b) ==
    /\ at[b] = "complete"
    /\ status' = [status EXCEPT ![b] = "COMPLETED"]
    /\ Rest(b)
    /\ UNCHANGED <<checks, retries>>

\* An Update of the barrier's row fails, to STARTED or to what the execution came
\* to: the row stays as it is and the copy is gone.
BarrierUnsaved(b) ==
    /\ \/ Active(b) /\ at[b] = "idle"
       \/ HasRead(b) /\ ~AllDone(b)
       \/ at[b] = "complete"
    /\ Fault("update")
    /\ at' = [at EXCEPT ![b] = "lost"]
    /\ seen' = [seen EXCEPT ![b] = <<>>]
    /\ UNCHANGED <<coordVars, child, stray, rowVars, spawned, succeeded, skipped, reruns>>
-----------------------------------------------------------------------------
(* Commands that are run again. *)

\* The process dies, or Stop is called, and Start is called.  It loads every row
\* that is due: a STARTED row is, but a barrier is not within a second of its
\* creation or of its last poll, nor a child with a delay or a backoff.  Which of
\* those are due is left open.
Restart ==
    /\ Fault("restart")
    /\ reruns' = reruns + 1
    /\ IF pc = "done" THEN UNCHANGED coordVars ELSE RunAgain
    /\ stray' \in SUBSET {c \in Child : child[c] = "ACTIVE"}
    /\ \E Ahead \in SUBSET {b \in Barrier : status[b] \in {"PENDING", "REPEATING"}} :
          at' = [b \in Barrier |-> IF b \in Ahead THEN "lost" ELSE "idle"]
    /\ seen' = [b \in Barrier |-> <<>>]
    /\ UNCHANGED <<child, rowVars, spawned, succeeded, skipped>>

\* recoverStuckCommands, for a row whose copy is gone: a fault has lost it, and the
\* recovery is not counted as another.
RecoverCoordinator ==
    /\ pc = "lost"
    /\ "stuck" \in Faults
    /\ RunAgain
    /\ reruns' = reruns + 1
    /\ UNCHANGED <<child, stray, rowVars, runVars, spawned, succeeded, skipped, faults>>

RecoverBarrier(b) ==
    /\ status[b] = "STARTED" /\ at[b] = "lost"
    /\ "stuck" \in Faults
    /\ status' = [status EXCEPT ![b] = "PENDING"]
    /\ at' = [at EXCEPT ![b] = "idle"]
    /\ reruns' = reruns + 1
    /\ UNCHANGED <<coordVars, child, stray, kids, checks, retries, seen, spawned, succeeded, skipped, faults>>

\* (A child left out by Restart may not be STARTED, and then is not picked up; the
\* model does not tell the two apart.)
RecoverChild(c) ==
    /\ c \in stray
    /\ "stuck" \in Faults
    /\ stray' = stray \ {c}
    /\ UNCHANGED <<coordVars, child, rowVars, runVars, spawned, succeeded, skipped, reruns, faults>>
-----------------------------------------------------------------------------
Coordinator ==
    \/ \E c \in Child : SpawnTask(c)
    \/ SkipTask
    \/ \E b \in Barrier : SpawnBarrier(b)
    \/ NoBarrier
    \/ CoordinatorDone

ChildRuns(c) == ChildSucceeds(c) \/ \E s \in ChildStatus : ChildFails(c, s)
ChildDisturbed(c) == ChildUnsaved(c) \/ CancelChild(c) \/ Reopen(c) \/ CleanupChild(c) \/ RecoverChild(c)

BarrierRuns(b) ==
    \/ StartBarrier(b)
    \/ ReadChild(b)
    \/ ReadFails(b)
    \/ BarrierRepeats(b)
    \/ BarrierErrs(b)
    \/ SpawnContinuation(b)
    \/ LoseContinuation(b)
    \/ BarrierDone(b)

Next ==
    \/ Coordinator \/ CoordinatorUnsaved \/ RecoverCoordinator
    \/ \E c \in Child : ChildRuns(c) \/ ChildDisturbed(c)
    \/ \E b \in Barrier : BarrierRuns(b) \/ BarrierUnsaved(b) \/ RecoverBarrier(b)
    \/ Restart

Spec == Init /\ [][Next]_vars

\* Workers run what is ready, and handlers return: whatever has a copy is run.
\* Nothing promises that a lost row is ever picked up.
Fairness ==
    /\ WF_vars(Coordinator)
    /\ \A c \in Child : WF_vars(ChildRuns(c))
    /\ \A b \in Barrier : WF_vars(BarrierRuns(b))

FairSpec == Spec /\ Fairness
-----------------------------------------------------------------------------
Kids(b) == {kids[b][i] : i \in DOMAIN kids[b]}

\* The continuation waits for all the commands of the coordinator's Result: when a
\* barrier has spawned it, each of its children has succeeded, and there are as many
\* of them as the Result lists, less those whose Create failed.  The barrier reads
\* their rows one by one while they are cancelled, replayed, cleaned up and run again.
ContinuationAfterSuccess ==
    \A b \in Barrier :
        spawned[b] > 0 => Kids(b) \subseteq succeeded /\ Len(kids[b]) + skipped >= Tasks

\* "Continuation is spawned after ALL Commands complete successfully": after one of
\* them has, to say the least.
ContinuationEarned == (\E b \in Barrier : spawned[b] > 0) => succeeded # {}

\* Duplicates come from commands that are run again, and from nothing else: each
\* restart, and each row the stuck loop puts back, lets the coordinator make one
\* more barrier, and each barrier spawn one more continuation.
DuplicatesFromReruns ==
    /\ Cardinality({b \in Barrier : status[b] # "NONE"}) <= 1 + reruns
    /\ \A b \in Barrier : spawned[b] <= 1 + reruns

\* A barrier does not poll for ever: its row reaches a terminal status even when
\* a child's row has been deleted, unless the barrier, or a child it waits for, is
\* active with nobody to run it, which an Update that failed or a Start that did
\* not load the row has caused.
BarrierResolves ==
    \A b \in Barrier : Active(b) ~> (~Active(b) \/ at[b] = "lost" \/ Kids(b) \cap stray # {})

Undisturbed == faults = 0 /\ \A c \in Child : child[c] \in {"NONE", "ACTIVE", "COMPLETED"}

\* Without faults, and if no child fails, the continuation does get spawned.
ContinuationSpawned ==
    <>~Undisturbed \/ <>(\E b \in Barrier : spawned[b] > 0)
=============================================================================
