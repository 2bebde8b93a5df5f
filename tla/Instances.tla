------------------------------ MODULE Instances ------------------------------
(***************************************************************************)
(* A command instance as the executor and the storage backends see it, and *)
(* the ways the executor's handlers change one (status.go, instance.go and *)
(* the assignments of executor_*.go).  Payload, tags, tracing ids, error   *)
(* texts and event history are left out: no control decision reads them.   *)
(*                                                                         *)
(* Times are ticks of a logical clock.  `done' is CompletedAt # nil.  A    *)
(* row of the storage whose status is NONE has never been created; GONE is *)
(* a row that was deleted (ids are random and never used again).           *)
(***************************************************************************)
EXTENDS Naturals

CONSTANTS Cmd,      \* command ids
          NoInst    \* "no instance": a nil pointer

Status == {"PENDING", "STARTED", "COMPLETED", "FAILED", "EXPIRED",
           "REPEATING", "CANCELLED", "DEAD_LETTER"}

IsTerminal(s) == s \in {"COMPLETED", "FAILED", "EXPIRED", "CANCELLED", "DEAD_LETTER"}
IsActive(s) == s \in {"PENDING", "STARTED", "REPEATING"}

Instance ==
    [id : Cmd, status : Status, retries : Nat, attempt : Nat,
     readyAt : Nat, deadlineAt : Nat, done : BOOLEAN]

Row ==
    [id : Cmd, status : Status \cup {"NONE", "GONE"}, retries : Nat, attempt : Nat,
     readyAt : Nat, deadlineAt : Nat, done : BOOLEAN]

ASSUME NoInstAssumption == NoInst \notin Row

Blank(c, s) ==
    [id |-> c, status |-> s, retries |-> 0, attempt |-> 0,
     readyAt |-> 0, deadlineAt |-> 0, done |-> FALSE]

Present(r) == r.status \in Status
-----------------------------------------------------------------------------
\* createInstance
NewInstance(c, retries, readyAt, deadlineAt) ==
    [id |-> c, status |-> "PENDING", retries |-> retries, attempt |-> 0,
     readyAt |-> readyAt, deadlineAt |-> deadlineAt, done |-> FALSE]

\* execute, transition to STARTED
Started(i) == [i EXCEPT !.status = "STARTED", !.attempt = @ + 1]

\* execute, handler not registered: CompletedAt stays nil
Unresolved(i) == [i EXCEPT !.status = "FAILED"]

\* handleResult
Repeating(i, next) == [i EXCEPT !.status = "REPEATING", !.readyAt = next]
Retrying(i) == [i EXCEPT !.status = "PENDING", !.retries = @ - 1]
Completed(i) == [i EXCEPT !.status = "COMPLETED", !.done = TRUE]

\* handleError
BackedOffFree(i, next) == [i EXCEPT !.status = "PENDING", !.readyAt = next]  \* mutant: budget not charged
BackedOff(i, next) == [i EXCEPT !.status = "PENDING", !.retries = @ - 1, !.readyAt = next]
Failed(i, deadLetter) ==
    [i EXCEPT !.status = IF deadLetter THEN "DEAD_LETTER" ELSE "FAILED", !.done = TRUE]

\* safeExecute's recover(); handleExpired; Cancel
Panicked(i) == [i EXCEPT !.status = "FAILED", !.done = TRUE]
Expired(i) == [i EXCEPT !.status = "EXPIRED", !.done = TRUE]
Cancelled(i) == [i EXCEPT !.status = "CANCELLED", !.done = TRUE]

\* ReplayFromDLQ and the dashboard's retry: the retry budget is not restored
Replayed(i, now) ==
    [i EXCEPT !.status = "PENDING", !.attempt = 0, !.readyAt = now, !.done = FALSE]

\* recoverStuckCommands: the attempt count is left alone
RecoveredCounting(i) == [i EXCEPT !.status = "PENDING", !.attempt = @ + 1]   \* mutant: recovery counted as an attempt
Recovered(i) == [i EXCEPT !.status = "PENDING"]
=============================================================================
