---------------------------- MODULE MCExecutorAPI ----------------------------
(* Instances of ExecutorAPI for TLC. *)
EXTENDS ExecutorAPI, TLC

Symmetry == Permutations(Cmd) \cup Permutations(Client) \cup Permutations(Worker)

\* No action and no property tells two statuses of one of these classes apart.
Class(s) == IF IsActive(s) THEN "active" ELSE IF s \in {"FAILED", "DEAD_LETTER"} THEN "retriable"
            ELSE IF s = "NONE" THEN "none" ELSE "finished"
View == <<[i \in Cmd |-> Class(status[i])], key, copies, worker, wg, started, stopping, client, todo,
          starts, calls, loose, raced, overrun, orphaned, quiet>>
=============================================================================
