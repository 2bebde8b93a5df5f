---------------------------- MODULE StorageCalls ----------------------------
(***************************************************************************)
(* The state the three storages of storage/ share in this model, and what  *)
(* their callers do between two calls.  `rows' is what the backend keeps,  *)
(* in its own form; `tx' is a PostgreSQL transaction; `held' is the        *)
(* instance a caller has in hand, which it got from an answer or built     *)
(* itself, and which may have been out of date for any time; `call' is the *)
(* last call of a method, with its arguments other than `held'.            *)
(***************************************************************************)
EXTENDS StorageRows

CONSTANTS Labels,    \* the labels commands are created with
          Timeouts,  \* Spec.Timeout
          Delays,    \* Spec.Delay: ticks until a created command is ready
          Backoffs,  \* ticks until a command is tried again
          Finals,    \* the terminal statuses callers write
          MaxTime,   \* bound: the clock stops here
          MaxEdits   \* bound: how often callers build or change an instance

ASSUME CallsAssumption ==
    /\ Labels \subseteq Label /\ Timeouts \subseteq Nat /\ Delays \subseteq Nat /\ Backoffs \subseteq Nat
    /\ \A s \in Finals : s \in Status /\ IsTerminal(s)

VARIABLES backend, now, open, rows, tx, held, call, answer, edits

vars == <<backend, now, open, rows, tx, held, call, answer, edits>>

NoTx == [state |-> "none", writes |-> [i \in Id |-> Same]]

NoAnswer == [err |-> "nil", found |-> {}, count |-> 0]

Answer(err, found, count) == answer' = [err |-> err, found |-> found, count |-> count]

\* A statement of a database may have taken effect when its context is done or
\* its connection breaks: then the caller gets an error all the same.
Reply(err, count) == Answer(err, {}, count) \/ Answer("error", {}, 0)

Fail(err) == Answer(err, {}, 0) /\ UNCHANGED rows
-----------------------------------------------------------------------------
Hold(i, r) == held' = [id |-> i, row |-> r]

\* createInstance
Build(i, p, label, delay, timeout) ==
    Hold(i, [status |-> "PENDING", readyAt |-> now + delay, doneAt |-> None,
             parent |-> p, label |-> label, timeout |-> timeout])

\* The executor's ways with an instance it holds: begin, try later, finish.
Begin(c) == Hold(c.id, [c.row EXCEPT !.status = "STARTED"])
\* Mutant: the backoff is taken off the clock.
MutRetry(c, delay) ==
    Hold(c.id, [c.row EXCEPT !.status = "PENDING", !.readyAt = now - delay, !.doneAt = None])

Retry(c, delay) ==
    Hold(c.id, [c.row EXCEPT !.status = "PENDING", !.readyAt = now + delay, !.doneAt = None])

\* A command without a handler ends without CompletedAt.
Finish(c, s) ==
    \/ Hold(c.id, [c.row EXCEPT !.status = s, !.doneAt = now])
    \/ s = "FAILED" /\ Hold(c.id, [c.row EXCEPT !.status = s])

\* A caller builds an instance, or goes on with its own or one of the last answer.
Edit ==
    /\ edits < MaxEdits
    /\ edits' = edits + 1
    /\ \/ \E i \in Id, label \in Labels, delay \in Delays, timeout \in Timeouts :
             Build(i, None, label, delay, timeout)
       \/ \E i \in Id, label \in Labels, delay \in Delays, timeout \in Timeouts :
             /\ held # NoCopy
             /\ held.id # i
             /\ Build(i, held.id, label, delay, timeout)
       \/ \E c \in answer.found \cup ({held} \ {NoCopy}) :
             \/ Begin(c)
             \/ \E delay \in Backoffs : Retry(c, delay)
             \/ \E s \in Finals : Finish(c, s)
    /\ call' = <<>> /\ answer' = NoAnswer
    /\ UNCHANGED <<backend, now, open, rows, tx>>

Tick ==
    /\ now < MaxTime
    /\ now' = now + 1
    /\ UNCHANGED <<backend, open, rows, tx, held, call, answer, edits>>

\* A call touches the rows, besides recording itself and its answer.
Calls == UNCHANGED <<backend, now, open, tx, held, edits>>
=============================================================================
