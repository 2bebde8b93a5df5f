------------------------------ MODULE Storages ------------------------------
(***************************************************************************)
(* The three storages of storage/ under the same callers, and what each of *)
(* them promises: StorageContract, with the promises of that backend.      *)
(***************************************************************************)
EXTENDS MemoryStorage, SQLiteStorage, PostgresStorage

Init ==
    /\ backend \in {"memory", "sqlite", "postgres"}
    /\ now = 0
    /\ open = TRUE
    /\ rows = [i \in Id |-> NoRow]
    /\ tx = NoTx
    /\ held = NoCopy
    /\ call = <<>>
    /\ answer = NoAnswer
    /\ edits = 0

Next ==
    \/ backend = "memory" /\ MemoryNext
    \/ backend = "sqlite" /\ SQLiteNext
    \/ backend = "postgres" /\ PostgresNext
    \/ Edit
    \/ Tick

Spec == Init /\ [][Next]_vars
-----------------------------------------------------------------------------
TypeOK ==
    /\ backend \in {"memory", "sqlite", "postgres"}
    /\ now \in Nat
    /\ open \in BOOLEAN
    /\ rows \in [Id -> (IF backend = "sqlite" THEN SQLRow ELSE Row) \cup {NoRow}]
    /\ tx \in [state : {"none", "open", "failed"}, writes : [Id -> Row \cup {NoRow, Same}]]
    /\ held \in Copy \cup {NoCopy}
    /\ answer.found \subseteq Copy
    /\ edits \in Nat

\* The rows as instances.
Table ==
    IF backend = "sqlite"
    THEN [i \in Id |-> IF rows[i] = NoRow THEN NoRow ELSE ScanInstance(rows[i])]
    ELSE rows

\* What each backend keeps of storage.go.
Promises ==
    [exactTimes |-> backend # "sqlite", literalTags |-> backend # "sqlite",
     txErrors |-> backend # "postgres", keepsTimeout |-> backend = "memory",
     keepsParents |-> backend # "postgres", durable |-> backend # "memory",
     local |-> backend = "memory"]

Contract ==
    INSTANCE StorageContract
    WITH table <- Table, promise <- Promises, batch <- tx.writes, broken <- (tx.state = "failed")

\* Every call of every backend does what storage.go lets that call do and answers
\* what storage.go lets it answer, the named errors included, except where
\* Promises says otherwise.
ImplementsContract == Contract!Spec

\* storage.go as it stands: the exceptions for what a backend gets wrong are gone.
Strict ==
    INSTANCE StorageContract
    WITH table <- Table, batch <- tx.writes, broken <- (tx.state = "failed"),
         promise <- [Promises EXCEPT !.exactTimes = TRUE, !.literalTags = TRUE,
                                     !.txErrors = TRUE, !.keepsTimeout = TRUE]

\* storage.go:20-26, 36-39, 74, 128-129: Create persists an instance, with the
\* "Timeout [...] the maximum execution time per attempt" of instance.go:65;
\* FindPending returns what is due; Find by tag returns rows that have the tag; an
\* Update of a missing command is ErrNotFound, in a Transaction too.
ImplementsStorageGo == Strict!Spec
=============================================================================
