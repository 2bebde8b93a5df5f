-------------------------- MODULE PostgresStorage --------------------------
(***************************************************************************)
(* storage/postgres.go: one statement per method, except ClaimPending,     *)
(* whose two statements are one transaction, and the transactions of       *)
(* Begin.  The table has no column for Timeout or History.  parent_id      *)
(* references the table: a write naming a parent that is not there fails,  *)
(* and a deleted row's children lose their parent.                         *)
(*                                                                         *)
(* PostgreSQL (external) runs at READ COMMITTED.  A transaction locks the  *)
(* rows it writes and the parents it names; statements of others wait for  *)
(* those locks, ClaimPending skips the rows, reads pay no attention.       *)
(***************************************************************************)
EXTENDS StorageCalls

\* The columns of an instance.
Stored(r) == [r EXCEPT !.timeout = 0]

\* ON DELETE SET NULL
DeleteFrom(t, S) ==
    [i \in Id |-> IF i \in S THEN NoRow
                  ELSE IF t[i] # NoRow /\ t[i].parent \in S
                       THEN [t[i] EXCEPT !.parent = None] ELSE t[i]]

\* REFERENCES: a parent may be named that is there.
ParentThere(t, r) == r.parent \in Present(t) \cup {None}

Written == {i \in Id : tx.writes[i] # Same}
Named == {tx.writes[j].parent : j \in {k \in Written : tx.writes[k] # NoRow}}

\* A row another session can write, and one it can delete, without waiting.
Writable(i, p) == i \notin Written /\ p \notin {j \in Written : tx.writes[j] = NoRow}
Deletable(S) ==
    /\ S \cap (Written \cup Named) = {}
    /\ \A j \in Written \cap Present(rows) : rows[j].parent \notin S

\* The context of a call is done, its connection breaks, or the pool is closed.
PostgresFails == call' = <<"interrupted">> /\ Fail("error") /\ Calls
-----------------------------------------------------------------------------
PostgresCreate ==
    /\ call' = <<"Create">>
    /\ open /\ held # NoCopy
    /\ Writable(held.id, held.row.parent)
    /\ IF rows[held.id] # NoRow THEN Fail("ErrAlreadyExists")
       ELSE IF ~ParentThere(rows, held.row) THEN Fail("error")
       ELSE Reply("nil", 0) /\ rows' = [rows EXCEPT ![held.id] = Stored(held.row)]
    /\ Calls

PostgresUpdate ==
    /\ call' = <<"Update">>
    /\ open /\ held # NoCopy
    /\ Writable(held.id, held.row.parent)
    /\ IF rows[held.id] = NoRow THEN Fail("ErrNotFound")
       ELSE IF ~ParentThere(rows, held.row) THEN Fail("error")
       ELSE Reply("nil", 0) /\ rows' = [rows EXCEPT ![held.id] = Stored(held.row)]
    /\ Calls

PostgresDelete(i) ==
    /\ call' = <<"Delete", i>>
    /\ open
    /\ Deletable({i})
    /\ Reply("nil", 0) /\ rows' = DeleteFrom(rows, {i})
    /\ Calls

PostgresQuery(err, S) ==
    /\ open
    /\ Answer(err, Entries(rows, S), 0)
    /\ UNCHANGED rows /\ Calls

PostgresGet(i) ==
    /\ call' = <<"Get", i>>
    /\ IF rows[i] = NoRow THEN PostgresQuery("ErrNotFound", {}) ELSE PostgresQuery("nil", {i})

PostgresFindPending ==
    /\ call' = <<"FindPending">>
    /\ PostgresQuery("nil", {i \in Present(rows) : IsActive(rows[i].status) /\ rows[i].readyAt <= now})

\* FOR UPDATE SKIP LOCKED, the UPDATE of the rows S, and the COMMIT; commands of
\* one priority.
Claimable == {i \in Present(rows) : /\ rows[i].status \in {"PENDING", "REPEATING"}
                                    /\ rows[i].readyAt <= now
                                    /\ i \notin Written \cup Named}
Claimed(S) == [i \in Id |-> IF i \in S THEN [rows[i] EXCEPT !.status = "STARTED"] ELSE rows[i]]

PostgresClaimPending(limit) ==
    /\ call' = <<"ClaimPending", limit>>
    /\ open
    /\ \E S \in SUBSET Claimable :
          /\ Cardinality(S) = PageSize(Cardinality(Claimable), limit, 0)
          /\ \A i \in S, j \in Claimable \ S : rows[i].readyAt <= rows[j].readyAt
          /\ rows' = Claimed(S)
          /\ Answer("nil", Entries(Claimed(S), S), 0) \/ Answer("error", {}, 0)
    /\ Calls

PostgresFindByStatus(s) ==
    /\ call' = <<"FindByStatus", s>>
    /\ PostgresQuery("nil", {i \in Present(rows) : rows[i].status = s})

PostgresFindByParent(p) ==
    /\ call' = <<"FindByParent", p>>
    /\ PostgresQuery("nil", {i \in Present(rows) : rows[i].parent = p})

PostgresFindByUniqueKey(key) ==
    /\ call' = <<"FindByUniqueKey", key>>
    /\ LET holders == {i \in Present(rows) : rows[i].label.key = key /\ IsActive(rows[i].status)} IN
       IF holders = {} THEN PostgresQuery("ErrNotFound", {})
       ELSE \E i \in holders : PostgresQuery("nil", {i})

PostgresFindByCorrelationID(c) ==
    /\ call' = <<"FindByCorrelationID", c>>
    /\ PostgresQuery("nil", {i \in Present(rows) : rows[i].label.corr = c})

PostgresCleanup(age) ==
    LET old == {i \in Present(rows) : /\ IsTerminal(rows[i].status)
                                      /\ rows[i].doneAt # None
                                      /\ rows[i].doneAt < now - age}
    IN  /\ call' = <<"Cleanup", age>>
        /\ open /\ age <= now
        /\ Deletable(old)
        /\ Reply("nil", Cardinality(old))
        /\ rows' = DeleteFrom(rows, old)
        /\ Calls

PostgresCount(s) ==
    /\ call' = <<"Count", s>>
    /\ open
    /\ Answer("nil", {}, Cardinality({i \in Present(rows) : s = None \/ rows[i].status = s}))
    /\ UNCHANGED rows /\ Calls

\* tags @> '["tag"]'
PostgresFind(q) ==
    /\ call' = <<"Find", q>>
    /\ LET result == {i \in Present(rows) : /\ q.status = None \/ rows[i].status = q.status
                                            /\ q.tag = None \/ rows[i].label.tag = q.tag}
       IN  \E S \in SUBSET result :
               /\ Cardinality(S) = PageSize(Cardinality(result), q.limit, q.offset)
               /\ PostgresQuery("nil", S)

\* Closing the connections ends a transaction without its commit.
PostgresClose ==
    /\ call' = <<"Close">>
    /\ open' = FALSE
    /\ tx' = NoTx
    /\ Answer("nil", {}, 0)
    /\ UNCHANGED <<backend, now, rows, held, edits>>

NewPostgres ==
    /\ call' = <<"Reopen">>
    /\ ~open
    /\ open' = TRUE
    /\ held' = NoCopy
    /\ Answer("nil", {}, 0)
    /\ UNCHANGED <<backend, now, rows, tx, edits>>
-----------------------------------------------------------------------------
(* Transactions.  A statement that fails makes the server refuse every     *)
(* other one until the end of the transaction.                             *)
TxCalls == UNCHANGED <<backend, now, open, held, edits>>

Seen == Overlay(rows, tx.writes)

PostgresBegin ==
    /\ open /\ tx.state = "none"
    /\ tx' = [tx EXCEPT !.state = "open"]
    /\ UNCHANGED <<rows, call, answer>> /\ TxCalls

TxWrite(writes) ==
    /\ tx' = [tx EXCEPT !.writes = writes]
    /\ Answer("nil", {}, 0)
    /\ UNCHANGED rows /\ TxCalls

TxFails ==
    /\ tx' = [NoTx EXCEPT !.state = "failed"]
    /\ Fail("error") /\ TxCalls

\* A duplicate is an error like any other here, not ErrAlreadyExists.
PostgresTxCreate ==
    /\ call' = <<"TxCreate">>
    /\ open /\ held # NoCopy /\ tx.state = "open"
    /\ IF Seen[held.id] # NoRow \/ ~ParentThere(Seen, held.row) THEN TxFails
       ELSE TxWrite([tx.writes EXCEPT ![held.id] = Stored(held.row)])

\* RowsAffected is not looked at.
PostgresTxUpdate ==
    /\ call' = <<"TxUpdate">>
    /\ open /\ held # NoCopy /\ tx.state = "open"
    /\ IF Seen[held.id] = NoRow THEN TxWrite(tx.writes)
       ELSE IF ~ParentThere(Seen, held.row) THEN TxFails
       ELSE TxWrite([tx.writes EXCEPT ![held.id] = Stored(held.row)])

PostgresTxDelete(i) ==
    /\ call' = <<"TxDelete", i>>
    /\ open /\ tx.state = "open"
    /\ LET after == DeleteFrom(Seen, {i})
       IN  TxWrite([j \in Id |-> IF after[j] = Seen[j] THEN tx.writes[j] ELSE after[j]])

\* Get, and likewise the other reads and Cleanup: not supported in a transaction.
PostgresTxGet(i) ==
    /\ call' = <<"TxGet", i>>
    /\ open /\ tx.state # "none"
    /\ Fail("error") /\ Calls

\* A lost connection, a cancelled context, any statement of a failed transaction.
PostgresTxError ==
    /\ call' = <<"interrupted">>
    /\ tx.state # "none"
    /\ TxFails

\* The commit of a failed transaction is a rollback with an error.
PostgresCommit ==
    /\ call' = <<"Commit">>
    /\ open /\ tx.state # "none"
    /\ tx' = NoTx
    /\ IF tx.state = "open" THEN Reply("nil", 0) /\ rows' = Seen ELSE Fail("error")
    /\ TxCalls

PostgresRollback ==
    /\ call' = <<"Rollback">>
    /\ open /\ tx.state # "none"
    /\ tx' = NoTx
    /\ Answer("nil", {}, 0) /\ UNCHANGED rows /\ TxCalls

PostgresNext ==
    \/ PostgresCreate \/ PostgresUpdate \/ PostgresFails
    \/ \E i \in Id : PostgresDelete(i) \/ PostgresGet(i) \/ PostgresFindByParent(i)
    \/ PostgresFindPending
    \/ \E limit \in Limit : PostgresClaimPending(limit)
    \/ \E s \in Status : PostgresFindByStatus(s)
    \/ \E s \in Status \cup {None} : PostgresCount(s)
    \/ \E x \in Name : PostgresFindByUniqueKey(x) \/ PostgresFindByCorrelationID(x)
    \/ \E age \in Age : PostgresCleanup(age)
    \/ \E q \in Queries : PostgresFind(q)
    \/ PostgresClose \/ NewPostgres
    \/ PostgresBegin \/ PostgresTxCreate \/ PostgresTxUpdate \/ PostgresTxError
    \/ \E i \in Id : PostgresTxDelete(i) \/ PostgresTxGet(i)
    \/ PostgresCommit \/ PostgresRollback
=============================================================================
