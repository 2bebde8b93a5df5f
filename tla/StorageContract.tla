--------------------------- MODULE StorageContract ---------------------------
(***************************************************************************)
(* What storage.go says of a durex.Storage: a table of rows, one atomic    *)
(* step per call, and the answer of every call, its named error included.  *)
(* `call' is the last call; a caller passes the instance it holds, and     *)
(* what it holds never aliases a row.                                      *)
(*                                                                         *)
(* `promise' says which sentences of storage.go a backend keeps, so that   *)
(* the rest of the contract can still be asked of it.  Where exactTimes,   *)
(* literalTags, txErrors or keepsTimeout is FALSE the backend contradicts  *)
(* storage.go; ImplementsStorageGo of Storages asks for them all.          *)
(*                                                                         *)
(*   exactTimes    times compare as times, within a second too             *)
(*   literalTags   a query by tag finds rows with that very tag            *)
(*   txErrors      a transaction's calls answer as the storage's own do    *)
(*   keepsTimeout  a row keeps the instance's Timeout                      *)
(*   keepsParents  any ParentID may be written, and stays in a row         *)
(*   durable       rows outlive Close                                      *)
(*   local         no call is interrupted, no answer gets lost             *)
(***************************************************************************)
EXTENDS StorageRows

VARIABLES now, open, promise, table, batch, broken, held, call, answer

vars == <<now, open, promise, table, batch, broken, held, call, answer>>

Promise == [exactTimes : BOOLEAN, literalTags : BOOLEAN, txErrors : BOOLEAN,
            keepsTimeout : BOOLEAN, keepsParents : BOOLEAN, durable : BOOLEAN, local : BOOLEAN]

NoAnswer == [err |-> "nil", found |-> {}, count |-> 0]
NoBatch == [i \in Id |-> Same]

Init ==
    /\ now = 0
    /\ open = TRUE
    /\ promise \in Promise
    /\ table = [i \in Id |-> NoRow]
    /\ batch = NoBatch
    /\ broken = FALSE
    /\ held = NoCopy
    /\ call = <<>>
    /\ answer = NoAnswer
-----------------------------------------------------------------------------
Answer(err, found, count) == answer' = [err |-> err, found |-> found, count |-> count]

\* The answer to a write, which may get lost on its way from a remote storage.
Reply(err, count) == \/ Answer(err, {}, count)
                     \/ ~promise.local /\ Answer("error", {}, 0)

Kept(r) == IF promise.keepsTimeout THEN r ELSE [r EXCEPT !.timeout = 0]

\* Table t without the rows S.
Without(t, S) ==
    [i \in Id |->
        IF i \in S THEN NoRow
        ELSE IF ~promise.keepsParents /\ t[i] # NoRow /\ t[i].parent \in S
             THEN [t[i] EXCEPT !.parent = None] ELSE t[i]]

SameSecond(a, b) == a \div Second = b \div Second
Vague(a, b) == ~promise.exactTimes /\ SameSecond(a, b)

Matches(q, r) ==
    /\ q.status \in {None, r.status}
    /\ \/ q.tag \in {None, r.label.tag}
       \/ ~promise.literalTags /\ <<q.tag, r.label.tag>> \in Alike

ParentKnown(t, r) == promise.keepsParents \/ r.parent \in Present(t) \cup {None}

Writes == UNCHANGED <<now, open, promise, batch, broken, held>>
Reads == UNCHANGED <<now, open, promise, table, batch, broken, held>>
-----------------------------------------------------------------------------
\* A caller builds an instance, picks one of its answer, or changes its own.
Edit ==
    /\ call' = <<>>
    /\ held' \in Copy
    /\ answer' = NoAnswer
    /\ UNCHANGED <<now, open, promise, table, batch, broken>>

Create ==
    /\ call' = <<"Create">>
    /\ open /\ held # NoCopy
    /\ IF held.id \in Present(table)
       THEN Answer("ErrAlreadyExists", {}, 0) /\ UNCHANGED table
       ELSE IF ~ParentKnown(table, held.row) THEN Answer("error", {}, 0) /\ UNCHANGED table
       ELSE Reply("nil", 0) /\ table' = [table EXCEPT ![held.id] = Kept(held.row)]
    /\ Writes

Update ==
    /\ call' = <<"Update">>
    /\ open /\ held # NoCopy
    /\ IF held.id \notin Present(table)
       THEN Answer("ErrNotFound", {}, 0) /\ UNCHANGED table
       ELSE IF ~ParentKnown(table, held.row) THEN Answer("error", {}, 0) /\ UNCHANGED table
       ELSE Reply("nil", 0) /\ table' = [table EXCEPT ![held.id] = Kept(held.row)]
    /\ Writes

\* Deleting what is not there is no error.
Delete(i) ==
    /\ call' = <<"Delete", i>>
    /\ open
    /\ Reply("nil", 0)
    /\ table' = Without(table, {i})
    /\ Writes

Get(i) ==
    /\ call' = <<"Get", i>>
    /\ open
    /\ IF i \in Present(table)
       THEN Answer("nil", {Entry(table, i)}, 0) ELSE Answer("ErrNotFound", {}, 0)
    /\ Reads

\* Active rows that are due.
FindPending(S) ==
    /\ call' = <<"FindPending">>
    /\ open
    /\ S \subseteq Present(table)
    /\ \A i \in Present(table) :
          IF IsActive(table[i].status)
          THEN Vague(table[i].readyAt, now) \/ (i \in S <=> table[i].readyAt <= now)
          ELSE i \notin S
    /\ Answer("nil", Entries(table, S), 0)
    /\ Reads

FindByStatus(s) ==
    /\ call' = <<"FindByStatus", s>>
    /\ open
    /\ Answer("nil", Entries(table, {i \in Present(table) : table[i].status = s}), 0)
    /\ Reads

FindByParent(p) ==
    /\ call' = <<"FindByParent", p>>
    /\ open
    /\ Answer("nil", Entries(table, {i \in Present(table) : table[i].parent = p}), 0)
    /\ Reads

\* One of the active rows with the key.
FindByUniqueKey(key) ==
    LET holders == {i \in Present(table) : table[i].label.key = key /\ IsActive(table[i].status)} IN
    /\ call' = <<"FindByUniqueKey", key>>
    /\ open
    /\ IF holders = {} THEN Answer("ErrNotFound", {}, 0)
       ELSE \E i \in holders : Answer("nil", {Entry(table, i)}, 0)
    /\ Reads

FindByCorrelationID(c) ==
    /\ call' = <<"FindByCorrelationID", c>>
    /\ open
    /\ Answer("nil", Entries(table, {i \in Present(table) : table[i].label.corr = c}), 0)
    /\ Reads

\* A page of the rows that match; the order of the rows is not promised.
Find(q, S) ==
    LET fits == {i \in Present(table) : Matches(q, table[i])} IN
    /\ call' = <<"Find", q>>
    /\ open
    /\ S \subseteq fits
    /\ Cardinality(S) = PageSize(Cardinality(fits), q.limit, q.offset)
    /\ Answer("nil", Entries(table, S), 0)
    /\ Reads

Count(s) ==
    /\ call' = <<"Count", s>>
    /\ open
    /\ Answer("nil", {}, Cardinality({i \in Present(table) : s \in {None, table[i].status}}))
    /\ Reads

\* Finished rows that ended before the cutoff, and no others, are deleted.
Cleanup(age, S) ==
    LET cutoff == now - age IN
    /\ call' = <<"Cleanup", age>>
    /\ open /\ age <= now
    /\ S \subseteq Present(table)
    /\ \A i \in Present(table) :
          IF IsTerminal(table[i].status) /\ table[i].doneAt # None
          THEN Vague(table[i].doneAt, cutoff) \/ (i \in S <=> table[i].doneAt < cutoff)
          ELSE i \notin S
    /\ table' = Without(table, S)
    /\ Reply("nil", Cardinality(S))
    /\ Writes

\* LockingStorage: waiting rows that are due become STARTED and are handed out.
Claimed(S) ==
    [i \in Id |-> IF i \in S THEN [table[i] EXCEPT !.status = "STARTED"] ELSE table[i]]

ClaimPending(limit, S) ==
    /\ call' = <<"ClaimPending", limit>>
    /\ open
    /\ \A i \in S : /\ i \in Present(table)
                    /\ table[i].status \in {"PENDING", "REPEATING"}
                    /\ table[i].readyAt <= now
    /\ Cardinality(S) <= limit
    /\ table' = Claimed(S)
    /\ \/ Answer("nil", Entries(Claimed(S), S), 0)
       \/ ~promise.local /\ Answer("error", {}, 0)
    /\ Writes

\* Nothing is done by a call to a closed storage, nor by one whose context is
\* done or whose connection breaks; no other call answers an unnamed error.
Refuse ==
    /\ \/ ~open /\ promise.local /\ Answer("ErrStorageClosed", {}, 0)
       \/ ~promise.local /\ call' = <<"interrupted">> /\ Answer("error", {}, 0)
    /\ Reads

Close ==
    /\ call' = <<"Close">>
    /\ open' = FALSE
    /\ table' = IF promise.durable THEN table ELSE [i \in Id |-> NoRow]
    /\ batch' = NoBatch /\ broken' = FALSE
    /\ Answer("nil", {}, 0)
    /\ UNCHANGED <<now, promise, held>>

\* Another process opens the storage.
Reopen ==
    /\ call' = <<"Reopen">>
    /\ ~open
    /\ open' = TRUE
    /\ table' = IF promise.durable THEN table ELSE [i \in Id |-> NoRow]
    /\ held' = NoCopy
    /\ Answer("nil", {}, 0)
    /\ UNCHANGED <<now, promise, batch, broken>>
-----------------------------------------------------------------------------
(* TransactionalStorage: nobody sees a transaction's writes until Commit,   *)
(* then everybody sees all of them.  A Transaction embeds Storage, so its   *)
(* calls have the named errors of Storage.                                  *)
Inside == Overlay(table, batch)

TxAnswers(err, found, writes) ==
    /\ batch' = writes
    /\ Answer(err, found, 0)
    /\ UNCHANGED <<now, open, promise, table, broken, held>>

\* A statement that fails undoes its transaction, which can only end then.
TxBreaks ==
    /\ batch' = NoBatch /\ broken' = TRUE
    /\ Answer("error", {}, 0)
    /\ UNCHANGED <<now, open, promise, table, held>>

TxCreate ==
    /\ call' = <<"TxCreate">>
    /\ open /\ held # NoCopy /\ ~broken
    /\ IF held.id \in Present(Inside)
       THEN IF promise.txErrors THEN TxAnswers("ErrAlreadyExists", {}, batch) ELSE TxBreaks
       ELSE IF ~ParentKnown(Inside, held.row) THEN TxBreaks
       ELSE TxAnswers("nil", {}, [batch EXCEPT ![held.id] = Kept(held.row)])

TxUpdate ==
    /\ call' = <<"TxUpdate">>
    /\ open /\ held # NoCopy /\ ~broken
    /\ IF held.id \notin Present(Inside)
       THEN TxAnswers(IF promise.txErrors THEN "ErrNotFound" ELSE "nil", {}, batch)
       ELSE IF ~ParentKnown(Inside, held.row) THEN TxBreaks
       ELSE TxAnswers("nil", {}, [batch EXCEPT ![held.id] = Kept(held.row)])

TxDelete(i) ==
    /\ call' = <<"TxDelete", i>>
    /\ open /\ ~broken
    /\ LET after == Without(Inside, {i})
       IN  TxAnswers("nil", {}, [j \in Id |-> IF after[j] = Inside[j] THEN batch[j] ELSE after[j]])

\* A transaction reads its own writes.
TxGet(i) ==
    /\ call' = <<"TxGet", i>>
    /\ open
    /\ IF ~promise.txErrors THEN TxAnswers("error", {}, batch)
       ELSE IF i \in Present(Inside) THEN TxAnswers("nil", {Entry(Inside, i)}, batch)
       ELSE TxAnswers("ErrNotFound", {}, batch)

\* An interrupted statement fails, whichever it is.
Abort ==
    /\ call' = <<"interrupted">>
    /\ ~promise.local
    /\ TxBreaks

Commit ==
    /\ call' = <<"Commit">>
    /\ open
    /\ IF broken THEN Answer("error", {}, 0) /\ UNCHANGED table
       ELSE Reply("nil", 0) /\ table' = Inside
    /\ batch' = NoBatch /\ broken' = FALSE
    /\ UNCHANGED <<now, open, promise, held>>

Rollback ==
    /\ call' = <<"Rollback">>
    /\ batch' = NoBatch /\ broken' = FALSE
    /\ Answer("nil", {}, 0)
    /\ UNCHANGED <<now, open, promise, table, held>>

Tick ==
    /\ now' = now + 1
    /\ UNCHANGED <<open, promise, table, batch, broken, held, call, answer>>
-----------------------------------------------------------------------------
Next ==
    \/ Edit
    \/ Create \/ Update
    \/ \E i \in Id : Delete(i) \/ Get(i) \/ FindByParent(i)
    \/ \E S \in SUBSET Id :
          \/ FindPending(S)
          \/ \E age \in Age : Cleanup(age, S)
          \/ \E limit \in Limit : ClaimPending(limit, S)
          \/ \E q \in Queries : Find(q, S)
    \/ \E s \in Status : FindByStatus(s)
    \/ \E s \in Status \cup {None} : Count(s)
    \/ \E x \in Name : FindByUniqueKey(x) \/ FindByCorrelationID(x)
    \/ Refuse \/ Close \/ Reopen
    \/ TxCreate \/ TxUpdate \/ Abort \/ Commit \/ Rollback
    \/ \E i \in Id : TxDelete(i) \/ TxGet(i)
    \/ Tick

Spec == Init /\ [][Next]_vars
=============================================================================
