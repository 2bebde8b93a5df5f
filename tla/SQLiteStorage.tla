--------------------------- MODULE SQLiteStorage ---------------------------
(***************************************************************************)
(* storage/sqlite.go: one connection, one statement per method.  The table *)
(* has no column for Timeout or History; times are kept and compared as    *)
(* RFC 3339 text, which in UTC ends in Z and drops trailing zeros of the   *)
(* fraction; foreign keys are declared, but SQLite does not enforce them   *)
(* unless it is told to, and nothing tells it.                             *)
(***************************************************************************)
EXTENDS StorageCalls

TimeText == [sec : Nat, frac : 0 .. (Second - 1)]

\* The columns of Migrate.
SQLRow == [status : Status, ready_at : TimeText, completed_at : TimeText \cup {None},
           parent_id : Id \cup {None}, label : Label]

ASSUME SQLiteAssumption == NoRow \notin SQLRow /\ None \notin TimeText

\* time.Format(RFC3339Nano) of a time whose ticks are tenths of a second or more.
Text(t) == [sec |-> t \div Second, frac |-> t % Second]
Parse(x) == Second * x.sec + x.frac

\* Within a second 12:00:01.5Z comes before 12:00:01Z, for '.' comes before 'Z'.
TextLE(x, y) ==
    \/ x.sec < y.sec
    \/ x.sec = y.sec /\ (y.frac = 0 \/ (x.frac # 0 /\ x.frac <= y.frac))
TextLT(x, y) == x # y /\ TextLE(x, y)

\* nullTimeStr, and its inverse in populateInstance
NullTimeStr(t) == IF t = None THEN None ELSE Text(t)
ParseNull(x) == IF x = None THEN None ELSE Parse(x)

\* The columns of an instance, and the instance scanInstance makes of them.
Columns(r) == [status |-> r.status, ready_at |-> Text(r.readyAt),
               completed_at |-> NullTimeStr(r.doneAt),
               parent_id |-> r.parent, label |-> r.label]
ScanInstance(c) == [status |-> c.status, readyAt |-> Parse(c.ready_at),
                    doneAt |-> ParseNull(c.completed_at),
                    parent |-> c.parent_id, label |-> c.label, timeout |-> 0]

\* queryInstances: the instances of the ids S.
Scanned(S) == {[id |-> i, row |-> ScanInstance(rows[i])] : i \in S}

\* A statement fails if the database is closed or the context is done.
SQLiteFails == call' = <<"interrupted">> /\ Fail("error") /\ Calls
-----------------------------------------------------------------------------
SQLiteCreate ==
    /\ call' = <<"Create">>
    /\ open /\ held # NoCopy
    /\ IF rows[held.id] # NoRow THEN Fail("ErrAlreadyExists")
       ELSE Reply("nil", 0) /\ rows' = [rows EXCEPT ![held.id] = Columns(held.row)]
    /\ Calls

\* Mutant: RowsAffected is not looked at.
MutSQLiteUpdate ==
    /\ call' = <<"Update">>
    /\ open /\ held # NoCopy
    /\ Reply("nil", 0)
    /\ rows' = IF rows[held.id] = NoRow THEN rows ELSE [rows EXCEPT ![held.id] = Columns(held.row)]
    /\ Calls

\* RowsAffected tells whether there was a row.
SQLiteUpdate ==
    /\ call' = <<"Update">>
    /\ open /\ held # NoCopy
    /\ IF rows[held.id] = NoRow THEN Fail("ErrNotFound")
       ELSE Reply("nil", 0) /\ rows' = [rows EXCEPT ![held.id] = Columns(held.row)]
    /\ Calls

SQLiteDelete(i) ==
    /\ call' = <<"Delete", i>>
    /\ open
    /\ Reply("nil", 0) /\ rows' = [rows EXCEPT ![i] = NoRow]
    /\ Calls

SQLiteQuery(err, S) ==
    /\ open
    /\ Answer(err, Scanned(S), 0)
    /\ UNCHANGED rows /\ Calls

SQLiteGet(i) ==
    /\ call' = <<"Get", i>>
    /\ IF rows[i] = NoRow THEN SQLiteQuery("ErrNotFound", {}) ELSE SQLiteQuery("nil", {i})

SQLiteFindPending ==
    /\ call' = <<"FindPending">>
    /\ SQLiteQuery("nil", {i \in Present(rows) : /\ IsActive(rows[i].status)
                                                 /\ TextLE(rows[i].ready_at, Text(now))})

SQLiteFindByStatus(s) ==
    /\ call' = <<"FindByStatus", s>>
    /\ SQLiteQuery("nil", {i \in Present(rows) : rows[i].status = s})

SQLiteFindByParent(p) ==
    /\ call' = <<"FindByParent", p>>
    /\ SQLiteQuery("nil", {i \in Present(rows) : rows[i].parent_id = p})

SQLiteFindByUniqueKey(key) ==
    /\ call' = <<"FindByUniqueKey", key>>
    /\ LET holders == {i \in Present(rows) : rows[i].label.key = key /\ IsActive(rows[i].status)} IN
       IF holders = {} THEN SQLiteQuery("ErrNotFound", {})
       ELSE \E i \in holders : SQLiteQuery("nil", {i})

SQLiteFindByCorrelationID(c) ==
    /\ call' = <<"FindByCorrelationID", c>>
    /\ SQLiteQuery("nil", {i \in Present(rows) : rows[i].label.corr = c})

\* completed_at < cutoff is not true of NULL.
SQLiteCleanup(age) ==
    LET old == {i \in Present(rows) : /\ IsTerminal(rows[i].status)
                                      /\ rows[i].completed_at # None
                                      /\ TextLT(rows[i].completed_at, Text(now - age))}
    IN  /\ call' = <<"Cleanup", age>>
        /\ open /\ age <= now
        /\ Reply("nil", Cardinality(old))
        /\ rows' = [i \in Id |-> IF i \in old THEN NoRow ELSE rows[i]]
        /\ Calls

SQLiteCount(s) ==
    /\ call' = <<"Count", s>>
    /\ open
    /\ Answer("nil", {}, Cardinality({i \in Present(rows) : s = None \/ rows[i].status = s}))
    /\ UNCHANGED rows /\ Calls

\* tags LIKE '%"tag"%' knows wildcards and ignores the case of letters.
Like(tag, t) == t = tag \/ <<tag, t>> \in Alike

SQLiteFind(q) ==
    /\ call' = <<"Find", q>>
    /\ LET result == {i \in Present(rows) : /\ q.status = None \/ rows[i].status = q.status
                                            /\ q.tag = None \/ Like(q.tag, rows[i].label.tag)}
       IN  \E S \in SUBSET result :
               /\ Cardinality(S) = PageSize(Cardinality(result), q.limit, q.offset)
               /\ SQLiteQuery("nil", S)

SQLiteClose ==
    /\ call' = <<"Close">>
    /\ open' = FALSE
    /\ Answer("nil", {}, 0)
    /\ UNCHANGED <<backend, now, rows, tx, held, edits>>

\* Another process opens the file; Migrate finds the table there.
OpenSQLite ==
    /\ call' = <<"Reopen">>
    /\ ~open
    /\ open' = TRUE
    /\ held' = NoCopy
    /\ Answer("nil", {}, 0)
    /\ UNCHANGED <<backend, now, rows, tx, edits>>

SQLiteNext ==
    \/ SQLiteCreate \/ SQLiteUpdate \/ SQLiteFails
    \/ \E i \in Id : SQLiteDelete(i) \/ SQLiteGet(i) \/ SQLiteFindByParent(i)
    \/ SQLiteFindPending
    \/ \E s \in Status : SQLiteFindByStatus(s)
    \/ \E s \in Status \cup {None} : SQLiteCount(s)
    \/ \E x \in Name : SQLiteFindByUniqueKey(x) \/ SQLiteFindByCorrelationID(x)
    \/ \E age \in Age : SQLiteCleanup(age)
    \/ \E q \in Queries : SQLiteFind(q)
    \/ SQLiteClose \/ OpenSQLite
=============================================================================
