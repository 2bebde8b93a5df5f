--------------------------- MODULE StoragesProofs ---------------------------
(***************************************************************************)
(* Theorems about Storages, for any set of ids and names and any length of *)
(* a second: the three backends implement StorageContract, each with the   *)
(* promises it keeps.                                                      *)
(***************************************************************************)
EXTENDS Storages, FiniteSetTheorems, TLAPS

USE RowsAssumption, CallsAssumption, SQLiteAssumption
-----------------------------------------------------------------------------
(* Times as text. *)
LEMMA DivMod ==
    \A t \in Nat : /\ t = Second * (t \div Second) + (t % Second)
                   /\ t \div Second \in Nat
                   /\ t % Second \in 0 .. (Second - 1)
OBVIOUS

\* Later times have later seconds.
LEMMA DivMonotone ==
    ASSUME NEW t \in Nat, NEW u \in Nat, t \div Second < u \div Second
    PROVE  t < u
<1> SUFFICES ASSUME u <= t PROVE FALSE
  OBVIOUS
<1>1. Second * (u \div Second) >= Second * ((t \div Second) + 1)
  BY DivMod
<1>2. Second * ((t \div Second) + 1) > t
  BY DivMod
<1> QED BY <1>1, <1>2, DivMod

\* A time read back from its text is the time that was written.
LEMMA ParseText == \A t \in Nat : Text(t) \in TimeText /\ Parse(Text(t)) = t
BY DivMod DEF Text, Parse, TimeText

LEMMA DivUnique ==
    ASSUME NEW p \in Nat, NEW q \in Nat, NEW r \in Nat, NEW s \in Nat,
           r < Second, s < Second, Second * p + r = Second * q + s
    PROVE  p = q /\ r = s
<1>1. CASE p < q
  <2>1. Second * q >= Second * (p + 1)
    BY <1>1
  <2> QED BY <2>1
<1>2. CASE q < p
  <2>1. Second * p >= Second * (q + 1)
    BY <1>2
  <2> QED BY <2>1
<1> QED BY <1>1, <1>2

LEMMA TextParse == \A x \in TimeText : Parse(x) \in Nat /\ Text(Parse(x)) = x
<1> SUFFICES ASSUME NEW x \in TimeText PROVE Parse(x) \in Nat /\ Text(Parse(x)) = x
  OBVIOUS
<1> DEFINE t == Parse(x)
<1>1. x.sec \in Nat /\ x.frac \in Nat /\ x.frac < Second /\ t = Second * x.sec + x.frac /\ t \in Nat
  BY DEF Parse, TimeText
<1>2. t = Second * (t \div Second) + (t % Second) /\ t \div Second \in Nat /\ t % Second \in 0 .. (Second - 1)
  BY <1>1, DivMod
<1> HIDE DEF t
<1>3. t \div Second = x.sec /\ t % Second = x.frac
  <2> DEFINE p == t \div Second
             r == t % Second
             q == x.sec
             s == x.frac
  <2>1. p \in Nat /\ q \in Nat /\ r \in Nat /\ s \in Nat /\ r < Second /\ s < Second
    BY <1>1, <1>2
  <2>2. Second * p + r = Second * q + s
    BY <1>1, <1>2
  <2> HIDE DEF p, q, r, s
  <2>3. p = q /\ r = s
    BY <2>1, <2>2, DivUnique
  <2> QED BY <2>3 DEF p, q, r, s
<1> QED BY <1>1, <1>3 DEF t, Text, TimeText

\* Text orders times as the clock does, except within a second.
LEMMA TextOrder ==
    ASSUME NEW t \in Nat, NEW u \in Nat, t \div Second # u \div Second
    PROVE  (TextLE(Text(t), Text(u)) <=> t <= u) /\ (TextLT(Text(t), Text(u)) <=> t < u)
<1>1. t \div Second \in Nat /\ u \div Second \in Nat
  BY DivMod
<1>2. TextLE(Text(t), Text(u)) <=> t \div Second < u \div Second
  BY <1>1 DEF TextLE, Text
<1>3. CASE t \div Second < u \div Second
  <2>1. t < u
    BY <1>3, DivMonotone
  <2>2. Text(t) # Text(u)
    BY DEF Text
  <2> QED BY <1>2, <1>3, <2>1, <2>2 DEF TextLT
<1>4. CASE u \div Second < t \div Second
  <2>1. u < t
    BY <1>4, DivMonotone
  <2> QED BY <1>1, <1>2, <1>4, <2>1 DEF TextLT
<1> QED BY <1>1, <1>3, <1>4

\* What SQLite gives back is what it was given, without Timeout.
LEMMA ScanColumns ==
    ASSUME NEW r \in Row
    PROVE  Columns(r) \in SQLRow /\ ScanInstance(Columns(r)) = [r EXCEPT !.timeout = 0]
<1>1. Text(r.readyAt) \in TimeText /\ Parse(Text(r.readyAt)) = r.readyAt
  BY ParseText DEF Row
<1>2. NullTimeStr(r.doneAt) \in TimeText \cup {None} /\ ParseNull(NullTimeStr(r.doneAt)) = r.doneAt
  <2>1. CASE r.doneAt = None
    BY <2>1 DEF NullTimeStr, ParseNull
  <2>2. CASE r.doneAt # None
    <3>1. r.doneAt \in Nat
      BY <2>2 DEF Row
    <3>2. Text(r.doneAt) \in TimeText /\ Parse(Text(r.doneAt)) = r.doneAt
      BY <3>1, ParseText
    <3> QED BY <2>2, <3>2 DEF NullTimeStr, ParseNull
  <2> QED BY <2>1, <2>2
<1>3. Columns(r) \in SQLRow
  BY <1>1, <1>2 DEF Columns, SQLRow, Row
<1>4. ScanInstance(Columns(r)) = [r EXCEPT !.timeout = 0]
  <2> HIDE DEF Text, Parse, NullTimeStr, ParseNull
  <2> QED BY <1>1, <1>2 DEF Columns, ScanInstance, Row
<1> QED BY <1>3, <1>4

LEMMA ScanFields ==
    \A c : /\ ScanInstance(c).status = c.status
           /\ ScanInstance(c).parent = c.parent_id
           /\ ScanInstance(c).label = c.label
           /\ ScanInstance(c).readyAt = Parse(c.ready_at)
           /\ ScanInstance(c).doneAt = ParseNull(c.completed_at)
BY DEF ScanInstance

LEMMA ScanType ==
    ASSUME NEW c \in SQLRow
    PROVE  ScanInstance(c) \in Row
<1>1. \A x \in TimeText : Parse(x) \in Nat
  BY DEF Parse, TimeText
<1>2. ParseNull(c.completed_at) \in Nat \cup {None}
  BY <1>1 DEF ParseNull, SQLRow
<1> QED BY <1>1, <1>2 DEF ScanInstance, SQLRow, Row
-----------------------------------------------------------------------------
(* Types.  Only PostgreSQL has transactions, and one that is not open has    *)
(* written nothing.                                                          *)
TxOK ==
    /\ backend # "postgres" => tx = NoTx
    /\ tx.state # "open" => tx.writes = NoTx.writes

Typed == TypeOK /\ TxOK

\* The form in which a backend keeps rows.
RowForm == IF backend = "sqlite" THEN SQLRow ELSE Row

LEMMA FormOK == NoRow \notin RowForm
BY DEF RowForm

\* Calls that change the rows and the answer and nothing else.
LEMMA CallTyped ==
    ASSUME Typed, Calls, rows' \in [Id -> RowForm \cup {NoRow}], answer'.found \subseteq Copy
    PROVE  Typed'
BY DEF Typed, TypeOK, TxOK, Calls, RowForm, NoTx

\* Closing and opening.
LEMMA OpenTyped ==
    ASSUME Typed, backend' = backend, now' = now, edits' = edits, open' \in BOOLEAN,
           rows' \in [Id -> RowForm \cup {NoRow}],
           tx' \in {tx, NoTx}, held' \in {held, NoCopy}, answer'.found = {}
    PROVE  Typed'
<1>1. tx' \in [state : {"none", "open", "failed"}, writes : [Id -> Row \cup {NoRow, Same}]]
  BY DEF Typed, TypeOK, NoTx
<1>2. TxOK'
  BY DEF Typed, TxOK, NoTx
<1> QED BY <1>1, <1>2 DEF Typed, TypeOK, RowForm

LEMMA EntriesTyped ==
    ASSUME NEW t \in [Id -> Row \cup {NoRow}], NEW S \in SUBSET Present(t)
    PROVE  Entries(t, S) \subseteq Copy
BY DEF Entries, Entry, Present, Copy

LEMMA ScannedTyped ==
    ASSUME rows \in [Id -> SQLRow \cup {NoRow}], NEW S \in SUBSET Present(rows)
    PROVE  Scanned(S) \subseteq Copy
<1> SUFFICES ASSUME NEW i \in S PROVE [id |-> i, row |-> ScanInstance(rows[i])] \in Copy
  BY DEF Scanned
<1>1. i \in Id /\ rows[i] \in SQLRow
  BY DEF Present
<1>2. ScanInstance(rows[i]) \in Row
  BY <1>1, ScanType
<1> QED BY <1>1, <1>2 DEF Copy

LEMMA MemoryTyped ==
    ASSUME Typed, backend = "memory", MemoryNext
    PROVE  Typed'
<1> USE DEF Fail, Answer
<1>0. rows \in [Id -> Row \cup {NoRow}] /\ RowForm = Row
  BY DEF Typed, TypeOK, RowForm
<1>1. CASE MemoryCreate \/ MemoryUpdate
  <2>1. Calls
    BY <1>1 DEF MemoryCreate, MemoryUpdate
  <2>2. held.id \in Id /\ held.row \in Row
    BY <1>1 DEF MemoryCreate, MemoryUpdate, Typed, TypeOK, Copy
  <2>3. rows' \in [Id -> Row \cup {NoRow}] /\ answer'.found = {}
    BY <1>0, <1>1, <2>2 DEF MemoryCreate, MemoryUpdate
  <2> QED BY <1>0, <2>1, <2>3, CallTyped
<1>2. ASSUME NEW i \in Id, MemoryDelete(i)
      PROVE  Typed'
  <2>1. Calls /\ rows' \in [Id -> Row \cup {NoRow}] /\ answer'.found = {}
    BY <1>0, <1>2 DEF MemoryDelete
  <2> QED BY <1>0, <2>1, CallTyped
<1>3. ASSUME NEW S \in SUBSET Present(rows), MemoryScan(S)
      PROVE  Typed'
  <2>1. Calls /\ rows' = rows /\ answer'.found \subseteq Entries(rows, S)
    BY <1>3 DEF MemoryScan
  <2> QED BY <1>0, <2>1, CallTyped, EntriesTyped
<1>4. ASSUME NEW i \in Id, MemoryGet(i)
      PROVE  Typed'
  <2>1. Calls /\ rows' = rows /\ answer'.found \subseteq Copy
    BY <1>0, <1>4 DEF MemoryGet, Entry, Copy
  <2> QED BY <1>0, <2>1, CallTyped
<1>5. ASSUME NEW key \in Name, MemoryFindByUniqueKey(key)
      PROVE  Typed'
  <2>1. Calls /\ rows' = rows /\ answer'.found \subseteq Copy
    BY <1>0, <1>5 DEF MemoryFindByUniqueKey, Entry, Copy, Present
  <2> QED BY <1>0, <2>1, CallTyped
<1>6. ASSUME NEW age \in Age, MemoryCleanup(age)
      PROVE  Typed'
  <2>1. Calls /\ rows' \in [Id -> Row \cup {NoRow}] /\ answer'.found = {}
    BY <1>0, <1>6 DEF MemoryCleanup
  <2> QED BY <1>0, <2>1, CallTyped
<1>7. ASSUME NEW s, MemoryCount(s)
      PROVE  Typed'
  <2>1. Calls /\ rows' = rows /\ answer'.found = {}
    BY <1>7 DEF MemoryCount
  <2> QED BY <1>0, <2>1, CallTyped
<1>8. ASSUME NEW q \in Queries, MemoryFind(q)
      PROVE  Typed'
  BY <1>3, <1>8 DEF MemoryFind
<1>9. CASE MemoryClose \/ NewMemory
  <2>0. open' = FALSE \/ open' = TRUE
    BY <1>9, Zenon DEF MemoryClose, NewMemory
  <2>1. backend' = backend /\ now' = now /\ edits' = edits /\ answer'.found = {}
    BY <1>9 DEF MemoryClose, NewMemory
  <2>2. rows' \in [Id -> RowForm \cup {NoRow}] /\ tx' \in {tx, NoTx} /\ held' \in {held, NoCopy}
    BY <1>0, <1>9 DEF MemoryClose, NewMemory
  <2> QED BY <2>0, <2>1, <2>2, OpenTyped
<1>10. CASE MemoryFindPending
  BY <1>3, <1>10 DEF MemoryFindPending
<1>11. ASSUME NEW s \in Status, MemoryFindByStatus(s)
       PROVE  Typed'
  BY <1>3, <1>11 DEF MemoryFindByStatus
<1>12. ASSUME NEW p \in Id, MemoryFindByParent(p)
       PROVE  Typed'
  BY <1>3, <1>12 DEF MemoryFindByParent
<1> QED
  BY <1>1, <1>2, <1>4, <1>5, <1>6, <1>7, <1>8, <1>9, <1>10, <1>11, <1>12 DEF MemoryNext


LEMMA SQLiteTyped ==
    ASSUME Typed, backend = "sqlite", SQLiteNext
    PROVE  Typed'
<1> USE DEF Fail, Answer, Reply
<1>0. rows \in [Id -> SQLRow \cup {NoRow}] /\ RowForm = SQLRow
  BY DEF Typed, TypeOK, RowForm
<1>1. CASE SQLiteCreate \/ SQLiteUpdate
  <2>1. Calls
    BY <1>1 DEF SQLiteCreate, SQLiteUpdate
  <2>2. held.id \in Id /\ held.row \in Row
    BY <1>1 DEF SQLiteCreate, SQLiteUpdate, Typed, TypeOK, Copy
  <2>3. Columns(held.row) \in SQLRow
    BY <2>2, ScanColumns
  <2>4. rows' \in [Id -> SQLRow \cup {NoRow}] /\ answer'.found = {}
    BY <1>0, <1>1, <2>2, <2>3 DEF SQLiteCreate, SQLiteUpdate
  <2> QED BY <1>0, <2>1, <2>4, CallTyped
<1>2. CASE SQLiteFails
  BY <1>0, <1>2, CallTyped DEF SQLiteFails
<1>3. ASSUME NEW i \in Id, SQLiteDelete(i)
      PROVE  Typed'
  <2>1. Calls /\ rows' \in [Id -> SQLRow \cup {NoRow}] /\ answer'.found = {}
    BY <1>0, <1>3 DEF SQLiteDelete
  <2> QED BY <1>0, <2>1, CallTyped
<1>4. ASSUME NEW err, NEW S \in SUBSET Present(rows), SQLiteQuery(err, S)
      PROVE  Typed'
  <2>1. Calls /\ rows' = rows /\ answer'.found = Scanned(S)
    BY <1>4 DEF SQLiteQuery
  <2> QED BY <1>0, <2>1, CallTyped, ScannedTyped
<1>5. ASSUME NEW i \in Id, SQLiteGet(i)
      PROVE  Typed'
  <2>1. {} \subseteq Present(rows) /\ (rows[i] # NoRow => {i} \subseteq Present(rows))
    BY DEF Present
  <2> QED BY <1>4, <1>5, <2>1 DEF SQLiteGet
<1>6. ASSUME NEW key \in Name, SQLiteFindByUniqueKey(key)
      PROVE  Typed'
  BY <1>4, <1>6 DEF SQLiteFindByUniqueKey
<1>7. ASSUME NEW age \in Age, SQLiteCleanup(age)
      PROVE  Typed'
  <2>1. Calls /\ rows' \in [Id -> SQLRow \cup {NoRow}] /\ answer'.found = {}
    BY <1>0, <1>7 DEF SQLiteCleanup
  <2> QED BY <1>0, <2>1, CallTyped
<1>8. ASSUME NEW s, SQLiteCount(s)
      PROVE  Typed'
  <2>1. Calls /\ rows' = rows /\ answer'.found = {}
    BY <1>8 DEF SQLiteCount
  <2> QED BY <1>0, <2>1, CallTyped
<1>9. ASSUME NEW q \in Queries, SQLiteFind(q)
      PROVE  Typed'
  BY <1>4, <1>9 DEF SQLiteFind
<1>10. CASE SQLiteClose \/ OpenSQLite
  <2>0. open' = FALSE \/ open' = TRUE
    BY <1>10, Zenon DEF SQLiteClose, OpenSQLite
  <2>1. backend' = backend /\ now' = now /\ edits' = edits /\ answer'.found = {}
    BY <1>10 DEF SQLiteClose, OpenSQLite
  <2>2. rows' \in [Id -> RowForm \cup {NoRow}] /\ tx' \in {tx, NoTx} /\ held' \in {held, NoCopy}
    BY <1>0, <1>10 DEF SQLiteClose, OpenSQLite
  <2> QED BY <2>0, <2>1, <2>2, OpenTyped
<1>11. CASE SQLiteFindPending
  BY <1>4, <1>11 DEF SQLiteFindPending
<1>12. ASSUME NEW s \in Status, SQLiteFindByStatus(s)
       PROVE  Typed'
  BY <1>4, <1>12 DEF SQLiteFindByStatus
<1>13. ASSUME NEW p \in Id, SQLiteFindByParent(p)
       PROVE  Typed'
  BY <1>4, <1>13 DEF SQLiteFindByParent
<1>14. ASSUME NEW c \in Name, SQLiteFindByCorrelationID(c)
       PROVE  Typed'
  BY <1>4, <1>14 DEF SQLiteFindByCorrelationID
<1> QED
  BY <1>1, <1>2, <1>3, <1>5, <1>6, <1>7, <1>8, <1>9, <1>10, <1>11, <1>12, <1>13, <1>14 DEF SQLiteNext

LEMMA DeleteTyped ==
    ASSUME NEW t \in [Id -> Row \cup {NoRow}], NEW S
    PROVE  DeleteFrom(t, S) \in [Id -> Row \cup {NoRow}]
BY DEF DeleteFrom, Row

LEMMA OverlayTyped ==
    ASSUME Typed, backend = "postgres"
    PROVE  Seen \in [Id -> Row \cup {NoRow}]
BY DEF Typed, TypeOK, Seen, Overlay

\* Statements of an open transaction, and its end.
LEMMA TxTyped ==
    ASSUME Typed, backend = "postgres", TxCalls, rows' \in [Id -> Row \cup {NoRow}],
           answer'.found \subseteq Copy,
           tx' \in [state : {"none", "open", "failed"}, writes : [Id -> Row \cup {NoRow, Same}]],
           tx'.state # "open" => tx'.writes = NoTx.writes
    PROVE  Typed'
BY DEF Typed, TypeOK, TxOK, TxCalls

LEMMA ClaimedTyped ==
    ASSUME rows \in [Id -> Row \cup {NoRow}], NEW S \in SUBSET Present(rows)
    PROVE  Claimed(S) \in [Id -> Row \cup {NoRow}] /\ S \subseteq Present(Claimed(S))
<1>1. ASSUME NEW i \in Id
      PROVE  Claimed(S)[i] \in Row \cup {NoRow} /\ (i \in S => Claimed(S)[i] # NoRow)
  <2>1. i \in S => rows[i] \in Row
    BY DEF Present
  <2>2. rows[i] \in Row => [rows[i] EXCEPT !.status = "STARTED"] \in Row
    BY DEF Row, Status
  <2> QED BY <2>1, <2>2 DEF Claimed
<1> QED BY <1>1 DEF Present, Claimed

LEMMA StoredTyped == \A r \in Row : Stored(r) \in Row
BY DEF Stored, Row


LEMMA PostgresTyped ==
    ASSUME Typed, backend = "postgres", PostgresNext
    PROVE  Typed'
<1> USE DEF Fail, Answer, Reply
<1>0. rows \in [Id -> Row \cup {NoRow}] /\ RowForm = Row
  BY DEF Typed, TypeOK, RowForm
<1>1. CASE PostgresCreate \/ PostgresUpdate
  <2>1. Calls
    BY <1>1 DEF PostgresCreate, PostgresUpdate
  <2>2. held.id \in Id /\ held.row \in Row
    BY <1>1 DEF PostgresCreate, PostgresUpdate, Typed, TypeOK, Copy
  <2>3. Stored(held.row) \in Row
    BY <2>2, StoredTyped
  <2>4. rows' \in [Id -> Row \cup {NoRow}] /\ answer'.found = {}
    BY <1>0, <1>1, <2>2, <2>3 DEF PostgresCreate, PostgresUpdate
  <2> QED BY <1>0, <2>1, <2>4, CallTyped
<1>2. CASE PostgresFails
  BY <1>0, <1>2, CallTyped DEF PostgresFails
<1>3. ASSUME NEW i \in Id, PostgresDelete(i)
      PROVE  Typed'
  <2>1. Calls /\ rows' \in [Id -> Row \cup {NoRow}] /\ answer'.found = {}
    BY <1>0, <1>3, DeleteTyped DEF PostgresDelete
  <2> QED BY <1>0, <2>1, CallTyped
<1>4. ASSUME NEW err, NEW S \in SUBSET Present(rows), PostgresQuery(err, S)
      PROVE  Typed'
  <2>1. Calls /\ rows' = rows /\ answer'.found = Entries(rows, S)
    BY <1>4 DEF PostgresQuery
  <2> QED BY <1>0, <2>1, CallTyped, EntriesTyped
<1>5. ASSUME NEW i \in Id, PostgresGet(i)
      PROVE  Typed'
  <2>1. {} \subseteq Present(rows) /\ (rows[i] # NoRow => {i} \subseteq Present(rows))
    BY DEF Present
  <2> QED BY <1>4, <1>5, <2>1 DEF PostgresGet
<1>6. ASSUME NEW key \in Name, PostgresFindByUniqueKey(key)
      PROVE  Typed'
  BY <1>4, <1>6 DEF PostgresFindByUniqueKey
<1>7. ASSUME NEW age \in Age, PostgresCleanup(age)
      PROVE  Typed'
  <2>1. Calls /\ rows' \in [Id -> Row \cup {NoRow}] /\ answer'.found = {}
    BY <1>0, <1>7, DeleteTyped DEF PostgresCleanup
  <2> QED BY <1>0, <2>1, CallTyped
<1>8. ASSUME NEW s, PostgresCount(s)
      PROVE  Typed'
  <2>1. Calls /\ rows' = rows /\ answer'.found = {}
    BY <1>8 DEF PostgresCount
  <2> QED BY <1>0, <2>1, CallTyped
<1>9. ASSUME NEW q \in Queries, PostgresFind(q)
      PROVE  Typed'
  BY <1>4, <1>9 DEF PostgresFind
<1>10. CASE PostgresClose \/ NewPostgres
  <2>0. open' = FALSE \/ open' = TRUE
    BY <1>10, Zenon DEF PostgresClose, NewPostgres
  <2>1. backend' = backend /\ now' = now /\ edits' = edits /\ answer'.found = {}
    BY <1>10 DEF PostgresClose, NewPostgres
  <2>2. rows' \in [Id -> RowForm \cup {NoRow}] /\ tx' \in {tx, NoTx} /\ held' \in {held, NoCopy}
    BY <1>0, <1>10 DEF PostgresClose, NewPostgres
  <2> QED BY <2>0, <2>1, <2>2, OpenTyped
<1>11. CASE PostgresFindPending
  BY <1>4, <1>11 DEF PostgresFindPending
<1>12. ASSUME NEW s \in Status, PostgresFindByStatus(s)
       PROVE  Typed'
  BY <1>4, <1>12 DEF PostgresFindByStatus
<1>13. ASSUME NEW p \in Id, PostgresFindByParent(p)
       PROVE  Typed'
  BY <1>4, <1>13 DEF PostgresFindByParent
<1>14. ASSUME NEW c \in Name, PostgresFindByCorrelationID(c)
       PROVE  Typed'
  BY <1>4, <1>14 DEF PostgresFindByCorrelationID
<1>15. ASSUME NEW limit \in Limit, PostgresClaimPending(limit)
       PROVE  Typed'
  <2>1. PICK S \in SUBSET Claimable :
           rows' = Claimed(S) /\ (answer'.found = Entries(Claimed(S), S) \/ answer'.found = {})
    BY <1>15 DEF PostgresClaimPending
  <2>2. Claimed(S) \in [Id -> Row \cup {NoRow}] /\ S \subseteq Present(Claimed(S))
    BY <1>0, <2>1, ClaimedTyped DEF Claimable
  <2>3. Calls
    BY <1>15 DEF PostgresClaimPending
  <2> QED BY <1>0, <2>1, <2>2, <2>3, CallTyped, EntriesTyped
<1>16. CASE PostgresBegin
  <2>1. tx.writes = NoTx.writes
    BY <1>16 DEF PostgresBegin, Typed, TxOK
  <2>2. tx' \in [state : {"none", "open", "failed"}, writes : [Id -> Row \cup {NoRow, Same}]] /\ tx'.state = "open"
    BY <1>16 DEF PostgresBegin, Typed, TypeOK
  <2> QED BY <1>0, <1>16, <2>2, TxTyped DEF PostgresBegin, Typed, TypeOK
<1>17. ASSUME NEW writes \in [Id -> Row \cup {NoRow, Same}], TxWrite(writes), tx.state = "open"
       PROVE  Typed'
  <2>1. tx' \in [state : {"none", "open", "failed"}, writes : [Id -> Row \cup {NoRow, Same}]] /\ tx'.state = "open"
    BY <1>17 DEF TxWrite, Typed, TypeOK
  <2> QED BY <1>0, <1>17, <2>1, TxTyped DEF TxWrite
<1>18. CASE TxFails
  <2>1. tx' \in [state : {"none", "open", "failed"}, writes : [Id -> Row \cup {NoRow, Same}]] /\ tx'.writes = NoTx.writes
    BY <1>18 DEF TxFails, NoTx
  <2> QED BY <1>0, <1>18, <2>1, TxTyped DEF TxFails
<1>19. tx.writes \in [Id -> Row \cup {NoRow, Same}]
  BY DEF Typed, TypeOK
<1>20. CASE PostgresTxCreate \/ PostgresTxUpdate
  <2>1. held.id \in Id /\ Stored(held.row) \in Row
    BY <1>20, StoredTyped DEF PostgresTxCreate, PostgresTxUpdate, Typed, TypeOK, Copy
  <2>2. [tx.writes EXCEPT ![held.id] = Stored(held.row)] \in [Id -> Row \cup {NoRow, Same}]
    BY <1>19, <2>1
  <2> QED BY <1>17, <1>18, <1>19, <1>20, <2>2 DEF PostgresTxCreate, PostgresTxUpdate
<1>21. ASSUME NEW i \in Id, PostgresTxDelete(i)
       PROVE  Typed'
  <2> DEFINE after == DeleteFrom(Seen, {i})
             writes == [j \in Id |-> IF after[j] = Seen[j] THEN tx.writes[j] ELSE after[j]]
  <2>1. after \in [Id -> Row \cup {NoRow}]
    BY OverlayTyped, DeleteTyped
  <2>2. writes \in [Id -> Row \cup {NoRow, Same}]
    BY <1>19, <2>1
  <2>3. TxWrite(writes) /\ tx.state = "open"
    BY <1>21 DEF PostgresTxDelete
  <2> HIDE DEF writes
  <2> QED BY <1>17, <2>2, <2>3
<1>22. CASE PostgresTxError
  BY <1>18, <1>22 DEF PostgresTxError
<1>24. ASSUME NEW i \in Id, PostgresTxGet(i)
       PROVE  Typed'
  BY <1>0, <1>24, CallTyped DEF PostgresTxGet
<1>23. CASE PostgresCommit \/ PostgresRollback
  <2>1. rows' \in [Id -> Row \cup {NoRow}] /\ answer'.found = {} /\ TxCalls /\ tx' = NoTx
    BY <1>0, <1>23, OverlayTyped DEF PostgresCommit, PostgresRollback
  <2>2. NoTx \in [state : {"none", "open", "failed"}, writes : [Id -> Row \cup {NoRow, Same}]]
    BY DEF NoTx
  <2> QED BY <2>1, <2>2, TxTyped
<1> QED
  BY <1>1, <1>2, <1>3, <1>5, <1>6, <1>7, <1>8, <1>9, <1>10, <1>11, <1>12, <1>13, <1>14,
     <1>15, <1>16, <1>20, <1>21, <1>22, <1>23, <1>24 DEF PostgresNext

LEMMA EditTyped ==
    ASSUME Typed, Edit
    PROVE  Typed' /\ held' \in Copy
<1>1. ASSUME NEW i \in Id, NEW p \in Id \cup {None}, NEW label \in Labels,
             NEW delay \in Delays, NEW timeout \in Timeouts, Build(i, p, label, delay, timeout)
      PROVE  held' \in Copy
  <2>1. now + delay \in Nat
    BY DEF Typed, TypeOK
  <2> QED BY <1>1, <2>1 DEF Build, Hold, Copy, Row, Status
<1> DEFINE Change(c) == \/ Begin(c)
                        \/ \E delay \in Backoffs : Retry(c, delay)
                        \/ \E s \in Finals : Finish(c, s)
<1>2. ASSUME NEW c \in Copy, Change(c)
      PROVE  held' \in Copy
  <2>1. c.id \in Id /\ c.row \in Row /\ now \in Nat
    BY DEF Copy, Typed, TypeOK
  <2>2. CASE Begin(c)
    BY <2>1, <2>2 DEF Begin, Hold, Copy, Row, Status
  <2>3. ASSUME NEW delay \in Backoffs, Retry(c, delay)
        PROVE  held' \in Copy
    <3>1. now + delay \in Nat
      BY <2>1
    <3> QED BY <2>1, <2>3, <3>1 DEF Retry, Hold, Copy, Row, Status
  <2>4. ASSUME NEW s \in Finals, Finish(c, s)
        PROVE  held' \in Copy
    <3>1. s \in Status
      OBVIOUS
    <3>2. [c.row EXCEPT !.status = s, !.doneAt = now] \in Row /\ [c.row EXCEPT !.status = s] \in Row
      BY <2>1, <3>1 DEF Row
    <3> QED BY <2>1, <2>4, <3>2 DEF Finish, Hold, Copy
  <2> QED BY <1>2, <2>2, <2>3, <2>4
<1>3. answer.found \cup ({held} \ {NoCopy}) \subseteq Copy /\ (held # NoCopy => held.id \in Id)
  BY DEF Typed, TypeOK, Copy
<1>4. held' \in Copy
  <2>1. CASE \E i \in Id, label \in Labels, delay \in Delays, timeout \in Timeouts :
                Build(i, None, label, delay, timeout)
    BY <1>1, <2>1
  <2>2. CASE \E i \in Id, label \in Labels, delay \in Delays, timeout \in Timeouts :
                held # NoCopy /\ held.id # i /\ Build(i, held.id, label, delay, timeout)
    BY <1>1, <1>3, <2>2
  <2>3. CASE \E c \in answer.found \cup ({held} \ {NoCopy}) : Change(c)
    <3> HIDE DEF Change
    <3> QED BY <1>2, <1>3, <2>3
  <2> QED BY <2>1, <2>2, <2>3 DEF Edit
<1>5. /\ UNCHANGED <<backend, now, open, rows, tx>>
      /\ edits' = edits + 1 /\ answer'.found = {}
  BY DEF Edit, NoAnswer
<1> QED BY <1>4, <1>5 DEF Typed, TypeOK, TxOK, NoTx

LEMMA TypedStep ==
    ASSUME Typed, [Next]_vars
    PROVE  Typed'
<1>1. CASE Tick
  BY <1>1 DEF Tick, Typed, TypeOK, TxOK, NoTx
<1>2. CASE UNCHANGED vars
  BY <1>2 DEF vars, Typed, TypeOK, TxOK, NoTx
<1> QED BY <1>1, <1>2, MemoryTyped, SQLiteTyped, PostgresTyped, EditTyped DEF Next

LEMMA TypedInit == Init => Typed
BY DEF Init, Typed, TypeOK, TxOK, NoTx, NoAnswer

LEMMA AlwaysTyped == Spec => []Typed
BY TypedInit, TypedStep, PTL DEF Spec

\* The rows, the transaction and the copies callers hold keep their form.
THEOREM TypeCorrect == Spec => []TypeOK
<1>1. Typed => TypeOK
  BY DEF Typed
<1> QED BY <1>1, AlwaysTyped, PTL
-----------------------------------------------------------------------------
(* The refinement. *)

\* The steps of the contract.
LEMMA ContractSteps ==
    /\ Contract!Edit => Contract!Next
    /\ Contract!Create => Contract!Next
    /\ Contract!Update => Contract!Next
    /\ \A i \in Id : Contract!Delete(i) \/ Contract!Get(i) \/ Contract!FindByParent(i) => Contract!Next
    /\ \A S \in SUBSET Id : Contract!FindPending(S) => Contract!Next
    /\ \A S \in SUBSET Id, age \in Age : Contract!Cleanup(age, S) => Contract!Next
    /\ \A S \in SUBSET Id, limit \in Limit : Contract!ClaimPending(limit, S) => Contract!Next
    /\ \A S \in SUBSET Id, q \in Queries : Contract!Find(q, S) => Contract!Next
    /\ \A s \in Status : Contract!FindByStatus(s) => Contract!Next
    /\ \A s \in Status \cup {None} : Contract!Count(s) => Contract!Next
    /\ \A x \in Name : Contract!FindByUniqueKey(x) \/ Contract!FindByCorrelationID(x) => Contract!Next
    /\ Contract!Refuse => Contract!Next
    /\ Contract!Close \/ Contract!Reopen => Contract!Next
    /\ Contract!TxCreate \/ Contract!TxUpdate \/ Contract!Abort => Contract!Next
    /\ Contract!Commit \/ Contract!Rollback => Contract!Next
    /\ \A i \in Id : Contract!TxDelete(i) \/ Contract!TxGet(i) => Contract!Next
    /\ Contract!Tick => Contract!Next
<1>1. Status = Contract!Status
  BY DEF Status, Contract!Status
<1> QED BY <1>1 DEF Contract!Next

\* The same words mean the same in the contract.
LEMMA SameWords ==
    /\ \A t : Contract!Present(t) = Present(t)
    /\ \A t, S : Contract!Entries(t, S) = Entries(t, S)
    /\ \A t, i : Contract!Entry(t, i) = Entry(t, i)
    /\ \A t, b : Contract!Overlay(t, b) = Overlay(t, b)
    /\ \A n, l, o : Contract!PageSize(n, l, o) = PageSize(n, l, o)
    /\ \A s : Contract!IsActive(s) = IsActive(s) /\ Contract!IsTerminal(s) = IsTerminal(s)
    /\ Contract!Copy = Copy
    /\ Contract!NoAnswer = NoAnswer
    /\ Contract!NoBatch = NoTx.writes
    /\ \A err, found, count : Contract!Answer(err, found, count) <=> Answer(err, found, count)
    /\ \A S : Contract!Cardinality(S) = Cardinality(S)
<1>0. \A S : Contract!Cardinality(S) = Cardinality(S)
  BY DEF Contract!Cardinality, Cardinality
<1>1. Contract!Copy = Copy
  BY DEF Contract!Copy, Copy, Contract!Row, Row, Contract!Status, Status, Contract!Label, Label
<1>2. \A n, l, o : Contract!PageSize(n, l, o) = PageSize(n, l, o)
  BY DEF Contract!PageSize, PageSize
<1>3. \A t, S : Contract!Entries(t, S) = Entries(t, S)
  BY DEF Contract!Entries, Entries, Contract!Entry, Entry
<1>4. \A s : Contract!IsActive(s) = IsActive(s) /\ Contract!IsTerminal(s) = IsTerminal(s)
  BY DEF Contract!IsActive, IsActive, Contract!IsTerminal, IsTerminal
<1>5. Contract!NoBatch = NoTx.writes /\ Contract!NoAnswer = NoAnswer
  BY DEF Contract!NoBatch, NoTx, Contract!NoAnswer, NoAnswer
<1>6. \A t : Contract!Present(t) = Present(t)
  BY DEF Contract!Present, Present
<1>7. \A t, b : Contract!Overlay(t, b) = Overlay(t, b)
  BY DEF Contract!Overlay, Overlay
<1>8. \A err, found, count : Contract!Answer(err, found, count) <=> Answer(err, found, count)
  BY DEF Contract!Answer, Answer
<1>9. \A t, i : Contract!Entry(t, i) = Entry(t, i)
  BY DEF Contract!Entry, Entry
<1> QED BY <1>0, <1>1, <1>2, <1>3, <1>4, <1>5, <1>6, <1>7, <1>8, <1>9

LEMMA MemoryRefines ==
    ASSUME Typed, backend = "memory", MemoryNext
    PROVE  Contract!Next
<1>0. /\ Table = rows /\ Promises.keepsTimeout /\ Promises.keepsParents /\ Promises.local
      /\ Promises.exactTimes /\ Promises.literalTags /\ ~Promises.durable /\ Promises.txErrors
      /\ rows \in [Id -> Row \cup {NoRow}]
  BY DEF Table, Promises, Typed, TypeOK
<1>1. backend' = backend => Table' = rows' /\ Promises' = Promises
  BY DEF Table, Promises
<1> USE SameWords, <1>0, <1>1
<1>2. CASE MemoryCreate
  <2>1. Contract!Create \/ Contract!Refuse
    BY <1>2 DEF MemoryCreate, Fail, Calls, Contract!Create, Contract!Refuse, Contract!Reply,
                Contract!Kept, Contract!ParentKnown, Contract!Writes, Contract!Reads, Present, Typed, TypeOK, Copy
  <2> QED BY <2>1, ContractSteps
<1>3. CASE MemoryUpdate
  <2>1. Contract!Update \/ Contract!Refuse
    BY <1>3 DEF MemoryUpdate, Fail, Calls, Contract!Update, Contract!Refuse, Contract!Reply,
                Contract!Kept, Contract!ParentKnown, Contract!Writes, Contract!Reads, Present, Typed, TypeOK, Copy
  <2> QED BY <2>1, ContractSteps
<1>4. ASSUME NEW i \in Id, MemoryDelete(i)
      PROVE  Contract!Next
  <2>1. Contract!Delete(i) \/ Contract!Refuse
    BY <1>4 DEF MemoryDelete, Fail, Calls, Contract!Delete, Contract!Refuse, Contract!Reply,
                Contract!Without, Contract!Writes, Contract!Reads
  <2> QED BY <2>1, ContractSteps
<1>5. ASSUME NEW i \in Id, MemoryGet(i)
      PROVE  Contract!Next
  <2>1. Contract!Get(i) \/ Contract!Refuse
    BY <1>5 DEF MemoryGet, Calls, Contract!Get, Contract!Refuse, Contract!Reads, Present
  <2> QED BY <2>1, ContractSteps
\* A scan of a closed storage is refused, of an open one answered.
<1>6. ASSUME NEW S, MemoryScan(S)
      PROVE  \/ Contract!Refuse
             \/ open /\ Answer("nil", Entries(rows, S), 0) /\ Contract!Reads
  BY <1>6 DEF MemoryScan, Calls, Contract!Refuse, Contract!Reads
<1>7. CASE MemoryFindPending
  <2> DEFINE S == {i \in Present(rows) : IsActive(rows[i].status) /\ ~(rows[i].readyAt > now)}
  <2>1. S \in SUBSET Id /\ S \subseteq Present(rows)
    BY DEF Present
  <2>2. \A i \in Present(rows) : rows[i].readyAt \in Nat /\ now \in Nat
    BY DEF Present, Row, Typed, TypeOK
  <2>3. \A i \in Present(rows) : IF IsActive(rows[i].status) THEN i \in S <=> rows[i].readyAt <= now
                                                               ELSE i \notin S
    BY <2>2
  <2>4. MemoryScan(S)
    BY <1>7 DEF MemoryFindPending
  <2> HIDE DEF S
  <2>call. call' = <<"FindPending">>
    BY <1>7 DEF MemoryFindPending
  <2>5. Contract!FindPending(S) \/ Contract!Refuse
    BY <2>call, <1>6, <2>1, <2>3, <2>4 DEF Contract!FindPending
  <2> QED BY <2>1, <2>5, ContractSteps
<1>8. ASSUME NEW s \in Status, MemoryFindByStatus(s)
      PROVE  Contract!Next
  <2>1. Contract!FindByStatus(s) \/ Contract!Refuse
    BY <1>6, <1>8 DEF MemoryFindByStatus, Contract!FindByStatus
  <2> QED BY <2>1, ContractSteps
<1>9. ASSUME NEW p \in Id, MemoryFindByParent(p)
      PROVE  Contract!Next
  <2>1. {i \in Present(rows) : rows[i].parent # None /\ rows[i].parent = p}
          = {i \in Present(rows) : rows[i].parent = p}
    OBVIOUS
  <2>2. Contract!FindByParent(p) \/ Contract!Refuse
    BY <1>6, <1>9, <2>1 DEF MemoryFindByParent, Contract!FindByParent
  <2> QED BY <2>2, ContractSteps
<1>10. ASSUME NEW key \in Name, MemoryFindByUniqueKey(key)
       PROVE  Contract!Next
  <2>1. Contract!FindByUniqueKey(key) \/ Contract!Refuse
    BY <1>10 DEF MemoryFindByUniqueKey, Calls, Contract!FindByUniqueKey, Contract!Refuse, Contract!Reads
  <2> QED BY <2>1, ContractSteps
<1>11. ASSUME NEW age \in Age, MemoryCleanup(age)
       PROVE  Contract!Next
  <2> DEFINE old == {i \in Present(rows) : /\ IsTerminal(rows[i].status)
                                           /\ rows[i].doneAt # None
                                           /\ rows[i].doneAt < now - age}
  <2>1. old \in SUBSET Id /\ old \subseteq Present(rows) /\ age <= now
    BY <1>11 DEF Present, MemoryCleanup
  <2>2. \A i \in Present(rows) : IF IsTerminal(rows[i].status) /\ rows[i].doneAt # None
                                  THEN i \in old <=> rows[i].doneAt < now - age
                                  ELSE i \notin old
    OBVIOUS
  <2>3. /\ Calls
        /\ \/ ~open /\ Fail("ErrStorageClosed")
           \/ /\ open /\ Answer("nil", {}, Cardinality(old))
              /\ rows' = [i \in Id |-> IF i \in old THEN NoRow ELSE rows[i]]
    BY <1>11 DEF MemoryCleanup
  <2> HIDE DEF old
  <2>call. call' = <<"Cleanup", age>>
    BY <1>11 DEF MemoryCleanup
  <2>4. Contract!Cleanup(age, old) \/ Contract!Refuse
    BY <2>call, <2>1, <2>2, <2>3 DEF Contract!Cleanup, Contract!Refuse, Contract!Without, Contract!Reply,
                            Contract!Writes, Contract!Reads, Calls, Fail
  <2> QED BY <2>1, <2>4, ContractSteps
<1>12. ASSUME NEW s \in Status \cup {None}, MemoryCount(s)
       PROVE  Contract!Next
  <2>1. {i \in Present(rows) : s = None \/ rows[i].status = s}
          = {i \in Present(rows) : s \in {None, rows[i].status}}
    OBVIOUS
  <2>2. Contract!Count(s) \/ Contract!Refuse
    BY <1>12, <2>1 DEF MemoryCount, Calls, Contract!Count, Contract!Refuse, Contract!Reads
  <2> QED BY <2>2, ContractSteps
<1>13. ASSUME NEW q \in Queries, MemoryFind(q)
       PROVE  Contract!Next
  <2>1. {i \in Present(rows) : MemoryMatches(rows[i], q)}
          = {i \in Present(rows) : Contract!Matches(q, rows[i])}
    BY DEF MemoryMatches, Contract!Matches
  <2> DEFINE fits == {i \in Present(rows) : Contract!Matches(q, rows[i])}
  <2>2. PICK S \in SUBSET fits : /\ Cardinality(S) = PageSize(Cardinality(fits), q.limit, q.offset)
                                 /\ MemoryScan(S)
    BY <1>13, <2>1 DEF MemoryFind
  <2>call. call' = <<"Find", q>>
    BY <1>13 DEF MemoryFind
  <2>3. Contract!Find(q, S) \/ Contract!Refuse
    BY <2>call, <1>6, <2>2 DEF Contract!Find
  <2>4. S \in SUBSET Id
    BY DEF Present
  <2> QED BY <2>3, <2>4, ContractSteps
<1>14. CASE MemoryClose
  <2>1. tx.writes = NoTx.writes /\ tx.state = "none"
    BY DEF Typed, TxOK, NoTx
  <2>2. Contract!Close
    BY <1>14, <2>1 DEF MemoryClose, Contract!Close
  <2> QED BY <2>2, ContractSteps
<1>15. CASE NewMemory
  <2>1. Contract!Reopen
    BY <1>15 DEF NewMemory, Contract!Reopen
  <2> QED BY <2>1, ContractSteps
<1> QED
  BY <1>2, <1>3, <1>4, <1>5, <1>7, <1>8, <1>9, <1>10, <1>11, <1>12, <1>13, <1>14, <1>15 DEF MemoryNext

\* SQLite's rows as instances.
LEMMA SQLiteTable ==
    ASSUME Typed, backend = "sqlite"
    PROVE  /\ Present(Table) = Present(rows)
           /\ \A i \in Present(rows) :
                 /\ Table[i] = ScanInstance(rows[i]) /\ Table[i] \in Row /\ rows[i] \in SQLRow
                 /\ Table[i].status = rows[i].status /\ Table[i].parent = rows[i].parent_id
                 /\ Table[i].label = rows[i].label
           /\ \A S \in SUBSET Present(rows) : Scanned(S) = Entries(Table, S)
<1>1. ASSUME NEW i \in Id
      PROVE  Table[i] = IF rows[i] = NoRow THEN NoRow ELSE ScanInstance(rows[i])
  BY DEF Table
<1>2. ASSUME NEW i \in Present(rows)
      PROVE  i \in Id /\ rows[i] \in SQLRow /\ Table[i] = ScanInstance(rows[i]) /\ Table[i] \in Row
  BY <1>1, ScanType DEF Present, Typed, TypeOK
<1>3. Present(Table) = Present(rows)
  BY <1>1, <1>2 DEF Present
<1>4. ASSUME NEW i \in Present(rows)
      PROVE  /\ Table[i].status = rows[i].status /\ Table[i].parent = rows[i].parent_id
             /\ Table[i].label = rows[i].label
  BY <1>2, ScanFields
<1>5. ASSUME NEW S \in SUBSET Present(rows)
      PROVE  Scanned(S) = Entries(Table, S)
  BY <1>2 DEF Scanned, Entries, Entry
<1> QED BY <1>2, <1>3, <1>4, <1>5

LEMMA SQLiteRefines ==
    ASSUME Typed, backend = "sqlite", SQLiteNext
    PROVE  Contract!Next
<1>0. /\ ~Promises.keepsTimeout /\ Promises.keepsParents /\ ~Promises.local
      /\ ~Promises.exactTimes /\ ~Promises.literalTags /\ Promises.durable /\ Promises.txErrors
      /\ rows \in [Id -> SQLRow \cup {NoRow}] /\ now \in Nat
  BY DEF Promises, Typed, TypeOK
<1>1. backend' = backend =>
        /\ Promises' = Promises
        /\ Table' = [i \in Id |-> IF rows'[i] = NoRow THEN NoRow ELSE ScanInstance(rows'[i])]
        /\ rows' = rows => Table' = Table
  BY DEF Table, Promises
<1>2. Table = [i \in Id |-> IF rows[i] = NoRow THEN NoRow ELSE ScanInstance(rows[i])]
  BY DEF Table
<1> USE SameWords, SQLiteTable, <1>0, <1>1
\* A write of the instance that is held.
<1>3. ASSUME held # NoCopy, rows' = [rows EXCEPT ![held.id] = Columns(held.row)], Calls
      PROVE  Table' = [Table EXCEPT ![held.id] = Contract!Kept(held.row)]
  <2>1. held.id \in Id /\ held.row \in Row
    BY <1>3 DEF Typed, TypeOK, Copy
  <2>2. Columns(held.row) # NoRow /\ ScanInstance(Columns(held.row)) = Contract!Kept(held.row)
    BY <2>1, ScanColumns DEF Contract!Kept
  <2> QED BY <1>2, <1>3, <2>1, <2>2 DEF Calls
\* A delete of the rows S.
<1>4. ASSUME NEW S \in SUBSET Id, rows' = [i \in Id |-> IF i \in S THEN NoRow ELSE rows[i]], Calls
      PROVE  Table' = Contract!Without(Table, S)
  BY <1>2, <1>4 DEF Calls, Contract!Without
<1>5. CASE SQLiteCreate
  <2>1. Contract!Create
    BY <1>3, <1>5 DEF SQLiteCreate, Reply, Fail, Calls, Contract!Create, Contract!Reply,
                      Contract!ParentKnown, Contract!Writes, Present, Typed, TypeOK, Copy
  <2> QED BY <2>1, ContractSteps
<1>6. CASE SQLiteUpdate
  <2>1. Contract!Update
    BY <1>3, <1>6 DEF SQLiteUpdate, Reply, Fail, Calls, Contract!Update, Contract!Reply,
                      Contract!ParentKnown, Contract!Writes, Present, Typed, TypeOK, Copy
  <2> QED BY <2>1, ContractSteps
<1>7. CASE SQLiteFails
  <2>1. Contract!Refuse
    BY <1>7 DEF SQLiteFails, Fail, Calls, Contract!Refuse, Contract!Reads
  <2> QED BY <2>1, ContractSteps
<1>8. ASSUME NEW i \in Id, SQLiteDelete(i)
      PROVE  Contract!Next
  <2>1. rows' = [j \in Id |-> IF j \in {i} THEN NoRow ELSE rows[j]] /\ Calls
    BY <1>8 DEF SQLiteDelete
  <2>2. Table' = Contract!Without(Table, {i})
    BY <1>4, <2>1
  <2>3. Contract!Delete(i)
    BY <1>8, <2>2 DEF SQLiteDelete, Reply, Calls, Contract!Delete, Contract!Reply, Contract!Writes
  <2> QED BY <2>3, ContractSteps
<1>9. ASSUME NEW err, NEW S \in SUBSET Present(rows), SQLiteQuery(err, S)
      PROVE  open /\ Answer(err, Entries(Table, S), 0) /\ Contract!Reads
  BY <1>9 DEF SQLiteQuery, Calls, Contract!Reads
<1>10. ASSUME NEW i \in Id, SQLiteGet(i)
       PROVE  Contract!Next
  <2>1. {} \subseteq Present(rows) /\ (rows[i] # NoRow => {i} \subseteq Present(rows))
    BY DEF Present
  <2>2. Entries(Table, {}) = {} /\ Entries(Table, {i}) = {Entry(Table, i)}
    BY DEF Entries
  <2>3. CASE rows[i] = NoRow
    <3>1. open /\ Answer("ErrNotFound", Entries(Table, {}), 0) /\ Contract!Reads
      BY <1>9, <1>10, <2>1, <2>3 DEF SQLiteGet
    <3>call. call' = <<"Get", i>>
      BY <1>10 DEF SQLiteGet
    <3>2. Contract!Get(i)
      BY <3>call, <2>2, <2>3, <3>1 DEF Contract!Get, Present
    <3> QED BY <3>2, ContractSteps
  <2>4. CASE rows[i] # NoRow
    <3>1. open /\ Answer("nil", Entries(Table, {i}), 0) /\ Contract!Reads
      BY <1>9, <1>10, <2>1, <2>4 DEF SQLiteGet
    <3>call. call' = <<"Get", i>>
      BY <1>10 DEF SQLiteGet
    <3>2. Contract!Get(i)
      BY <3>call, <2>2, <2>4, <3>1 DEF Contract!Get, Present
    <3> QED BY <3>2, ContractSteps
  <2> QED BY <2>3, <2>4
<1>11. CASE SQLiteFindPending
  <2> DEFINE S == {i \in Present(rows) : /\ IsActive(rows[i].status)
                                         /\ TextLE(rows[i].ready_at, Text(now))}
  <2>1. S \in SUBSET Id /\ S \subseteq Present(Table)
    BY DEF Present
  <2>2. ASSUME NEW i \in Present(rows)
        PROVE  IF IsActive(Table[i].status)
               THEN Contract!Vague(Table[i].readyAt, now) \/ (i \in S <=> Table[i].readyAt <= now)
               ELSE i \notin S
    <3>1. CASE ~IsActive(rows[i].status)
      BY <3>1
    <3>2. CASE IsActive(rows[i].status) /\ Table[i].readyAt \div Second # now \div Second
      <4>1. Text(Table[i].readyAt) = rows[i].ready_at /\ Table[i].readyAt \in Nat
        <5>1. rows[i].ready_at \in TimeText /\ Table[i].readyAt = Parse(rows[i].ready_at)
          BY ScanFields DEF SQLRow
        <5> QED BY <5>1, TextParse
      <4>2. TextLE(rows[i].ready_at, Text(now)) <=> Table[i].readyAt <= now
        BY <3>2, <4>1, TextOrder
      <4> QED BY <3>2, <4>2
    <3>3. CASE IsActive(rows[i].status) /\ Table[i].readyAt \div Second = now \div Second
      BY <3>3 DEF Contract!Vague, Contract!SameSecond
    <3> QED BY <3>1, <3>2, <3>3
  <2>3. SQLiteQuery("nil", S)
    BY <1>11 DEF SQLiteFindPending
  <2> HIDE DEF S
  <2>call. call' = <<"FindPending">>
    BY <1>11 DEF SQLiteFindPending
  <2>4. Contract!FindPending(S)
    BY <2>call, <1>9, <2>1, <2>2, <2>3 DEF Contract!FindPending
  <2> QED BY <2>1, <2>4, ContractSteps
<1>12. ASSUME NEW s \in Status, SQLiteFindByStatus(s)
       PROVE  Contract!Next
  <2>1. {i \in Present(rows) : rows[i].status = s} = {i \in Present(Table) : Table[i].status = s}
    OBVIOUS
  <2>2. Contract!FindByStatus(s)
    BY <1>9, <1>12, <2>1 DEF SQLiteFindByStatus, Contract!FindByStatus
  <2> QED BY <2>2, ContractSteps
<1>13. ASSUME NEW p \in Id, SQLiteFindByParent(p)
       PROVE  Contract!Next
  <2>1. {i \in Present(rows) : rows[i].parent_id = p} = {i \in Present(Table) : Table[i].parent = p}
    OBVIOUS
  <2>2. Contract!FindByParent(p)
    BY <1>9, <1>13, <2>1 DEF SQLiteFindByParent, Contract!FindByParent
  <2> QED BY <2>2, ContractSteps
<1>14. ASSUME NEW c \in Name, SQLiteFindByCorrelationID(c)
       PROVE  Contract!Next
  <2>1. {i \in Present(rows) : rows[i].label.corr = c} = {i \in Present(Table) : Table[i].label.corr = c}
    OBVIOUS
  <2>2. Contract!FindByCorrelationID(c)
    BY <1>9, <1>14, <2>1 DEF SQLiteFindByCorrelationID, Contract!FindByCorrelationID
  <2> QED BY <2>2, ContractSteps
<1>15. ASSUME NEW key \in Name, SQLiteFindByUniqueKey(key)
       PROVE  Contract!Next
  <2> DEFINE holders == {i \in Present(rows) : rows[i].label.key = key /\ IsActive(rows[i].status)}
  <2>1. holders = {i \in Present(Table) : Table[i].label.key = key /\ IsActive(Table[i].status)}
    OBVIOUS
  <2>2. Entries(Table, {}) = {} /\ \A i : Entries(Table, {i}) = {Entry(Table, i)}
    BY DEF Entries
  <2>3. \/ holders = {} /\ SQLiteQuery("ErrNotFound", {})
        \/ holders # {} /\ \E i \in holders : SQLiteQuery("nil", {i})
    BY <1>15 DEF SQLiteFindByUniqueKey
  <2>4. CASE holders = {}
    <3>1. open /\ Answer("ErrNotFound", Entries(Table, {}), 0) /\ Contract!Reads
      BY <1>9, <2>3, <2>4
    <3>call. call' = <<"FindByUniqueKey", key>>
      BY <1>15 DEF SQLiteFindByUniqueKey
    <3>2. Contract!FindByUniqueKey(key)
      BY <3>call, <2>1, <2>2, <2>4, <3>1 DEF Contract!FindByUniqueKey
    <3> QED BY <3>2, ContractSteps
  <2>5. CASE holders # {}
    <3>1. PICK i \in holders : SQLiteQuery("nil", {i})
      BY <2>3, <2>5
    <3>2. open /\ Answer("nil", Entries(Table, {i}), 0) /\ Contract!Reads
      BY <1>9, <3>1
    <3>3. Answer("nil", {Entry(Table, i)}, 0)
      BY <2>2, <3>2
    <3> HIDE DEF holders
    <3>call. call' = <<"FindByUniqueKey", key>>
      BY <1>15 DEF SQLiteFindByUniqueKey
    <3>4. Contract!FindByUniqueKey(key)
      BY <3>call, <2>1, <2>5, <3>2, <3>3 DEF Contract!FindByUniqueKey
    <3> QED BY <3>4, ContractSteps
  <2> QED BY <2>4, <2>5
<1>16. ASSUME NEW age \in Age, SQLiteCleanup(age)
       PROVE  Contract!Next
  <2> DEFINE old == {i \in Present(rows) : /\ IsTerminal(rows[i].status)
                                           /\ rows[i].completed_at # None
                                           /\ TextLT(rows[i].completed_at, Text(now - age))}
  <2>1. old \in SUBSET Id /\ old \subseteq Present(Table) /\ age <= now /\ now - age \in Nat
    BY <1>16 DEF Present, SQLiteCleanup
  <2>2. ASSUME NEW i \in Present(rows)
        PROVE  IF IsTerminal(Table[i].status) /\ Table[i].doneAt # None
               THEN Contract!Vague(Table[i].doneAt, now - age) \/ (i \in old <=> Table[i].doneAt < now - age)
               ELSE i \notin old
    <3>0. Table[i].doneAt = ParseNull(rows[i].completed_at)
      BY ScanFields
    <3>1. CASE rows[i].completed_at = None
      BY <3>0, <3>1 DEF ParseNull
    <3>2. CASE rows[i].completed_at # None
      <4>1. /\ rows[i].completed_at \in TimeText
            /\ Table[i].doneAt = Parse(rows[i].completed_at)
        BY <3>0, <3>2 DEF ParseNull, SQLRow
      <4>2. Text(Table[i].doneAt) = rows[i].completed_at /\ Table[i].doneAt \in Nat
        BY <4>1, TextParse
      <4>3. CASE Table[i].doneAt \div Second = (now - age) \div Second
        BY <3>2, <4>2, <4>3 DEF Contract!Vague, Contract!SameSecond
      <4>4. CASE Table[i].doneAt \div Second # (now - age) \div Second
        <5>1. TextLT(rows[i].completed_at, Text(now - age)) <=> Table[i].doneAt < now - age
          BY <2>1, <4>2, <4>4, TextOrder
        <5>2. Table[i].doneAt # None /\ Table[i].status = rows[i].status
          BY <4>2
        <5> HIDE SQLiteTable, SameWords
        <5> QED BY <3>2, <5>1, <5>2
      <4> QED BY <4>3, <4>4
    <3> QED BY <3>1, <3>2
  <2>3. /\ open /\ Calls /\ Reply("nil", Cardinality(old))
        /\ rows' = [i \in Id |-> IF i \in old THEN NoRow ELSE rows[i]]
    BY <1>16 DEF SQLiteCleanup
  <2> HIDE DEF old
  <2>4. Table' = Contract!Without(Table, old)
    BY <1>4, <2>1, <2>3
  <2>call. call' = <<"Cleanup", age>>
    BY <1>16 DEF SQLiteCleanup
  <2>5. Contract!Cleanup(age, old)
    BY <2>call, <2>1, <2>2, <2>3, <2>4 DEF Contract!Cleanup, Contract!Reply, Reply, Contract!Writes, Calls
  <2> QED BY <2>1, <2>5, ContractSteps
<1>17. ASSUME NEW s \in Status \cup {None}, SQLiteCount(s)
       PROVE  Contract!Next
  <2>1. {i \in Present(rows) : s = None \/ rows[i].status = s}
          = {i \in Present(Table) : s \in {None, Table[i].status}}
    OBVIOUS
  <2>2. Contract!Count(s)
    BY <1>17, <2>1 DEF SQLiteCount, Calls, Contract!Count, Contract!Reads
  <2> QED BY <2>2, ContractSteps
<1>18. ASSUME NEW q \in Queries, SQLiteFind(q)
       PROVE  Contract!Next
  <2> DEFINE result == {i \in Present(rows) : /\ q.status = None \/ rows[i].status = q.status
                                              /\ q.tag = None \/ Like(q.tag, rows[i].label.tag)}
  <2>1. result = {i \in Present(Table) : Contract!Matches(q, Table[i])}
    <3>1. <<None, None>> \notin Alike /\ \A x : <<None, x>> \notin Alike
      OBVIOUS
    <3> QED BY <3>1 DEF Contract!Matches, Like
  <2>2. PICK S \in SUBSET result : /\ Cardinality(S) = PageSize(Cardinality(result), q.limit, q.offset)
                                   /\ SQLiteQuery("nil", S)
    BY <1>18 DEF SQLiteFind
  <2>3. S \in SUBSET Id /\ S \in SUBSET Present(rows)
    BY DEF Present
  <2> HIDE DEF result
  <2>call. call' = <<"Find", q>>
    BY <1>18 DEF SQLiteFind
  <2>4. Contract!Find(q, S)
    BY <2>call, <1>9, <2>1, <2>2, <2>3 DEF Contract!Find
  <2> QED BY <2>3, <2>4, ContractSteps
<1>19. CASE SQLiteClose
  <2>1. tx.writes = NoTx.writes /\ tx.state = "none"
    BY DEF Typed, TxOK, NoTx
  <2>2. Contract!Close
    BY <1>19, <2>1 DEF SQLiteClose, Contract!Close
  <2> QED BY <2>2, ContractSteps
<1>20. CASE OpenSQLite
  <2>1. Contract!Reopen
    BY <1>20 DEF OpenSQLite, Contract!Reopen
  <2> QED BY <2>1, ContractSteps
<1> QED
  BY <1>5, <1>6, <1>7, <1>8, <1>10, <1>11, <1>12, <1>13, <1>14, <1>15, <1>16, <1>17, <1>18,
     <1>19, <1>20 DEF SQLiteNext

LEMMA PostgresRefines ==
    ASSUME Typed, backend = "postgres", PostgresNext
    PROVE  Contract!Next \/ UNCHANGED Contract!vars
<1>0. /\ Table = rows /\ ~Promises.keepsTimeout /\ ~Promises.keepsParents /\ ~Promises.local
      /\ Promises.exactTimes /\ Promises.literalTags /\ Promises.durable /\ ~Promises.txErrors
      /\ rows \in [Id -> Row \cup {NoRow}] /\ now \in Nat
  BY DEF Table, Promises, Typed, TypeOK
<1>1. backend' = backend => Table' = rows' /\ Promises' = Promises
  BY DEF Table, Promises
<1>2. \A t, S : Contract!Without(t, S) = DeleteFrom(t, S)
  BY <1>0 DEF Contract!Without, DeleteFrom
<1>3. \A r : Contract!Kept(r) = Stored(r)
  BY <1>0 DEF Contract!Kept, Stored
<1> USE SameWords, <1>0, <1>1
<1>4. CASE PostgresCreate
  <2>1. Contract!Create
    BY <1>3, <1>4 DEF PostgresCreate, ParentThere, Reply, Fail, Calls, Contract!Create, Contract!Reply,
                      Contract!ParentKnown, Contract!Writes, Present, Typed, TypeOK, Copy
  <2> QED BY <2>1, ContractSteps
<1>5. CASE PostgresUpdate
  <2>1. Contract!Update
    BY <1>3, <1>5 DEF PostgresUpdate, ParentThere, Reply, Fail, Calls, Contract!Update, Contract!Reply,
                      Contract!ParentKnown, Contract!Writes, Present, Typed, TypeOK, Copy
  <2> QED BY <2>1, ContractSteps
<1>6. CASE PostgresFails
  <2>1. Contract!Refuse
    BY <1>6 DEF PostgresFails, Fail, Calls, Contract!Refuse, Contract!Reads
  <2> QED BY <2>1, ContractSteps
<1>7. ASSUME NEW i \in Id, PostgresDelete(i)
      PROVE  Contract!Next
  <2>1. Contract!Delete(i)
    BY <1>2, <1>7 DEF PostgresDelete, Reply, Calls, Contract!Delete, Contract!Reply, Contract!Writes
  <2> QED BY <2>1, ContractSteps
<1>8. ASSUME NEW err, NEW S, PostgresQuery(err, S)
      PROVE  open /\ Answer(err, Entries(Table, S), 0) /\ Contract!Reads
  BY <1>8 DEF PostgresQuery, Calls, Contract!Reads
<1>9. Entries(Table, {}) = {} /\ \A i : Entries(Table, {i}) = {Entry(Table, i)}
  BY DEF Entries
<1>10. ASSUME NEW i \in Id, PostgresGet(i)
       PROVE  Contract!Next
  <2>1. CASE rows[i] = NoRow
    <3>1. open /\ Answer("ErrNotFound", Entries(Table, {}), 0) /\ Contract!Reads
      BY <1>8, <1>10, <2>1 DEF PostgresGet
    <3>call. call' = <<"Get", i>>
      BY <1>10 DEF PostgresGet
    <3>2. Contract!Get(i)
      BY <3>call, <1>9, <2>1, <3>1 DEF Contract!Get, Present
    <3> QED BY <3>2, ContractSteps
  <2>2. CASE rows[i] # NoRow
    <3>1. open /\ Answer("nil", Entries(Table, {i}), 0) /\ Contract!Reads
      BY <1>8, <1>10, <2>2 DEF PostgresGet
    <3>call. call' = <<"Get", i>>
      BY <1>10 DEF PostgresGet
    <3>2. Contract!Get(i)
      BY <3>call, <1>9, <2>2, <3>1 DEF Contract!Get, Present
    <3> QED BY <3>2, ContractSteps
  <2> QED BY <2>1, <2>2
<1>11. CASE PostgresFindPending
  <2> DEFINE S == {i \in Present(rows) : IsActive(rows[i].status) /\ rows[i].readyAt <= now}
  <2>1. S \in SUBSET Id /\ S \subseteq Present(rows)
    BY DEF Present
  <2>2. \A i \in Present(rows) : IF IsActive(rows[i].status) THEN i \in S <=> rows[i].readyAt <= now
                                                               ELSE i \notin S
    OBVIOUS
  <2>3. open /\ Answer("nil", Entries(Table, S), 0) /\ Contract!Reads
    BY <1>8, <1>11 DEF PostgresFindPending
  <2> HIDE DEF S
  <2>call. call' = <<"FindPending">>
    BY <1>11 DEF PostgresFindPending
  <2>4. Contract!FindPending(S)
    BY <2>call, <2>1, <2>2, <2>3 DEF Contract!FindPending
  <2> QED BY <2>1, <2>4, ContractSteps
<1>12. ASSUME NEW s \in Status, PostgresFindByStatus(s)
       PROVE  Contract!Next
  <2>1. Contract!FindByStatus(s)
    BY <1>8, <1>12 DEF PostgresFindByStatus, Contract!FindByStatus
  <2> QED BY <2>1, ContractSteps
<1>13. ASSUME NEW p \in Id, PostgresFindByParent(p)
       PROVE  Contract!Next
  <2>1. Contract!FindByParent(p)
    BY <1>8, <1>13 DEF PostgresFindByParent, Contract!FindByParent
  <2> QED BY <2>1, ContractSteps
<1>14. ASSUME NEW c \in Name, PostgresFindByCorrelationID(c)
       PROVE  Contract!Next
  <2>1. Contract!FindByCorrelationID(c)
    BY <1>8, <1>14 DEF PostgresFindByCorrelationID, Contract!FindByCorrelationID
  <2> QED BY <2>1, ContractSteps
<1>15. ASSUME NEW key \in Name, PostgresFindByUniqueKey(key)
       PROVE  Contract!Next
  <2> DEFINE holders == {i \in Present(rows) : rows[i].label.key = key /\ IsActive(rows[i].status)}
  <2>1. CASE holders = {}
    <3>1. open /\ Answer("ErrNotFound", Entries(Table, {}), 0) /\ Contract!Reads
      BY <1>8, <1>15, <2>1 DEF PostgresFindByUniqueKey
    <3>call. call' = <<"FindByUniqueKey", key>>
      BY <1>15 DEF PostgresFindByUniqueKey
    <3>2. Contract!FindByUniqueKey(key)
      BY <3>call, <1>9, <2>1, <3>1 DEF Contract!FindByUniqueKey
    <3> QED BY <3>2, ContractSteps
  <2>2. CASE holders # {}
    <3>1. PICK i \in holders : PostgresQuery("nil", {i})
      BY <1>15, <2>2 DEF PostgresFindByUniqueKey
    <3>2. open /\ Answer("nil", Entries(Table, {i}), 0) /\ Contract!Reads
      BY <1>8, <3>1
    <3>3. Answer("nil", {Entry(Table, i)}, 0)
      BY <1>9, <3>2
    <3>call. call' = <<"FindByUniqueKey", key>>
      BY <1>15 DEF PostgresFindByUniqueKey
    <3>4. Contract!FindByUniqueKey(key)
      BY <3>call, <2>2, <3>2, <3>3 DEF Contract!FindByUniqueKey
    <3> QED BY <3>4, ContractSteps
  <2> QED BY <2>1, <2>2
<1>16. ASSUME NEW age \in Age, PostgresCleanup(age)
       PROVE  Contract!Next
  <2> DEFINE old == {i \in Present(rows) : /\ IsTerminal(rows[i].status)
                                           /\ rows[i].doneAt # None
                                           /\ rows[i].doneAt < now - age}
  <2>1. old \in SUBSET Id /\ old \subseteq Present(rows) /\ age <= now
    BY <1>16 DEF Present, PostgresCleanup
  <2>2. \A i \in Present(rows) : IF IsTerminal(rows[i].status) /\ rows[i].doneAt # None
                                  THEN i \in old <=> rows[i].doneAt < now - age
                                  ELSE i \notin old
    OBVIOUS
  <2>3. open /\ Calls /\ Reply("nil", Cardinality(old)) /\ rows' = DeleteFrom(rows, old)
    BY <1>16 DEF PostgresCleanup
  <2> HIDE DEF old
  <2>call. call' = <<"Cleanup", age>>
    BY <1>16 DEF PostgresCleanup
  <2>4. Contract!Cleanup(age, old)
    BY <2>call, <1>2, <2>1, <2>2, <2>3 DEF Contract!Cleanup, Contract!Reply, Reply, Contract!Writes, Calls
  <2> QED BY <2>1, <2>4, ContractSteps
<1>17. ASSUME NEW s \in Status \cup {None}, PostgresCount(s)
       PROVE  Contract!Next
  <2>1. {i \in Present(rows) : s = None \/ rows[i].status = s}
          = {i \in Present(rows) : s \in {None, rows[i].status}}
    OBVIOUS
  <2>2. Contract!Count(s)
    BY <1>17, <2>1 DEF PostgresCount, Calls, Contract!Count, Contract!Reads
  <2> QED BY <2>2, ContractSteps
<1>18. ASSUME NEW q \in Queries, PostgresFind(q)
       PROVE  Contract!Next
  <2> DEFINE result == {i \in Present(rows) : /\ q.status = None \/ rows[i].status = q.status
                                              /\ q.tag = None \/ rows[i].label.tag = q.tag}
  <2>1. result = {i \in Present(rows) : Contract!Matches(q, rows[i])}
    BY DEF Contract!Matches
  <2>2. PICK S \in SUBSET result : /\ Cardinality(S) = PageSize(Cardinality(result), q.limit, q.offset)
                                   /\ PostgresQuery("nil", S)
    BY <1>18 DEF PostgresFind
  <2>3. S \in SUBSET Id
    BY DEF Present
  <2>4. open /\ Answer("nil", Entries(Table, S), 0) /\ Contract!Reads
    BY <1>8, <2>2
  <2> HIDE DEF result
  <2>call. call' = <<"Find", q>>
    BY <1>18 DEF PostgresFind
  <2>5. Contract!Find(q, S)
    BY <2>call, <2>1, <2>2, <2>4 DEF Contract!Find
  <2> QED BY <2>3, <2>5, ContractSteps
<1>19. ASSUME NEW limit \in Limit, PostgresClaimPending(limit)
       PROVE  Contract!Next
  <2>1. PICK S \in SUBSET Claimable :
           /\ Cardinality(S) = PageSize(Cardinality(Claimable), limit, 0)
           /\ rows' = Claimed(S)
           /\ Answer("nil", Entries(Claimed(S), S), 0) \/ Answer("error", {}, 0)
    BY <1>19 DEF PostgresClaimPending
  <2>2. Cardinality(S) <= limit
    <3>1. Claimable \subseteq Id
      BY DEF Claimable, Present
    <3>2. Cardinality(Claimable) \in Nat
      BY <3>1, FS_Subset, FS_CardinalityType
    <3> QED BY <2>1, <3>2 DEF PageSize
  <2>3. /\ S \in SUBSET Id
        /\ \A i \in S : /\ i \in Present(rows)
                        /\ rows[i].status \in {"PENDING", "REPEATING"}
                        /\ rows[i].readyAt <= now
    BY <2>1 DEF Claimable, Present
  <2>4. Contract!Claimed(S) = Claimed(S)
    BY DEF Contract!Claimed, Claimed
  <2>5. open /\ Calls
    BY <1>19 DEF PostgresClaimPending
  <2>call. call' = <<"ClaimPending", limit>>
    BY <1>19 DEF PostgresClaimPending
  <2>6. Contract!ClaimPending(limit, S)
    BY <2>call, <2>1, <2>2, <2>3, <2>4, <2>5 DEF Contract!ClaimPending, Contract!Writes, Calls
  <2> QED BY <2>3, <2>6, ContractSteps
<1>20. CASE PostgresClose
  <2>1. Contract!Close
    BY <1>20 DEF PostgresClose, NoTx, Contract!Close
  <2> QED BY <2>1, ContractSteps
<1>21. CASE NewPostgres
  <2>1. Contract!Reopen
    BY <1>21 DEF NewPostgres, Contract!Reopen
  <2> QED BY <2>1, ContractSteps
<1>22. CASE PostgresBegin
  <2>1. tx'.writes = tx.writes /\ tx'.state # "failed" /\ tx.state # "failed"
    BY <1>22 DEF PostgresBegin, Typed, TypeOK
  <2> QED BY <1>22, <2>1 DEF PostgresBegin, TxCalls, Contract!vars
\* The statements of a transaction, and what the contract's transaction sees.
<1>inside. Contract!Inside = Seen /\ \A t, r : Contract!ParentKnown(t, r) <=> ParentThere(t, r)
  BY DEF Contract!Inside, Seen, Contract!ParentKnown, ParentThere
<1>23. ASSUME NEW w, TxWrite(w), tx.state = "open"
       PROVE  Contract!TxAnswers("nil", {}, w)
  <2>1. tx'.writes = w /\ tx'.state = "open"
    BY <1>23 DEF TxWrite, Typed, TypeOK
  <2> QED BY <1>23, <2>1 DEF TxWrite, TxCalls, Contract!TxAnswers
<1>24. ASSUME TxFails
       PROVE  Contract!TxBreaks
  <2>1. tx'.writes = NoTx.writes /\ tx'.state = "failed"
    BY <1>24 DEF TxFails, NoTx
  <2>2. Contract!TxBreaks
    BY <1>24, <2>1 DEF TxFails, Fail, TxCalls, Contract!TxBreaks
  <2> QED BY <2>2
<1>25. CASE PostgresTxCreate
  <2>0. /\ held # NoCopy /\ open /\ call' = <<"TxCreate">> /\ tx.state = "open" /\ held.id \in Id
        /\ held.id \in Present(Seen) <=> Seen[held.id] # NoRow
    BY <1>25 DEF PostgresTxCreate, Present, Typed, TypeOK, Copy
  <2>1. CASE Seen[held.id] # NoRow \/ ~ParentThere(Seen, held.row)
    <3>1. Contract!TxBreaks
      BY <1>24, <1>25, <2>1 DEF PostgresTxCreate
    <3>2. Contract!TxCreate
      BY <1>inside, <2>0, <2>1, <3>1 DEF Contract!TxCreate
    <3> QED BY <3>2, ContractSteps
  <2>2. CASE ~(Seen[held.id] # NoRow \/ ~ParentThere(Seen, held.row))
    <3>1. Contract!TxAnswers("nil", {}, [tx.writes EXCEPT ![held.id] = Contract!Kept(held.row)])
      BY <1>3, <1>23, <1>25, <2>2 DEF PostgresTxCreate
    <3>2. Contract!TxCreate
      BY <1>inside, <2>0, <2>2, <3>1 DEF Contract!TxCreate
    <3> QED BY <3>2, ContractSteps
  <2> QED BY <2>1, <2>2
<1>26. CASE PostgresTxUpdate
  <2>0. /\ held # NoCopy /\ open /\ call' = <<"TxUpdate">> /\ tx.state = "open" /\ held.id \in Id
        /\ held.id \in Present(Seen) <=> Seen[held.id] # NoRow
    BY <1>26 DEF PostgresTxUpdate, Present, Typed, TypeOK, Copy
  <2>1. CASE Seen[held.id] = NoRow
    <3>1. Contract!TxAnswers("nil", {}, tx.writes)
      BY <1>23, <1>26, <2>1 DEF PostgresTxUpdate
    <3>2. Contract!TxUpdate
      BY <1>inside, <2>0, <2>1, <3>1 DEF Contract!TxUpdate
    <3> QED BY <3>2, ContractSteps
  <2>2. CASE Seen[held.id] # NoRow /\ ~ParentThere(Seen, held.row)
    <3>1. Contract!TxBreaks
      BY <1>24, <1>26, <2>2 DEF PostgresTxUpdate
    <3>2. Contract!TxUpdate
      BY <1>inside, <2>0, <2>2, <3>1 DEF Contract!TxUpdate
    <3> QED BY <3>2, ContractSteps
  <2>3. CASE Seen[held.id] # NoRow /\ ParentThere(Seen, held.row)
    <3>1. Contract!TxAnswers("nil", {}, [tx.writes EXCEPT ![held.id] = Contract!Kept(held.row)])
      BY <1>3, <1>23, <1>26, <2>3 DEF PostgresTxUpdate
    <3>2. Contract!TxUpdate
      BY <1>inside, <2>0, <2>3, <3>1 DEF Contract!TxUpdate
    <3> QED BY <3>2, ContractSteps
  <2> QED BY <2>1, <2>2, <2>3
<1>27. ASSUME NEW i \in Id, PostgresTxDelete(i)
       PROVE  Contract!Next
  <2> DEFINE after == DeleteFrom(Seen, {i})
             writes == [j \in Id |-> IF after[j] = Seen[j] THEN tx.writes[j] ELSE after[j]]
  <2>1. TxWrite(writes) /\ open /\ tx.state = "open" /\ call' = <<"TxDelete", i>>
    BY <1>27 DEF PostgresTxDelete
  <2>2. Contract!TxAnswers("nil", {}, writes)
    BY <1>23, <2>1
  <2>3. Contract!Without(Contract!Inside, {i}) = after
    BY <1>2, <1>inside
  <2> HIDE DEF after
  <2>4. Contract!TxDelete(i)
    BY <1>inside, <2>1, <2>2, <2>3 DEF Contract!TxDelete
  <2> QED BY <2>4, ContractSteps
<1>28. CASE PostgresTxError
  <2>1. Contract!Abort
    BY <1>24, <1>28 DEF PostgresTxError, Contract!Abort
  <2> QED BY <2>1, ContractSteps
<1>29. CASE PostgresCommit
  <2>1. tx'.writes = NoTx.writes /\ tx'.state # "failed"
    BY <1>29 DEF PostgresCommit, NoTx
  <2>2. tx.state = "open" \/ tx.state = "failed"
    BY <1>29 DEF PostgresCommit, Typed, TypeOK
  <2>3. Contract!Commit
    BY <1>29, <1>inside, <2>1, <2>2 DEF PostgresCommit, Fail, Reply, TxCalls, Contract!Commit, Contract!Reply
  <2> QED BY <2>3, ContractSteps
<1>30. CASE PostgresRollback
  <2>1. tx'.writes = NoTx.writes /\ tx'.state # "failed"
    BY <1>30 DEF PostgresRollback, NoTx
  <2>2. Contract!Rollback
    BY <1>30, <2>1 DEF PostgresRollback, TxCalls, Contract!Rollback
  <2> QED BY <2>2, ContractSteps
<1>31. ASSUME NEW i \in Id, PostgresTxGet(i)
       PROVE  Contract!Next
  <2>1. Contract!TxGet(i)
    BY <1>31 DEF PostgresTxGet, Fail, Calls, Contract!TxGet, Contract!TxAnswers
  <2> QED BY <2>1, ContractSteps
<1> QED
  BY <1>4, <1>5, <1>6, <1>7, <1>10, <1>11, <1>12, <1>13, <1>14, <1>15, <1>16, <1>17, <1>18, <1>19,
     <1>20, <1>21, <1>22, <1>25, <1>26, <1>27, <1>28, <1>29, <1>30, <1>31 DEF PostgresNext

LEMMA RefinesStep ==
    ASSUME Typed, [Next]_vars
    PROVE  [Contract!Next]_(Contract!vars)
<1>1. CASE Edit
  <2>1. held' \in Copy
    BY <1>1, EditTyped
  <2>2. UNCHANGED <<backend, now, open, rows, tx>> /\ call' = <<>> /\ answer' = NoAnswer
    BY <1>1 DEF Edit
  <2>3. Contract!Edit
    BY <2>1, <2>2, SameWords DEF Contract!Edit, Table, Promises
  <2> QED BY <2>3, ContractSteps
<1>2. CASE Tick
  <2>1. Contract!Tick
    BY <1>2 DEF Tick, Contract!Tick, Table, Promises
  <2> QED BY <2>1, ContractSteps
<1>3. CASE UNCHANGED vars
  BY <1>3 DEF vars, Contract!vars, Table, Promises
<1> QED BY <1>1, <1>2, <1>3, MemoryRefines, SQLiteRefines, PostgresRefines DEF Next

LEMMA RefinesInit == Init => Contract!Init
BY SameWords DEF Init, Contract!Init, Table, Promises, Contract!Promise, NoTx

\* Each of the three storages implements StorageContract with the promises it
\* keeps: a call does and answers what storage.go says, ErrAlreadyExists and
\* ErrNotFound included; only an interrupted call or a parent PostgreSQL does not
\* know ends in another error; a transaction is atomic.
THEOREM Refinement == Spec => ImplementsContract
BY RefinesInit, RefinesStep, AlwaysTyped, PTL DEF Spec, ImplementsContract, Contract!Spec
=============================================================================
