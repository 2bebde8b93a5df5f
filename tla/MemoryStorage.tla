--------------------------- MODULE MemoryStorage ---------------------------
(***************************************************************************)
(* storage/memory.go: a map of clones under one mutex, so every method is  *)
(* one step.  A closed storage has no rows left.                           *)
(***************************************************************************)
EXTENDS StorageCalls

MemoryCreate ==
    /\ call' = <<"Create">>
    /\ held # NoCopy
    /\ IF ~open THEN Fail("ErrStorageClosed")
       ELSE IF rows[held.id] # NoRow THEN Fail("ErrAlreadyExists")
       ELSE Answer("nil", {}, 0) /\ rows' = [rows EXCEPT ![held.id] = held.row]
    /\ Calls

MemoryUpdate ==
    /\ call' = <<"Update">>
    /\ held # NoCopy
    /\ IF ~open THEN Fail("ErrStorageClosed")
       ELSE IF rows[held.id] = NoRow THEN Fail("ErrNotFound")
       ELSE Answer("nil", {}, 0) /\ rows' = [rows EXCEPT ![held.id] = held.row]
    /\ Calls

MemoryDelete(i) ==
    /\ call' = <<"Delete", i>>
    /\ IF ~open THEN Fail("ErrStorageClosed")
       ELSE Answer("nil", {}, 0) /\ rows' = [rows EXCEPT ![i] = NoRow]
    /\ Calls

MemoryGet(i) ==
    /\ call' = <<"Get", i>>
    /\ IF ~open THEN Answer("ErrStorageClosed", {}, 0)
       ELSE IF rows[i] = NoRow THEN Answer("ErrNotFound", {}, 0)
       ELSE Answer("nil", {Entry(rows, i)}, 0)
    /\ UNCHANGED rows /\ Calls

\* The loops over the map: the rows S if the storage is open.
MemoryScan(S) ==
    /\ IF open THEN Answer("nil", Entries(rows, S), 0) ELSE Answer("ErrStorageClosed", {}, 0)
    /\ UNCHANGED rows /\ Calls

MemoryFindPending ==
    /\ call' = <<"FindPending">>
    /\ MemoryScan({i \in Present(rows) : IsActive(rows[i].status) /\ ~(rows[i].readyAt > now)})

MemoryFindByStatus(s) ==
    /\ call' = <<"FindByStatus", s>>
    /\ MemoryScan({i \in Present(rows) : rows[i].status = s})

MemoryFindByParent(p) ==
    /\ call' = <<"FindByParent", p>>
    /\ MemoryScan({i \in Present(rows) : rows[i].parent # None /\ rows[i].parent = p})

\* The first row with the key in the random order of the map.
MemoryFindByUniqueKey(key) ==
    LET holders == {i \in Present(rows) : rows[i].label.key = key /\ IsActive(rows[i].status)} IN
    /\ call' = <<"FindByUniqueKey", key>>
    /\ IF ~open THEN Answer("ErrStorageClosed", {}, 0)
       ELSE IF holders = {} THEN Answer("ErrNotFound", {}, 0)
       ELSE \E i \in holders : Answer("nil", {Entry(rows, i)}, 0)
    /\ UNCHANGED rows /\ Calls

MemoryCleanup(age) ==
    LET cutoff == now - age
        old == {i \in Present(rows) : /\ IsTerminal(rows[i].status)
                                      /\ rows[i].doneAt # None
                                      /\ rows[i].doneAt < cutoff}
    IN  /\ call' = <<"Cleanup", age>>
        /\ age <= now
        /\ IF ~open THEN Fail("ErrStorageClosed")
           ELSE /\ Answer("nil", {}, Cardinality(old))
                /\ rows' = [i \in Id |-> IF i \in old THEN NoRow ELSE rows[i]]
        /\ Calls

MemoryCount(s) ==
    /\ call' = <<"Count", s>>
    /\ IF ~open THEN Answer("ErrStorageClosed", {}, 0)
       ELSE Answer("nil", {}, Cardinality({i \in Present(rows) : s = None \/ rows[i].status = s}))
    /\ UNCHANGED rows /\ Calls

\* matchesQuery; Name, ParentID and the creation times filter in the same way.
MemoryMatches(r, q) ==
    /\ q.status = None \/ r.status = q.status
    /\ q.tag = None \/ r.label.tag = q.tag

\* The page falls anywhere: the map has no order and OrderBy is ignored.
MemoryFind(q) ==
    /\ call' = <<"Find", q>>
    /\ LET result == {i \in Present(rows) : MemoryMatches(rows[i], q)} IN
       \E S \in SUBSET result :
           /\ Cardinality(S) = PageSize(Cardinality(result), q.limit, q.offset)
           /\ MemoryScan(S)

MemoryClose ==
    /\ call' = <<"Close">>
    /\ open' = FALSE
    /\ rows' = [i \in Id |-> NoRow]
    /\ Answer("nil", {}, 0)
    /\ UNCHANGED <<backend, now, tx, held, edits>>

\* A new process makes a new storage.
NewMemory ==
    /\ call' = <<"Reopen">>
    /\ ~open
    /\ open' = TRUE
    /\ rows' = [i \in Id |-> NoRow]
    /\ held' = NoCopy
    /\ Answer("nil", {}, 0)
    /\ UNCHANGED <<backend, now, tx, edits>>

MemoryNext ==
    \/ MemoryCreate \/ MemoryUpdate
    \/ \E i \in Id : MemoryDelete(i) \/ MemoryGet(i) \/ MemoryFindByParent(i)
    \/ MemoryFindPending
    \/ \E s \in Status : MemoryFindByStatus(s)
    \/ \E s \in Status \cup {None} : MemoryCount(s)
    \/ \E key \in Name : MemoryFindByUniqueKey(key)
    \/ \E age \in Age : MemoryCleanup(age)
    \/ \E q \in Queries : MemoryFind(q)
    \/ MemoryClose \/ NewMemory
=============================================================================
