----------------------------- MODULE StorageRows -----------------------------
(***************************************************************************)
(* The rows a durex.Storage keeps, as its callers see them, and the        *)
(* questions they ask of them (storage.go).  A row is the part of an       *)
(* instance the storages themselves look at, and Timeout, the one setting  *)
(* that not every storage keeps.  Key, tag and correlation id never        *)
(* change: they are one label.  Times are ticks, Second of them a second;  *)
(* the time zone is UTC.                                                   *)
(***************************************************************************)
EXTENDS Naturals, FiniteSets

CONSTANTS Id,       \* command ids
          Name,     \* unique keys, tags, correlation ids
          None,     \* a nil or empty field, an absent criterion of a query
          NoRow,    \* there is no row with this id
          Same,     \* a transaction has not touched this id
          NoCopy,   \* a caller holds no instance
          Second,   \* ticks of a second
          Alike     \* pairs <<x, y>>: the LIKE pattern %"x"% also fits the tag y

Status == {"PENDING", "STARTED", "COMPLETED", "FAILED", "EXPIRED",
           "REPEATING", "CANCELLED", "DEAD_LETTER"}
IsActive(s) == s \in {"PENDING", "STARTED", "REPEATING"}
IsTerminal(s) == s \in {"COMPLETED", "FAILED", "EXPIRED", "CANCELLED", "DEAD_LETTER"}

Label == [key : Name \cup {None}, tag : Name \cup {None}, corr : Name \cup {None}]

Row == [status : Status, readyAt : Nat, doneAt : Nat \cup {None},
        parent : Id \cup {None}, label : Label, timeout : Nat]

\* A *durex.Instance in the hands of a caller.
Copy == [id : Id, row : Row]

\* Query; limit 0 and offset 0 are the defaults.
Query == [status : Status \cup {None}, tag : Name \cup {None}, limit : Nat, offset : Nat]

CONSTANTS Age, Limit, Queries    \* olderThan, batch sizes and queries callers pass

ASSUME RowsAssumption ==
    /\ IsFiniteSet(Id)
    /\ Second \in Nat \ {0}
    /\ Alike \subseteq Name \X Name
    /\ NoRow \notin Row /\ Same \notin Row /\ NoRow # Same
    /\ NoCopy \notin Copy
    /\ Age \subseteq Nat /\ Limit \subseteq Nat \ {0} /\ Queries \subseteq Query
    /\ None \notin Nat /\ None \notin Id /\ None \notin Name /\ None \notin Status
-----------------------------------------------------------------------------
\* The ids of a table, the rows of the ids S, and what writes b make of table t.
Present(t) == {i \in Id : t[i] # NoRow}
Entry(t, i) == [id |-> i, row |-> t[i]]
Entries(t, S) == {Entry(t, i) : i \in S}
Overlay(t, b) == [i \in Id |-> IF b[i] = Same THEN t[i] ELSE b[i]]

\* Rows left of n when the first offset are skipped and at most limit are taken.
PageSize(n, limit, offset) ==
    LET rest == IF offset >= n THEN 0 ELSE n - offset
    IN  IF limit > 0 /\ limit < rest THEN limit ELSE rest
=============================================================================
