------------------------- MODULE ExecutorAPIProofs -------------------------
(***************************************************************************)
(* Proofs about ExecutorAPI, for every number of callers, workers, rows    *)
(* and keys.  None of its properties is inductive as it stands; the        *)
(* strengthenings are KeyInv, CarrierInv and PoolInv.                      *)
(***************************************************************************)
EXTENDS ExecutorAPI, FiniteSetTheorems, TLAPS

ClientState ==
    [op : {"idle", "create", "schedule", "retry", "cancel"}, cli : BOOLEAN,
     ids : SUBSET Cmd, key : Key \cup {NoKey}]

LEMMA IdleTyped == Idle \in ClientState
BY DEF Idle, ClientState

LEMMA DoesTyped ==
    ASSUME TypeOK, NEW c \in Caller, NEW does \in ClientState, Does(c, does)
    PROVE  client' \in [Caller -> ClientState]
BY DEF TypeOK, Does, ClientState

LEMMA SendTyped ==
    ASSUME TypeOK, NEW i \in Cmd, Send(i)
    PROVE  copies' \in [Cmd -> Nat]
BY DEF TypeOK, Send

LEMMA MergeTyped ==
    ASSUME NEW user \in Key \cup {NoKey}
    PROVE  Merge(user) \in Key \cup {NoKey}
BY APIAssumption DEF Merge

LEMMA ReopenedTyped ==
    ASSUME TypeOK, NEW i \in Cmd
    PROVE  Reopened(i) \subseteq Key
BY DEF TypeOK, Reopened

LEMMA StatusTyped ==
    ASSUME TypeOK, NEW i \in Cmd, NEW s \in Status, status' = [status EXCEPT ![i] = s]
    PROVE  status' \in [Cmd -> Status \cup {"NONE"}]
BY DEF TypeOK

LEMMA DieTyped == TypeOK /\ Die => TypeOK'
<1> SUFFICES ASSUME TypeOK, Die
             PROVE  TypeOK'
  OBVIOUS
<1>1. client' \in [Caller -> ClientState]
  BY IdleTyped DEF Die, TypeOK, ClientState
<1> QED BY <1>1 DEF Die, TypeOK, Empty, rowVars, ClientState

LEMMA StartTyped == TypeOK /\ Start => TypeOK'
<1> SUFFICES ASSUME TypeOK, Start
             PROVE  TypeOK'
  OBVIOUS
<1>1. NewQueue \in [Cmd -> Nat]
  BY DEF NewQueue, Empty, TypeOK
<1>2. copies' \in [Cmd -> Nat]
  BY <1>1 DEF Start
<1>3. worker' \in [Worker -> Cmd \cup {"off", "idle", "leaving"}]
  BY DEF Start, Launch
<1>4. wg' \in Nat
  BY APIAssumption DEF Start, NewWaitGroup, TypeOK
<1>5. raced' \subseteq Cmd
  BY DEF Start, Due, TypeOK
<1>6. overrun' \in BOOLEAN /\ orphaned' \in BOOLEAN /\ quiet' \in BOOLEAN
  BY DEF Start, TypeOK
<1>7. started' \in BOOLEAN /\ stopping' \in BOOLEAN
  BY DEF Start, TypeOK
<1>8. todo' \subseteq Permanent
  BY DEF Start, TypeOK
<1>9. UNCHANGED <<status, key, client, calls, loose>> /\ starts' = starts + 1
  BY DEF Start, rowVars
<1> QED BY <1>2, <1>3, <1>4, <1>5, <1>6, <1>7, <1>8, <1>9 DEF TypeOK

LEMMA TypedStep == TypeOK /\ [Next]_vars => TypeOK'
<1> SUFFICES ASSUME TypeOK, [Next]_vars
             PROVE  TypeOK'
  OBVIOUS
<1> USE DEF rowVars, execVars, histVars
<1>1. ASSUME NEW c \in Client, NEW user \in Key \cup {NoKey}, AddCheck(c, user)
      PROVE  TypeOK'
  <2>1. [Idle EXCEPT !.op = "create", !.key = Merge(user)] \in ClientState
    BY MergeTyped DEF Idle, ClientState
  <2>2. client' \in [Caller -> ClientState]
    BY <1>1, <2>1, DoesTyped DEF AddCheck, Caller
  <2>3. loose' \subseteq Key
    BY <1>1, MergeTyped DEF AddCheck, Overlap, TypeOK
  <2> QED BY <1>1, <2>2, <2>3 DEF AddCheck, TypeOK, ClientState, Calls
<1>2. ASSUME NEW c \in Caller, NEW i \in Cmd, AddCreate(c, i)
      PROVE  TypeOK'
  <2>1. [Idle EXCEPT !.op = "schedule", !.ids = {i}] \in ClientState
    BY DEF Idle, ClientState
  <2>2. client' \in [Caller -> ClientState]
    BY <1>2, <2>1, DoesTyped DEF AddCreate
  <2>3. status' \in [Cmd -> Status \cup {"NONE"}] /\ key' \in [Cmd -> Key \cup {NoKey}]
    BY <1>2 DEF AddCreate, TypeOK, Status
  <2> QED BY <1>2, <2>2, <2>3 DEF AddCreate, TypeOK, ClientState
<1>3. ASSUME NEW c \in Caller, CallFails(c)
      PROVE  TypeOK'
  <2>1. client' \in [Caller -> ClientState]
    BY <1>3, IdleTyped, DoesTyped DEF CallFails
  <2> QED BY <1>3, <2>1 DEF CallFails, TypeOK, ClientState
<1>4. ASSUME NEW c \in Caller, Schedule(c)
      PROVE  TypeOK'
  <2>1. client' \in [Caller -> ClientState]
    BY <1>4, IdleTyped, DoesTyped DEF Schedule
  <2>2. copies' \in [Cmd -> Nat]
    <3>1. \A i \in client[c].ids : i \in Cmd
      BY DEF TypeOK
    <3>2. CASE UNCHANGED copies
      BY <3>2 DEF TypeOK
    <3>3. CASE \E i \in client[c].ids : Send(i)
      BY <3>1, <3>3, SendTyped
    <3> QED BY <1>4, <3>2, <3>3 DEF Schedule
  <2> QED BY <1>4, <2>1, <2>2 DEF Schedule, TypeOK, ClientState
<1>5. ASSUME NEW c \in Client, NEW i \in Cmd, NEW cli \in BOOLEAN, RetryGet(c, i, cli)
      PROVE  TypeOK'
  <2>1. [Idle EXCEPT !.op = "retry", !.cli = cli, !.ids = {i}] \in ClientState
    BY DEF Idle, ClientState
  <2>2. client' \in [Caller -> ClientState]
    BY <1>5, <2>1, DoesTyped DEF RetryGet, Caller
  <2> QED BY <1>5, <2>2 DEF RetryGet, TypeOK, ClientState, Calls
<1>6. ASSUME NEW c \in Client, NEW i \in Cmd, RetryUpdate(c, i)
      PROVE  TypeOK'
  <2>1. [Idle EXCEPT !.op = "schedule", !.ids = {i}] \in ClientState
    BY DEF Idle, ClientState
  <2>2. client' \in [Caller -> ClientState]
    BY <1>6, <2>1, IdleTyped, DoesTyped DEF RetryUpdate, Caller
  <2>3. status' \in [Cmd -> Status \cup {"NONE"}] /\ loose' \subseteq Key /\ raced' \subseteq Cmd
    BY <1>6, ReopenedTyped DEF RetryUpdate, TypeOK, Status
  <2> QED BY <1>6, <2>2, <2>3 DEF RetryUpdate, TypeOK, ClientState
<1>7. ASSUME NEW c \in Client, NEW S \in SUBSET Cmd, NEW cli \in BOOLEAN, CancelGet(c, S, cli)
      PROVE  TypeOK'
  <2>1. [Idle EXCEPT !.op = "cancel", !.cli = cli, !.ids = S] \in ClientState
    BY DEF Idle, ClientState
  <2>2. client' \in [Caller -> ClientState]
    BY <1>7, <2>1, DoesTyped DEF CancelGet, Caller
  <2> QED BY <1>7, <2>2 DEF CancelGet, TypeOK, ClientState, Calls
<1>8. ASSUME NEW c \in Client, NEW i \in Cmd, CancelUpdate(c, i)
      PROVE  TypeOK'
  <2>1. [client[c] EXCEPT !.ids = @ \ {i}] \in ClientState
    BY DEF ClientState, TypeOK, Caller
  <2>2. client' \in [Caller -> ClientState]
    BY <1>8, <2>1, IdleTyped, DoesTyped DEF CancelUpdate, Caller
  <2>3. status' \in [Cmd -> Status \cup {"NONE"}]
    BY <1>8 DEF CancelUpdate, TypeOK, Status
  <2> QED BY <1>8, <2>2, <2>3 DEF CancelUpdate, TypeOK, ClientState
<1>9. ASSUME NEW w \in Worker, NEW i \in Cmd, Take(w, i)
      PROVE  TypeOK'
  <2>1. copies' \in [Cmd -> Nat]
    BY <1>9 DEF Take, TypeOK
  <2>2. /\ worker' \in [Worker -> Cmd \cup {"off", "idle", "leaving"}]
        /\ status' \in [Cmd -> Status \cup {"NONE"}] /\ loose' \subseteq Key
    BY <1>9, ReopenedTyped DEF Take, TypeOK, Status
  <2> QED BY <1>9, <2>1, <2>2 DEF Take, TypeOK
<1>10. ASSUME NEW w \in Worker, NEW i \in Cmd, NEW user \in Key \cup {NoKey}, Spawn(w, i, user)
       PROVE  TypeOK'
  <2>1. copies' \in [Cmd -> Nat]
    BY <1>10, SendTyped DEF Spawn
  <2>2. /\ status' \in [Cmd -> Status \cup {"NONE"}] /\ key' \in [Cmd -> Key \cup {NoKey}]
        /\ loose' \subseteq Key
    BY <1>10, MergeTyped DEF Spawn, TypeOK, Status
  <2> QED BY <1>10, <2>1, <2>2 DEF Spawn, TypeOK
<1>11. ASSUME NEW w \in Worker, Settle(w)
       PROVE  TypeOK'
  <2>1. /\ worker' \in [Worker -> Cmd \cup {"off", "idle", "leaving"}]
        /\ status' \in [Cmd -> Status \cup {"NONE"}]
    BY <1>11 DEF Settle, TypeOK, Status
  <2> QED BY <1>11, <2>1 DEF Settle, TypeOK
<1>12. ASSUME NEW w \in Worker, Again(w)
       PROVE  TypeOK'
  <2>1. copies' \in [Cmd -> Nat]
    BY <1>12, SendTyped DEF Again
  <2>2. /\ worker' \in [Worker -> Cmd \cup {"off", "idle", "leaving"}]
        /\ status' \in [Cmd -> Status \cup {"NONE"}] /\ loose' \subseteq Key
    BY <1>12, ReopenedTyped DEF Again, TypeOK, Status
  <2> QED BY <1>12, <2>1, <2>2 DEF Again, TypeOK
<1>13. ASSUME NEW w \in Worker, WriteFails(w)
       PROVE  TypeOK'
  BY <1>13 DEF WriteFails, TypeOK
<1>14. ASSUME NEW w \in Worker, Exit(w)
       PROVE  TypeOK'
  <2>1. CASE wg = 0 /\ Die
    BY <2>1, DieTyped
  <2>2. CASE wg > 0 /\ worker' = [worker EXCEPT ![w] = "off"] /\ wg' = wg - 1
    BY <1>14, <2>2 DEF Exit, TypeOK
  <2> QED BY <1>14, <2>1, <2>2 DEF Exit
<1>15. CASE Crash
  BY <1>15, DieTyped DEF Crash
<1>16. CASE Start
  BY <1>16, StartTyped
<1>17. CASE Stop
  BY <1>17 DEF Stop, TypeOK
<1>18. CASE StopReturns
  <2>1. quiet' \in BOOLEAN /\ orphaned' \in BOOLEAN
    BY <1>18, Zenon DEF StopReturns
  <2>2. started' = FALSE /\ UNCHANGED <<status, key, copies, worker, wg, stopping, client, todo, starts, calls, loose, raced, overrun>>
    BY <1>18 DEF StopReturns
  <2> QED BY <2>1, <2>2 DEF TypeOK
<1>22. CASE StopAtOnce
  BY <1>22 DEF StopAtOnce, TypeOK
<1>19. ASSUME NEW k \in Permanent, StartPermanent(k)
       PROVE  TypeOK'
  <2>0. k \in Key \cup {NoKey}
    BY APIAssumption
  <2>1. [Idle EXCEPT !.op = "create", !.key = k] \in ClientState
    BY <2>0 DEF Idle, ClientState
  <2>2. client' \in [Caller -> ClientState]
    <3>1. CASE Does(Starter, [Idle EXCEPT !.op = "create", !.key = k])
      BY <2>1, <3>1, DoesTyped DEF Caller
    <3>2. CASE UNCHANGED client
      BY <3>2 DEF TypeOK, ClientState
    <3> QED BY <1>19, <3>1, <3>2 DEF StartPermanent
  <2>3. loose' \subseteq Key
    BY <1>19, <2>0 DEF StartPermanent, Overlap, TypeOK
  <2> QED BY <1>19, <2>2, <2>3 DEF StartPermanent, TypeOK, ClientState
<1>20. CASE UNCHANGED vars
  BY <1>20 DEF vars, TypeOK
<1> QED
  BY <1>1, <1>2, <1>3, <1>4, <1>5, <1>6, <1>7, <1>8, <1>9, <1>10, <1>11, <1>12, <1>13, <1>14, <1>15,
     <1>16, <1>17, <1>18, <1>19, <1>20, <1>22 DEF Next

LEMMA InitTyped == Init => TypeOK
<1> SUFFICES ASSUME Init
             PROVE  TypeOK
  OBVIOUS
<1>1. client \in [Caller -> ClientState]
  BY IdleTyped DEF Init
<1>2. /\ started \in BOOLEAN /\ stopping \in BOOLEAN
      /\ overrun \in BOOLEAN /\ orphaned \in BOOLEAN /\ quiet \in BOOLEAN
  BY DEF Init
<1>3. /\ status \in [Cmd -> Status \cup {"NONE"}] /\ key \in [Cmd -> Key \cup {NoKey}]
      /\ copies \in [Cmd -> Nat] /\ worker \in [Worker -> Cmd \cup {"off", "idle", "leaving"}]
  BY DEF Init, Empty
<1> QED BY <1>1, <1>2, <1>3 DEF Init, TypeOK, ClientState

\* Every variable keeps its type, the wait group never below zero included.
THEOREM APITypeCorrect == Spec => []TypeOK
BY InitTyped, TypedStep, PTL DEF Spec
-----------------------------------------------------------------------------
(***************************************************************************)
(* One active command per key.  A caller between the two halves of Add     *)
(* holds a promise nobody recorded: that its key is free.                  *)
(***************************************************************************)
Creates(c, k) == client[c].op = "create" /\ client[c].key = k

FreshKey == \A i \in Cmd : status[i] = "NONE" => key[i] = NoKey

KeyOK(k) ==
    /\ \A i, j \in Holders(k) : i = j
    /\ \A c \in Caller : Creates(c, k) => Holders(k) = {}
    /\ \A c, d \in Caller : Creates(c, k) /\ Creates(d, k) => c = d

KeyInv == FreshKey /\ \A k \in Key \ loose : KeyOK(k)

LEMMA KeyKept ==
    ASSUME KeyInv, loose \subseteq loose', FreshKey',
           \A k \in Key \ loose' : Holders(k)' \subseteq Holders(k),
           \A k \in Key \ loose', c \in Caller : Creates(c, k)' => Creates(c, k)
    PROVE  KeyInv'
<1> SUFFICES ASSUME NEW k \in Key \ loose'
             PROVE  KeyOK(k)'
  BY DEF KeyInv
<1>1. KeyOK(k)
  BY DEF KeyInv
<1>2. Holders(k)' \subseteq Holders(k) /\ \A c \in Caller : Creates(c, k)' => Creates(c, k)
  OBVIOUS
<1> HIDE DEF Holders, Creates
<1> QED BY <1>1, <1>2 DEF KeyOK

\* A write of one row: a finished row that comes back to life loosens its key.
LEMMA StatusWrite ==
    ASSUME TypeOK, FreshKey, NEW i \in Cmd, NEW s \in Status,
           status' = [status EXCEPT ![i] = s], key' = key,
           IsActive(s) => Reopened(i) \subseteq loose'
    PROVE  FreshKey' /\ \A k \in Key \ loose' : Holders(k)' \subseteq Holders(k)
<1>1. FreshKey'
  BY DEF FreshKey, TypeOK, Status
<1>2. ASSUME NEW k \in Key \ loose', NEW j \in Holders(k)'
      PROVE  j \in Holders(k)
  <2>1. j \in Cmd /\ key[j] = k /\ IsActive(status'[j])
    BY <1>2 DEF Holders, IsActive
  <2>2. CASE j # i
    BY <2>1, <2>2 DEF Holders, TypeOK, IsActive
  <2>3. CASE j = i
    <3>1. IsActive(s)
      BY <2>1, <2>3 DEF TypeOK
    <3>2. key[i] # NoKey
      BY <2>1, <2>3, APIAssumption
    <3>3. status[i] # "NONE" /\ ~IsTerminal(status[i])
      BY <2>1, <2>3, <3>1, <3>2 DEF FreshKey, Reopened
    <3>4. IsActive(status[i])
      BY <3>3 DEF TypeOK, Status, IsTerminal, IsActive
    <3> QED BY <2>1, <2>3, <3>4 DEF Holders
  <2> QED BY <2>2, <2>3
<1> QED BY <1>1, <1>2

\* A row that is made for a key nobody counts on.
LEMMA RowMade ==
    ASSUME TypeOK, FreshKey, NEW i \in Cmd, NEW k \in Key \cup {NoKey},
           status' = [status EXCEPT ![i] = "PENDING"], key' = [key EXCEPT ![i] = k],
           status[i] = "NONE"
    PROVE  /\ FreshKey'
           /\ \A h \in Key \ {k} : Holders(h)' \subseteq Holders(h)
           /\ Holders(k)' = Holders(k) \cup {i}
<1>1. FreshKey'
  BY DEF FreshKey, TypeOK
<1>2. IsActive("PENDING") /\ ~IsActive("NONE")
  BY DEF IsActive
<1>3. \A j \in Cmd : j # i => status'[j] = status[j] /\ key'[j] = key[j]
  BY DEF TypeOK
<1>4. status'[i] = "PENDING" /\ key'[i] = k
  BY DEF TypeOK
<1>5. \A h : Holders(h)' = {j \in Cmd : key'[j] = h /\ IsActive(status'[j])}
  BY DEF Holders, IsActive
<1> QED BY <1>1, <1>2, <1>3, <1>4, <1>5 DEF Holders

\* A caller that turns to something else than creating holds no promise.
LEMMA CreatesLess ==
    ASSUME TypeOK, NEW c \in Caller, NEW does, Does(c, does), does.op # "create"
    PROVE  \A k : \A d \in Caller : Creates(d, k)' => Creates(d, k) /\ d # c
BY DEF TypeOK, Does, Creates

\* A caller that finds its key free; a second one that does loosens the key.
LEMMA KeyFound ==
    ASSUME TypeOK, KeyInv, NEW c \in Caller, NEW k \in Key \cup {NoKey}, client[c] = Idle,
           KeyFree(k), Does(c, [Idle EXCEPT !.op = "create", !.key = k]),
           loose' = loose \cup Overlap(c, k), UNCHANGED rowVars
    PROVE  KeyInv'
<1>1. FreshKey'
  BY DEF KeyInv, FreshKey, rowVars
<1> SUFFICES ASSUME NEW h \in Key \ loose'
             PROVE  KeyOK(h)'
  BY <1>1 DEF KeyInv
<1>2. KeyOK(h) /\ Holders(h)' = Holders(h)
  BY DEF KeyInv, Holders, rowVars, IsActive
<1>3. \A d \in Caller : d # c => (Creates(d, h)' <=> Creates(d, h))
  BY DEF Does, Creates, TypeOK
<1>4. Creates(c, h)' <=> h = k
  BY DEF Does, Creates, TypeOK, Idle
<1>5. CASE h # k
  BY <1>2, <1>3, <1>4, <1>5 DEF KeyOK
<1>6. CASE h = k
  <2>1. Holders(h) = {}
    BY <1>6, APIAssumption DEF KeyFree
  <2>2. \A d \in Caller : d # c => ~Creates(d, h)
    BY <1>6, APIAssumption DEF Overlap, Creates
  <2> QED BY <1>2, <1>3, <2>1, <2>2 DEF KeyOK
<1> QED BY <1>5, <1>6

LEMMA DieKeepsKeys == TypeOK /\ KeyInv /\ Die => KeyInv'
<1> SUFFICES ASSUME TypeOK, KeyInv, Die
             PROVE  KeyInv'
  OBVIOUS
<1>1. \A c \in Caller, k \in Key : Creates(c, k)' => Creates(c, k)
  BY DEF Die, Creates, Idle
<1>2. UNCHANGED <<status, key, loose>>
  BY DEF Die, rowVars
<1>3. FreshKey' /\ \A k : Holders(k)' = Holders(k)
  BY <1>2 DEF KeyInv, FreshKey, Holders, IsActive
<1> QED BY <1>1, <1>2, <1>3, KeyKept DEF KeyInv

LEMMA KeyStep == TypeOK /\ KeyInv /\ [Next]_vars => KeyInv'
<1> SUFFICES ASSUME TypeOK, KeyInv, [Next]_vars
             PROVE  KeyInv'
  OBVIOUS
<1> USE DEF rowVars, execVars, histVars
\* A step that leaves the rows alone and gives nobody a key to create.
<1>0. ASSUME UNCHANGED <<status, key, loose>>,
             \A k \in Key, c \in Caller : Creates(c, k)' => Creates(c, k)
      PROVE  KeyInv'
  <2>1. FreshKey' /\ \A k : Holders(k)' = Holders(k)
    BY <1>0 DEF KeyInv, FreshKey, Holders, IsActive
  <2> QED BY <1>0, <2>1, KeyKept DEF KeyInv
\* A step that writes one row and gives nobody a key to create.
<1>w. ASSUME NEW i \in Cmd, NEW s \in Status, status' = [status EXCEPT ![i] = s], key' = key,
             loose \subseteq loose', IsActive(s) => Reopened(i) \subseteq loose',
             \A k \in Key, c \in Caller : Creates(c, k)' => Creates(c, k)
      PROVE  KeyInv'
  <2>1. FreshKey' /\ \A k \in Key \ loose' : Holders(k)' \subseteq Holders(k)
    BY <1>w, StatusWrite DEF KeyInv
  <2> QED BY <1>w, <2>1, KeyKept
<1>c. ASSUME UNCHANGED client
      PROVE  \A k \in Key, c \in Caller : Creates(c, k)' => Creates(c, k)
  BY <1>c DEF Creates
<1>1. ASSUME NEW c \in Client, NEW user \in Key \cup {NoKey}, AddCheck(c, user)
      PROVE  KeyInv'
  BY <1>1, MergeTyped, KeyFound DEF AddCheck, Calls, Caller
<1>2. ASSUME NEW c \in Caller, NEW i \in Cmd, AddCreate(c, i)
      PROVE  KeyInv'
  <2>p. PICK k \in Key \cup {NoKey} : k = client[c].key
    BY DEF TypeOK
  <2>0. Creates(c, k) /\ UNCHANGED loose
    BY <1>2, <2>p DEF AddCreate, Creates
  <2>1. /\ FreshKey'
        /\ \A h \in Key \ {k} : Holders(h)' \subseteq Holders(h)
        /\ Holders(k)' = Holders(k) \cup {i}
    BY <1>2, <2>p, RowMade DEF AddCreate, KeyInv, Fresh
  <2>2. \A h \in Key : \A d \in Caller : Creates(d, h)' => Creates(d, h) /\ d # c
    BY <1>2, CreatesLess DEF AddCreate, Idle
  <2> SUFFICES ASSUME NEW h \in Key \ loose
               PROVE  KeyOK(h)'
    BY <2>0, <2>1 DEF KeyInv
  <2>3. KeyOK(h)
    BY DEF KeyInv
  <2>4. CASE h # k
    BY <2>1, <2>2, <2>3, <2>4 DEF KeyOK
  <2>5. CASE h = k
    BY <2>0, <2>1, <2>2, <2>3, <2>5 DEF KeyOK
  <2> QED BY <2>4, <2>5
<1>3. ASSUME NEW c \in Caller, CallFails(c)
      PROVE  KeyInv'
  BY <1>0, <1>3, CreatesLess DEF CallFails, Idle
<1>4. ASSUME NEW c \in Caller, Schedule(c)
      PROVE  KeyInv'
  BY <1>0, <1>4, CreatesLess DEF Schedule, Idle
<1>5. ASSUME NEW c \in Client, NEW i \in Cmd, NEW cli \in BOOLEAN, RetryGet(c, i, cli)
      PROVE  KeyInv'
  BY <1>0, <1>5, CreatesLess DEF RetryGet, Idle, Caller
<1>6. ASSUME NEW c \in Client, NEW i \in Cmd, RetryUpdate(c, i)
      PROVE  KeyInv'
  <2>1. \A k \in Key, d \in Caller : Creates(d, k)' => Creates(d, k)
    BY <1>6, CreatesLess DEF RetryUpdate, Idle, Caller
  <2> QED BY <1>w, <1>6, <2>1 DEF RetryUpdate, Status
<1>7. ASSUME NEW c \in Client, NEW S \in SUBSET Cmd, NEW cli \in BOOLEAN, CancelGet(c, S, cli)
      PROVE  KeyInv'
  BY <1>0, <1>7, CreatesLess DEF CancelGet, Idle, Caller
<1>8. ASSUME NEW c \in Client, NEW i \in Cmd, CancelUpdate(c, i)
      PROVE  KeyInv'
  <2>0. [client[c] EXCEPT !.ids = @ \ {i}].op = "cancel" /\ Idle.op # "create"
    BY <1>8 DEF CancelUpdate, Idle, TypeOK, Caller
  <2>1. \A k \in Key, d \in Caller : Creates(d, k)' => Creates(d, k)
    BY <1>8, <2>0, CreatesLess DEF CancelUpdate, Caller
  <2> QED BY <1>w, <1>8, <2>1 DEF CancelUpdate, Status, IsActive
<1>9. ASSUME NEW w \in Worker, NEW i \in Cmd, Take(w, i)
      PROVE  KeyInv'
  <2>1. \A k \in Key, d \in Caller : Creates(d, k)' => Creates(d, k)
    BY <1>9, <1>c DEF Take
  <2>2. CASE UNCHANGED <<status, loose>>
    BY <1>0, <1>9, <2>1, <2>2 DEF Take
  <2>3. CASE status' = [status EXCEPT ![i] = "STARTED"] /\ loose' = loose \cup Reopened(i)
    BY <1>w, <1>9, <2>1, <2>3 DEF Take, Status
  <2>4. CASE UNCHANGED loose /\ \E s \in {"EXPIRED", "FAILED"} : status' = [status EXCEPT ![i] = s]
    BY <1>w, <1>9, <2>1, <2>4 DEF Take, Status, IsActive
  <2> QED BY <1>9, <2>2, <2>3, <2>4 DEF Take
<1>10. ASSUME NEW w \in Worker, NEW i \in Cmd, NEW user \in Key \cup {NoKey}, Spawn(w, i, user)
       PROVE  KeyInv'
  <2> DEFINE k == Merge(user)
  <2>0. k \in Key \cup {NoKey} /\ loose' = loose \cup ({k} \ {NoKey}) /\ UNCHANGED client
    BY <1>10, MergeTyped DEF Spawn
  <2>1. FreshKey' /\ \A h \in Key \ {k} : Holders(h)' \subseteq Holders(h)
    BY <1>10, <2>0, RowMade DEF Spawn, KeyInv, Fresh
  <2> HIDE DEF k
  <2>2. \A h \in Key \ loose' : Holders(h)' \subseteq Holders(h)
    BY <2>0, <2>1, APIAssumption
  <2> QED BY <1>c, <2>0, <2>1, <2>2, KeyKept
<1>11. ASSUME NEW w \in Worker, Settle(w)
       PROVE  KeyInv'
  BY <1>c, <1>w, <1>11 DEF Settle, Status, IsActive
<1>12. ASSUME NEW w \in Worker, Again(w)
       PROVE  KeyInv'
  BY <1>c, <1>w, <1>12 DEF Again, Status
<1>13. ASSUME NEW w \in Worker, WriteFails(w)
       PROVE  KeyInv'
  BY <1>0, <1>c, <1>13 DEF WriteFails
<1>14. ASSUME NEW w \in Worker, Exit(w)
       PROVE  KeyInv'
  <2>1. CASE Die
    BY <2>1, DieKeepsKeys
  <2>2. CASE UNCHANGED <<status, key, client, loose>>
    BY <1>0, <1>c, <2>2
  <2> QED BY <1>14, <2>1, <2>2 DEF Exit
<1>15. CASE Crash
  BY <1>15, DieKeepsKeys DEF Crash
<1>16. CASE Start
  BY <1>0, <1>c, <1>16 DEF Start
<1>17. CASE Stop
  BY <1>0, <1>c, <1>17 DEF Stop
<1>18. CASE StopReturns
  BY <1>0, <1>c, <1>18 DEF StopReturns
<1>22. CASE StopAtOnce
  BY <1>0, <1>c, <1>22 DEF StopAtOnce
<1>19. ASSUME NEW k \in Permanent, StartPermanent(k)
       PROVE  KeyInv'
  <2>0. k \in Key \cup {NoKey} /\ Starter \in Caller
    BY APIAssumption DEF Caller
  <2>1. CASE started /\ KeyFree(k)
    BY <1>19, <2>0, <2>1, KeyFound DEF StartPermanent
  <2>2. CASE ~(started /\ KeyFree(k))
    BY <1>0, <1>c, <1>19, <2>2 DEF StartPermanent
  <2> QED BY <2>1, <2>2
<1>20. CASE UNCHANGED vars
  BY <1>0, <1>c, <1>20 DEF vars
<1> QED
  BY <1>1, <1>2, <1>3, <1>4, <1>5, <1>6, <1>7, <1>8, <1>9, <1>10, <1>11, <1>12, <1>13, <1>14, <1>15,
     <1>16, <1>17, <1>18, <1>19, <1>20, <1>22 DEF Next

\* For any number of callers, workers, rows, keys, crashes and restarts: a key has
\* one active command as long as its commands come from Adds that do not overlap
\* and none of them is written back to life (Add's check and Create).
THEOREM KeysUnique == Spec => []OneActivePerKey
<1>1. Init => TypeOK /\ KeyInv
  <2>1. Init => TypeOK
    BY InitTyped
  <2>2. Init => KeyInv
    <3> SUFFICES ASSUME Init
                 PROVE  KeyInv
      OBVIOUS
    <3>1. FreshKey /\ \A k : Holders(k) = {}
      BY DEF Init, FreshKey, Holders, IsActive
    <3>2. \A c \in Caller : client[c].op = "idle"
      BY DEF Init, Idle
    <3> QED BY <3>1, <3>2 DEF KeyInv, KeyOK, Creates
  <2> QED BY <2>1, <2>2
<1>2. KeyInv => OneActivePerKey
  BY DEF KeyInv, KeyOK, OneActivePerKey
<1> QED BY <1>1, <1>2, TypedStep, KeyStep, PTL DEF Spec
-----------------------------------------------------------------------------
(***************************************************************************)
(* Stop waits for every worker: the wait group counts the goroutines that  *)
(* are there, until a Start replaces it under workers that are still there.*)
(***************************************************************************)
PoolInv ==
    /\ ~overrun => wg = Cardinality(Live)
    /\ ~started /\ ~orphaned /\ ~overrun => Live = {}

LEMMA LiveFinite == IsFiniteSet(Live)
BY APIAssumption, FS_Subset DEF Live

LEMMA PoolSame ==
    ASSUME PoolInv, Live' = Live, UNCHANGED <<wg, started, overrun, orphaned>>
    PROVE  PoolInv'
BY DEF PoolInv

LEMMA DiePool == Die => PoolInv'
<1> SUFFICES ASSUME Die
             PROVE  PoolInv'
  OBVIOUS
<1>1. Live' = {} /\ wg' = 0
  BY DEF Die, Live
<1> QED BY <1>1, FS_EmptySet DEF PoolInv

LEMMA StartPool == TypeOK /\ PoolInv /\ Start => PoolInv'
<1> SUFFICES ASSUME TypeOK, PoolInv, Start, ~overrun'
             PROVE  wg' = Cardinality(Live') /\ (started' \/ orphaned')
  BY DEF PoolInv
<1>1. PICK W \in SUBSET {w \in Worker : worker[w] = "off"} : Cardinality(W) = Parallelism /\ Launch(W)
  BY DEF Start
<1>2. (started' \/ orphaned') /\ ~overrun /\ (stopping => Live = {}) /\ wg' = NewWaitGroup
  BY DEF Start
<1>3. Live' = Live \cup W /\ Live \cap W = {}
  <2>1. \A w \in Worker : worker'[w] \in IF w \in W THEN {"idle"}
                                         ELSE IF worker[w] = "idle" /\ stopping
                                         THEN {"idle", "leaving"} ELSE {worker[w]}
    BY <1>1 DEF Launch
  <2>2. \A w \in Worker : worker'[w] # "off" <=> (worker[w] # "off" \/ w \in W)
    BY <2>1, <1>1
  <2> QED BY <1>1, <2>2 DEF Live
<1>4. IsFiniteSet(W)
  BY APIAssumption, FS_Subset
<1>5. Cardinality(Live') = Cardinality(Live) + Parallelism
  <2>1. Cardinality(Live \cup W) = Cardinality(Live) + Cardinality(W) - Cardinality(Live \cap W)
    BY <1>4, LiveFinite, FS_Union
  <2>2. Cardinality(Live \cap W) = 0
    BY <1>3, FS_EmptySet
  <2>3. Cardinality(Live) \in Nat /\ Cardinality(W) \in Nat
    BY <1>4, LiveFinite, FS_CardinalityType
  <2> QED BY <1>1, <1>3, <2>1, <2>2, <2>3
<1>6. wg' = Cardinality(Live) + Parallelism
  <2>1. CASE stopping
    BY <1>2, <2>1, FS_EmptySet, APIAssumption DEF NewWaitGroup
  <2>2. CASE ~stopping
    BY <1>2, <2>2, APIAssumption DEF NewWaitGroup, PoolInv, TypeOK
  <2> QED BY <2>1, <2>2
<1> QED BY <1>2, <1>5, <1>6

LEMMA ExitPool ==
    ASSUME TypeOK, PoolInv, NEW w \in Worker, Exit(w)
    PROVE  PoolInv'
<1>1. CASE Die
  BY <1>1, DiePool
<1>2. CASE /\ worker' = [worker EXCEPT ![w] = "off"] /\ wg' = wg - 1
           /\ UNCHANGED <<started, overrun, orphaned>>
  <2>1. w \in Live /\ Live' = Live \ {w}
    BY <1>2 DEF Exit, Live, TypeOK
  <2>2. Cardinality(Live') = Cardinality(Live) - 1
    BY <2>1, LiveFinite, FS_RemoveElement
  <2> QED BY <1>2, <2>1, <2>2 DEF PoolInv
<1> QED BY <1>1, <1>2 DEF Exit, histVars

LEMMA PoolStep == TypeOK /\ PoolInv /\ [Next]_vars => PoolInv'
<1> SUFFICES ASSUME TypeOK, PoolInv, [Next]_vars
             PROVE  PoolInv'
  OBVIOUS
<1> USE DEF rowVars, execVars, histVars
<1>s. ASSUME UNCHANGED <<worker, wg, started, overrun, orphaned>>
      PROVE  PoolInv'
  BY <1>s, PoolSame DEF Live
\* One worker turns from one thing it does to another.
<1>t. ASSUME NEW w \in Worker, worker[w] # "off", NEW to, to # "off",
             worker' = [worker EXCEPT ![w] = to], UNCHANGED <<wg, started, overrun, orphaned>>
      PROVE  PoolInv'
  <2>1. Live' = Live
    BY <1>t DEF Live, TypeOK
  <2> QED BY <1>t, <2>1, PoolSame
<1>n. "off" \notin Cmd
  BY APIAssumption
<1>1. ASSUME NEW c \in Client, NEW user \in Key \cup {NoKey}, AddCheck(c, user)
      PROVE  PoolInv'
  BY <1>s, <1>1 DEF AddCheck
<1>2. ASSUME NEW c \in Caller, NEW i \in Cmd, AddCreate(c, i)
      PROVE  PoolInv'
  BY <1>s, <1>2 DEF AddCreate
<1>3. ASSUME NEW c \in Caller, CallFails(c) \/ Schedule(c)
      PROVE  PoolInv'
  BY <1>s, <1>3 DEF CallFails, Schedule
<1>5. ASSUME NEW c \in Client, NEW i \in Cmd, NEW cli \in BOOLEAN, RetryGet(c, i, cli)
      PROVE  PoolInv'
  BY <1>s, <1>5 DEF RetryGet
<1>6. ASSUME NEW c \in Client, NEW i \in Cmd, RetryUpdate(c, i) \/ CancelUpdate(c, i)
      PROVE  PoolInv'
  BY <1>s, <1>6 DEF RetryUpdate, CancelUpdate
<1>7. ASSUME NEW c \in Client, NEW S \in SUBSET Cmd, NEW cli \in BOOLEAN, CancelGet(c, S, cli)
      PROVE  PoolInv'
  BY <1>s, <1>7 DEF CancelGet
<1>9. ASSUME NEW w \in Worker, NEW i \in Cmd, Take(w, i)
      PROVE  PoolInv'
  <2>1. CASE UNCHANGED worker
    BY <1>s, <1>9, <2>1 DEF Take
  <2>2. CASE worker' = [worker EXCEPT ![w] = i]
    BY <1>t, <1>n, <1>9, <2>2 DEF Take
  <2> QED BY <1>9, <2>1, <2>2 DEF Take
<1>10. ASSUME NEW w \in Worker, NEW i \in Cmd, NEW user \in Key \cup {NoKey}, Spawn(w, i, user)
       PROVE  PoolInv'
  BY <1>s, <1>10 DEF Spawn
<1>11. ASSUME NEW w \in Worker, Settle(w) \/ Again(w) \/ WriteFails(w)
       PROVE  PoolInv'
  <2>1. /\ worker[w] \in Cmd /\ worker' = [worker EXCEPT ![w] = "idle"]
        /\ UNCHANGED <<wg, started, overrun, orphaned>>
    BY <1>11 DEF Settle, Again, WriteFails
  <2> QED BY <1>t, <1>n, <2>1
<1>14. ASSUME NEW w \in Worker, Exit(w)
       PROVE  PoolInv'
  BY <1>14, ExitPool
<1>15. CASE Crash
  BY <1>15, DiePool DEF Crash
<1>16. CASE Start
  BY <1>16, StartPool
<1>17. CASE Stop
  BY <1>s, <1>17 DEF Stop
<1>18. CASE StopReturns
  <2>1. UNCHANGED <<worker, wg, overrun>> /\ (~orphaned' => wg = 0)
    BY <1>18 DEF StopReturns
  <2>2. Live' = Live
    BY <2>1 DEF Live
  <2>3. Cardinality(Live) = 0 => Live = {}
    BY LiveFinite, FS_EmptySet
  <2> QED BY <2>1, <2>2, <2>3 DEF PoolInv
<1>22. CASE StopAtOnce
  BY <1>s, <1>22 DEF StopAtOnce
<1>19. ASSUME NEW k \in Permanent, StartPermanent(k)
       PROVE  PoolInv'
  BY <1>s, <1>19 DEF StartPermanent
<1>20. CASE UNCHANGED vars
  BY <1>s, <1>20 DEF vars
<1> QED
  BY <1>1, <1>2, <1>3, <1>5, <1>6, <1>7, <1>9, <1>10, <1>11, <1>14, <1>15, <1>16, <1>17, <1>18, <1>19,
     <1>20, <1>22 DEF Next

\* For any number of workers, runs, failed Starts and crashes: between two runs no
\* worker is left, unless a Start failed or a Stop timed out and no Stop has waited
\* since, or a Start came while workers of the run before were still there
\* (executor.go Start and Stop).
THEOREM NoWorkerLeft == Spec => []QuietAfterStop
<1>1. Init => PoolInv
  <2> SUFFICES ASSUME Init
               PROVE  PoolInv
    OBVIOUS
  <2>1. Live = {} /\ wg = 0
    BY DEF Init, Live
  <2> QED BY <2>1, FS_EmptySet DEF PoolInv
<1>2. PoolInv => QuietAfterStop
  BY DEF PoolInv, QuietAfterStop
<1> QED BY <1>1, <1>2, InitTyped, TypedStep, PoolStep, PTL DEF Spec
-----------------------------------------------------------------------------
(***************************************************************************)
(* One pair of hands.  What makes a retry safe is that a row somebody has  *)
(* is never FAILED or DEAD_LETTER, and what makes a creation safe is that  *)
(* nobody has a row that was not created.                                  *)
(***************************************************************************)
Unheld == {"NONE", "FAILED", "DEAD_LETTER"}

Alone(i) ==
    /\ copies[i] <= 1
    /\ \A w, v \in Worker : worker[w] = i /\ worker[v] = i => w = v
    /\ \A c, d \in Caller : Schedules(c, i) /\ Schedules(d, i) => c = d
    /\ copies[i] = 1 => ~Executed(i) /\ ~Scheduling(i)
    /\ Executed(i) => ~Scheduling(i)
    /\ status[i] \in Unheld => copies[i] = 0 /\ ~Executed(i) /\ ~Scheduling(i)

CarrierInv ==
    /\ \A c \in Caller : client[c].op = "schedule" => ~client[c].cli
    /\ \A i \in Cmd \ raced : Alone(i)

\* Hands let go of a row; its status is the same or one under which it may be held.
LEMMA LetGo ==
    ASSUME TypeOK, TypeOK', NEW i \in Cmd, Alone(i), copies'[i] <= copies[i],
           \A w \in Worker : worker'[w] = i => worker[w] = i,
           \A c \in Caller : Schedules(c, i)' => Schedules(c, i),
           status'[i] = status[i] \/ status'[i] \notin Unheld
    PROVE  Alone(i)'
<1>1. copies[i] \in Nat /\ copies'[i] \in Nat
  BY DEF TypeOK
<1>2. (Executed(i)' => Executed(i)) /\ (Scheduling(i)' => Scheduling(i))
  BY DEF Executed, Scheduling
<1>3. \A c, d \in Caller : Schedules(c, i)' /\ Schedules(d, i)' => c = d
  BY DEF Alone
<1>4. \A w, v \in Worker : worker'[w] = i /\ worker'[v] = i => w = v
  BY DEF Alone
<1>5. copies'[i] <= 1 /\ (copies'[i] = 1 => copies[i] = 1) /\ (copies[i] = 0 => copies'[i] = 0)
  BY <1>1 DEF Alone
<1> HIDE DEF Executed, Scheduling, Schedules, Unheld
<1> QED BY <1>2, <1>3, <1>4, <1>5 DEF Alone

\* The last hands let go.
LEMMA NobodyHas ==
    ASSUME NEW i \in Cmd, copies'[i] = 0, \A w \in Worker : worker'[w] # i,
           \A c \in Caller : ~Schedules(c, i)'
    PROVE  Alone(i)'
BY DEF Alone, Executed, Scheduling

\* Nobody but the channel, a worker or a caller has the row.
LEMMA InChannel ==
    ASSUME NEW i \in Cmd, copies'[i] = 1, \A w \in Worker : worker'[w] # i,
           \A c \in Caller : ~Schedules(c, i)', status'[i] \notin Unheld
    PROVE  Alone(i)'
BY DEF Alone, Executed, Scheduling

LEMMA WithWorker ==
    ASSUME NEW i \in Cmd, NEW w \in Worker, copies'[i] = 0, \A v \in Worker : worker'[v] = i => v = w,
           \A c \in Caller : ~Schedules(c, i)', status'[i] \notin Unheld
    PROVE  Alone(i)'
BY DEF Alone, Executed, Scheduling

LEMMA WithCaller ==
    ASSUME NEW i \in Cmd, NEW c \in Caller, copies'[i] = 0, \A v \in Worker : worker'[v] # i,
           \A d \in Caller : Schedules(d, i)' => d = c, status'[i] \notin Unheld
    PROVE  Alone(i)'
BY DEF Alone, Executed, Scheduling

\* A caller turns to something else than scheduling, or to scheduling row i.
LEMMA SchedulesLess ==
    ASSUME TypeOK, NEW c \in Caller, NEW does, Does(c, does), does.op # "schedule"
    PROVE  /\ \A i \in Cmd : \A d \in Caller : Schedules(d, i)' => Schedules(d, i) /\ d # c
           /\ \A d \in Caller : d # c => client'[d] = client[d]
           /\ client'[c] = does
BY DEF TypeOK, Does, Schedules

LEMMA SchedulesOne ==
    ASSUME TypeOK, NEW c \in Caller, NEW i \in Cmd, client[c].op # "schedule",
           Does(c, [Idle EXCEPT !.op = "schedule", !.ids = {i}])
    PROVE  /\ \A j \in Cmd : \A d \in Caller : Schedules(d, j)' => Schedules(d, j) \/ (d = c /\ j = i)
           /\ \A d \in Caller : d # c => client'[d] = client[d]
           /\ ~client'[c].cli
BY DEF TypeOK, Does, Schedules, Idle

LEMMA NobodyHad ==
    ASSUME TypeOK, NEW i \in Cmd, Alone(i), status[i] \in Unheld
    PROVE  copies[i] = 0 /\ (\A w \in Worker : worker[w] # i) /\ (\A c \in Caller : ~Schedules(c, i))
BY DEF Alone, Executed, Scheduling

LEMMA SendOne ==
    ASSUME TypeOK, NEW i \in Cmd, Send(i), copies[i] = 0
    PROVE  /\ copies'[i] \in {0, 1}
           /\ \A j \in Cmd : j # i => copies'[j] = copies[j]
BY DEF Send, TypeOK

\* A step that touches neither channel nor workers, and no row, while no caller
\* turns to scheduling.
LEMMA CallerTurns ==
    ASSUME TypeOK, TypeOK', CarrierInv, NEW c \in Caller, NEW does, Does(c, does), does.op # "schedule",
           UNCHANGED <<copies, worker, raced>>,
           \A i \in Cmd : status'[i] = status[i] \/ status'[i] \notin Unheld
    PROVE  CarrierInv'
<1>1. \A d \in Caller : client'[d].op = "schedule" => ~client'[d].cli
  BY SchedulesLess DEF CarrierInv
<1>2. ASSUME NEW i \in Cmd \ raced
      PROVE  Alone(i)'
  <2>1. copies'[i] <= copies[i]
    BY DEF TypeOK
  <2> QED BY <2>1, LetGo, SchedulesLess DEF CarrierInv
<1> QED BY <1>1, <1>2 DEF CarrierInv

LEMMA CarrierAddCreate ==
    ASSUME TypeOK, TypeOK', CarrierInv, NEW c \in Caller, NEW i \in Cmd, AddCreate(c, i)
    PROVE  CarrierInv'
<1> USE DEF rowVars, execVars, histVars
<1>0. /\ status[i] \in Unheld /\ status'[i] = "PENDING" /\ status'[i] \notin Unheld
      /\ \A j \in Cmd : j # i => status'[j] = status[j]
  BY DEF AddCreate, Fresh, TypeOK, Unheld
<1>1. /\ \A j \in Cmd : \A d \in Caller : Schedules(d, j)' => Schedules(d, j) \/ (d = c /\ j = i)
      /\ \A d \in Caller : d # c => client'[d] = client[d]
      /\ ~client'[c].cli
  BY SchedulesOne DEF AddCreate
<1>2. UNCHANGED <<copies, worker, raced>>
  BY DEF AddCreate
<1>3. ASSUME NEW j \in Cmd \ raced
      PROVE  Alone(j)'
  <2>0. Alone(j) /\ copies'[j] <= copies[j]
    BY <1>2 DEF CarrierInv, TypeOK
  <2>1. CASE j # i
    BY <1>0, <1>1, <1>2, <2>0, <2>1, LetGo
  <2>2. CASE j = i
    <3>1. copies[i] = 0 /\ (\A w \in Worker : worker[w] # i) /\ (\A d \in Caller : ~Schedules(d, i))
      BY <1>0, <2>0, <2>2, NobodyHad
    <3> QED BY <1>0, <1>1, <1>2, <2>2, <3>1, WithCaller
  <2> QED BY <2>1, <2>2
<1> QED BY <1>1, <1>2, <1>3 DEF CarrierInv

LEMMA CarrierSchedule ==
    ASSUME TypeOK, TypeOK', CarrierInv, NEW c \in Caller, Schedule(c), Queues
    PROVE  CarrierInv'
<1> USE DEF rowVars, histVars
<1>p. PICK i \in client[c].ids : Send(i)
  BY DEF Schedule
<1>t. i \in Cmd /\ Schedules(c, i) /\ Idle.op # "schedule"
  BY DEF TypeOK, Schedule, Schedules, Idle
<1>1. /\ \A j \in Cmd : \A d \in Caller : Schedules(d, j)' => Schedules(d, j) /\ d # c
      /\ \A d \in Caller : client'[d].op = "schedule" => ~client'[d].cli
  BY <1>t, SchedulesLess DEF Schedule, CarrierInv
<1>2. UNCHANGED <<status, worker, raced>>
  BY DEF Schedule
<1>3. ASSUME NEW j \in Cmd \ raced
      PROVE  Alone(j)'
  <2>0. Alone(j)
    BY DEF CarrierInv
  <2>1. CASE j # i
    <3>1. copies'[j] = copies[j] /\ copies[j] \in Nat
      BY <1>p, <1>t, <2>1 DEF Send, TypeOK
    <3> QED BY <1>1, <1>2, <2>0, <3>1, LetGo
  <2>2. CASE j = i
    <3>1. /\ copies[i] = 0 /\ (\A w \in Worker : worker[w] # i) /\ status[i] \notin Unheld
          /\ \A d \in Caller : Schedules(d, i) => d = c
      <4>1. Scheduling(i)
        BY <1>t DEF Scheduling
      <4>2. copies[i] # 1 /\ copies[i] <= 1 /\ copies[i] \in Nat
        BY <2>0, <2>2, <4>1 DEF Alone, TypeOK
      <4>3. ~Executed(i) /\ status[i] \notin Unheld
        BY <2>0, <2>2, <4>1 DEF Alone
      <4>4. \A d \in Caller : Schedules(d, i) => d = c
        BY <1>t, <2>0, <2>2 DEF Alone
      <4> QED BY <4>2, <4>3, <4>4 DEF Executed
    <3>2. copies'[i] \in {0, 1} /\ \A d \in Caller : ~Schedules(d, i)'
      BY <1>p, <1>t, <1>1, <3>1, SendOne
    <3> QED BY <1>2, <1>t, <2>2, <3>1, <3>2, InChannel, NobodyHas
  <2> QED BY <2>1, <2>2
<1> QED BY <1>1, <1>2, <1>3 DEF CarrierInv

LEMMA CarrierRetryUpdate ==
    ASSUME TypeOK, TypeOK', CarrierInv, NEW c \in Caller, NEW i \in Cmd, RetryUpdate(c, i)
    PROVE  CarrierInv'
<1> USE DEF rowVars, execVars
<1>0. /\ status'[i] = "PENDING" /\ status'[i] \notin Unheld
      /\ \A j \in Cmd : j # i => status'[j] = status[j]
  BY DEF RetryUpdate, TypeOK, Unheld
<1>2. UNCHANGED <<copies, worker>> /\ raced \subseteq raced'
  BY DEF RetryUpdate
<1>3. CASE client[c].cli
  <2>1. Does(c, Idle) /\ UNCHANGED raced
    BY <1>3 DEF RetryUpdate
  <2> QED BY <1>0, <1>2, <2>1, CallerTurns DEF Idle
<1>4. CASE ~client[c].cli
  <2>1. /\ \A j \in Cmd : \A d \in Caller : Schedules(d, j)' => Schedules(d, j) \/ (d = c /\ j = i)
        /\ \A d \in Caller : d # c => client'[d] = client[d]
        /\ ~client'[c].cli
    BY <1>4, SchedulesOne DEF RetryUpdate
  <2>2. ASSUME NEW j \in Cmd \ raced'
        PROVE  Alone(j)'
    <3>0. Alone(j) /\ copies'[j] <= copies[j]
      BY <1>2 DEF CarrierInv, TypeOK
    <3>1. CASE j # i
      BY <1>0, <1>2, <2>1, <3>0, <3>1, LetGo
    <3>2. CASE j = i
      <4>1. status[i] \in Unheld
        BY <1>4, <3>2 DEF RetryUpdate, Retriable, Unheld
      <4>2. copies[i] = 0 /\ (\A w \in Worker : worker[w] # i) /\ (\A d \in Caller : ~Schedules(d, i))
        BY <3>0, <3>2, <4>1, NobodyHad
      <4> QED BY <1>0, <1>2, <2>1, <3>2, <4>2, WithCaller
    <3> QED BY <3>1, <3>2
  <2> QED BY <2>1, <2>2 DEF CarrierInv
<1> QED BY <1>3, <1>4

\* A worker that executes a row, which only it has, turns away from it.
LEMMA HeldByWorker ==
    ASSUME TypeOK, NEW i \in Cmd, Alone(i), NEW w \in Worker, worker[w] = i
    PROVE  /\ copies[i] = 0 /\ status[i] \notin Unheld
           /\ \A v \in Worker : worker[v] = i => v = w
           /\ \A c \in Caller : ~Schedules(c, i)
<1>1. Executed(i)
  BY DEF Executed
<1>2. copies[i] # 1 /\ copies[i] <= 1 /\ copies[i] \in Nat
  BY <1>1 DEF Alone, TypeOK
<1>3. status[i] \notin Unheld /\ ~Scheduling(i)
  BY <1>1 DEF Alone
<1>4. \A v \in Worker : worker[v] = i => v = w
  BY DEF Alone
<1> QED BY <1>2, <1>3, <1>4 DEF Scheduling

LEMMA HeldByChannel ==
    ASSUME TypeOK, NEW i \in Cmd, Alone(i), copies[i] > 0
    PROVE  /\ copies[i] = 1 /\ status[i] \notin Unheld
           /\ \A v \in Worker : worker[v] # i
           /\ \A c \in Caller : ~Schedules(c, i)
<1>1. copies[i] = 1
  BY DEF Alone, TypeOK
<1>2. ~Executed(i) /\ ~Scheduling(i) /\ status[i] \notin Unheld
  BY <1>1 DEF Alone
<1> QED BY <1>1, <1>2 DEF Executed, Scheduling

LEMMA CarrierTake ==
    ASSUME TypeOK, TypeOK', CarrierInv, NEW w \in Worker, NEW i \in Cmd, Take(w, i)
    PROVE  CarrierInv'
<1>0. /\ UNCHANGED <<client, raced>> /\ copies[i] > 0 /\ copies'[i] = copies[i] - 1
      /\ worker[w] = "idle" /\ "idle" \notin Cmd
      /\ \A j \in Cmd : j # i => copies'[j] = copies[j] /\ status'[j] = status[j]
  BY APIAssumption DEF Take, TypeOK
<1>1. /\ \A v \in Worker : v # w => worker'[v] = worker[v]
      /\ worker'[w] = "idle" \/ (worker'[w] = i /\ status'[i] = "STARTED")
  BY <1>0 DEF Take, TypeOK
<1>2. \A j \in Cmd, c \in Caller : Schedules(c, j)' => Schedules(c, j)
  BY <1>0 DEF Schedules
<1>3. ASSUME NEW j \in Cmd \ raced
      PROVE  Alone(j)'
  <2>0. Alone(j)
    BY DEF CarrierInv
  <2>1. CASE j # i
    <3>1. copies'[j] <= copies[j]
      BY <1>0, <2>1 DEF TypeOK
    <3>2. \A v \in Worker : worker'[v] = j => worker[v] = j
      BY <1>0, <1>1, <2>1
    <3> QED BY <1>0, <1>2, <2>0, <2>1, <3>1, <3>2, LetGo
  <2>2. CASE j = i
    <3>1. copies'[i] = 0 /\ (\A v \in Worker : worker[v] # i) /\ (\A c \in Caller : ~Schedules(c, i)')
      BY <1>0, <1>2, <2>0, <2>2, HeldByChannel
    <3>2. CASE worker'[w] = "idle"
      <4>1. \A v \in Worker : worker'[v] # i
        BY <1>0, <1>1, <3>1, <3>2
      <4> QED BY <2>2, <3>1, <4>1, NobodyHas
    <3>3. CASE worker'[w] = i /\ status'[i] = "STARTED"
      <4>1. \A v \in Worker : worker'[v] = i => v = w
        BY <1>1, <3>1
      <4>2. status'[i] \notin Unheld
        BY <3>3 DEF Unheld
      <4> QED BY <2>2, <3>1, <4>1, <4>2, WithWorker
    <3> QED BY <1>1, <3>2, <3>3
  <2> QED BY <2>1, <2>2
<1> QED BY <1>0, <1>3 DEF CarrierInv

LEMMA CarrierSpawn ==
    ASSUME TypeOK, TypeOK', CarrierInv, NEW w \in Worker, NEW i \in Cmd,
           NEW user \in Key \cup {NoKey}, Spawn(w, i, user)
    PROVE  CarrierInv'
<1>0. /\ UNCHANGED <<client, raced, worker>> /\ Send(i)
      /\ status[i] \in Unheld /\ status'[i] \notin Unheld
      /\ \A j \in Cmd : j # i => status'[j] = status[j]
  BY DEF Spawn, TypeOK, Fresh, Unheld
<1>1. \A j \in Cmd, c \in Caller : Schedules(c, j)' => Schedules(c, j)
  BY <1>0 DEF Schedules
<1>2. ASSUME NEW j \in Cmd \ raced
      PROVE  Alone(j)'
  <2>0. Alone(j)
    BY DEF CarrierInv
  <2>1. CASE j # i
    <3>1. copies'[j] <= copies[j]
      BY <1>0, <2>1 DEF Send, TypeOK
    <3> QED BY <1>0, <1>1, <2>0, <2>1, <3>1, LetGo
  <2>2. CASE j = i
    <3>1. copies[i] = 0 /\ (\A v \in Worker : worker[v] # i) /\ (\A c \in Caller : ~Schedules(c, i))
      BY <1>0, <2>0, <2>2, NobodyHad
    <3>2. copies'[i] \in {0, 1}
      BY <1>0, <3>1, SendOne
    <3> QED BY <1>0, <1>1, <2>2, <3>1, <3>2, InChannel, NobodyHas
  <2> QED BY <2>1, <2>2
<1> QED BY <1>0, <1>2 DEF CarrierInv

\* Settle, Again and WriteFails: the worker lets go, and Again sends one copy.
LEMMA CarrierDone ==
    ASSUME TypeOK, TypeOK', CarrierInv, NEW w \in Worker, Settle(w) \/ Again(w) \/ WriteFails(w)
    PROVE  CarrierInv'
<1> USE DEF rowVars, histVars
<1>p. PICK i \in Cmd : i = worker[w]
  BY DEF Settle, Again, WriteFails
<1>0. /\ UNCHANGED <<client, raced>> /\ "idle" \notin Cmd
      /\ worker' = [worker EXCEPT ![w] = "idle"]
      /\ \A j \in Cmd : j # i => status'[j] = status[j]
  BY <1>p, APIAssumption DEF Settle, Again, WriteFails, TypeOK
<1>1. UNCHANGED copies \/ (Send(i) /\ status'[i] \notin Unheld)
  BY <1>p DEF Settle, Again, WriteFails, TypeOK, Unheld
<1>2. \A j \in Cmd, c \in Caller : Schedules(c, j)' => Schedules(c, j)
  BY <1>0 DEF Schedules
<1>3. \A v \in Worker, j \in Cmd : worker'[v] = j => worker[v] = j /\ v # w
  BY <1>0 DEF TypeOK
<1>4. ASSUME NEW j \in Cmd \ raced
      PROVE  Alone(j)'
  <2>0. Alone(j)
    BY DEF CarrierInv
  <2>1. CASE j # i
    <3>1. copies'[j] <= copies[j]
      BY <1>1, <2>1 DEF Send, TypeOK
    <3> QED BY <1>0, <1>2, <1>3, <2>0, <2>1, <3>1, LetGo
  <2>2. CASE j = i
    <3>1. /\ copies[i] = 0
          /\ \A v \in Worker : worker'[v] # i
          /\ \A c \in Caller : ~Schedules(c, i)'
      BY <1>p, <1>2, <1>3, <2>0, <2>2, HeldByWorker
    <3>2. CASE UNCHANGED copies
      BY <2>2, <3>1, <3>2, NobodyHas
    <3>3. CASE Send(i) /\ status'[i] \notin Unheld
      <4>1. copies'[i] \in {0, 1}
        BY <3>1, <3>3, SendOne
      <4> QED BY <2>2, <3>1, <3>3, <4>1, InChannel, NobodyHas
    <3> QED BY <1>1, <3>2, <3>3
  <2> QED BY <2>1, <2>2
<1> QED BY <1>0, <1>4 DEF CarrierInv

LEMMA CarrierDie == TypeOK /\ CarrierInv /\ Die => CarrierInv'
<1> SUFFICES ASSUME TypeOK, CarrierInv, Die
             PROVE  CarrierInv'
  OBVIOUS
<1>1. \A c \in Caller : client'[c].op # "schedule"
  BY DEF Die, CarrierInv, Idle
<1>2. \A i \in Cmd : copies'[i] = 0 /\ \A w \in Worker : worker'[w] # i
  BY APIAssumption DEF Die, Empty
<1>3. \A i \in Cmd, c \in Caller : ~Schedules(c, i)'
  BY <1>1 DEF Schedules
<1>4. ASSUME NEW i \in Cmd
      PROVE  Alone(i)'
  BY <1>2, <1>3, NobodyHas
<1> QED BY <1>1, <1>4 DEF CarrierInv

LEMMA CarrierStart == TypeOK /\ TypeOK' /\ CarrierInv /\ Start => CarrierInv'
<1> SUFFICES ASSUME TypeOK, TypeOK', CarrierInv, Start
             PROVE  CarrierInv'
  OBVIOUS
<1>0. UNCHANGED <<client, status>>
  BY DEF Start, rowVars
<1>1. \A i \in Cmd, w \in Worker : worker'[w] = i => worker[w] = i
  <2>1. PICK W \in SUBSET {w \in Worker : worker[w] = "off"} : Launch(W)
    BY DEF Start
  <2>2. \A w \in Worker : worker'[w] \in {"idle", "leaving", worker[w]}
    BY <2>1 DEF Launch
  <2> QED BY <2>2, APIAssumption
<1>2. \A i \in Cmd, c \in Caller : Schedules(c, i)' => Schedules(c, i)
  BY <1>0 DEF Schedules
<1>3. \A i \in Cmd : NewQueue[i] \in Nat /\ NewQueue[i] <= copies[i]
  BY DEF NewQueue, Empty, TypeOK
<1>4. ASSUME NEW i \in Cmd \ raced'
      PROVE  Alone(i)'
  <2>0. Alone(i)
    BY DEF CarrierInv, Start
  <2>1. CASE copies'[i] = NewQueue[i]
    BY <1>0, <1>1, <1>2, <1>3, <2>0, <2>1, LetGo
  <2>2. CASE i \in Due /\ i \notin Carried /\ copies'[i] = NewQueue[i] + 1
    <3>1. NewQueue[i] = 0
      BY <2>2 DEF Carried, NewQueue, Empty, TypeOK
    <3>2. (\A w \in Worker : worker'[w] # i) /\ (\A c \in Caller : ~Schedules(c, i)')
      BY <1>1, <1>2, <2>2 DEF Carried, Executed, Scheduling
    <3>3. status'[i] \notin Unheld
      BY <1>0, <2>2 DEF Due, IsActive, Unheld
    <3> QED BY <2>2, <3>1, <3>2, <3>3, InChannel
  <2> QED BY <2>1, <2>2 DEF Start
<1> QED BY <1>0, <1>4 DEF CarrierInv

LEMMA CarrierStep == TypeOK /\ TypeOK' /\ CarrierInv /\ [Next]_vars => CarrierInv'
<1> SUFFICES ASSUME TypeOK, TypeOK', CarrierInv, [Next]_vars
             PROVE  CarrierInv'
  OBVIOUS
<1> USE DEF rowVars, execVars, histVars
<1>s. ASSUME UNCHANGED <<status, copies, worker, client, raced>>
      PROVE  CarrierInv'
  BY <1>s DEF CarrierInv, Alone, Executed, Scheduling, Schedules
<1>1. ASSUME NEW c \in Client, NEW user \in Key \cup {NoKey}, AddCheck(c, user)
      PROVE  CarrierInv'
  BY <1>1, CallerTurns DEF AddCheck, Idle, Caller
<1>2. ASSUME NEW c \in Caller, NEW i \in Cmd, AddCreate(c, i)
      PROVE  CarrierInv'
  BY <1>2, CarrierAddCreate
<1>3. ASSUME NEW c \in Caller, CallFails(c)
      PROVE  CarrierInv'
  BY <1>3, CallerTurns DEF CallFails, Idle
<1>4. ASSUME NEW c \in Caller, Schedule(c)
      PROVE  CarrierInv'
  <2>1. CASE Queues
    BY <1>4, <2>1, CarrierSchedule
  <2>2. CASE ~Queues
    BY <1>4, <2>2, CallerTurns DEF Schedule, Idle
  <2> QED BY <2>1, <2>2
<1>5. ASSUME NEW c \in Client, NEW i \in Cmd, NEW cli \in BOOLEAN, RetryGet(c, i, cli)
      PROVE  CarrierInv'
  BY <1>5, CallerTurns DEF RetryGet, Idle, Caller
<1>6. ASSUME NEW c \in Client, NEW i \in Cmd, RetryUpdate(c, i)
      PROVE  CarrierInv'
  BY <1>6, CarrierRetryUpdate DEF Caller
<1>7. ASSUME NEW c \in Client, NEW S \in SUBSET Cmd, NEW cli \in BOOLEAN, CancelGet(c, S, cli)
      PROVE  CarrierInv'
  BY <1>7, CallerTurns DEF CancelGet, Idle, Caller
<1>8. ASSUME NEW c \in Client, NEW i \in Cmd, CancelUpdate(c, i)
      PROVE  CarrierInv'
  <2>1. [client[c] EXCEPT !.ids = @ \ {i}].op # "schedule" /\ Idle.op # "schedule"
    BY <1>8 DEF CancelUpdate, Idle, TypeOK, Caller
  <2>2. \A j \in Cmd : status'[j] = status[j] \/ status'[j] \notin Unheld
    BY <1>8 DEF CancelUpdate, TypeOK, Unheld
  <2> QED BY <1>8, <2>1, <2>2, CallerTurns DEF CancelUpdate, Caller
<1>9. ASSUME NEW w \in Worker, NEW i \in Cmd, Take(w, i)
      PROVE  CarrierInv'
  BY <1>9, CarrierTake
<1>10. ASSUME NEW w \in Worker, NEW i \in Cmd, NEW user \in Key \cup {NoKey}, Spawn(w, i, user)
       PROVE  CarrierInv'
  BY <1>10, CarrierSpawn
<1>11. ASSUME NEW w \in Worker, Settle(w) \/ Again(w) \/ WriteFails(w)
       PROVE  CarrierInv'
  BY <1>11, CarrierDone
<1>14. ASSUME NEW w \in Worker, Exit(w)
       PROVE  CarrierInv'
  <2>1. CASE Die
    BY <2>1, CarrierDie
  <2>2. CASE worker' = [worker EXCEPT ![w] = "off"] /\ UNCHANGED <<status, copies, client, raced>>
    <3>1. \A i \in Cmd, v \in Worker : worker'[v] = i => worker[v] = i
      BY <2>2, APIAssumption DEF TypeOK
    <3>2. \A i \in Cmd, c \in Caller : Schedules(c, i)' => Schedules(c, i)
      BY <2>2 DEF Schedules
    <3>3. ASSUME NEW i \in Cmd \ raced
          PROVE  Alone(i)'
      <4>1. copies'[i] <= copies[i]
        BY <2>2 DEF TypeOK
      <4> QED BY <2>2, <3>1, <3>2, <4>1, LetGo DEF CarrierInv
    <3> QED BY <2>2, <3>3 DEF CarrierInv
  <2> QED BY <1>14, <2>1, <2>2 DEF Exit
<1>15. CASE Crash
  BY <1>15, CarrierDie DEF Crash
<1>16. CASE Start
  BY <1>16, CarrierStart
<1>17. CASE Stop
  BY <1>s, <1>17 DEF Stop
<1>18. CASE StopReturns
  BY <1>s, <1>18 DEF StopReturns
<1>22. CASE StopAtOnce
  BY <1>s, <1>22 DEF StopAtOnce
<1>19. ASSUME NEW k \in Permanent, StartPermanent(k)
       PROVE  CarrierInv'
  <2>1. CASE Does(Starter, [Idle EXCEPT !.op = "create", !.key = k])
    BY <1>19, <2>1, CallerTurns DEF StartPermanent, Idle, Caller
  <2>2. CASE UNCHANGED client
    BY <1>s, <1>19, <2>2 DEF StartPermanent
  <2> QED BY <1>19, <2>1, <2>2 DEF StartPermanent
<1>20. CASE UNCHANGED vars
  BY <1>s, <1>20 DEF vars
<1> QED
  BY <1>1, <1>2, <1>3, <1>4, <1>5, <1>6, <1>7, <1>8, <1>9, <1>10, <1>11, <1>14, <1>15, <1>16, <1>17,
     <1>18, <1>19, <1>20, <1>22 DEF Next

\* For any number of callers, workers, rows, crashes and restarts: a command is in
\* one pair of hands unless a retry acted on a status that had changed since it was
\* read, or Start replayed a command somebody still had (ReplayFromDLQ, Start).
THEOREM HandsExclusive == Spec => []OneCarrier
<1>1. Init => CarrierInv
  <2> SUFFICES ASSUME Init
               PROVE  CarrierInv
    OBVIOUS
  <2>1. \A c \in Caller : client[c].op = "idle"
    BY DEF Init, Idle
  <2>2. \A i \in Cmd : copies[i] = 0 /\ \A w \in Worker : worker[w] # i
    BY APIAssumption DEF Init, Empty
  <2> QED BY <2>1, <2>2 DEF CarrierInv, Alone, Executed, Scheduling, Schedules
<1>2. CarrierInv => OneCarrier
  BY DEF CarrierInv, Alone, OneCarrier
<1> QED BY <1>1, <1>2, InitTyped, TypedStep, CarrierStep, PTL DEF Spec
=============================================================================
