---------------------------- MODULE PollingProofs ----------------------------
(***************************************************************************)
(* Theorems about Polling, for any number of processes, workers, commands  *)
(* and faults.  Nothing in the storage says who claimed a row, so that the *)
(* exclusiveness of claims rests on an argument about everyone who writes: *)
(* a worker writes only what it holds, the stuck-command loop only rows    *)
(* nobody holds, a replay only rows that are settled.                      *)
(***************************************************************************)
EXTENDS Polling, InstancesProofs, TLAPS

\* The deployments the theorems are about.  Drop any conjunct and TLC finds a
\* state in which LeaseHeld fails: a batch that outlives the threshold is taken back while
\* it waits; a second recovering process, or a second replaying caller, writes
\* PENDING over a row that has been claimed since it was read; a callback that
\* panics writes FAILED over a row that has been replayed and claimed.
SafeConfig ==
    /\ BatchesInTime
    /\ \A p, q \in Recoverer : p = q
    /\ \A k, l \in Client : k = l
    /\ "callback panic" \notin Outcomes

\* The parts of the inductive invariant besides TypeOK, LeaseHeld and ClaimExclusive.
HeldStarted == \A w \in Worker : \A i \in Held(w) : i.status = "STARTED"

\* The copy a worker executes is no longer in the batch.
HeldOnce ==
    \A w \in Worker :
        worker[w].pc \in {"acquire", "running", "spawn"} => worker[w].inst \notin worker[w].rest

HeldInTime == \A w \in Worker : \A i \in Held(w) : now < since[i.id] + Threshold

\* What the stuck-command loop has still to take back is held by nobody, and
\* nobody can claim it.
SnapsOrphaned ==
    \A p \in Proc : \A i \in snap[p] :
        /\ p \in Recoverer
        /\ rows[i.id].status \in {"STARTED", "CANCELLED", "GONE"}
        /\ \A w \in Worker : \A j \in Held(w) : j.id # i.id
        /\ \A j \in snap[p] : j.id = i.id => j = i

\* A row that is about to be replayed is still settled, or deleted.
ReplaySettled ==
    \A k \in Client : client[k].op = "replay" =>
        rows[client[k].inst.id].status \in {"FAILED", "DEAD_LETTER", "GONE"}

Claims ==
    /\ HeldStarted /\ HeldOnce /\ LeaseHeld /\ ClaimExclusive
    /\ HeldInTime /\ SnapsOrphaned /\ ReplaySettled
-----------------------------------------------------------------------------
(* Types. *)
WorkerState ==
    [pc : {"loop", "acquire", "running", "spawn", "callback"},
     inst : Instance \cup {NoInst}, rest : SUBSET Instance]

RowsOK == rows \in [Cmd -> Row] /\ \A c \in Cmd : rows[c].id = c

WorkersOK ==
    /\ worker \in [Worker -> WorkerState]
    /\ \A w \in Worker : worker[w].pc # "loop" => worker[w].inst # NoInst

ClientsOK ==
    /\ client \in [Client -> [op : {"none", "cancel", "replay"},
                              inst : Instance \cup {NoInst}]]
    /\ \A k \in Client : client[k].op # "none" => client[k].inst # NoInst

RestOK ==
    /\ now \in Nat /\ faults \in Nat
    /\ up \in [Proc -> {"down", "running", "stopping", "draining"}]
    /\ since \in [Cmd -> Nat]
    /\ snap \in [Proc -> SUBSET Instance]

PartsOK == RowsOK /\ WorkersOK /\ ClientsOK /\ RestOK

LEMMA TypeParts == TypeOK <=> PartsOK
BY DEF TypeOK, PartsOK, RowsOK, WorkersOK, WorkerState, ClientsOK, RestOK

\* A worker past the loop has a copy, and what it holds are instances.
LEMMA HeldType ==
    ASSUME WorkersOK, NEW w \in Worker
    PROVE  /\ worker[w].pc # "loop" => worker[w].inst \in Instance
           /\ worker[w].rest \subseteq Instance
           /\ Held(w) \subseteq Instance
<1>1. worker[w] \in WorkerState /\ (worker[w].pc # "loop" => worker[w].inst # NoInst)
  BY DEF WorkersOK
<1>2. worker[w].inst \in Instance \cup {NoInst} /\ worker[w].rest \subseteq Instance
  BY <1>1 DEF WorkerState
<1> QED BY <1>1, <1>2 DEF Held

LEMMA PutType ==
    ASSUME RowsOK, NEW i \in Instance, Put(i)
    PROVE  RowsOK'
<1>1. i \in Row /\ i.id \in Cmd
  BY RowTypes DEF Instance
<1> QED BY <1>1 DEF RowsOK, Put

LEMMA UpdateType ==
    ASSUME RowsOK, NEW i \in Instance, NEW p, Update(p, i)
    PROVE  RowsOK'
BY PutType DEF Update, RowsOK

\* Every step of a worker leaves it at some position with a copy it may have there.
LEMMA MoveType ==
    ASSUME WorkersOK, NEW w \in Worker, NEW s \in WorkerState,
           s.pc # "loop" => s.inst # NoInst,
           worker' = [worker EXCEPT ![w] = s]
    PROVE  WorkersOK'
BY DEF WorkersOK

\* Back to the loop, with the batch or what is left of it.
LEMMA LoopType ==
    ASSUME WorkersOK, NEW w \in Worker, NEW rest \in SUBSET Instance,
           worker' = [worker EXCEPT ![w] = [pc |-> "loop", inst |-> NoInst, rest |-> rest]]
    PROVE  WorkersOK'
<1> DEFINE s == [pc |-> "loop", inst |-> NoInst, rest |-> rest]
<1>1. s \in WorkerState /\ s.pc = "loop"
  BY DEF WorkerState
<1>2. worker' = [worker EXCEPT ![w] = s]
  OBVIOUS
<1> HIDE DEF s
<1> QED BY <1>1, <1>2, MoveType

LEMMA BackToLoopType ==
    ASSUME WorkersOK, NEW w \in Worker, BackToLoop(w)
    PROVE  WorkersOK'
<1>1. worker[w].rest \in SUBSET Instance
  BY HeldType
<1>2. worker' = [worker EXCEPT ![w] = [pc |-> "loop", inst |-> NoInst, rest |-> worker[w].rest]]
  BY DEF BackToLoop, WorkersOK
<1> QED BY <1>1, <1>2, LoopType

\* To another position with a copy.
LEMMA CopyType ==
    ASSUME WorkersOK, NEW w \in Worker, NEW i \in Instance, NEW rest \in SUBSET Instance,
           NEW pc \in {"loop", "acquire", "running", "spawn", "callback"},
           worker' = [worker EXCEPT ![w] = [pc |-> pc, inst |-> i, rest |-> rest]]
    PROVE  WorkersOK'
<1> DEFINE s == [pc |-> pc, inst |-> i, rest |-> rest]
<1>1. s \in WorkerState /\ s.inst # NoInst
  BY RowTypes DEF WorkerState
<1>2. worker' = [worker EXCEPT ![w] = s]
  OBVIOUS
<1> HIDE DEF s
<1> QED BY <1>1, <1>2, MoveType

LEMMA SettleType ==
    ASSUME PartsOK, NEW w \in Worker, NEW i \in Instance, Settle(w, i)
    PROVE  PartsOK'
<1>1. RowsOK'
  BY UpdateType DEF Settle, PartsOK
<1>2. WorkersOK'
  BY BackToLoopType DEF Settle, PartsOK
<1> QED BY <1>1, <1>2 DEF Settle, PartsOK, ClientsOK, RestOK

\* A claim writes rows of the right type into the storage and into the batch.
LEMMA ClaimType ==
    ASSUME PartsOK, NEW S \in SUBSET Cmd, MarkStarted(S)
    PROVE  /\ \A c \in S : rows[c] \in Instance /\ Started(rows[c]) \in Instance
                          /\ Started(rows[c]).id = c
           /\ RowsOK' /\ since' \in [Cmd -> Nat]
<1>1. \A c \in S : rows[c] \in Instance /\ rows[c].id = c
  BY RowTypes DEF PartsOK, RowsOK, MarkStarted, Claimable, Present, Status
<1>2. \A c \in S : Started(rows[c]) \in Instance /\ Started(rows[c]).id = c
  BY <1>1, TransitionTypes
<1>3. RowsOK'
  BY <1>2, RowTypes DEF MarkStarted, PartsOK, RowsOK
<1>4. since' \in [Cmd -> Nat]
  BY DEF MarkStarted, PartsOK, RestOK
<1> QED BY <1>1, <1>2, <1>3, <1>4

LEMMA ExecuteType ==
    ASSUME PartsOK, NEW w \in Worker, Execute(w)
    PROVE  PartsOK'
<1> USE DEF PartsOK
<1> DEFINE i == worker[w].inst
           rest == worker[w].rest
<1>0. /\ worker[w].pc # "loop" => i \in Instance
      /\ rest \in SUBSET Instance
      /\ now \in Nat /\ now + Period \in Nat /\ now + Backoff \in Nat
  BY HeldType, PollingAssumption DEF RestOK
<1>1. CASE DropRest(w)
  <2>1. WorkersOK'
    <3>1. worker' = [worker EXCEPT ![w] = [pc |-> "loop", inst |-> NoInst, rest |-> {}]]
      BY <1>1 DEF DropRest, Idle
    <3>2. {} \in SUBSET Instance
      OBVIOUS
    <3> QED BY <3>1, <3>2, LoopType
  <2> QED BY <1>1, <2>1 DEF DropRest, RowsOK, ClientsOK, RestOK
<1>2. ASSUME NEW j \in rest, HandleExpired(w, j)
      PROVE  PartsOK'
  <2>1. j \in Instance /\ Expired(j) \in Instance /\ rest \ {j} \in SUBSET Instance
    BY <1>0, TransitionTypes
  <2>2. RowsOK'
    BY <1>2, <2>1, UpdateType DEF HandleExpired
  <2>3. WorkersOK'
    <3>1. CASE UpdateOK(Host[w], j) /\ j.id \notin Unregistered
      <4>1. worker' = [worker EXCEPT ![w] =
                [pc |-> "callback", inst |-> Expired(j), rest |-> rest \ {j}]]
        BY <1>2, <3>1 DEF HandleExpired, WorkersOK
      <4> QED BY <4>1, <2>1, CopyType
    <3>2. CASE ~(UpdateOK(Host[w], j) /\ j.id \notin Unregistered)
      <4>1. worker' = [worker EXCEPT ![w] =
                [pc |-> "loop", inst |-> NoInst, rest |-> rest \ {j}]]
        BY <1>2, <3>2 DEF HandleExpired, WorkersOK
      <4> QED BY <4>1, <2>1, LoopType
    <3> QED BY <3>1, <3>2
  <2> QED BY <1>2, <2>2, <2>3 DEF HandleExpired, ClientsOK, RestOK
<1>3. ASSUME NEW j \in rest, NotRegistered(w, j)
      PROVE  PartsOK'
  <2>1. j \in Instance /\ Unresolved(j) \in Instance
    BY <1>0, TransitionTypes
  <2>2. RowsOK'
    BY <1>3, <2>1, UpdateType DEF NotRegistered
  <2>3. WorkersOK'
    BY <1>0, <1>3 DEF NotRegistered, WorkersOK, WorkerState
  <2> QED BY <1>3, <2>2, <2>3 DEF NotRegistered, ClientsOK, RestOK
<1>4. ASSUME NEW j \in rest, Run(w, j)
      PROVE  PartsOK'
  <2>1. j \in Instance /\ rest \ {j} \in SUBSET Instance
    BY <1>0
  <2>2. PICK pc \in {"acquire", "running"} :
            worker' = [worker EXCEPT ![w] = [pc |-> pc, inst |-> j, rest |-> rest \ {j}]]
    BY <1>4 DEF Run, At, WorkersOK
  <2>3. WorkersOK'
    BY <2>1, <2>2, CopyType
  <2> QED BY <1>4, <2>3 DEF Run, RowsOK, ClientsOK, RestOK
<1>5. CASE GotSlot(w)
  BY <1>5 DEF GotSlot, RowsOK, WorkersOK, WorkerState, ClientsOK, RestOK
<1>6. CASE SlotRefused(w)
  <2>1. [i EXCEPT !.status = "PENDING"] \in Instance
    BY <1>0, <1>6 DEF SlotRefused, Instance, Status
  <2>2. RowsOK'
    BY <1>6, <2>1, UpdateType DEF SlotRefused
  <2>3. WorkersOK'
    BY <1>6, BackToLoopType DEF SlotRefused
  <2> QED BY <1>6, <2>2, <2>3 DEF SlotRefused, ClientsOK, RestOK
<1>7. CASE ResultRepeat(w)
  BY <1>0, <1>7, TransitionTypes, SettleType DEF ResultRepeat, Running
<1>8. CASE ResultRetry(w)
  BY <1>0, <1>8, ChargedTypes, SettleType DEF ResultRetry, Running
<1>9. CASE ResultDone(w)
  BY <1>9 DEF ResultDone, Running, RowsOK, WorkersOK, WorkerState, ClientsOK, RestOK
<1>10. CASE Complete(w)
  BY <1>0, <1>10, TransitionTypes, SettleType DEF Complete
<1>11. CASE ErrorRetry(w)
  BY <1>0, <1>11, ChargedTypes, SettleType DEF ErrorRetry, Running
<1>12. CASE ErrorFinal(w)
  <2>1. Failed(i, DeadLetter) \in Instance
    BY <1>0, <1>12, TransitionTypes, PollingAssumption DEF ErrorFinal, Running
  <2>2. RowsOK'
    BY <1>12, <2>1, UpdateType DEF ErrorFinal
  <2>3. WorkersOK'
    <3>1. CASE BackToLoop(w)
      BY <3>1, BackToLoopType
    <3>2. CASE worker' = [worker EXCEPT ![w] =
                [pc |-> "callback", inst |-> Failed(i, DeadLetter), rest |-> rest]]
      BY <1>0, <2>1, <3>2, CopyType
    <3> QED BY <1>12, <3>1, <3>2 DEF ErrorFinal, WorkersOK
  <2> QED BY <1>12, <2>2, <2>3 DEF ErrorFinal, ClientsOK, RestOK
<1>13. CASE CallbackDone(w)
  BY <1>13, BackToLoopType DEF CallbackDone, RowsOK, ClientsOK, RestOK
<1>14. CASE Panic(w)
  <2>1. Panicked(i) \in Instance
    BY <1>0, <1>14, TransitionTypes DEF Panic, Running
  <2>2. RowsOK'
    BY <1>14, <2>1, PutType DEF Panic, RowsOK
  <2>3. WorkersOK'
    BY <1>14, BackToLoopType DEF Panic
  <2> QED BY <1>14, <2>2, <2>3 DEF Panic, ClientsOK, RestOK
<1> QED BY <1>1, <1>2, <1>3, <1>4, <1>5, <1>6, <1>7, <1>8, <1>9, <1>10, <1>11, <1>12,
           <1>13, <1>14 DEF Execute

\* Everything but a worker's own steps.
LEMMA OthersType ==
    ASSUME PartsOK, Next, \A w \in Worker : ~Execute(w)
    PROVE  PartsOK'
<1> USE DEF PartsOK
<1>0. /\ now \in Nat /\ NoDeadline \in Nat /\ now + NoDeadline \in Nat
      /\ \A d \in Delays : now + d \in Nat
      /\ \A d \in Deadlines \cup {NoDeadline} : now + d \in Nat
      /\ Retries \in Nat
  BY PollingAssumption DEF RestOK, NoDeadline
<1>1. ASSUME NEW w \in Worker, NEW S \in SUBSET Cmd, ClaimPending(w, S)
      PROVE  PartsOK'
  <2>1. RowsOK' /\ since' \in [Cmd -> Nat] /\ {Started(rows[c]) : c \in S} \in SUBSET Instance
    BY <1>1, ClaimType DEF ClaimPending
  <2>2. WorkersOK'
    BY <1>1, <2>1 DEF ClaimPending, WorkersOK, WorkerState
  <2> QED BY <1>1, <2>1, <2>2 DEF ClaimPending, ClientsOK, RestOK
<1>2. ASSUME NEW w \in Worker, NEW S \in SUBSET Cmd, ClaimLost(w, S)
      PROVE  PartsOK'
  <2>1. RowsOK' /\ since' \in [Cmd -> Nat]
    BY <1>2, ClaimType DEF ClaimLost
  <2>2. WorkersOK' /\ ClientsOK'
    BY <1>2 DEF ClaimLost, WorkersOK, ClientsOK
  <2>3. faults' \in Nat
    BY <1>2 DEF ClaimLost, Fault, RestOK
  <2>4. RestOK'
    BY <1>2, <2>1, <2>3 DEF ClaimLost, RestOK
  <2> QED BY <2>1, <2>2, <2>4
<1>3. ASSUME NEW w \in Worker, NEW c \in Cmd, NEW d \in Delays, Spawn(w, c, d)
      PROVE  PartsOK'
  <2>1. RowsOK'
    BY <1>0, <1>3, NewInstanceType, PutType DEF Spawn
  <2> QED BY <1>3, <2>1 DEF Spawn, WorkersOK, ClientsOK, RestOK
<1>4. ASSUME NEW k \in Client, NEW c \in Cmd, NEW d \in Delays,
             NEW e \in Deadlines \cup {NoDeadline}, Add(k, c, d, e)
      PROVE  PartsOK'
  <2>1. RowsOK'
    BY <1>0, <1>4, NewInstanceType, PutType DEF Add
  <2> QED BY <1>4, <2>1 DEF Add, WorkersOK, ClientsOK, RestOK
<1>5. ASSUME NEW k \in Client, NEW op \in {"cancel", "replay"}, NEW c \in Cmd, Lookup(k, op, c)
      PROVE  PartsOK'
  <2>1. rows[c] \in Instance
    BY <1>5, RowTypes DEF Lookup, Permits, Present, Status, RowsOK
  <2>2. ClientsOK'
    BY <1>5, <2>1, RowTypes DEF Lookup, ClientsOK
  <2> QED BY <1>5, <2>2 DEF Lookup, RowsOK, WorkersOK, RestOK
<1>6. ASSUME NEW k \in Client, Overwrite(k)
      PROVE  PartsOK'
  <2>1. client[k].inst \in Instance
    BY <1>6 DEF Overwrite, ClientsOK
  <2>2. Cancelled(client[k].inst) \in Instance /\ Replayed(client[k].inst, now) \in Instance
    BY <1>0, <2>1, TransitionTypes
  <2>3. RowsOK'
    BY <1>6, <2>2, PutType DEF Overwrite, RowsOK
  <2>4. ClientsOK'
    BY <1>6 DEF Overwrite, ClientsOK, NoCall
  <2> QED BY <1>6, <2>3, <2>4 DEF Overwrite, WorkersOK, RestOK
<1>7. ASSUME NEW p \in Proc, NEW c \in Cmd, Cleanup(p, c)
      PROVE  PartsOK'
  <2>1. RowsOK'
    BY <1>7, RowTypes DEF Cleanup, Put, RowsOK
  <2> QED BY <1>7, <2>1 DEF Cleanup, WorkersOK, ClientsOK, RestOK
<1>8. ASSUME NEW p \in Proc, FindStuck(p)
      PROVE  PartsOK'
  <2>1. {rows[c] : c \in {d \in Cmd : Stuck(d)}} \in SUBSET Instance
    BY RowTypes DEF Stuck, Present, Status, RowsOK
  <2> QED BY <1>8, <2>1 DEF FindStuck, RowsOK, WorkersOK, ClientsOK, RestOK
<1>9. ASSUME NEW p \in Proc, NEW i \in snap[p], RecoverStuck(p, i)
      PROVE  PartsOK'
  <2>1. i \in Instance /\ Recovered(i) \in Instance
    BY <1>0, TransitionTypes DEF RestOK
  <2>2. RowsOK'
    BY <1>9, <2>1, UpdateType DEF RecoverStuck
  <2>3. snap' \in [Proc -> SUBSET Instance]
    BY <1>9 DEF RecoverStuck, RestOK
  <2> QED BY <1>9, <2>2, <2>3 DEF RecoverStuck, WorkersOK, ClientsOK, RestOK
<1>10. ASSUME NEW p \in Proc, Start(p) \/ Stop(p) \/ StopCancel(p) \/ StopDone(p)
       PROVE  PartsOK'
  BY <1>10 DEF Start, Stop, StopCancel, StopDone, Fault, RowsOK, WorkersOK, ClientsOK, RestOK
<1>11. ASSUME NEW p \in Proc, Crash(p)
       PROVE  PartsOK'
  <2>1. Idle \in WorkerState /\ Idle.pc = "loop"
    BY DEF Idle, WorkerState
  <2>2. WorkersOK'
    BY <1>11, <2>1 DEF Crash, WorkersOK
  <2>3. RestOK'
    BY <1>11 DEF Crash, Fault, RestOK
  <2> QED BY <1>11, <2>2, <2>3 DEF Crash, RowsOK, ClientsOK
<1>12. CASE Tick
  BY <1>12 DEF Tick, RowsOK, WorkersOK, ClientsOK, RestOK
<1> QED BY <1>1, <1>2, <1>3, <1>4, <1>5, <1>6, <1>7, <1>8, <1>9, <1>10, <1>11, <1>12
        DEF Next, Claim, Call, Recover

LEMMA InitType == Init => PartsOK
<1> SUFFICES ASSUME Init PROVE PartsOK
  OBVIOUS
<1>1. RowsOK
  BY RowTypes DEF Init, RowsOK
<1>2. WorkersOK
  BY DEF Init, WorkersOK, WorkerState, Idle
<1>3. ClientsOK
  BY DEF Init, ClientsOK, NoCall
<1> QED BY <1>1, <1>2, <1>3 DEF Init, PartsOK, RestOK

\* Every row, batch, snapshot and pending call keeps its type, through every mixture
\* of claims, outcomes, recoveries and faults: a budget never goes below zero.
THEOREM TypeCorrect == Spec => []TypeOK
<1>1. Init => PartsOK
  BY InitType
<1>2. PartsOK /\ [Next]_vars => PartsOK'
  <2> SUFFICES ASSUME PartsOK, [Next]_vars PROVE PartsOK'
    OBVIOUS
  <2>1. CASE \E w \in Worker : Execute(w)
    BY <2>1, ExecuteType
  <2>2. CASE Next /\ \A w \in Worker : ~Execute(w)
    BY <2>2, OthersType
  <2>3. CASE UNCHANGED vars
    BY <2>3 DEF vars, PartsOK, RowsOK, WorkersOK, ClientsOK, RestOK
  <2> QED BY <2>1, <2>2, <2>3
<1> QED BY <1>1, <1>2, TypeParts, PTL DEF Spec
-----------------------------------------------------------------------------
(* Who holds what after a step. *)
LEMMA HeldAfter ==
    ASSUME WorkersOK, NEW w \in Worker, NEW s, worker' = [worker EXCEPT ![w] = s]
    PROVE  /\ \A v \in Worker \ {w} : Held(v)' = Held(v)
           /\ Held(w)' = s.rest \cup
                (IF s.pc \in {"acquire", "running", "spawn"} THEN {s.inst} ELSE {})
<1>1. worker'[w] = s /\ \A v \in Worker \ {w} : worker'[v] = worker[v]
  BY DEF WorkersOK
<1> QED BY <1>1 DEF Held

\* A step that gives up claims and writes nothing.
LEMMA ShrinkStep ==
    ASSUME Claims, HeldOnce',
           \A v \in Worker : Held(v)' \subseteq Held(v),
           \A p \in Proc : snap'[p] \subseteq snap[p],
           UNCHANGED <<now, since, rows, client>>
    PROVE  Claims'
<1> USE DEF Claims
<1>1. HeldStarted' /\ LeaseHeld' /\ HeldInTime'
  BY DEF HeldStarted, LeaseHeld, HeldInTime
<1>2. ClaimExclusive'
  BY DEF ClaimExclusive
<1>3. SnapsOrphaned'
  BY DEF SnapsOrphaned
<1>4. ReplaySettled'
  BY DEF ReplaySettled
<1> QED BY <1>1, <1>2, <1>3, <1>4

\* A worker gives up a claim, writing at most the row it is for: no other claim, no
\* snapshot and no replay is about that row.
LEMMA ReleaseStep ==
    ASSUME PartsOK, Claims, HeldOnce', NEW w \in Worker, NEW i \in Held(w),
           Held(w)' \subseteq Held(w) \ {i},
           \A v \in Worker \ {w} : Held(v)' = Held(v),
           UNCHANGED <<now, since, client, snap>>,
           \/ rows' = rows
           \/ Present(rows[i.id]) /\ \E r : rows' = [rows EXCEPT ![i.id] = r]
    PROVE  Claims'
<1> USE DEF Claims
<1>0. i.id \in Cmd /\ \A v \in Worker : Held(v) \subseteq Instance
  BY HeldType DEF PartsOK, Instance
<1>1. \A v \in Worker : Held(v)' \subseteq Held(v) /\ i \notin Held(w)'
  OBVIOUS
<1>2. \A v \in Worker : \A j \in Held(v)' : j.id # i.id
  BY <1>1 DEF ClaimExclusive
<1>3. \A c \in Cmd : c # i.id => rows'[c] = rows[c]
  BY DEF PartsOK, RowsOK
<1>4. \A v \in Worker : \A j \in Held(v)' : j.id \in Cmd /\ rows'[j.id] = rows[j.id]
  BY <1>0, <1>1, <1>2, <1>3 DEF Instance
<1>5. HeldStarted' /\ HeldInTime'
  BY <1>1 DEF HeldStarted, HeldInTime
<1>6. LeaseHeld'
  BY <1>1, <1>4 DEF LeaseHeld
<1>7. ClaimExclusive'
  BY <1>1 DEF ClaimExclusive
<1>8. SnapsOrphaned'
  <2>1. \A p \in Proc : \A j \in snap[p] : j.id \in Cmd /\ j.id # i.id
    BY DEF SnapsOrphaned, PartsOK, RestOK, Instance
  <2> QED BY <1>1, <1>3, <2>1 DEF SnapsOrphaned
<1>9. ReplaySettled'
  <2>1. rows[i.id].status \in {"STARTED", "CANCELLED", "GONE"}
    BY DEF LeaseHeld, HeldStarted
  <2>2. ASSUME NEW k \in Client, client[k].op = "replay", rows' # rows
        PROVE  client[k].inst.id # i.id
    BY <2>1, <2>2 DEF ReplaySettled, Present, Status
  <2>3. \A k \in Client : client[k].op = "replay" => client[k].inst.id \in Cmd
    BY DEF PartsOK, ClientsOK, Instance
  <2> QED BY <1>3, <2>2, <2>3 DEF ReplaySettled
<1> QED BY <1>5, <1>6, <1>7, <1>8, <1>9

LEMMA HeldOnceAfter ==
    ASSUME WorkersOK, HeldOnce, NEW w \in Worker, NEW s, worker' = [worker EXCEPT ![w] = s],
           s.pc \in {"acquire", "running", "spawn"} => s.inst \notin s.rest
    PROVE  HeldOnce'
<1>1. worker'[w] = s /\ \A v \in Worker \ {w} : worker'[v] = worker[v]
  BY DEF WorkersOK
<1> QED BY <1>1 DEF HeldOnce

LEMMA UpdateWrites ==
    ASSUME NEW p, NEW i, Update(p, i)
    PROVE  rows' = rows \/ (Present(rows[i.id]) /\ rows' = [rows EXCEPT ![i.id] = i])
<1>1. CASE UpdateOK(p, i)
  <2>1. rows' = [rows EXCEPT ![i.id] = i]
    BY <1>1 DEF Update, Put
  <2>2. Present(rows[i.id])
    BY <1>1 DEF UpdateOK
  <2> QED BY <2>1, <2>2
<1>2. CASE ~UpdateOK(p, i)
  BY <1>2 DEF Update
<1> QED BY <1>1, <1>2

\* The end of an execution: the worker writes its copy, whatever it now says, and
\* returns to the loop over its batch.
LEMMA FinishStep ==
    ASSUME PartsOK, Claims, NEW w \in Worker,
           worker[w].pc \in {"acquire", "running", "spawn"},
           BackToLoop(w), UNCHANGED <<now, since, client, snap>>,
           \/ rows' = rows
           \/ /\ Present(rows[worker[w].inst.id])
              /\ \E r : rows' = [rows EXCEPT ![worker[w].inst.id] = r]
    PROVE  Claims'
<1> DEFINE s == [pc |-> "loop", inst |-> NoInst, rest |-> worker[w].rest]
<1>1. worker' = [worker EXCEPT ![w] = s]
  BY DEF BackToLoop, PartsOK, WorkersOK
<1>2. s.pc \notin {"acquire", "running", "spawn"} /\ s.rest = worker[w].rest
  OBVIOUS
<1> HIDE DEF s
<1>3. Held(w)' = worker[w].rest /\ \A v \in Worker \ {w} : Held(v)' = Held(v)
  <2>1. /\ Held(w)' = s.rest \cup
              (IF s.pc \in {"acquire", "running", "spawn"} THEN {s.inst} ELSE {})
        /\ \A v \in Worker \ {w} : Held(v)' = Held(v)
    BY <1>1, HeldAfter DEF PartsOK
  <2> QED BY <1>2, <2>1
<1>4. HeldOnce'
  BY <1>1, <1>2, HeldOnceAfter DEF PartsOK, Claims
<1>5. worker[w].inst \in Held(w) /\ Held(w) \ {worker[w].inst} = worker[w].rest
  BY DEF Held, Claims, HeldOnce
<1> QED BY <1>3, <1>4, <1>5, ReleaseStep

LEMMA SettleStep ==
    ASSUME PartsOK, Claims, NEW w \in Worker,
           worker[w].pc \in {"acquire", "running", "spawn"},
           NEW j, j.id = worker[w].inst.id, Settle(w, j)
    PROVE  Claims'
<1>1. \/ rows' = rows
      \/ Present(rows[worker[w].inst.id]) /\ rows' = [rows EXCEPT ![worker[w].inst.id] = j]
  BY UpdateWrites DEF Settle
<1> QED BY <1>1, FinishStep DEF Settle

\* The same for a copy that is settled as it is taken off the batch.
LEMMA TakeStep ==
    ASSUME PartsOK, Claims, NEW w \in Worker, NEW j \in worker[w].rest, NEW s,
           worker[w].pc = "loop",
           worker' = [worker EXCEPT ![w] = s], s.rest = worker[w].rest \ {j},
           s.pc \in {"loop", "callback"},
           UNCHANGED <<now, since, client, snap>>,
           \/ rows' = rows
           \/ Present(rows[j.id]) /\ \E r : rows' = [rows EXCEPT ![j.id] = r]
    PROVE  Claims'
<1>1. Held(w)' = worker[w].rest \ {j} /\ \A v \in Worker \ {w} : Held(v)' = Held(v)
  BY HeldAfter DEF PartsOK
<1>2. HeldOnce'
  BY HeldOnceAfter DEF PartsOK, Claims
<1>3. j \in Held(w) /\ Held(w) = worker[w].rest
  BY DEF Held
<1> QED BY <1>1, <1>2, <1>3, ReleaseStep

\* A worker moves on and keeps what it holds, or some of it.
LEMMA KeepStep ==
    ASSUME PartsOK, Claims, NEW w \in Worker, NEW s,
           worker' = [worker EXCEPT ![w] = s],
           s.rest \cup (IF s.pc \in {"acquire", "running", "spawn"} THEN {s.inst} ELSE {})
               \subseteq Held(w),
           s.pc \in {"acquire", "running", "spawn"} => s.inst \notin s.rest,
           UNCHANGED <<now, since, rows, client, snap>>
    PROVE  Claims'
<1>1. \A v \in Worker : Held(v)' \subseteq Held(v)
  BY HeldAfter DEF PartsOK
<1>2. HeldOnce'
  BY HeldOnceAfter DEF PartsOK, Claims
<1> QED BY <1>1, <1>2, ShrinkStep

LEMMA ExecuteClaims ==
    ASSUME SafeConfig, PartsOK, Claims, NEW w \in Worker, Execute(w)
    PROVE  Claims'
<1> DEFINE i == worker[w].inst
           rest == worker[w].rest
<1>0. /\ worker[w].pc # "loop" => i \in Instance
      /\ rest \in SUBSET Instance
      /\ worker \in [Worker -> WorkerState] /\ worker[w] \in WorkerState
      /\ now + Period \in Nat /\ now + Backoff \in Nat
  BY HeldType, PollingAssumption DEF RestOK, PartsOK, WorkersOK
<1>1. CASE DropRest(w)
  <2>1. worker' = [worker EXCEPT ![w] = Idle] /\ Idle.pc = "loop" /\ Idle.rest = {}
    BY <1>1 DEF DropRest, Idle
  <2> QED BY <1>1, <2>1, KeepStep DEF DropRest
<1>2. ASSUME NEW j \in rest, HandleExpired(w, j)
      PROVE  Claims'
  <2>1. PICK s : /\ worker' = [worker EXCEPT ![w] = s]
                 /\ s.rest = rest \ {j} /\ s.pc \in {"loop", "callback"}
    <3>1. CASE UpdateOK(Host[w], j) /\ j.id \notin Unregistered
      <4> DEFINE s == [pc |-> "callback", inst |-> Expired(j), rest |-> rest \ {j}]
      <4>1. worker' = [worker EXCEPT ![w] = s]
        BY <1>0, <1>2, <3>1 DEF HandleExpired
      <4>2. s.rest = rest \ {j} /\ s.pc = "callback"
        OBVIOUS
      <4> HIDE DEF s
      <4> QED BY <4>1, <4>2
    <3>2. CASE ~(UpdateOK(Host[w], j) /\ j.id \notin Unregistered)
      <4> DEFINE s == [pc |-> "loop", inst |-> NoInst, rest |-> rest \ {j}]
      <4>1. worker' = [worker EXCEPT ![w] = s]
        BY <1>0, <1>2, <3>2 DEF HandleExpired
      <4>2. s.rest = rest \ {j} /\ s.pc = "loop"
        OBVIOUS
      <4> HIDE DEF s
      <4> QED BY <4>1, <4>2
    <3> QED BY <3>1, <3>2
  <2>2. Expired(j).id = j.id
    BY <1>0, TransitionTypes DEF PartsOK, RestOK
  <2>3. rows' = rows \/ (Present(rows[j.id]) /\ rows' = [rows EXCEPT ![j.id] = Expired(j)])
    BY <1>2, <2>2, UpdateWrites DEF HandleExpired
  <2>4. worker[w].pc = "loop" /\ UNCHANGED <<now, since, client, snap>>
    BY <1>2 DEF HandleExpired, Takes
  <2> QED BY <2>1, <2>3, <2>4, TakeStep
<1>3. ASSUME NEW j \in rest, NotRegistered(w, j)
      PROVE  Claims'
  <2> DEFINE s == [worker[w] EXCEPT !.rest = @ \ {j}]
  <2>1. worker' = [worker EXCEPT ![w] = s] /\ worker[w].pc = "loop"
    BY <1>0, <1>3 DEF NotRegistered, Takes
  <2>2. s.rest = rest \ {j} /\ s.pc = "loop"
    BY <1>0, <2>1 DEF WorkerState
  <2> HIDE DEF s
  <2>3. Unresolved(j).id = j.id
    BY <1>0, TransitionTypes DEF PartsOK, RestOK
  <2>4. rows' = rows \/ (Present(rows[j.id]) /\ rows' = [rows EXCEPT ![j.id] = Unresolved(j)])
    BY <1>3, <2>3, UpdateWrites DEF NotRegistered
  <2>5. UNCHANGED <<now, since, client, snap>>
    BY <1>3 DEF NotRegistered
  <2> QED BY <2>1, <2>2, <2>4, <2>5, TakeStep
<1>4. ASSUME NEW j \in rest, Run(w, j)
      PROVE  Claims'
  <2>1. PICK pc : worker' = [worker EXCEPT ![w] = [pc |-> pc, inst |-> j, rest |-> rest \ {j}]]
    BY <1>0, <1>4 DEF Run, At
  <2> DEFINE s == [pc |-> pc, inst |-> j, rest |-> rest \ {j}]
  <2>2. worker' = [worker EXCEPT ![w] = s] /\ s.inst = j /\ s.rest = rest \ {j}
    BY <2>1
  <2> HIDE DEF s
  <2>3. rest \subseteq Held(w)
    BY DEF Held
  <2> QED BY <1>4, <2>2, <2>3, KeepStep DEF Run
<1>5. CASE GotSlot(w) \/ ResultDone(w)
  <2>1. PICK pc \in {"running", "spawn"} : worker' = [worker EXCEPT ![w].pc = pc]
    BY <1>5 DEF GotSlot, ResultDone
  <2> DEFINE s == [worker[w] EXCEPT !.pc = pc]
  <2>2. worker' = [worker EXCEPT ![w] = s]
    BY <1>0, <2>1
  <2>3. s.inst = i /\ s.rest = rest /\ s.pc = pc
    BY <1>0 DEF WorkerState
  <2> HIDE DEF s
  <2>4. worker[w].pc \in {"acquire", "running"}
    BY <1>5 DEF GotSlot, ResultDone, Running
  <2>5. i \notin rest /\ Held(w) = rest \cup {i}
    BY <2>4 DEF Held, Claims, HeldOnce
  <2> QED BY <1>5, <2>2, <2>3, <2>5, KeepStep DEF GotSlot, ResultDone
<1>6. CASE SlotRefused(w)
  <2>1. [i EXCEPT !.status = "PENDING"].id = i.id
    BY <1>0, <1>6 DEF SlotRefused, Instance
  <2> QED BY <1>6, <2>1, UpdateWrites, FinishStep DEF SlotRefused
<1>7. CASE ResultRepeat(w)
  <2>1. Repeating(i, now + Period).id = i.id
    BY <1>0, <1>7, TransitionTypes DEF ResultRepeat, Running
  <2> QED BY <1>7, <2>1, SettleStep DEF ResultRepeat, Running
<1>8. CASE ResultRetry(w)
  <2>1. Retrying(i).id = i.id
    BY <1>0, <1>8, ChargedTypes DEF ResultRetry, Running
  <2> QED BY <1>8, <2>1, SettleStep DEF ResultRetry, Running
<1>9. CASE Complete(w)
  <2>1. Completed(i).id = i.id
    BY <1>0, <1>9, TransitionTypes DEF Complete
  <2> QED BY <1>9, <2>1, SettleStep DEF Complete
<1>10. CASE ErrorRetry(w)
  <2>1. BackedOff(i, now + Backoff).id = i.id
    BY <1>0, <1>10, ChargedTypes DEF ErrorRetry, Running
  <2> QED BY <1>10, <2>1, SettleStep DEF ErrorRetry, Running
<1>11. CASE ErrorFinal(w)
  <2> DEFINE f == Failed(i, DeadLetter)
  <2>0. f.id = i.id /\ Running(w)
    BY <1>0, <1>11, TransitionTypes, PollingAssumption DEF ErrorFinal, Running
  <2>1. rows' = rows \/ (Present(rows[i.id]) /\ rows' = [rows EXCEPT ![i.id] = f])
    BY <1>11, <2>0, UpdateWrites DEF ErrorFinal
  <2>2. UNCHANGED <<now, since, client, snap>>
    BY <1>11 DEF ErrorFinal
  <2>3. CASE BackToLoop(w)
    BY <2>0, <2>1, <2>2, <2>3, FinishStep DEF Running
  <2>4. CASE worker' = [worker EXCEPT ![w] = [pc |-> "callback", inst |-> f, rest |-> rest]]
    <3> DEFINE s == [pc |-> "callback", inst |-> f, rest |-> rest]
    <3>1. worker' = [worker EXCEPT ![w] = s]
      BY <2>4
    <3>2. s.pc \notin {"acquire", "running", "spawn"} /\ s.rest = rest
      OBVIOUS
    <3> HIDE DEF s
    <3>3. Held(w)' = rest /\ \A v \in Worker \ {w} : Held(v)' = Held(v)
      <4>1. /\ Held(w)' = s.rest \cup
                  (IF s.pc \in {"acquire", "running", "spawn"} THEN {s.inst} ELSE {})
            /\ \A v \in Worker \ {w} : Held(v)' = Held(v)
        BY <3>1, HeldAfter DEF PartsOK
      <4> QED BY <3>2, <4>1
    <3>4. HeldOnce'
      BY <3>1, <3>2, HeldOnceAfter DEF PartsOK, Claims
    <3>5. i \in Held(w) /\ Held(w) \ {i} = rest
      BY <2>0 DEF Held, Claims, HeldOnce, Running
    <3> HIDE DEF f
    <3> QED BY <2>1, <2>2, <3>3, <3>4, <3>5, ReleaseStep
  <2> QED BY <1>0, <1>11, <2>3, <2>4 DEF ErrorFinal
<1>12. CASE CallbackDone(w)
  <2> DEFINE s == [pc |-> "loop", inst |-> NoInst, rest |-> rest]
  <2>1. worker' = [worker EXCEPT ![w] = s]
    BY <1>0, <1>12 DEF CallbackDone, BackToLoop
  <2>2. s.pc \notin {"acquire", "running", "spawn"} /\ s.rest \subseteq Held(w)
    BY DEF Held
  <2> HIDE DEF s
  <2> QED BY <1>12, <2>1, <2>2, KeepStep DEF CallbackDone
<1>13. CASE Panic(w)
  <2>1. Running(w)
    BY <1>13 DEF Panic, SafeConfig
  <2>2. Panicked(i).id = i.id
    BY <1>0, <2>1, TransitionTypes DEF Running, PartsOK, RestOK
  <2>3. rows' = rows \/ (Present(rows[i.id]) /\ rows' = [rows EXCEPT ![i.id] = Panicked(i)])
    BY <1>13, <2>2 DEF Panic, Put, Present
  <2> QED BY <1>13, <2>1, <2>3, FinishStep DEF Panic, Running
<1> QED BY <1>1, <1>2, <1>3, <1>4, <1>5, <1>6, <1>7, <1>8, <1>9, <1>10, <1>11, <1>12,
           <1>13 DEF Execute
-----------------------------------------------------------------------------
(* What the others do to claims. *)

\* A row whose status is not one of these is no worker's and no snapshot's.
LEMMA NotHeld ==
    ASSUME Claims, NEW c \in Cmd, rows[c].status \notin {"STARTED", "CANCELLED", "GONE"}
    PROVE  /\ \A w \in Worker : \A j \in Held(w) : j.id # c
           /\ \A p \in Proc : \A j \in snap[p] : j.id # c
<1>1. \A w \in Worker : \A j \in Held(w) : j.id # c
  BY DEF Claims, LeaseHeld, HeldStarted
<1>2. \A p \in Proc : \A j \in snap[p] : j.id # c
  BY DEF Claims, SnapsOrphaned
<1> QED BY <1>1, <1>2

\* Somebody else writes row c: CANCELLED, or nothing, over anything; something else
\* only where nobody holds the row and no snapshot has it.
LEMMA WriteStep ==
    ASSUME PartsOK, Claims, NEW c \in Cmd, NEW r, rows' = [rows EXCEPT ![c] = r],
           UNCHANGED <<now, since, worker>>,
           \A p \in Proc : snap'[p] \subseteq snap[p],
           \/ r.status \in {"CANCELLED", "GONE"}
           \/ /\ \A w \in Worker : \A j \in Held(w) : j.id # c
              /\ \A p \in Proc : \A j \in snap'[p] : j.id # c,
           \A k \in Client : client'[k].op = "replay" =>
               /\ client[k].op = "replay" /\ client'[k].inst = client[k].inst
               /\ client[k].inst.id = c => r.status \in {"FAILED", "DEAD_LETTER", "GONE"}
    PROVE  Claims'
<1> USE DEF Claims
<1>1. \A w \in Worker : Held(w)' = Held(w) /\ Held(w) \subseteq Instance
  BY HeldType DEF Held, PartsOK
<1>2. rows'[c] = r /\ \A d \in Cmd : d # c => rows'[d] = rows[d]
  BY DEF PartsOK, RowsOK
<1>3. HeldStarted' /\ HeldInTime' /\ ClaimExclusive'
  BY <1>1 DEF HeldStarted, HeldInTime, ClaimExclusive
<1>4. HeldOnce'
  BY DEF HeldOnce
<1>5. LeaseHeld'
  <2>1. \A w \in Worker : \A j \in Held(w) : j.id \in Cmd
    BY <1>1 DEF Instance
  <2> QED BY <1>1, <1>2, <2>1 DEF LeaseHeld
<1>6. SnapsOrphaned'
  <2>1. \A p \in Proc : \A j \in snap'[p] : j \in snap[p] /\ j.id \in Cmd
    BY DEF PartsOK, RestOK, Instance
  <2>2. ASSUME NEW p \in Proc, NEW j \in snap'[p]
        PROVE  rows'[j.id].status \in {"STARTED", "CANCELLED", "GONE"}
    BY <1>2, <2>1, <2>2 DEF SnapsOrphaned
  <2> QED BY <1>1, <2>1, <2>2 DEF SnapsOrphaned
<1>7. ReplaySettled'
  <2>1. \A k \in Client : client[k].op = "replay" => client[k].inst.id \in Cmd
    BY DEF PartsOK, ClientsOK, Instance
  <2> QED BY <1>2, <2>1 DEF ReplaySettled
<1> QED BY <1>3, <1>4, <1>5, <1>6, <1>7

\* A claim marks rows nobody holds, so the claims of the others stand.
LEMMA MarkStep ==
    ASSUME PartsOK, Claims, NEW S \in SUBSET Cmd, MarkStarted(S)
    PROVE  /\ \A w \in Worker : \A j \in Held(w) :
                  j.id \in Cmd /\ j.id \notin S /\ rows'[j.id] = rows[j.id] /\ since'[j.id] = since[j.id]
           /\ \A p \in Proc : \A j \in snap[p] :
                  j.id \in Cmd /\ j.id \notin S /\ rows'[j.id] = rows[j.id]
           /\ \A k \in Client : client[k].op = "replay" =>
                  rows'[client[k].inst.id] = rows[client[k].inst.id]
           /\ \A c \in S : /\ rows'[c] = Started(rows[c]) /\ since'[c] = now
                           /\ Started(rows[c]).id = c /\ Started(rows[c]).status = "STARTED"
<1>1. \A c \in S : rows[c].status \in {"PENDING", "REPEATING"}
  BY DEF MarkStarted, Claimable
<1>2. /\ \A c \in Cmd \ S : rows'[c] = rows[c] /\ since'[c] = since[c]
      /\ \A c \in S : rows'[c] = Started(rows[c]) /\ since'[c] = now
  BY DEF MarkStarted
<1>3. \A w \in Worker : \A j \in Held(w) : j.id \in Cmd /\ j.id \notin S
  BY <1>1, NotHeld, HeldType DEF PartsOK, Instance
<1>4. \A p \in Proc : \A j \in snap[p] : j.id \in Cmd /\ j.id \notin S
  BY <1>1, NotHeld DEF PartsOK, RestOK, Instance
<1>5. \A k \in Client : client[k].op = "replay" =>
          client[k].inst.id \in Cmd /\ client[k].inst.id \notin S
  BY <1>1 DEF PartsOK, ClientsOK, Instance, Claims, ReplaySettled
<1>6. \A c \in S : Started(rows[c]).id = c /\ Started(rows[c]).status = "STARTED"
  <2>1. \A c \in S : rows[c] \in Instance /\ Started(rows[c]).id = c
    BY ClaimType
  <2> QED BY <2>1 DEF Started, Instance
<1> QED BY <1>2, <1>3, <1>4, <1>5, <1>6

LEMMA ClaimLostClaims ==
    ASSUME PartsOK, Claims, NEW w \in Worker, NEW S \in SUBSET Cmd, ClaimLost(w, S)
    PROVE  Claims'
<1> USE DEF Claims
<1>1. MarkStarted(S) /\ UNCHANGED <<now, worker, client, snap>>
  BY DEF ClaimLost
<1>2. \A v \in Worker : Held(v)' = Held(v)
  BY <1>1 DEF Held
<1>3. HeldStarted' /\ HeldOnce' /\ ClaimExclusive'
  BY <1>1, <1>2 DEF HeldStarted, HeldOnce, ClaimExclusive
<1>4. LeaseHeld' /\ HeldInTime'
  BY <1>1, <1>2, MarkStep DEF LeaseHeld, HeldInTime
<1>5. SnapsOrphaned'
  BY <1>1, <1>2, MarkStep DEF SnapsOrphaned
<1>6. ReplaySettled'
  BY <1>1, MarkStep DEF ReplaySettled
<1> QED BY <1>3, <1>4, <1>5, <1>6

LEMMA ClaimPendingClaims ==
    ASSUME PartsOK, Claims, NEW w \in Worker, NEW S \in SUBSET Cmd, ClaimPending(w, S)
    PROVE  Claims'
<1> USE DEF Claims
<1> DEFINE batch == {Started(rows[c]) : c \in S}
<1>1. /\ MarkStarted(S) /\ UNCHANGED <<now, client, snap>>
      /\ worker' = [worker EXCEPT ![w].rest = batch]
      /\ worker[w].pc = "loop"
  BY DEF ClaimPending, Polls
<1> HIDE DEF batch
<1>2. /\ worker'[w].rest = batch /\ worker'[w].pc = "loop"
      /\ \A v \in Worker \ {w} : worker'[v] = worker[v]
  BY <1>1 DEF PartsOK, WorkersOK, WorkerState
<1>3. Held(w)' = batch /\ \A v \in Worker \ {w} : Held(v)' = Held(v)
  BY <1>2 DEF Held
<1>4. \A j \in batch : /\ j.id \in S /\ j.status = "STARTED"
                       /\ rows'[j.id] = j /\ since'[j.id] = now
  BY <1>1, MarkStep DEF batch
<1>5. \A i, j \in batch : i.id = j.id => i = j
  BY <1>4
<1>6. \A v \in Worker : \A j \in Held(v) :
          j.id \notin S /\ rows'[j.id] = rows[j.id] /\ since'[j.id] = since[j.id]
  BY <1>1, MarkStep
<1>7. HeldStarted' /\ LeaseHeld'
  BY <1>3, <1>4, <1>6 DEF HeldStarted, LeaseHeld
<1>8. HeldOnce'
  BY <1>2 DEF HeldOnce
<1>9. HeldInTime'
  <2>1. \A j \in batch : now < since'[j.id] + Threshold
    BY <1>4, PollingAssumption DEF PartsOK, RestOK
  <2> QED BY <1>1, <1>3, <1>6, <2>1 DEF HeldInTime
<1>10. ClaimExclusive'
  <2> SUFFICES ASSUME NEW u \in Worker, NEW v \in Worker, NEW i \in Held(u)', NEW j \in Held(v)',
                      i.id = j.id
               PROVE  u = v /\ i = j
    BY DEF ClaimExclusive
  <2>1. CASE u = w /\ v = w
    BY <1>3, <1>5, <2>1
  <2>2. CASE u # w /\ v # w
    BY <1>3, <2>2 DEF ClaimExclusive
  <2>3. CASE u = w /\ v # w
    BY <1>3, <1>4, <1>6, <2>3
  <2>4. CASE u # w /\ v = w
    BY <1>3, <1>4, <1>6, <2>4
  <2> QED BY <2>1, <2>2, <2>3, <2>4
<1>11. SnapsOrphaned'
  <2>1. \A p \in Proc : \A j \in snap[p] : j.id \notin S /\ rows'[j.id] = rows[j.id]
    BY <1>1, MarkStep
  <2>2. \A p \in Proc : \A j \in snap[p] : \A v \in Worker : \A h \in Held(v)' : h.id # j.id
    BY <1>3, <1>4, <2>1 DEF SnapsOrphaned
  <2> QED BY <1>1, <2>1, <2>2 DEF SnapsOrphaned
<1>12. ReplaySettled'
  BY <1>1, MarkStep DEF ReplaySettled
<1> QED BY <1>7, <1>8, <1>9, <1>10, <1>11, <1>12

LEMMA CreateClaims ==
    ASSUME PartsOK, Claims, NEW c \in Cmd, rows[c].status = "NONE", NEW i,
           rows' = [rows EXCEPT ![c] = i],
           UNCHANGED <<now, since, worker, client, snap>>
    PROVE  Claims'
<1>1. /\ \A w \in Worker : \A j \in Held(w) : j.id # c
      /\ \A p \in Proc : \A j \in snap[p] : j.id # c
  BY NotHeld
<1>2. \A k \in Client : client[k].op = "replay" => client[k].inst.id # c
  BY DEF Claims, ReplaySettled
<1>3. /\ UNCHANGED <<now, since, worker>>
      /\ \A p \in Proc : snap'[p] = snap[p]
      /\ \A k \in Client : client'[k] = client[k]
  OBVIOUS
<1>4. \A p \in Proc : snap'[p] \subseteq snap[p] /\ \A j \in snap'[p] : j.id # c
  BY <1>1, <1>3
<1>5. \A k \in Client : client'[k].op = "replay" =>
          /\ client[k].op = "replay" /\ client'[k].inst = client[k].inst
          /\ client[k].inst.id = c => i.status \in {"FAILED", "DEAD_LETTER", "GONE"}
  BY <1>2, <1>3
<1> QED BY <1>1, <1>3, <1>4, <1>5, WriteStep

LEMMA OverwriteClaims ==
    ASSUME SafeConfig, PartsOK, Claims, NEW k \in Client, Overwrite(k)
    PROVE  Claims'
<1> DEFINE i == client[k].inst
           r == IF client[k].op = "cancel" THEN Cancelled(i) ELSE Replayed(i, now)
<1>0. i \in Instance /\ client[k].op \in {"cancel", "replay"} /\ i.id \in Cmd
  BY DEF Overwrite, PartsOK, ClientsOK, Instance
<1>1. r.id = i.id
  BY <1>0, TransitionTypes DEF PartsOK, RestOK
<1>2. /\ UNCHANGED <<now, since, worker>>
      /\ \A p \in Proc : snap'[p] \subseteq snap[p]
  BY DEF Overwrite
<1>3. client'[k].op = "none" /\ \A l \in Client : client'[l].op # "replay"
  BY DEF Overwrite, NoCall, SafeConfig, PartsOK, ClientsOK
<1>4. CASE ~Present(rows[i.id])
  <2>1. UNCHANGED <<now, since, worker, rows, snap>>
    BY <1>1, <1>4 DEF Overwrite
  <2>2. \A v \in Worker : Held(v)' = Held(v)
    BY <2>1 DEF Held
  <2>3. HeldStarted' /\ HeldOnce' /\ LeaseHeld' /\ HeldInTime'
    BY <2>1, <2>2 DEF Claims, HeldStarted, HeldOnce, LeaseHeld, HeldInTime
  <2>4. ClaimExclusive'
    BY <2>2 DEF Claims, ClaimExclusive
  <2>5. SnapsOrphaned'
    BY <2>1, <2>2 DEF Claims, SnapsOrphaned
  <2>6. ReplaySettled'
    BY <1>3 DEF ReplaySettled
  <2> QED BY <2>3, <2>4, <2>5, <2>6 DEF Claims
<1>5. CASE Present(rows[i.id])
  <2>1. rows' = [rows EXCEPT ![i.id] = r]
    BY <1>1, <1>5 DEF Overwrite, Put
  <2>2. CASE client[k].op = "cancel"
    <3>1. r.status = "CANCELLED"
      BY <1>0, <2>2 DEF Cancelled, Instance
    <3> HIDE DEF r, i
    <3> QED BY <1>0, <1>2, <1>3, <2>1, <3>1, WriteStep
  <2>3. CASE client[k].op = "replay"
    <3>1. rows[i.id].status \in {"FAILED", "DEAD_LETTER"}
      BY <1>5, <2>3 DEF Claims, ReplaySettled, Present, Status
    <3>2. /\ \A w \in Worker : \A j \in Held(w) : j.id # i.id
          /\ \A p \in Proc : \A j \in snap[p] : j.id # i.id
      BY <1>0, <3>1, NotHeld
    <3>3. \A p \in Proc : \A j \in snap'[p] : j.id # i.id
      BY <1>2, <3>2
    <3> HIDE DEF r, i
    <3> QED BY <1>0, <1>2, <1>3, <2>1, <3>2, <3>3, WriteStep
  <2> QED BY <1>0, <2>2, <2>3
<1> QED BY <1>4, <1>5

LEMMA LookupClaims ==
    ASSUME PartsOK, Claims, NEW k \in Client, NEW op \in {"cancel", "replay"}, NEW c \in Cmd,
           Lookup(k, op, c)
    PROVE  Claims'
<1> USE DEF Claims
<1>1. UNCHANGED <<now, rows, since, worker, snap>>
  BY DEF Lookup
<1>2. \A v \in Worker : Held(v)' = Held(v)
  BY <1>1 DEF Held
<1>3. HeldStarted' /\ HeldOnce' /\ LeaseHeld' /\ HeldInTime'
  BY <1>1, <1>2 DEF HeldStarted, HeldOnce, LeaseHeld, HeldInTime
<1>4. ClaimExclusive'
  BY <1>2 DEF ClaimExclusive
<1>5. SnapsOrphaned'
  BY <1>1, <1>2 DEF SnapsOrphaned
<1>6. ReplaySettled'
  <2>1. client'[k] = [op |-> op, inst |-> rows[c]] /\ \A l \in Client \ {k} : client'[l] = client[l]
    BY DEF Lookup, PartsOK, ClientsOK
  <2>2. client'[k].op = op /\ client'[k].inst.id = c
    BY <2>1 DEF PartsOK, RowsOK
  <2>3. op = "replay" => rows[c].status \in {"FAILED", "DEAD_LETTER"}
    BY DEF Lookup, Permits
  <2> QED BY <1>1, <2>1, <2>2, <2>3 DEF ReplaySettled
<1> QED BY <1>3, <1>4, <1>5, <1>6

LEMMA CleanupClaims ==
    ASSUME PartsOK, Claims, NEW p \in Proc, NEW c \in Cmd, Cleanup(p, c)
    PROVE  Claims'
<1> DEFINE r == Blank(c, "GONE")
<1>1. r.id = c /\ r.status = "GONE"
  BY DEF Blank
<1>2. rows' = [rows EXCEPT ![c] = r]
  BY <1>1 DEF Cleanup, Put
<1> HIDE DEF r
<1>3. /\ UNCHANGED <<now, since, worker>>
      /\ \A q \in Proc : snap'[q] \subseteq snap[q]
      /\ \A k \in Client : client'[k] = client[k]
  BY DEF Cleanup
<1>4. \A k \in Client : client'[k].op = "replay" =>
          /\ client[k].op = "replay" /\ client'[k].inst = client[k].inst
          /\ client[k].inst.id = c => r.status \in {"FAILED", "DEAD_LETTER", "GONE"}
  BY <1>1, <1>3
<1> QED BY <1>1, <1>2, <1>3, <1>4, WriteStep

\* What the query finds has been STARTED too long for anybody to hold it still.
LEMMA FindStuckClaims ==
    ASSUME PartsOK, Claims, NEW p \in Proc, FindStuck(p)
    PROVE  Claims'
<1> USE DEF Claims
<1>1. UNCHANGED <<now, rows, since, worker, client>> /\ p \in Recoverer
  BY DEF FindStuck
<1>2. \A v \in Worker : Held(v)' = Held(v)
  BY <1>1 DEF Held
<1>3. HeldStarted' /\ HeldOnce' /\ LeaseHeld' /\ HeldInTime'
  BY <1>1, <1>2 DEF HeldStarted, HeldOnce, LeaseHeld, HeldInTime
<1>4. ClaimExclusive'
  BY <1>2 DEF ClaimExclusive
<1>5. SnapsOrphaned'
  <2>1. \A q \in Proc \ {p} : snap'[q] = snap[q]
    BY DEF FindStuck, PartsOK, RestOK
  <2>2. snap'[p] = {rows[c] : c \in {d \in Cmd : Stuck(d)}}
    BY DEF FindStuck, PartsOK, RestOK
  <2>3. \A i \in snap'[p] : i.id \in Cmd /\ i = rows[i.id] /\ Stuck(i.id)
    BY <2>2 DEF PartsOK, RowsOK
  <2>4. ASSUME NEW i \in snap'[p], NEW w \in Worker, NEW j \in Held(w), j.id = i.id
        PROVE  FALSE
    <3>1. now < since[i.id] + Threshold
      BY <2>4 DEF HeldInTime
    <3>2. now >= since[i.id] + Threshold
      BY <2>3 DEF Stuck
    <3>3. now \in Nat /\ since[i.id] + Threshold \in Nat
      BY <2>3, PollingAssumption DEF PartsOK, RestOK
    <3> QED BY <3>1, <3>2, <3>3
  <2>5. \A i \in snap'[p] : rows[i.id].status = "STARTED"
    BY <2>3 DEF Stuck
  <2>6. \A i, j \in snap'[p] : i.id = j.id => i = j
    BY <2>3
  <2> QED BY <1>1, <1>2, <2>1, <2>4, <2>5, <2>6 DEF SnapsOrphaned
<1>6. ReplaySettled'
  BY <1>1 DEF ReplaySettled
<1> QED BY <1>3, <1>4, <1>5, <1>6

LEMMA RecoverStuckClaims ==
    ASSUME SafeConfig, PartsOK, Claims, NEW p \in Proc, NEW i \in snap[p], RecoverStuck(p, i)
    PROVE  Claims'
<1> DEFINE r == Recovered(i)
<1>0. i \in Instance /\ i.id \in Cmd /\ r.id = i.id
  BY TransitionTypes DEF PartsOK, RestOK, Instance
<1>1. /\ rows[i.id].status \in {"STARTED", "CANCELLED", "GONE"} /\ p \in Recoverer
      /\ \A w \in Worker : \A j \in Held(w) : j.id # i.id
      /\ \A j \in snap[p] : j.id = i.id => j = i
  BY DEF Claims, SnapsOrphaned
<1>2. \A q \in Proc \ {p} : snap[q] = {}
  BY <1>1 DEF Claims, SnapsOrphaned, SafeConfig
<1>3. snap'[p] = snap[p] \ {i} /\ \A q \in Proc \ {p} : snap'[q] = snap[q]
  BY DEF RecoverStuck, PartsOK, RestOK
<1>4. \A q \in Proc : snap'[q] \subseteq snap[q] /\ \A j \in snap'[q] : j.id # i.id
  BY <1>1, <1>2, <1>3
<1>5. UNCHANGED <<now, since, worker, client>>
  BY DEF RecoverStuck
<1>6. CASE rows' = rows
  <2>1. \A v \in Worker : Held(v)' = Held(v)
    BY <1>5 DEF Held
  <2>2. HeldOnce'
    BY <1>5 DEF Claims, HeldOnce
  <2> QED BY <1>4, <1>5, <1>6, <2>1, <2>2, ShrinkStep
<1>7. CASE Present(rows[i.id]) /\ rows' = [rows EXCEPT ![i.id] = r]
  <2>1. \A k \in Client : client[k].op = "replay" => client[k].inst.id # i.id
    BY <1>1, <1>7 DEF Claims, ReplaySettled, Present, Status
  <2>2. \A k \in Client : client'[k].op = "replay" =>
            /\ client[k].op = "replay" /\ client'[k].inst = client[k].inst
            /\ client[k].inst.id = i.id => r.status \in {"FAILED", "DEAD_LETTER", "GONE"}
    BY <1>5, <2>1
  <2> DEFINE c == i.id
  <2>3. /\ c \in Cmd /\ rows' = [rows EXCEPT ![c] = r]
        /\ \A w \in Worker : \A j \in Held(w) : j.id # c
        /\ \A q \in Proc : \A j \in snap'[q] : j.id # c
        /\ \A q \in Proc : snap'[q] \subseteq snap[q]
    BY <1>0, <1>1, <1>4, <1>7
  <2>4. \A k \in Client : client'[k].op = "replay" =>
            /\ client[k].op = "replay" /\ client'[k].inst = client[k].inst
            /\ client[k].inst.id = c => r.status \in {"FAILED", "DEAD_LETTER", "GONE"}
    BY <2>2
  <2> HIDE DEF r, c
  <2> QED BY <1>5, <2>3, <2>4, WriteStep
<1> QED BY <1>0, <1>6, <1>7, UpdateWrites DEF RecoverStuck

LEMMA CrashClaims ==
    ASSUME PartsOK, Claims, NEW p \in Proc, Crash(p)
    PROVE  Claims'
<1>1. \A w \in Worker : worker'[w] = Idle \/ worker'[w] = worker[w]
  BY DEF Crash
<1>2. Idle.pc = "loop" /\ Idle.rest = {}
  BY DEF Idle
<1>3. \A w \in Worker : Held(w)' \subseteq Held(w)
  BY <1>1, <1>2 DEF Held
<1>4. HeldOnce'
  BY <1>1, <1>2 DEF Claims, HeldOnce
<1>5. \A q \in Proc : snap'[q] \subseteq snap[q]
  BY DEF Crash, PartsOK, RestOK
<1>6. UNCHANGED <<now, since, rows, client>>
  BY DEF Crash
<1> QED BY <1>3, <1>4, <1>5, <1>6, ShrinkStep

\* The clock waits for the batches, so no claim grows as old as the threshold.
LEMMA TickClaims ==
    ASSUME SafeConfig, PartsOK, Claims, Tick
    PROVE  Claims'
<1> USE DEF Claims
<1>1. UNCHANGED <<rows, since, worker, client, snap>> /\ now' = now + 1
  BY DEF Tick
<1>2. \A v \in Worker : Held(v)' = Held(v)
  BY <1>1 DEF Held
<1>3. HeldStarted' /\ HeldOnce' /\ LeaseHeld'
  BY <1>1, <1>2 DEF HeldStarted, HeldOnce, LeaseHeld
<1>4. ClaimExclusive'
  BY <1>2 DEF ClaimExclusive
<1>5. HeldInTime'
  <2>1. \A w \in Worker : \A i \in Held(w) : now + 1 < since[i.id] + Threshold
    BY DEF Tick, SafeConfig
  <2> QED BY <1>1, <1>2, <2>1 DEF HeldInTime
<1>6. SnapsOrphaned' /\ ReplaySettled'
  BY <1>1, <1>2 DEF SnapsOrphaned, ReplaySettled
<1> QED BY <1>3, <1>4, <1>5, <1>6

LEMMA SameClaims ==
    ASSUME Claims, UNCHANGED <<now, since, rows, worker, client, snap>>
    PROVE  Claims'
<1>1. \A w \in Worker : Held(w)' = Held(w)
  BY DEF Held
<1>2. HeldOnce'
  BY DEF Claims, HeldOnce
<1>3. \A p \in Proc : snap'[p] \subseteq snap[p]
  OBVIOUS
<1> QED BY <1>1, <1>2, <1>3, ShrinkStep

LEMMA OthersClaims ==
    ASSUME SafeConfig, PartsOK, Claims, Next, \A w \in Worker : ~Execute(w)
    PROVE  Claims'
<1>1. ASSUME NEW w \in Worker, NEW c \in Cmd, NEW delay \in Delays, Spawn(w, c, delay)
      PROVE  Claims'
  <2> DEFINE i == NewInstance(c, Retries, now + delay, NoDeadline)
  <2>1. i.id = c /\ rows[c].status = "NONE" /\ Put(i)
    BY <1>1 DEF Spawn, Fresh, NewInstance
  <2>2. rows' = [rows EXCEPT ![c] = i]
    BY <2>1 DEF Put
  <2>3. UNCHANGED <<now, since, worker, client, snap>>
    BY <1>1 DEF Spawn
  <2> HIDE DEF i
  <2> QED BY <2>1, <2>2, <2>3, CreateClaims
<1>2. ASSUME NEW k \in Client, NEW c \in Cmd, NEW delay \in Delays,
             NEW deadline \in Deadlines \cup {NoDeadline}, Add(k, c, delay, deadline)
      PROVE  Claims'
  <2> DEFINE i == NewInstance(c, Retries, now + delay, now + deadline)
  <2>1. i.id = c /\ rows[c].status = "NONE" /\ Put(i)
    BY <1>2 DEF Add, Fresh, NewInstance
  <2>2. rows' = [rows EXCEPT ![c] = i]
    BY <2>1 DEF Put
  <2>3. UNCHANGED <<now, since, worker, client, snap>>
    BY <1>2 DEF Add
  <2> HIDE DEF i
  <2> QED BY <2>1, <2>2, <2>3, CreateClaims
<1>3. ASSUME NEW p \in Proc, Start(p) \/ Stop(p) \/ StopCancel(p) \/ StopDone(p)
      PROVE  Claims'
  <2>1. UNCHANGED <<now, since, rows, worker, client, snap>>
    BY <1>3 DEF Start, Stop, StopCancel, StopDone
  <2> QED BY <2>1, SameClaims
<1> QED BY <1>1, <1>2, <1>3, ClaimPendingClaims, ClaimLostClaims, LookupClaims, OverwriteClaims,
           CleanupClaims, FindStuckClaims, RecoverStuckClaims, CrashClaims, TickClaims
        DEF Next, Claim, Call, Recover

LEMMA InitClaims == Init => Claims
<1> SUFFICES ASSUME Init PROVE Claims
  OBVIOUS
<1>1. \A w \in Worker : worker[w].pc = "loop" /\ Held(w) = {}
  BY DEF Init, Idle, Held
<1>2. \A p \in Proc : snap[p] = {}
  BY DEF Init
<1>3. \A k \in Client : client[k].op = "none"
  BY DEF Init, NoCall
<1> QED BY <1>1, <1>2, <1>3 DEF Claims, HeldStarted, HeldOnce, LeaseHeld, ClaimExclusive,
           HeldInTime, SnapsOrphaned, ReplaySettled

LEMMA ClaimsInvariant == SafeConfig /\ Spec => []Claims
<1>1. Init => PartsOK /\ Claims
  BY InitType, InitClaims
<1>2. SafeConfig /\ PartsOK /\ Claims /\ [Next]_vars => Claims'
  <2> SUFFICES ASSUME SafeConfig, PartsOK, Claims, [Next]_vars PROVE Claims'
    OBVIOUS
  <2>1. CASE \E w \in Worker : Execute(w)
    BY <2>1, ExecuteClaims
  <2>2. CASE Next /\ \A w \in Worker : ~Execute(w)
    BY <2>2, OthersClaims
  <2>3. CASE UNCHANGED vars
    BY <2>3, SameClaims DEF vars
  <2> QED BY <2>1, <2>2, <2>3
<1>3. SafeConfig => SafeConfig'
  BY DEF SafeConfig
<1> QED BY <1>1, <1>2, <1>3, TypeCorrect, TypeParts, PTL DEF Spec

\* The guarantee of doc.go for polling mode: processes over one PostgreSQL table never
\* hold the same command at once, whatever crashes, stops, answers that get lost,
\* retries, recoveries and replays they go through, in a deployment like SafeConfig.
THEOREM ClaimsDiffer == SafeConfig /\ Spec => []ClaimExclusive
BY ClaimsInvariant, PTL DEF Claims

\* In such a deployment the copy a worker executes stays the row in the storage until
\* it writes the outcome: only Cancel, and the cleanup of what was cancelled, come
\* between, so the write loses no other update.
THEOREM LeaseKept == SafeConfig /\ Spec => []LeaseHeld
BY ClaimsInvariant, PTL DEF Claims
-----------------------------------------------------------------------------
(* No orphans without faults. *)
Calm == faults = 0 => \A p \in Proc : ~Stopping(p)

SomebodyHolds(c) == \E w \in Worker : \E i \in Held(w) : i.id = c

\* What a step has to do for every row that is STARTED after it.
LEMMA UnorphanedStep ==
    ASSUME NoOrphans, faults' = faults,
           faults = 0 => \A c \in Cmd : rows'[c].status = "STARTED" =>
               SomebodyHolds(c)' \/ (rows[c].status = "STARTED" /\ (SomebodyHolds(c) => SomebodyHolds(c)'))
    PROVE  NoOrphans'
BY DEF NoOrphans, SomebodyHolds

\* Worker w gives up copy i, if it held it, and the row of i is no longer STARTED
\* unless it is not there.
LEMMA GiveUpStep ==
    ASSUME PartsOK, NoOrphans, NEW w \in Worker, NEW i \in Instance,
           Held(w) \ {i} \subseteq Held(w)',
           \A v \in Worker \ {w} : Held(v)' = Held(v),
           faults' = faults,
           faults = 0 => \/ rows' = rows /\ ~Present(rows[i.id])
                         \/ \E r : rows' = [rows EXCEPT ![i.id] = r] /\ r.status # "STARTED"
    PROVE  NoOrphans'
<1>0. i.id \in Cmd
  BY DEF Instance
<1> SUFFICES ASSUME faults = 0, NEW c \in Cmd, rows'[c].status = "STARTED"
             PROVE  rows[c].status = "STARTED" /\ (SomebodyHolds(c) => SomebodyHolds(c)')
  BY UnorphanedStep
<1>1. c # i.id /\ rows'[c] = rows[c]
  BY <1>0 DEF PartsOK, RowsOK, Present, Status
<1>2. \A v \in Worker : \A j \in Held(v) : j.id = c => j \in Held(v)'
  BY <1>1
<1> QED BY <1>1, <1>2 DEF SomebodyHolds

\* Update by a process that is not stopping fails only for a missing row.
LEMMA CalmUpdate ==
    ASSUME Calm, NEW p \in Proc, NEW i \in Instance, NEW r, r.id = i.id, r.status # "STARTED",
           Update(p, r)
    PROVE  faults = 0 => \/ rows' = rows /\ ~Present(rows[i.id])
                         \/ \E q : rows' = [rows EXCEPT ![i.id] = q] /\ q.status # "STARTED"
<1> SUFFICES ASSUME faults = 0
             PROVE  \/ rows' = rows /\ ~Present(rows[i.id])
                    \/ \E q : rows' = [rows EXCEPT ![i.id] = q] /\ q.status # "STARTED"
  OBVIOUS
<1>1. ~CtxDone(p)
  BY DEF Calm, Stopping, CtxDone
<1>2. CASE Present(rows[i.id])
  <2>1. rows' = [rows EXCEPT ![i.id] = r]
    BY <1>1, <1>2 DEF Update, UpdateOK, Put
  <2> QED BY <2>1
<1>3. CASE ~Present(rows[i.id])
  BY <1>3 DEF Update, UpdateOK
<1> QED BY <1>2, <1>3

\* What each transition of a settled copy makes of the status.
LEMMA SettledStatus ==
    ASSUME NEW i \in Instance, NEW t \in Nat, NEW d \in BOOLEAN
    PROVE  /\ Repeating(i, t).status # "STARTED" /\ Retrying(i).status # "STARTED"
           /\ BackedOff(i, t).status # "STARTED" /\ Completed(i).status # "STARTED"
           /\ Failed(i, d).status # "STARTED" /\ Panicked(i).status # "STARTED"
           /\ Expired(i).status # "STARTED" /\ Unresolved(i).status # "STARTED"
           /\ Cancelled(i).status # "STARTED" /\ Replayed(i, t).status # "STARTED"
           /\ Recovered(i).status # "STARTED"
BY DEF Instance, Repeating, Retrying, BackedOff, Completed, Failed, Panicked, Expired,
       Unresolved, Cancelled, Replayed, Recovered

\* Back in the loop the worker holds what is left of its batch.
LEMMA HeldInLoop ==
    ASSUME PartsOK, NEW w \in Worker, BackToLoop(w)
    PROVE  /\ Held(w) \ {worker[w].inst} \subseteq Held(w)'
           /\ \A v \in Worker \ {w} : Held(v)' = Held(v)
<1> DEFINE s == [pc |-> "loop", inst |-> NoInst, rest |-> worker[w].rest]
<1>1. worker' = [worker EXCEPT ![w] = s]
  BY DEF BackToLoop, PartsOK, WorkersOK
<1>2. s.pc = "loop" /\ s.rest = worker[w].rest
  OBVIOUS
<1> HIDE DEF s
<1>3. Held(w)' = worker[w].rest /\ \A v \in Worker \ {w} : Held(v)' = Held(v)
  BY <1>1, <1>2, HeldAfter DEF PartsOK
<1> QED BY <1>3 DEF Held

LEMMA SettleOrphans ==
    ASSUME PartsOK, Calm, NoOrphans, NEW w \in Worker, worker[w].pc # "loop",
           NEW r, r.id = worker[w].inst.id, r.status # "STARTED", Settle(w, r)
    PROVE  NoOrphans'
<1>1. worker[w].inst \in Instance /\ Host[w] \in Proc
  BY HeldType, PollingAssumption DEF PartsOK
<1>2. BackToLoop(w) /\ faults' = faults /\ Update(Host[w], r)
  BY DEF Settle
<1>3. faults = 0 => \/ rows' = rows /\ ~Present(rows[worker[w].inst.id])
                    \/ \E q : rows' = [rows EXCEPT ![worker[w].inst.id] = q] /\ q.status # "STARTED"
  BY <1>1, <1>2, CalmUpdate
<1>4. /\ Held(w) \ {worker[w].inst} \subseteq Held(w)'
      /\ \A v \in Worker \ {w} : Held(v)' = Held(v)
  BY <1>2, HeldInLoop
<1> QED BY <1>1, <1>2, <1>3, <1>4, GiveUpStep

\* A worker moves on with what it holds.
LEMMA HoldOnStep ==
    ASSUME PartsOK, NoOrphans, NEW w \in Worker, NEW s, worker' = [worker EXCEPT ![w] = s],
           Held(w) \subseteq s.rest \cup (IF s.pc \in {"acquire", "running", "spawn"} THEN {s.inst} ELSE {}),
           UNCHANGED <<rows, faults>>
    PROVE  NoOrphans'
<1>1. \A v \in Worker : Held(v) \subseteq Held(v)'
  BY HeldAfter DEF PartsOK
<1>2. \A c : SomebodyHolds(c) => SomebodyHolds(c)'
  BY <1>1 DEF SomebodyHolds
<1> QED BY <1>2, UnorphanedStep

LEMMA ExecuteOrphans ==
    ASSUME PartsOK, Calm, NoOrphans, NEW w \in Worker, Execute(w)
    PROVE  NoOrphans'
<1> DEFINE i == worker[w].inst
           rest == worker[w].rest
<1>0. /\ worker[w].pc # "loop" => i \in Instance
      /\ rest \in SUBSET Instance
      /\ worker \in [Worker -> WorkerState] /\ worker[w] \in WorkerState
      /\ now \in Nat /\ now + Period \in Nat /\ now + Backoff \in Nat
      /\ Host[w] \in Proc /\ DeadLetter \in BOOLEAN
  BY HeldType, PollingAssumption DEF RestOK, PartsOK, WorkersOK
<1>1. CASE DropRest(w)
  <2>1. faults' = faults /\ (faults = 0 => FALSE)
    BY <1>0, <1>1 DEF DropRest, Calm
  <2> QED BY <2>1 DEF NoOrphans
<1>2. ASSUME NEW j \in rest, HandleExpired(w, j)
      PROVE  NoOrphans'
  <2>1. PICK s : /\ worker' = [worker EXCEPT ![w] = s]
                 /\ s.rest = rest \ {j} /\ s.pc \in {"loop", "callback"}
    <3>1. CASE UpdateOK(Host[w], j) /\ j.id \notin Unregistered
      <4> DEFINE s == [pc |-> "callback", inst |-> Expired(j), rest |-> rest \ {j}]
      <4>1. worker' = [worker EXCEPT ![w] = s]
        BY <1>0, <1>2, <3>1 DEF HandleExpired
      <4>2. s.rest = rest \ {j} /\ s.pc = "callback"
        OBVIOUS
      <4> HIDE DEF s
      <4> QED BY <4>1, <4>2
    <3>2. CASE ~(UpdateOK(Host[w], j) /\ j.id \notin Unregistered)
      <4> DEFINE s == [pc |-> "loop", inst |-> NoInst, rest |-> rest \ {j}]
      <4>1. worker' = [worker EXCEPT ![w] = s]
        BY <1>0, <1>2, <3>2 DEF HandleExpired
      <4>2. s.rest = rest \ {j} /\ s.pc = "loop"
        OBVIOUS
      <4> HIDE DEF s
      <4> QED BY <4>1, <4>2
    <3> QED BY <3>1, <3>2
  <2>2. Expired(j).id = j.id /\ Expired(j).status # "STARTED" /\ j \in Instance
    BY <1>0, TransitionTypes, SettledStatus
  <2>3. worker[w].pc = "loop" /\ faults' = faults /\ Update(Host[w], Expired(j))
    BY <1>2 DEF HandleExpired, Takes
  <2>4. Held(w) = rest /\ Held(w)' = rest \ {j} /\ \A v \in Worker \ {w} : Held(v)' = Held(v)
    BY <2>1, <2>3, HeldAfter DEF PartsOK, Held
  <2>5. faults = 0 => \/ rows' = rows /\ ~Present(rows[j.id])
                      \/ \E q : rows' = [rows EXCEPT ![j.id] = q] /\ q.status # "STARTED"
    BY <1>0, <2>2, <2>3, CalmUpdate
  <2> QED BY <2>2, <2>3, <2>4, <2>5, GiveUpStep
<1>3. ASSUME NEW j \in rest, NotRegistered(w, j)
      PROVE  NoOrphans'
  <2> DEFINE s == [worker[w] EXCEPT !.rest = @ \ {j}]
  <2>1. worker' = [worker EXCEPT ![w] = s] /\ worker[w].pc = "loop"
    BY <1>0, <1>3 DEF NotRegistered, Takes
  <2>2. s.rest = rest \ {j} /\ s.pc = "loop"
    BY <1>0, <2>1 DEF WorkerState
  <2> HIDE DEF s
  <2>3. Unresolved(j).id = j.id /\ Unresolved(j).status # "STARTED" /\ j \in Instance
    BY <1>0, TransitionTypes, SettledStatus
  <2>4. faults' = faults /\ Update(Host[w], Unresolved(j))
    BY <1>3 DEF NotRegistered
  <2>5. Held(w) = rest /\ Held(w)' = rest \ {j} /\ \A v \in Worker \ {w} : Held(v)' = Held(v)
    BY <2>1, <2>2, HeldAfter DEF PartsOK, Held
  <2>6. faults = 0 => \/ rows' = rows /\ ~Present(rows[j.id])
                      \/ \E q : rows' = [rows EXCEPT ![j.id] = q] /\ q.status # "STARTED"
    BY <1>0, <2>3, <2>4, CalmUpdate
  <2> QED BY <2>3, <2>4, <2>5, <2>6, GiveUpStep
<1>4. ASSUME NEW j \in rest, Run(w, j)
      PROVE  NoOrphans'
  <2>1. PICK pc \in {"acquire", "running"} :
            worker' = [worker EXCEPT ![w] = [pc |-> pc, inst |-> j, rest |-> rest \ {j}]]
    BY <1>0, <1>4 DEF Run, At
  <2> DEFINE s == [pc |-> pc, inst |-> j, rest |-> rest \ {j}]
  <2>2. worker' = [worker EXCEPT ![w] = s] /\ s.inst = j /\ s.rest = rest \ {j} /\ s.pc = pc
    BY <2>1
  <2> HIDE DEF s
  <2>3. Held(w) = rest /\ UNCHANGED <<rows, faults>>
    BY <1>4 DEF Held, Run, Takes
  <2> QED BY <2>2, <2>3, HoldOnStep
<1>5. CASE GotSlot(w) \/ ResultDone(w)
  <2>1. PICK pc \in {"running", "spawn"} : worker' = [worker EXCEPT ![w].pc = pc]
    BY <1>5 DEF GotSlot, ResultDone
  <2> DEFINE s == [worker[w] EXCEPT !.pc = pc]
  <2>2. worker' = [worker EXCEPT ![w] = s]
    BY <1>0, <2>1
  <2>3. s.inst = i /\ s.rest = rest /\ s.pc = pc
    BY <1>0 DEF WorkerState
  <2> HIDE DEF s
  <2>4. Held(w) \subseteq rest \cup {i} /\ UNCHANGED <<rows, faults>>
    BY <1>5 DEF Held, GotSlot, ResultDone
  <2> QED BY <2>2, <2>3, <2>4, HoldOnStep
<1>6. CASE SlotRefused(w)
  <2>1. faults' = faults /\ (faults = 0 => FALSE)
    BY <1>0, <1>6 DEF SlotRefused, Calm, Stopping, CtxDone
  <2> QED BY <2>1 DEF NoOrphans
<1>7. CASE ResultRepeat(w)
  <2>1. Repeating(i, now + Period).id = i.id /\ Repeating(i, now + Period).status # "STARTED"
    BY <1>0, <1>7, TransitionTypes, SettledStatus DEF ResultRepeat, Running
  <2> QED BY <1>7, <2>1, SettleOrphans DEF ResultRepeat, Running
<1>8. CASE ResultRetry(w)
  <2>1. Retrying(i).id = i.id /\ Retrying(i).status # "STARTED"
    BY <1>0, <1>8, ChargedTypes, SettledStatus DEF ResultRetry, Running
  <2> QED BY <1>8, <2>1, SettleOrphans DEF ResultRetry, Running
<1>9. CASE Complete(w)
  <2>1. Completed(i).id = i.id /\ Completed(i).status # "STARTED"
    BY <1>0, <1>9, TransitionTypes, SettledStatus DEF Complete
  <2> QED BY <1>9, <2>1, SettleOrphans DEF Complete
<1>10. CASE ErrorRetry(w)
  <2>1. BackedOff(i, now + Backoff).id = i.id /\ BackedOff(i, now + Backoff).status # "STARTED"
    BY <1>0, <1>10, ChargedTypes, SettledStatus DEF ErrorRetry, Running
  <2> QED BY <1>10, <2>1, SettleOrphans DEF ErrorRetry, Running
<1>11. CASE ErrorFinal(w)
  <2> DEFINE f == Failed(i, DeadLetter)
             s == [pc |-> "callback", inst |-> f, rest |-> rest]
  <2>0. f.id = i.id /\ f.status # "STARTED" /\ Running(w) /\ i \in Instance
    BY <1>0, <1>11, TransitionTypes, SettledStatus DEF ErrorFinal, Running
  <2>1. Update(Host[w], f) /\ faults' = faults
    BY <1>11 DEF ErrorFinal
  <2>2. /\ Held(w) \ {i} \subseteq Held(w)'
        /\ \A v \in Worker \ {w} : Held(v)' = Held(v)
    <3>1. CASE BackToLoop(w)
      BY <3>1, HeldInLoop
    <3>2. CASE worker' = [worker EXCEPT ![w] = s]
      <4>1. s.pc = "callback" /\ s.rest = rest
        OBVIOUS
      <4> HIDE DEF s
      <4>2. Held(w)' = rest /\ \A v \in Worker \ {w} : Held(v)' = Held(v)
        BY <3>2, <4>1, HeldAfter DEF PartsOK
      <4> QED BY <4>2 DEF Held
    <3> QED BY <1>0, <1>11, <3>1, <3>2 DEF ErrorFinal
  <2>3. faults = 0 => \/ rows' = rows /\ ~Present(rows[i.id])
                      \/ \E q : rows' = [rows EXCEPT ![i.id] = q] /\ q.status # "STARTED"
    BY <1>0, <2>0, <2>1, CalmUpdate
  <2> QED BY <2>0, <2>1, <2>2, <2>3, GiveUpStep
<1>12. CASE CallbackDone(w)
  <2>1. \A v \in Worker : Held(v) \subseteq Held(v)'
    <3>1. worker[w].pc = "callback" /\ worker'[w].rest = rest
          /\ \A v \in Worker \ {w} : worker'[v] = worker[v]
      BY <1>0, <1>12 DEF CallbackDone, BackToLoop
    <3> QED BY <3>1 DEF Held
  <2>2. \A c : SomebodyHolds(c) => SomebodyHolds(c)'
    BY <2>1 DEF SomebodyHolds
  <2> QED BY <1>12, <2>2, UnorphanedStep DEF CallbackDone
<1>13. CASE Panic(w)
  <2>1. i \in Instance /\ BackToLoop(w) /\ faults' = faults
    BY <1>0, <1>13 DEF Panic, Running
  <2>2. Panicked(i).id = i.id /\ Panicked(i).status # "STARTED"
    BY <1>0, <2>1, TransitionTypes, SettledStatus
  <2>3. \/ rows' = rows /\ ~Present(rows[i.id])
        \/ rows' = [rows EXCEPT ![i.id] = Panicked(i)]
    BY <1>13, <2>2 DEF Panic, Put
  <2>4. /\ Held(w) \ {i} \subseteq Held(w)'
        /\ \A v \in Worker \ {w} : Held(v)' = Held(v)
    BY <2>1, HeldInLoop
  <2> QED BY <2>1, <2>2, <2>3, <2>4, GiveUpStep
<1> QED BY <1>1, <1>2, <1>3, <1>4, <1>5, <1>6, <1>7, <1>8, <1>9, <1>10, <1>11, <1>12,
           <1>13 DEF Execute

\* Everybody else writes no STARTED, and takes nothing from a worker.
LEMMA WriteOrphans ==
    ASSUME PartsOK, NoOrphans, NEW c \in Cmd, NEW r, r.status # "STARTED",
           rows' = rows \/ rows' = [rows EXCEPT ![c] = r],
           UNCHANGED <<worker, faults>>
    PROVE  NoOrphans'
<1>1. \A d : SomebodyHolds(d)' <=> SomebodyHolds(d)
  BY DEF SomebodyHolds, Held
<1>2. \A d \in Cmd : rows'[d].status = "STARTED" => rows[d].status = "STARTED"
  BY DEF PartsOK, RowsOK
<1> QED BY <1>1, <1>2, UnorphanedStep

LEMMA OthersOrphans ==
    ASSUME PartsOK, NoOrphans, Next, \A w \in Worker : ~Execute(w)
    PROVE  NoOrphans'
<1>0. now \in Nat /\ faults \in Nat /\ rows \in [Cmd -> Row]
  BY DEF PartsOK, RestOK, RowsOK
<1>1. ASSUME NEW w \in Worker, NEW S \in SUBSET Cmd, ClaimPending(w, S) PROVE NoOrphans'
  <2> DEFINE batch == {Started(rows[c]) : c \in S}
  <2>1. /\ MarkStarted(S) /\ UNCHANGED faults /\ worker[w].pc = "loop" /\ worker[w].rest = {}
        /\ worker' = [worker EXCEPT ![w].rest = batch]
    BY <1>1 DEF ClaimPending, Polls
  <2>2. \A c \in S : Started(rows[c]).id = c
    BY <1>0, <2>1, ClaimType
  <2> HIDE DEF batch
  <2>3. /\ worker'[w].rest = batch /\ worker'[w].pc = "loop"
        /\ \A v \in Worker \ {w} : worker'[v] = worker[v]
    BY <2>1 DEF PartsOK, WorkersOK, WorkerState
  <2>4. Held(w) = {} /\ Held(w)' = batch /\ \A v \in Worker \ {w} : Held(v)' = Held(v)
    BY <2>1, <2>3 DEF Held
  <2>5. \A c \in S : \E i \in batch : i.id = c
    BY <2>2 DEF batch
  <2>6. \A c \in S : SomebodyHolds(c)'
    BY <2>4, <2>5 DEF SomebodyHolds
  <2>7. \A c \in Cmd \ S : rows'[c] = rows[c]
    BY <2>1 DEF MarkStarted
  <2>8. \A c : SomebodyHolds(c) => SomebodyHolds(c)'
    BY <2>4 DEF SomebodyHolds
  <2> QED BY <2>1, <2>6, <2>7, <2>8, UnorphanedStep
<1>2. ASSUME faults' = faults + 1 PROVE NoOrphans'
  BY <1>0, <1>2 DEF NoOrphans
<1>3. ASSUME NEW w \in Worker, NEW c \in Cmd, NEW delay \in Delays, Spawn(w, c, delay)
      PROVE  NoOrphans'
  <2> DEFINE i == NewInstance(c, Retries, now + delay, NoDeadline)
  <2>1. i.id = c /\ i.status # "STARTED"
    BY DEF NewInstance
  <2>2. rows' = [rows EXCEPT ![c] = i] /\ UNCHANGED <<worker, faults>>
    BY <1>3, <2>1 DEF Spawn, Put
  <2> HIDE DEF i
  <2> QED BY <2>1, <2>2, WriteOrphans
<1>4. ASSUME NEW k \in Client, NEW c \in Cmd, NEW delay \in Delays,
             NEW deadline \in Deadlines \cup {NoDeadline}, Add(k, c, delay, deadline)
      PROVE  NoOrphans'
  <2> DEFINE i == NewInstance(c, Retries, now + delay, now + deadline)
  <2>1. i.id = c /\ i.status # "STARTED"
    BY DEF NewInstance
  <2>2. rows' = [rows EXCEPT ![c] = i] /\ UNCHANGED <<worker, faults>>
    BY <1>4, <2>1 DEF Add, Put
  <2> HIDE DEF i
  <2> QED BY <2>1, <2>2, WriteOrphans
<1>5. ASSUME NEW k \in Client, Overwrite(k) PROVE NoOrphans'
  <2> DEFINE i == client[k].inst
             r == IF client[k].op = "cancel" THEN Cancelled(i) ELSE Replayed(i, now)
  <2>1. i \in Instance /\ i.id \in Cmd
    BY <1>5 DEF Overwrite, PartsOK, ClientsOK, Instance
  <2>2. r.id = i.id /\ r.status # "STARTED"
    BY <1>0, <2>1, TransitionTypes, SettledStatus
  <2>3. (rows' = rows \/ rows' = [rows EXCEPT ![i.id] = r]) /\ UNCHANGED <<worker, faults>>
    BY <1>5, <2>2 DEF Overwrite, Put
  <2> HIDE DEF r, i
  <2> QED BY <2>1, <2>2, <2>3, WriteOrphans
<1>6. ASSUME NEW p \in Proc, NEW c \in Cmd, Cleanup(p, c) PROVE NoOrphans'
  <2> DEFINE r == Blank(c, "GONE")
  <2>1. r.id = c /\ r.status = "GONE"
    BY DEF Blank
  <2>2. rows' = [rows EXCEPT ![c] = r] /\ UNCHANGED <<worker, faults>>
    BY <1>6, <2>1 DEF Cleanup, Put
  <2> HIDE DEF r
  <2> QED BY <2>1, <2>2, WriteOrphans
<1>7. ASSUME NEW p \in Proc, NEW i \in snap[p], RecoverStuck(p, i) PROVE NoOrphans'
  <2> DEFINE r == Recovered(i)
  <2>1. i \in Instance /\ i.id \in Cmd
    BY DEF PartsOK, RestOK, Instance
  <2>2. r.id = i.id /\ r.status # "STARTED"
    BY <2>1, TransitionTypes, SettledStatus
  <2>3. (rows' = rows \/ rows' = [rows EXCEPT ![i.id] = r]) /\ UNCHANGED <<worker, faults>>
    BY <1>7, <2>2, UpdateWrites DEF RecoverStuck
  <2> HIDE DEF r
  <2> QED BY <2>1, <2>2, <2>3, WriteOrphans
<1>8. CASE UNCHANGED <<rows, worker, faults>>
  <2>1. \A d : SomebodyHolds(d)' <=> SomebodyHolds(d)
    BY <1>8 DEF SomebodyHolds, Held
  <2> QED BY <1>8, <2>1, UnorphanedStep
<1>9. ASSUME NEW w \in Worker, NEW S \in SUBSET Cmd, ClaimLost(w, S) PROVE NoOrphans'
  BY <1>2, <1>9 DEF ClaimLost, Fault
<1>10. ASSUME NEW p \in Proc, Stop(p) \/ Crash(p) PROVE NoOrphans'
  BY <1>2, <1>10 DEF Stop, Crash, Fault
<1>11. ASSUME NEW p \in Proc, FindStuck(p) \/ Start(p) \/ StopCancel(p) \/ StopDone(p) PROVE NoOrphans'
  BY <1>8, <1>11 DEF FindStuck, Start, StopCancel, StopDone
<1>12. ASSUME NEW k \in Client, NEW op, NEW c \in Cmd, Lookup(k, op, c) PROVE NoOrphans'
  BY <1>8, <1>12 DEF Lookup
<1>13. CASE Tick
  BY <1>8, <1>13 DEF Tick
<1> QED BY <1>1, <1>3, <1>4, <1>5, <1>6, <1>7, <1>9, <1>10, <1>11, <1>12, <1>13
        DEF Next, Claim, Call, Recover

\* A process stops only by a fault.
LEMMA CalmInductive == PartsOK /\ Calm /\ [Next]_vars => Calm'
<1> SUFFICES ASSUME PartsOK, Calm, [Next]_vars PROVE Calm'
  OBVIOUS
<1>0. faults \in Nat /\ up \in [Proc -> {"down", "running", "stopping", "draining"}]
  BY DEF PartsOK, RestOK
<1>1. ASSUME faults' = faults + 1 PROVE Calm'
  BY <1>0, <1>1 DEF Calm
<1>2. CASE UNCHANGED <<up, faults>>
  BY <1>2 DEF Calm, Stopping
<1>3. ASSUME NEW p \in Proc, Start(p) \/ StopCancel(p) \/ StopDone(p) PROVE Calm'
  <2>1. faults' = faults
    BY <1>3 DEF Start, StopCancel, StopDone
  <2>2. faults = 0 => ~StopCancel(p) /\ ~StopDone(p)
    BY DEF Calm, Stopping, StopCancel, StopDone
  <2>3. Start(p) => up' = [up EXCEPT ![p] = "running"]
    BY DEF Start
  <2> QED BY <1>0, <1>3, <2>1, <2>2, <2>3 DEF Calm, Stopping
<1>4. ASSUME NEW p \in Proc, Stop(p) \/ Crash(p) PROVE Calm'
  BY <1>1, <1>4 DEF Stop, Crash, Fault
<1>5. ASSUME NEW w \in Worker, NEW S, ClaimLost(w, S) PROVE Calm'
  BY <1>1, <1>5 DEF ClaimLost, Fault
<1>6. ASSUME NEW w \in Worker, Claim(w) \/ Execute(w) PROVE Calm'
  <2>1. UNCHANGED <<up, faults>>
    BY <1>6 DEF Claim, ClaimPending, Execute, DropRest, HandleExpired, NotRegistered, Run, GotSlot,
       SlotRefused, ResultRepeat, ResultRetry, ResultDone, Complete, ErrorRetry, ErrorFinal,
       CallbackDone, Panic, Settle
  <2> QED BY <1>2, <2>1
<1>7. ASSUME NEW k \in Client, Call(k) PROVE Calm'
  BY <1>2, <1>7 DEF Call, Add, Lookup, Overwrite
<1>8. ASSUME NEW p \in Proc, Recover(p) PROVE Calm'
  BY <1>2, <1>8 DEF Recover, FindStuck, RecoverStuck
<1>9. CASE \/ \E w \in Worker, c \in Cmd, delay \in Delays : Spawn(w, c, delay)
           \/ \E p \in Proc, c \in Cmd : Cleanup(p, c)
           \/ Tick
           \/ UNCHANGED vars
  BY <1>2, <1>9 DEF Spawn, Cleanup, Tick, vars
<1> QED BY <1>3, <1>4, <1>5, <1>6, <1>7, <1>8, <1>9 DEF Next

\* Without crashes, stops and lost answers every row that is STARTED is some worker's:
\* a command that fails, panics, expires or has no handler takes no other command of
\* its batch with it, for any batch size and any number of processes and callers, and
\* in any deployment (SafeConfig is not needed).
THEOREM NoneOrphaned == Spec => []NoOrphans
<1>1. Init => Calm /\ NoOrphans
  BY DEF Init, Calm, Stopping, NoOrphans, Blank
<1>2. PartsOK /\ Calm /\ NoOrphans /\ [Next]_vars => Calm' /\ NoOrphans'
  <2> SUFFICES ASSUME PartsOK, Calm, NoOrphans, [Next]_vars PROVE NoOrphans'
    BY CalmInductive
  <2>1. CASE \E w \in Worker : Execute(w)
    BY <2>1, ExecuteOrphans
  <2>2. CASE Next /\ \A w \in Worker : ~Execute(w)
    BY <2>2, OthersOrphans
  <2>3. CASE UNCHANGED vars
    BY <2>3, UnorphanedStep DEF vars, SomebodyHolds, Held
  <2> QED BY <2>1, <2>2, <2>3
<1> QED BY <1>1, <1>2, TypeCorrect, TypeParts, PTL DEF Spec
=============================================================================
