------------------------- MODULE QueueCopiesProofs -------------------------
(***************************************************************************)
(* What the copies of an instance may do to its row.  The queue, the       *)
(* timers, the blocked sends, the snapshots, the workers and the API calls *)
(* of QueueExecutor hold copies, and each is written over the row without  *)
(* a look at it.  Five theorems say when that is harmless, from three      *)
(* facts about copies, each an inductive invariant: a copy keeps the id    *)
(* and the deadline of its row; only one copy of a command can still be    *)
(* executed; and the row never says later than that copy.                  *)
(***************************************************************************)
EXTENDS QueueExecutorProofs
-----------------------------------------------------------------------------
(* Deadlines.  DeadlineRespected compares the clock with the deadline of the row, *)
(* while execute looks at the deadline of its copy.  The two agree because every  *)
(* copy descends from its row, no transition changes a deadline, and an id is     *)
(* created once: a copy is faithful.                                              *)
QueueCopy(i) == \E n \in DOMAIN queue : queue[n] = i
TimerCopy(i) == \E c \in Cmd : delayedTimers[c] # NoInst /\ delayedTimers[c].inst = i
LeakedCopy(i) == \E t \in leaked : t.inst = i
WorkerHas(i) == \E w \in Worker : worker[w].pc # "idle" /\ worker[w].inst = i
SendCopy(i) == \E a \in Actor : sending[a] = i
ClientCopy(i) == \E k \in Client : client[k].op # "none" /\ client[k].inst = i
IsCopy(i) ==
    \/ QueueCopy(i) \/ TimerCopy(i) \/ LeakedCopy(i) \/ WorkerHas(i) \/ SendCopy(i)
    \/ ClientCopy(i) \/ i \in recovering \/ i \in replaying

Kin(i, j) == j.id = i.id /\ j.deadlineAt = i.deadlineAt
Faithful(i) ==
    /\ rows[i.id].status # "NONE"
    /\ Present(rows[i.id]) => Kin(i, rows[i.id])

FaithInv ==
    /\ AllPartsOK
    /\ \A i \in Instance : IsCopy(i) => Faithful(i)
    /\ ~Limited => \A w \in Worker : worker[w].pc # "acquire"

(* A step of the executor is one of four kinds. *)
\* Some copies, and at most one row, take over the id and the deadline of copy i.
Descends(i) ==
    /\ \A j \in Instance : IsCopy(j)' => IsCopy(j) \/ Kin(i, j)
    /\ \/ UNCHANGED rows
       \/ Present(rows[i.id]) /\ \E j \in Instance : Kin(i, j) /\ Put(j)
\* Rows are read.
Reads ==
    /\ \A j \in Instance : IsCopy(j)' => IsCopy(j) \/ (Present(rows[j.id]) /\ j = rows[j.id])
    /\ UNCHANGED rows
\* A row is created, with one copy.
Creates(i) ==
    /\ rows[i.id].status = "NONE" /\ Put(i)
    /\ \A j \in Instance : IsCopy(j)' => IsCopy(j) \/ j = i
\* A row is deleted.
Deletes(c) ==
    /\ Delete(c)
    /\ \A j \in Instance : IsCopy(j)' => IsCopy(j)

CopyStep ==
    \/ \E i \in Instance : IsCopy(i) /\ Descends(i)
    \/ Reads
    \/ \E i \in Instance : Creates(i)
    \/ \E c \in Cmd : Deletes(c)

LEMMA StaysFaithful ==
    ASSUME RowsOK, \A i \in Instance : IsCopy(i) => Faithful(i), CopyStep
    PROVE  \A j \in Instance : IsCopy(j)' => Faithful(j)'
<1>1. \A j \in Instance : j.id \in Cmd /\ j \in Row /\ Present(j) /\ j.status # "NONE"
  BY RowTypes DEF Instance, Present, Status
<1>2. ASSUME NEW i \in Instance, IsCopy(i), Descends(i), NEW j \in Instance, IsCopy(j)'
      PROVE  Faithful(j)'
  <2>1. CASE UNCHANGED rows
    BY <1>2, <2>1 DEF Descends, Faithful, Kin
  <2>2. ASSUME Present(rows[i.id]), NEW k \in Instance, Kin(i, k), Put(k) PROVE Faithful(j)'
    <3>1. rows'[i.id] = k /\ \A c \in Cmd : c # i.id => rows'[c] = rows[c]
      BY <2>2, PutRow DEF Kin
    <3>2. CASE j.id = i.id
      <4>1. j.deadlineAt = i.deadlineAt
        BY <1>2, <2>2, <3>2 DEF Descends, Faithful, Kin
      <4> QED BY <1>1, <2>2, <3>1, <3>2, <4>1 DEF Faithful, Kin
    <3>3. CASE j.id # i.id
      BY <1>1, <1>2, <3>1, <3>3 DEF Descends, Faithful, Kin
    <3> QED BY <3>2, <3>3
  <2> QED BY <1>2, <2>1, <2>2 DEF Descends
<1>3. ASSUME Reads, NEW j \in Instance, IsCopy(j)' PROVE Faithful(j)'
  <2>1. UNCHANGED rows
    BY <1>3 DEF Reads
  <2>2. CASE IsCopy(j)
    BY <2>1, <2>2 DEF Faithful, Kin
  <2>3. CASE j = rows[j.id]
    BY <1>1, <2>1, <2>3 DEF Faithful, Kin
  <2> QED BY <1>3, <2>2, <2>3 DEF Reads
<1>4. ASSUME NEW i \in Instance, Creates(i), NEW j \in Instance, IsCopy(j)' PROVE Faithful(j)'
  <2>1. rows'[i.id] = i /\ \A c \in Cmd : c # i.id => rows'[c] = rows[c]
    BY <1>4, PutRow DEF Creates
  <2>2. CASE j = i
    BY <1>1, <2>1, <2>2 DEF Faithful, Kin
  <2>3. CASE IsCopy(j)
    <3>1. j.id # i.id
      BY <1>4, <2>3 DEF Creates, Faithful
    <3> QED BY <1>1, <2>1, <2>3, <3>1 DEF Faithful, Kin
  <2> QED BY <1>4, <2>2, <2>3 DEF Creates
<1>5. ASSUME NEW c \in Cmd, Deletes(c), NEW j \in Instance, IsCopy(j)' PROVE Faithful(j)'
  <2>1. IsCopy(j) /\ Faithful(j)
    BY <1>5 DEF Deletes
  <2>2. rows'[j.id] = rows[j.id] \/ rows'[j.id].status = "GONE"
    BY <1>1, <1>5 DEF Deletes, Delete, RowsOK, Blank
  <2> QED BY <2>1, <2>2 DEF Faithful, Kin, Present, Status
<1> QED BY <1>2, <1>3, <1>4, <1>5 DEF CopyStep
-----------------------------------------------------------------------------
(* Which copies the building blocks add. *)
LEMMA CopiesKept ==
    ASSUME NEW j
    PROVE  /\ UNCHANGED queue => (QueueCopy(j)' => QueueCopy(j))
           /\ UNCHANGED delayedTimers => (TimerCopy(j)' => TimerCopy(j))
           /\ UNCHANGED leaked => (LeakedCopy(j)' => LeakedCopy(j))
           /\ UNCHANGED worker => (WorkerHas(j)' => WorkerHas(j))
           /\ UNCHANGED sending => (SendCopy(j)' => SendCopy(j))
           /\ UNCHANGED client => (ClientCopy(j)' => ClientCopy(j))
BY DEF QueueCopy, TimerCopy, LeakedCopy, WorkerHas, SendCopy, ClientCopy

LEMMA TailCopies ==
    ASSUME QueueOK, queue # <<>>, queue' = Tail(queue)
    PROVE  QueueCopy(First) /\ \A j \in Instance : QueueCopy(j)' => QueueCopy(j)
<1>1. Len(queue) \in Nat /\ Len(queue) > 0 /\ 1 \in DOMAIN queue /\ First = queue[1]
  BY DEF QueueOK, First
<1> DEFINE q == Tail(queue)
<1>2. DOMAIN q = 1..(Len(queue) - 1) /\ \A n \in DOMAIN q : q[n] = queue[n + 1]
  BY <1>1 DEF QueueOK
<1>3. \A n \in DOMAIN q : n + 1 \in DOMAIN queue
  BY <1>1, <1>2 DEF QueueOK
<1>4. queue' = q
  OBVIOUS
<1> HIDE DEF q
<1>5. \A j \in Instance : QueueCopy(j)' => QueueCopy(j)
  BY <1>2, <1>3, <1>4 DEF QueueCopy
<1> QED BY <1>1, <1>5 DEF QueueCopy

LEMMA AppendCopies ==
    ASSUME QueueOK, NEW i \in Instance, queue' = Append(queue, i)
    PROVE  \A j \in Instance : QueueCopy(j)' => QueueCopy(j) \/ j = i
<1> DEFINE q == Append(queue, i)
<1>1. Len(queue) \in Nat /\ DOMAIN queue = 1..Len(queue) /\ DOMAIN q = 1..(Len(queue) + 1)
  BY DEF QueueOK
<1>2. \A n \in 1..Len(queue) : q[n] = queue[n]
  BY DEF QueueOK
<1>3. q[Len(queue) + 1] = i
  BY DEF QueueOK
<1>4. queue' = q
  OBVIOUS
<1> HIDE DEF q
<1>5. \A n \in DOMAIN q : n \in DOMAIN queue \/ n = Len(queue) + 1
  BY <1>1
<1> QED BY <1>1, <1>2, <1>3, <1>4, <1>5 DEF QueueCopy

LEMMA ArmCopies ==
    ASSUME TimersOK, NEW i \in Instance, Arm(i)
    PROVE  \A j \in Instance : TimerCopy(j)' => TimerCopy(j) \/ j = i
<1>1. i.id \in Cmd /\ \E t : delayedTimers' = [delayedTimers EXCEPT ![i.id] = [inst |-> i, at |-> t]]
  BY DEF Arm, Instance
<1>2. PICK t : delayedTimers' = [delayedTimers EXCEPT ![i.id] = [inst |-> i, at |-> t]]
  BY <1>1
<1>3. /\ delayedTimers'[i.id].inst = i
      /\ \A c \in Cmd : c # i.id => delayedTimers'[c] = delayedTimers[c]
  BY <1>1, <1>2 DEF TimersOK
<1> QED BY <1>3 DEF TimerCopy

LEMMA ScheduleCopies ==
    ASSUME TimersOK, SendsOK, NEW a \in Actor, NEW i \in Instance, Schedule(a, i)
    PROVE  \A j \in Instance : /\ TimerCopy(j)' => TimerCopy(j) \/ j = i
                               /\ SendCopy(j)' => SendCopy(j) \/ j = i
<1>1. CASE i.readyAt <= now
  <2>1. sending' = [sending EXCEPT ![a] = i] /\ UNCHANGED delayedTimers
    BY <1>1 DEF Schedule
  <2> QED BY <2>1, CopiesKept DEF SendsOK, SendCopy
<1>2. CASE ~(i.readyAt <= now)
  <2>1. Arm(i) /\ UNCHANGED sending
    BY <1>2 DEF Schedule
  <2> QED BY <2>1, ArmCopies, CopiesKept
<1> QED BY <1>1, <1>2

LEMMA MoveCopies ==
    ASSUME WorkersOK, NEW w \in Worker, NEW s, worker' = [worker EXCEPT ![w] = s]
    PROVE  \A j \in Instance : WorkerHas(j)' => WorkerHas(j) \/ (s.pc # "idle" /\ j = s.inst)
<1>1. worker'[w] = s /\ \A v \in Worker : v # w => worker'[v] = worker[v]
  BY DEF WorkersOK
<1> QED BY <1>1 DEF WorkerHas

\* No transition changes a deadline.
LEMMA KinTypes ==
    ASSUME NEW i \in Instance, NEW t \in Nat
    PROVE  /\ Kin(i, i) /\ Kin(i, Started(i)) /\ Kin(i, Unresolved(i)) /\ Kin(i, Repeating(i, t))
           /\ Kin(i, Retrying(i)) /\ Kin(i, Completed(i)) /\ Kin(i, BackedOff(i, t))
           /\ Kin(i, Failed(i, DeadLetter)) /\ Kin(i, Panicked(i)) /\ Kin(i, Expired(i))
           /\ Kin(i, Cancelled(i)) /\ Kin(i, Replayed(i, t)) /\ Kin(i, Recovered(i))
BY DEF Instance, Kin, Started, Unresolved, Repeating, Retrying, Completed, BackedOff, Failed,
       Panicked, Expired, Cancelled, Replayed, Recovered

(* The kinds of the executor's steps. *)
LEMMA RunHandlerCopies ==
    ASSUME AllPartsOK, NEW w \in Worker, NEW i \in Instance, RunHandler(w, i)
    PROVE  /\ \A j \in Instance : WorkerHas(j)' => WorkerHas(j) \/ Kin(i, j)
           /\ \/ UNCHANGED rows
              \/ Present(rows[i.id]) /\ \E j \in Instance : Kin(i, j) /\ Put(j)
<1>0. WorkersOK
  BY DEF AllPartsOK
<1>1. CASE UpdateOK(i)
  <2> DEFINE s == [pc |-> "running", inst |-> Started(i), todo |-> <<>>]
  <2>1. Started(i) \in Instance /\ Kin(i, Started(i)) /\ Put(Started(i)) /\ Present(rows[i.id])
    BY <1>1, TransitionTypes, KinTypes DEF RunHandler, UpdateOK
  <2>2. worker' = [worker EXCEPT ![w] = s] /\ s.inst = Started(i)
    BY <1>1 DEF RunHandler
  <2> HIDE DEF s
  <2> QED BY <1>0, <2>1, <2>2, MoveCopies
<1>2. CASE ~UpdateOK(i)
  BY <1>0, <1>2, MoveCopies, WorkerStates DEF RunHandler
<1> QED BY <1>1, <1>2

LEMMA TakeCopies ==
    ASSUME AllPartsOK, NEW w \in Worker, Take(w)
    PROVE  \E i \in Instance : IsCopy(i) /\ Descends(i)
<1>0. QueueOK /\ TimersOK /\ WorkersOK
  BY DEF AllPartsOK
<1>1. /\ queue # <<>> /\ queue' = Tail(queue)
      /\ UNCHANGED <<leaked, sending, client, recovering, replaying>>
  BY DEF Take, Drop, HandleExpired, NotReady, NotRegistered, Begin, WaitSlot, Resolvable, Ready
<1>2. PICK f \in Instance : f = First /\ IsCopy(f)
  <2>1. First \in Instance
    BY <1>0, <1>1 DEF QueueOK, First
  <2> QED BY <1>0, <1>1, <2>1, TailCopies DEF IsCopy
<1>3. /\ \A j \in Instance : /\ TimerCopy(j)' => TimerCopy(j) \/ Kin(f, j)
                             /\ WorkerHas(j)' => WorkerHas(j) \/ Kin(f, j)
      /\ \/ UNCHANGED rows
         \/ Present(rows[f.id]) /\ \E j \in Instance : Kin(f, j) /\ Put(j)
  <2>1. CASE Drop(w)
    BY <2>1, CopiesKept DEF Drop
  <2>2. CASE HandleExpired(w)
    <3>0. UNCHANGED delayedTimers
      BY <2>2 DEF HandleExpired
    <3>1. CASE UpdateOK(f)
      <4>1. Expired(f) \in Instance /\ Kin(f, Expired(f))
        BY TransitionTypes, KinTypes
      <4>2. PICK s : s = Callback(Expired(f))
        OBVIOUS
      <4>3. /\ Put(Expired(f)) /\ Present(rows[f.id]) /\ worker' = [worker EXCEPT ![w] = s]
        BY <1>2, <2>2, <3>1, <4>2 DEF HandleExpired, UpdateOK
      <4>4. s.pc # "idle" => s.inst = Expired(f)
        BY <4>2, WorkerStates DEF Callback
      <4> QED BY <1>0, <3>0, <4>1, <4>3, <4>4, CopiesKept, MoveCopies
    <3>2. CASE ~UpdateOK(f)
      BY <1>2, <2>2, <3>0, <3>2, CopiesKept DEF HandleExpired
    <3> QED BY <3>1, <3>2
  <2>3. CASE NotReady(w)
    <3>1. Arm(f) /\ UNCHANGED <<rows, worker>>
      BY <1>2, <2>3 DEF NotReady
    <3> QED BY <1>0, <3>1, ArmCopies, CopiesKept, KinTypes
  <2>4. CASE NotRegistered(w)
    <3>1. UNCHANGED <<delayedTimers, worker>>
      BY <2>4 DEF NotRegistered
    <3>2. CASE UpdateOK(f)
      <4>1. Unresolved(f) \in Instance /\ Kin(f, Unresolved(f)) /\ Put(Unresolved(f)) /\ Present(rows[f.id])
        BY <1>2, <2>4, <3>2, TransitionTypes, KinTypes DEF NotRegistered, UpdateOK
      <4> QED BY <3>1, <4>1, CopiesKept
    <3>3. CASE ~UpdateOK(f)
      BY <1>2, <2>4, <3>1, <3>3, CopiesKept DEF NotRegistered
    <3> QED BY <3>2, <3>3
  <2>5. CASE Begin(w)
    BY <1>2, <2>5, RunHandlerCopies, CopiesKept DEF Begin
  <2>6. CASE WaitSlot(w)
    <3> DEFINE s == [pc |-> "acquire", inst |-> f, todo |-> <<>>]
    <3>1. worker' = [worker EXCEPT ![w] = s] /\ s.inst = f /\ UNCHANGED <<rows, delayedTimers>>
      BY <1>2, <2>6 DEF WaitSlot
    <3> HIDE DEF s
    <3> QED BY <1>0, <3>1, CopiesKept, MoveCopies, KinTypes
  <2> QED BY <2>1, <2>2, <2>3, <2>4, <2>5, <2>6 DEF Take
<1>4. \A j \in Instance : IsCopy(j)' => IsCopy(j) \/ Kin(f, j)
  BY <1>0, <1>1, <1>3, TailCopies, CopiesKept DEF IsCopy
<1> QED BY <1>2, <1>3, <1>4 DEF Descends

LEMMA UpdateAndScheduleCopies ==
    ASSUME AllPartsOK, NEW w \in Worker, NEW i \in Instance, NEW j \in Instance, Kin(i, j),
           UpdateAndSchedule(w, j),
           UNCHANGED <<queue, leaked, client, recovering, replaying>>
    PROVE  Descends(i)
<1>0. TimersOK /\ SendsOK /\ WorkersOK /\ w \in Actor
  BY ActorTypes DEF AllPartsOK
<1>1. \A l \in Instance : WorkerHas(l)' => WorkerHas(l)
  BY <1>0, MoveCopies, WorkerStates DEF UpdateAndSchedule
<1>2. CASE UpdateOK(j)
  <2>1. Put(j) /\ Schedule(w, j) /\ Present(rows[i.id])
    BY <1>2 DEF UpdateAndSchedule, UpdateOK, Kin
  <2>2. \A l \in Instance : IsCopy(l)' => IsCopy(l) \/ l = j
    BY <1>0, <1>1, <2>1, ScheduleCopies, CopiesKept DEF IsCopy
  <2> QED BY <2>1, <2>2 DEF Descends
<1>3. CASE ~UpdateOK(j)
  <2>1. UNCHANGED <<rows, delayedTimers, sending>>
    BY <1>3 DEF UpdateAndSchedule
  <2> QED BY <1>1, <2>1, CopiesKept DEF Descends, IsCopy
<1> QED BY <1>2, <1>3

\* A worker goes on to state s, and writes at most the row of its command.
LEMMA WorkerDescends ==
    ASSUME AllPartsOK, NEW w \in Worker, NEW i \in Instance, NEW j \in Instance, Kin(i, j),
           \/ Put(j) /\ Present(rows[i.id])
           \/ UNCHANGED rows,
           NEW s, s.pc # "idle" => Kin(i, s.inst), worker' = [worker EXCEPT ![w] = s],
           UNCHANGED <<queue, delayedTimers, leaked, sending, client, recovering, replaying>>
    PROVE  Descends(i)
<1>1. \A l \in Instance : WorkerHas(l)' => WorkerHas(l) \/ Kin(i, l)
  BY MoveCopies DEF AllPartsOK
<1> QED BY <1>1, CopiesKept DEF Descends, IsCopy

\* A worker that goes on with its children or its callback keeps its copy.
LEMMA GoesOn ==
    ASSUME NEW w \in Worker, NEW plan, WorkersOK,
           NextChild(w) \/ CallbackDone(w, plan)
    PROVE  \E s : worker' = [worker EXCEPT ![w] = s] /\ (s.pc # "idle" => s.inst = worker[w].inst)
<1>1. CASE NextChild(w)
  <2> DEFINE s == IF worker[w].pc = "followup" /\ Len(worker[w].todo) = 1 THEN Idle
                  ELSE [pc |-> worker[w].pc, inst |-> worker[w].inst, todo |-> Tail(worker[w].todo)]
  <2>1. worker' = [worker EXCEPT ![w] = s]
    BY <1>1 DEF NextChild, WorkersOK
  <2>2. s.pc # "idle" => s.inst = worker[w].inst
    BY WorkerStates
  <2> HIDE DEF s
  <2> QED BY <2>1, <2>2
<1>2. CASE CallbackDone(w, plan)
  <2> DEFINE s == IF plan = <<>> THEN Idle ELSE [pc |-> "followup", inst |-> worker[w].inst, todo |-> plan]
  <2>1. worker' = [worker EXCEPT ![w] = s]
    BY <1>2 DEF CallbackDone, WorkersOK
  <2>2. s.pc # "idle" => s.inst = worker[w].inst
    BY WorkerStates
  <2> HIDE DEF s
  <2> QED BY <2>1, <2>2
<1> QED BY <1>1, <1>2

LEMMA ProceedCopies ==
    ASSUME AllPartsOK, NEW w \in Worker, Proceed(w)
    PROVE  CopyStep
<1>0. /\ RowsOK /\ WorkersOK /\ TimersOK /\ SendsOK /\ now \in Nat /\ w \in Actor /\ worker[w].pc # "idle"
      /\ UNCHANGED <<queue, leaked, client, recovering, replaying>>
  BY ActorTypes DEF AllPartsOK, RestOK, Proceed, GotSlot, SlotRefused, ResultRepeat, ResultRetry,
     ResultDone, ErrorRetry, ErrorFinal, CallbackDone, Panic, SpawnChild, SkipChild, Complete,
     Running, Spawning
<1>1. PICK i \in Instance : i = worker[w].inst /\ IsCopy(i)
  <2>1. worker[w].inst \in Instance
    BY <1>0, WorkerCopy
  <2> QED BY <1>0, <2>1 DEF IsCopy, WorkerHas
<1>2. worker[w].todo \in Seq(Nat)
  BY <1>0, WorkerCopy
<1> SUFFICES ASSUME \A c \in Cmd : ~SpawnChild(w, c) PROVE Descends(i)
  <2>1. ASSUME NEW c \in Cmd, SpawnChild(w, c) PROVE CopyStep
    <3>1. Head(worker[w].todo) \in Nat /\ NextChild(w) /\ rows[c].status = "NONE"
      BY <1>2, <2>1 DEF SpawnChild, Spawning, Fresh
    <3>2. Retries \in Nat /\ NoDeadline \in Nat /\ now + Head(worker[w].todo) \in Nat
      BY <1>0, <3>1, ExecutorAssumption DEF NoDeadline
    <3>3. PICK j \in Instance : j = NewInstance(c, Retries, now + Head(worker[w].todo), NoDeadline) /\ j.id = c
      BY <3>2, NewInstanceType
    <3>4. Put(j) /\ Schedule(w, j)
      BY <2>1, <3>3 DEF SpawnChild
    <3>5. PICK s : worker' = [worker EXCEPT ![w] = s] /\ (s.pc # "idle" => s.inst = i)
      BY <1>0, <1>1, <3>1, GoesOn
    <3>6. \A l \in Instance : IsCopy(l)' => IsCopy(l) \/ l = j
      BY <1>0, <1>1, <3>4, <3>5, ScheduleCopies, MoveCopies, CopiesKept DEF IsCopy
    <3> QED BY <3>1, <3>3, <3>4, <3>6 DEF CopyStep, Creates
  <2> QED BY <1>1, <2>1 DEF CopyStep
<1>4. CASE GotSlot(w)
  <2>1. RunHandler(w, i) /\ UNCHANGED <<delayedTimers, sending>>
    BY <1>1, <1>4 DEF GotSlot
  <2> QED BY <1>0, <2>1, RunHandlerCopies, CopiesKept DEF Descends, IsCopy
<1>5. CASE SlotRefused(w)
  <2>1. Arm(i) /\ UNCHANGED <<rows, sending>> /\ worker' = [worker EXCEPT ![w] = Idle]
    BY <1>1, <1>5 DEF SlotRefused
  <2>2. \A l \in Instance : IsCopy(l)' => IsCopy(l) \/ l = i
    BY <1>0, <2>1, ArmCopies, MoveCopies, WorkerStates, CopiesKept DEF IsCopy
  <2> QED BY <2>1, <2>2, KinTypes DEF Descends
<1>6. CASE ResultRepeat(w)
  <2>1. now + Period \in Nat
    BY <1>0, ExecutorAssumption
  <2>2. PICK j \in Instance : j = Repeating(i, now + Period) /\ Kin(i, j)
    BY <2>1, TransitionTypes, KinTypes
  <2> QED BY <1>0, <1>1, <1>6, <2>2, UpdateAndScheduleCopies DEF ResultRepeat
<1>7. CASE ResultRetry(w)
  <2>1. PICK j \in Instance : j = Retrying(i) /\ Kin(i, j)
    BY <1>0, <1>1, <1>7, ChargedTypes, KinTypes DEF ResultRetry
  <2> QED BY <1>0, <1>1, <1>7, <2>1, UpdateAndScheduleCopies DEF ResultRetry
<1>8. ASSUME NEW plan \in Plans, ResultDone(w, plan) PROVE Descends(i)
  <2> DEFINE s == [pc |-> "spawn", inst |-> i, todo |-> plan]
  <2>1. worker' = [worker EXCEPT ![w] = s] /\ s.inst = i /\ UNCHANGED <<rows, delayedTimers, sending>>
    BY <1>1, <1>8 DEF ResultDone
  <2> HIDE DEF s
  <2> QED BY <1>0, <2>1, KinTypes, WorkerDescends
<1>9. CASE ErrorRetry(w)
  <2>1. now + Backoff \in Nat
    BY <1>0, ExecutorAssumption
  <2>2. PICK j \in Instance : j = BackedOff(i, now + Backoff) /\ Kin(i, j)
    BY <1>1, <1>9, <2>1, ChargedTypes, KinTypes DEF ErrorRetry
  <2> QED BY <1>0, <1>1, <1>9, <2>2, UpdateAndScheduleCopies DEF ErrorRetry
<1>10. CASE ErrorFinal(w)
  <2>1. PICK j \in Instance : j = Failed(i, DeadLetter) /\ Kin(i, j)
    BY <1>0, TransitionTypes, KinTypes, ExecutorAssumption
  <2>2. UNCHANGED <<delayedTimers, sending>>
    BY <1>10 DEF ErrorFinal
  <2>3. CASE UpdateOK(j)
    <3>1. PICK s : s = Callback(j)
      OBVIOUS
    <3>2. Put(j) /\ Present(rows[i.id]) /\ worker' = [worker EXCEPT ![w] = s]
      BY <1>1, <1>10, <2>1, <2>3, <3>1 DEF ErrorFinal, UpdateOK, Kin
    <3>3. s.pc # "idle" => s.inst = j
      BY <3>1, WorkerStates DEF Callback
    <3> QED BY <1>0, <2>1, <2>2, <3>2, <3>3, WorkerDescends
  <2>4. CASE ~UpdateOK(j)
    <3>1. UNCHANGED rows /\ worker' = [worker EXCEPT ![w] = Idle]
      BY <1>1, <1>10, <2>1, <2>4 DEF ErrorFinal
    <3> QED BY <1>0, <2>1, <2>2, <3>1, WorkerStates, WorkerDescends
  <2> QED BY <2>3, <2>4
<1>11. ASSUME NEW plan \in Plans, CallbackDone(w, plan) PROVE Descends(i)
  <2>1. PICK s : worker' = [worker EXCEPT ![w] = s] /\ (s.pc # "idle" => s.inst = i)
    BY <1>0, <1>1, <1>11, GoesOn
  <2>2. UNCHANGED <<rows, delayedTimers, sending>>
    BY <1>11 DEF CallbackDone
  <2> QED BY <1>0, <2>1, <2>2, KinTypes, WorkerDescends
<1>12. CASE Panic(w)
  <2>1. PICK j \in Instance : j = Panicked(i) /\ Kin(i, j)
    BY <1>0, TransitionTypes, KinTypes
  <2>2. /\ UNCHANGED <<delayedTimers, sending>> /\ worker' = [worker EXCEPT ![w] = Idle]
        /\ (Put(j) /\ Present(rows[i.id])) \/ UNCHANGED rows
    <3>1. CASE Present(rows[i.id])
      BY <1>1, <1>12, <2>1, <3>1 DEF Panic
    <3>2. CASE ~Present(rows[i.id])
      BY <1>1, <1>12, <2>1, <3>2 DEF Panic
    <3> QED BY <3>1, <3>2
  <2> QED BY <1>0, <2>1, <2>2, WorkerStates, WorkerDescends
<1>13. CASE SkipChild(w)
  <2>1. PICK s : worker' = [worker EXCEPT ![w] = s] /\ (s.pc # "idle" => s.inst = i)
    BY <1>0, <1>1, <1>13, GoesOn DEF SkipChild
  <2>2. UNCHANGED <<rows, delayedTimers, sending>>
    BY <1>13 DEF SkipChild
  <2> QED BY <1>0, <2>1, <2>2, KinTypes, WorkerDescends
<1>14. CASE Complete(w)
  <2>1. PICK j \in Instance : j = Completed(i) /\ Kin(i, j)
    BY <1>0, TransitionTypes, KinTypes
  <2>2. /\ UNCHANGED <<delayedTimers, sending>> /\ worker' = [worker EXCEPT ![w] = Idle]
        /\ (Put(j) /\ Present(rows[i.id])) \/ UNCHANGED rows
    <3>1. CASE UpdateOK(i)
      BY <1>1, <1>14, <2>1, <3>1 DEF Complete, UpdateOK
    <3>2. CASE ~UpdateOK(i)
      BY <1>1, <1>14, <2>1, <3>2 DEF Complete
    <3> QED BY <3>1, <3>2
  <2> QED BY <1>0, <2>1, <2>2, WorkerStates, WorkerDescends
<1> QED
  BY <1>4, <1>5, <1>6, <1>7, <1>8, <1>9, <1>10, <1>11, <1>12, <1>13, <1>14 DEF Proceed

LEMMA ChannelCopies ==
    ASSUME AllPartsOK,
           \/ \E a \in Actor : Enqueue(a) \/ Abandon(a)
           \/ \E c \in Cmd : Fire(c)
           \/ \E t \in leaked : FireLeaked(t)
    PROVE  \E i \in Instance : IsCopy(i) /\ Descends(i)
<1>0. QueueOK /\ TimersOK /\ LeakedOK /\ SendsOK
  BY DEF AllPartsOK
<1>1. ASSUME NEW a \in Actor, Enqueue(a) \/ Abandon(a) PROVE \E i \in Instance : IsCopy(i) /\ Descends(i)
  <2>1. PICK i \in Instance : i = sending[a]
    BY <1>0, <1>1 DEF Enqueue, Abandon, SendsOK
  <2>2. \A j \in Instance : SendCopy(j)' => SendCopy(j)
    BY <1>0, <1>1, RowTypes DEF Enqueue, Abandon, SendsOK, SendCopy
  <2>3. \A j \in Instance : QueueCopy(j)' => QueueCopy(j) \/ j = i
    BY <1>0, <1>1, <2>1, AppendCopies, CopiesKept DEF Enqueue, Abandon
  <2>4. \A j \in Instance : IsCopy(j)' => IsCopy(j) \/ j = i
    BY <1>1, <2>2, <2>3, CopiesKept DEF Enqueue, Abandon, IsCopy
  <2>5. IsCopy(i)
    BY <2>1 DEF IsCopy, SendCopy
  <2> QED BY <1>1, <2>4, <2>5, KinTypes DEF Descends, Enqueue, Abandon
<1>2. ASSUME NEW i \in Instance, Deliver(i) PROVE \A j \in Instance : SendCopy(j)' => SendCopy(j) \/ j = i
  BY <1>0, <1>2 DEF Deliver, SendsOK, SendCopy
<1>3. ASSUME NEW c \in Cmd, Fire(c) PROVE \E i \in Instance : IsCopy(i) /\ Descends(i)
  <2>1. PICK i \in Instance : i = delayedTimers[c].inst
    BY <1>0, <1>3 DEF Fire, TimersOK, Timer
  <2>2. IsCopy(i)
    BY <1>3, <2>1 DEF Fire, IsCopy, TimerCopy
  <2>3. \A j \in Instance : TimerCopy(j)' => TimerCopy(j)
    BY <1>0, <1>3 DEF Fire, TimerCopy, TimersOK
  <2>4. \A j \in Instance : IsCopy(j)' => IsCopy(j) \/ j = i
    BY <1>2, <1>3, <2>1, <2>3, CopiesKept DEF Fire, IsCopy
  <2> QED BY <1>3, <2>2, <2>4, KinTypes DEF Descends, Fire
<1>4. ASSUME NEW t \in leaked, FireLeaked(t) PROVE \E i \in Instance : IsCopy(i) /\ Descends(i)
  <2>1. PICK i \in Instance : i = t.inst /\ i.id \in Cmd
    BY <1>0 DEF LeakedOK, Timer, Instance
  <2>2. IsCopy(i)
    BY <2>1 DEF IsCopy, LeakedCopy
  <2>3. \A j \in Instance : TimerCopy(j)' => TimerCopy(j)
    BY <1>0, <1>4, <2>1 DEF FireLeaked, TimerCopy, TimersOK
  <2>4. \A j \in Instance : LeakedCopy(j)' => LeakedCopy(j) \/ TimerCopy(j)
    BY <1>0, <1>4, <2>1 DEF FireLeaked, TimerCopy, LeakedCopy
  <2>5. \A j \in Instance : IsCopy(j)' => IsCopy(j) \/ j = i
    BY <1>2, <1>4, <2>1, <2>3, <2>4, CopiesKept DEF FireLeaked, IsCopy
  <2> QED BY <1>4, <2>2, <2>5, KinTypes DEF Descends, FireLeaked
<1> QED BY <1>1, <1>3, <1>4

LEMMA CallCopies ==
    ASSUME AllPartsOK, NEW k \in Client, Call(k) \/ Return(k)
    PROVE  CopyStep
<1>0. /\ RowsOK /\ ClientsOK /\ TimersOK /\ SendsOK /\ now \in Nat /\ Retries \in Nat /\ NoDeadline \in Nat /\ k \in Actor
      /\ UNCHANGED <<queue, leaked, worker, recovering, replaying>>
  BY ExecutorAssumption, ActorTypes DEF AllPartsOK, RestOK, NoDeadline, Call, Return, Add, Lookup,
     Cancel, ReplayFromDLQ, PurgeDLQ
<1>1. ASSUME NEW c \in Cmd, NEW delay \in Delays, NEW deadline \in Deadlines \cup {NoDeadline},
             Add(k, c, delay, deadline)
      PROVE  CopyStep
  <2>1. now + delay \in Nat /\ now + deadline \in Nat
    BY <1>0, ExecutorAssumption
  <2>2. PICK i \in Instance : i = NewInstance(c, Retries, now + delay, now + deadline) /\ i.id = c
    BY <1>0, <2>1, NewInstanceType
  <2>3. Put(i) /\ Schedule(k, i) /\ rows[i.id].status = "NONE" /\ UNCHANGED client
    BY <1>1, <2>2 DEF Add, Fresh
  <2>4. \A j \in Instance : IsCopy(j)' => IsCopy(j) \/ j = i
    BY <1>0, <2>3, ScheduleCopies, CopiesKept DEF IsCopy
  <2> QED BY <2>3, <2>4 DEF CopyStep, Creates
<1>2. ASSUME NEW op \in {"cancel", "replay", "purge"}, NEW c \in Cmd, Lookup(k, op, c) PROVE CopyStep
  <2>1. Present(rows[c]) /\ rows[c].id = c
    BY <1>0, <1>2 DEF Lookup, Permits, Present, Status, RowsOK
  <2>2. UNCHANGED <<rows, delayedTimers, sending>>
    BY <1>2 DEF Lookup
  <2>3. \A j \in Instance : ClientCopy(j)' => ClientCopy(j) \/ j = rows[c]
    BY <1>0, <1>2 DEF Lookup, ClientCopy, ClientsOK
  <2>4. \A j \in Instance : IsCopy(j)' => IsCopy(j) \/ (Present(rows[j.id]) /\ j = rows[j.id])
    BY <1>0, <2>1, <2>2, <2>3, CopiesKept DEF IsCopy
  <2> QED BY <2>2, <2>4 DEF CopyStep, Reads
<1>3. ASSUME Return(k)
      PROVE  /\ \E i \in Instance : i = client[k].inst /\ IsCopy(i) /\ i.id \in Cmd
             /\ \A j \in Instance : ClientCopy(j)' => ClientCopy(j)
  <2>1. client[k].op # "none" /\ client' = [client EXCEPT ![k] = NoCall]
    BY <1>3 DEF Return, Cancel, ReplayFromDLQ, PurgeDLQ
  <2>2. client[k].inst \in Instance
    BY <1>0, <2>1 DEF ClientsOK
  <2>3. IsCopy(client[k].inst)
    BY <2>1 DEF IsCopy, ClientCopy
  <2>4. \A j \in Instance : ClientCopy(j)' => ClientCopy(j)
    BY <1>0, <2>1 DEF ClientCopy, NoCall, ClientsOK
  <2> QED BY <2>2, <2>3, <2>4 DEF Instance
<1>4. CASE Cancel(k)
  <2>1. PICK i \in Instance : i = client[k].inst /\ IsCopy(i)
    BY <1>3, <1>4 DEF Return
  <2>2. PICK j \in Instance : j = Cancelled(i) /\ Kin(i, j)
    BY <1>0, TransitionTypes, KinTypes
  <2>3. UNCHANGED rows \/ (Present(rows[i.id]) /\ Put(j))
    <3>1. CASE Present(rows[i.id])
      BY <1>4, <2>1, <2>2, <3>1 DEF Cancel
    <3>2. CASE ~Present(rows[i.id])
      BY <1>4, <2>1, <2>2, <3>2 DEF Cancel
    <3> QED BY <3>1, <3>2
  <2>4. \A l \in Instance : IsCopy(l)' => IsCopy(l)
    BY <1>0, <1>3, <1>4, CopiesKept DEF Cancel, Return, IsCopy
  <2> QED BY <2>1, <2>2, <2>3, <2>4 DEF CopyStep, Descends
<1>5. CASE ReplayFromDLQ(k)
  <2>1. PICK i \in Instance : i = client[k].inst /\ IsCopy(i)
    BY <1>3, <1>5 DEF Return
  <2>2. PICK j \in Instance : j = Replayed(i, now) /\ Kin(i, j)
    BY <1>0, TransitionTypes, KinTypes
  <2>3. /\ \A l \in Instance : /\ TimerCopy(l)' => TimerCopy(l) \/ l = j
                               /\ SendCopy(l)' => SendCopy(l) \/ l = j
        /\ UNCHANGED rows \/ (Present(rows[i.id]) /\ Put(j))
    <3>1. CASE Present(rows[j.id])
      <4>1. Put(j) /\ Schedule(k, j) /\ Present(rows[i.id])
        BY <1>5, <2>1, <2>2, <3>1 DEF ReplayFromDLQ, Kin
      <4> QED BY <1>0, <4>1, ScheduleCopies
    <3>2. CASE ~Present(rows[j.id])
      <4>1. UNCHANGED <<rows, sending, delayedTimers>>
        BY <1>5, <2>1, <2>2, <3>2 DEF ReplayFromDLQ
      <4> QED BY <4>1, CopiesKept
    <3> QED BY <3>1, <3>2
  <2>4. \A l \in Instance : IsCopy(l)' => IsCopy(l) \/ l = j
    BY <1>0, <1>3, <1>5, <2>3, CopiesKept DEF Return, IsCopy
  <2> QED BY <2>1, <2>2, <2>3, <2>4 DEF CopyStep, Descends
<1>6. CASE PurgeDLQ(k)
  <2>1. PICK c \in Cmd : c = client[k].inst.id
    BY <1>3, <1>6 DEF Return
  <2>2. \A l \in Instance : IsCopy(l)' => IsCopy(l)
    BY <1>0, <1>3, <1>6, CopiesKept DEF PurgeDLQ, Return, IsCopy
  <2> QED BY <1>6, <2>1, <2>2 DEF CopyStep, Deletes, PurgeDLQ
<1> QED BY <1>1, <1>2, <1>4, <1>5, <1>6 DEF Call, Return

LEMMA MaintenanceCopies ==
    ASSUME AllPartsOK,
           \/ \E c \in Cmd : Cleanup(c)
           \/ \E S \in SUBSET Cmd : FindStuck(S)
           \/ \E i \in recovering : RecoverStuck(i)
    PROVE  CopyStep
<1>0. RowsOK /\ TimersOK /\ SendsOK /\ LoopsOK /\ "recovery" \in Actor
  BY ActorTypes DEF AllPartsOK
<1>1. ASSUME NEW c \in Cmd, Cleanup(c) PROVE CopyStep
  <2>1. \A l \in Instance : IsCopy(l)' => IsCopy(l)
    BY <1>1, CopiesKept DEF Cleanup, IsCopy
  <2> QED BY <1>1, <2>1 DEF CopyStep, Deletes, Cleanup
<1>2. ASSUME NEW S \in SUBSET Cmd, FindStuck(S) PROVE CopyStep
  <2>1. \A c \in S : Present(rows[c]) /\ rows[c].id = c
    BY <1>0, <1>2 DEF FindStuck, RowsOK, Present, Status
  <2>2. \A j \in Instance : j \in recovering' => Present(rows[j.id]) /\ j = rows[j.id]
    BY <1>2, <2>1 DEF FindStuck
  <2>3. \A j \in Instance : IsCopy(j)' => IsCopy(j) \/ (Present(rows[j.id]) /\ j = rows[j.id])
    BY <1>2, <2>2, CopiesKept DEF FindStuck, IsCopy
  <2> QED BY <1>2, <2>3 DEF CopyStep, Reads, FindStuck
<1>3. ASSUME NEW k \in recovering, RecoverStuck(k) PROVE CopyStep
  <2>1. PICK i \in Instance : i = k /\ IsCopy(i)
    BY <1>0 DEF LoopsOK, IsCopy
  <2>2. PICK j \in Instance : j = Recovered(i) /\ Kin(i, j)
    BY TransitionTypes, 0 \in Nat, KinTypes
  <2>3. /\ \A l \in Instance : /\ TimerCopy(l)' => TimerCopy(l) \/ l = j
                               /\ SendCopy(l)' => SendCopy(l) \/ l = j
        /\ UNCHANGED rows \/ (Present(rows[i.id]) /\ Put(j))
    <3>1. CASE UpdateOK(i)
      <4>1. Put(j) /\ Schedule("recovery", j) /\ Present(rows[i.id])
        BY <1>3, <2>1, <2>2, <3>1 DEF RecoverStuck, UpdateOK
      <4> QED BY <1>0, <4>1, ScheduleCopies
    <3>2. CASE ~UpdateOK(i)
      <4>1. UNCHANGED <<rows, sending, delayedTimers>>
        BY <1>3, <2>1, <2>2, <3>2 DEF RecoverStuck
      <4> QED BY <4>1, CopiesKept
    <3> QED BY <3>1, <3>2
  <2>4. \A l \in Instance : IsCopy(l)' => IsCopy(l) \/ l = j
    BY <1>3, <2>3, CopiesKept DEF RecoverStuck, IsCopy
  <2> QED BY <2>1, <2>2, <2>3, <2>4 DEF CopyStep, Descends
<1> QED BY <1>1, <1>2, <1>3

LEMMA LifeCycleCopies ==
    ASSUME AllPartsOK,
           \/ Start \/ StartDone \/ Stop \/ StopCancel \/ StopDone \/ Crash \/ Tick
           \/ \E i \in replaying : Replay(i)
    PROVE  CopyStep
<1>0. RowsOK /\ TimersOK /\ SendsOK /\ LoopsOK /\ "start" \in Actor
  BY ActorTypes DEF AllPartsOK
\* Everything a process holds in memory goes with it.
<1>1. \A j \in Instance : /\ queue' = <<>> => ~QueueCopy(j)'
                          /\ delayedTimers' = NoTimers => ~TimerCopy(j)'
                          /\ sending' = [a \in Actor |-> NoInst] => ~SendCopy(j)'
  BY RowTypes DEF QueueCopy, TimerCopy, SendCopy, NoTimers
<1>2. CASE Start
  <2>1. \A j \in Instance : LeakedCopy(j)' => LeakedCopy(j) \/ TimerCopy(j)
    BY <1>2 DEF Start, LeakedCopy, TimerCopy
  <2>2. \A c \in Due : Present(rows[c]) /\ rows[c].id = c
    BY <1>0 DEF Due, IsActive, RowsOK, Present, Status
  <2>3. \A j \in Instance : j \in replaying' => Present(rows[j.id]) /\ j = rows[j.id]
    BY <1>2, <2>2 DEF Start
  <2>4. \A j \in Instance : IsCopy(j)' => IsCopy(j) \/ (Present(rows[j.id]) /\ j = rows[j.id])
    BY <1>1, <1>2, <2>1, <2>3, CopiesKept DEF Start, IsCopy
  <2> QED BY <1>2, <2>4 DEF CopyStep, Reads, Start
<1>3. ASSUME NEW k \in replaying, Replay(k) PROVE CopyStep
  <2>1. PICK i \in Instance : i = k /\ IsCopy(i)
    BY <1>0 DEF LoopsOK, IsCopy
  <2>2. \A l \in Instance : /\ TimerCopy(l)' => TimerCopy(l) \/ l = i
                            /\ SendCopy(l)' => SendCopy(l) \/ l = i
    BY <1>0, <1>3, <2>1, ScheduleCopies DEF Replay
  <2>3. \A l \in Instance : IsCopy(l)' => IsCopy(l) \/ l = i
    BY <1>3, <2>2, CopiesKept DEF Replay, IsCopy
  <2> QED BY <1>3, <2>1, <2>3, KinTypes, 0 \in Nat DEF CopyStep, Descends, Replay
<1>4. CASE Crash
  <2>1. \A j \in Instance : ~IsCopy(j)'
    BY <1>1, <1>4, WorkerStates DEF Crash, IsCopy, LeakedCopy, WorkerHas, ClientCopy, NoCall
  <2> QED BY <1>4, <2>1 DEF CopyStep, Reads, Crash
<1>5. CASE StartDone \/ Stop \/ StopCancel \/ StopDone \/ Tick
  <2>1. \A j \in Instance : IsCopy(j)' => IsCopy(j)
    BY <1>1, <1>5, CopiesKept DEF StartDone, Stop, StopCancel, StopDone, Tick, IsCopy
  <2> QED BY <1>5, <2>1 DEF CopyStep, Reads, StartDone, Stop, StopCancel, StopDone, Tick
<1> QED BY <1>2, <1>3, <1>4, <1>5

LEMMA EveryStep ==
    ASSUME AllPartsOK, [Next]_vars
    PROVE  CopyStep
<1>1. CASE UNCHANGED vars
  <2>1. \A j \in Instance : IsCopy(j)' => IsCopy(j)
    BY <1>1, CopiesKept DEF vars, IsCopy
  <2> QED BY <1>1, <2>1 DEF vars, CopyStep, Reads
<1>2. CASE Next
  <2>1. \/ \E w \in Worker : Take(w) \/ Proceed(w)
        \/ \E k \in Client : Call(k) \/ Return(k)
        \/ \/ \E a \in Actor : Enqueue(a) \/ Abandon(a)
           \/ \E c \in Cmd : Fire(c)
           \/ \E t \in leaked : FireLeaked(t)
        \/ \/ \E c \in Cmd : Cleanup(c)
           \/ \E S \in SUBSET Cmd : FindStuck(S)
           \/ \E i \in recovering : RecoverStuck(i)
        \/ \/ Start \/ StartDone \/ Stop \/ StopCancel \/ StopDone \/ Crash \/ Tick
           \/ \E i \in replaying : Replay(i)
    BY <1>2 DEF Next
  <2> QED BY <2>1, TakeCopies, ProceedCopies, ChannelCopies, CallCopies, MaintenanceCopies,
      LifeCycleCopies DEF CopyStep
<1> QED BY <1>1, <1>2

\* A worker that changes its place, and does not fall idle, takes that step itself.
LEMMA MovedBy ==
    ASSUME AllPartsOK, [Next]_vars, NEW w \in Worker,
           worker'[w].pc # worker[w].pc, worker'[w].pc # "idle"
    PROVE  Take(w) \/ Proceed(w)
<1>0. WorkersOK /\ Idle.pc = "idle"
  BY WorkerStates DEF AllPartsOK
<1>1. PICK v \in Worker : Take(v) \/ Proceed(v)
  <2>1. worker' # worker
    OBVIOUS
  <2>2. ~Crash
    BY <1>0 DEF Crash
  <2> QED BY <2>1, <2>2 DEF Next, vars, Enqueue, Abandon, Fire, FireLeaked, Call, Add, Lookup, Return,
     Cancel, ReplayFromDLQ, PurgeDLQ, Cleanup, FindStuck, RecoverStuck, Start, Replay, StartDone,
     Stop, StopCancel, StopDone, Tick
<1>2. v = w
  <2>1. UNCHANGED worker \/ \E s : worker' = [worker EXCEPT ![v] = s]
    BY <1>1 DEF Take, Proceed, Drop, HandleExpired, NotReady, NotRegistered, Begin, WaitSlot, GotSlot,
       SlotRefused, ResultRepeat, ResultRetry, ResultDone, ErrorRetry, ErrorFinal, CallbackDone,
       Panic, SpawnChild, SkipChild, Complete, UpdateAndSchedule, RunHandler, NextChild
  <2> QED BY <1>0, <2>1 DEF WorkersOK
<1> QED BY <1>1, <1>2

\* Without a rate limiter no worker waits for a slot, and a handler is started by Begin only.
LEMMA BegunBy ==
    ASSUME AllPartsOK, [Next]_vars, NEW w \in Worker,
           worker'[w].pc \in {"acquire", "running"}, worker'[w].pc # worker[w].pc,
           worker[w].pc # "acquire"
    PROVE  WaitSlot(w) \/ (Begin(w) /\ UpdateOK(First) /\ worker'[w].inst.id = First.id)
<1>0. WorkersOK /\ Idle.pc = "idle"
  BY WorkerStates DEF AllPartsOK
<1>1. Take(w) \/ Proceed(w)
  BY MovedBy
<1>2. ASSUME Proceed(w) PROVE FALSE
  <2>1. ~GotSlot(w)
    BY DEF GotSlot
  <2>2. ASSUME \/ SlotRefused(w) \/ ResultRepeat(w) \/ ResultRetry(w) \/ ErrorRetry(w) \/ Panic(w)
               \/ Complete(w)
        PROVE  FALSE
    <3>1. worker' = [worker EXCEPT ![w] = Idle]
      BY <2>2 DEF SlotRefused, ResultRepeat, ResultRetry, ErrorRetry, Panic, Complete, UpdateAndSchedule
    <3> QED BY <1>0, <3>1 DEF WorkersOK
  <2>3. ASSUME NEW plan \in Plans, ResultDone(w, plan) \/ CallbackDone(w, plan) PROVE FALSE
    BY <1>0, <2>3 DEF ResultDone, CallbackDone, WorkersOK
  <2>4. ASSUME SkipChild(w) \/ \E c \in Cmd : SpawnChild(w, c) PROVE FALSE
    BY <1>0, <2>4 DEF SkipChild, SpawnChild, Spawning, NextChild, WorkersOK
  <2>5. ASSUME ErrorFinal(w) PROVE FALSE
    <3>1. \E i : worker' = [worker EXCEPT ![w] = Callback(i)] \/ worker' = [worker EXCEPT ![w] = Idle]
      BY <2>5 DEF ErrorFinal
    <3>2. \A i : Callback(i).pc \in {"idle", "callback"}
      BY <1>0 DEF Callback
    <3> QED BY <1>0, <3>1, <3>2 DEF WorkersOK
  <2> QED BY <1>2, <2>1, <2>2, <2>3, <2>4, <2>5 DEF Proceed
<1>3. ASSUME Take(w), ~WaitSlot(w) PROVE Begin(w) /\ UpdateOK(First) /\ worker'[w].inst.id = First.id
  <2>1. ASSUME HandleExpired(w) PROVE FALSE
    <3>1. worker' = worker \/ \E i : worker' = [worker EXCEPT ![w] = Callback(i)]
      BY <2>1 DEF HandleExpired
    <3>2. \A i : Callback(i).pc \in {"idle", "callback"}
      BY <1>0 DEF Callback
    <3> QED BY <1>0, <3>1, <3>2 DEF WorkersOK
  <2>2. Begin(w)
    BY <1>3, <2>1 DEF Take, Drop, NotReady, NotRegistered
  <2>3. First \in Instance
    BY <2>2 DEF Begin, Resolvable, Ready, AllPartsOK, QueueOK, First
  <2>4. UpdateOK(First)
    BY <1>0, <2>2 DEF Begin, RunHandler, WorkersOK
  <2>5. worker'[w].inst = Started(First)
    BY <1>0, <2>2, <2>4 DEF Begin, RunHandler, WorkersOK
  <2> QED BY <2>2, <2>3, <2>4, <2>5, TransitionTypes, 0 \in Nat
<1> QED BY <1>1, <1>2, <1>3

\* "If the command hasn't started by this time, Expired() is called instead": without
\* a rate limiter no handler starts after the deadline of its row, whatever copies of
\* the command timers, snapshots and API calls hold and however often it was replayed.
THEOREM NoStartPastDeadline ==
    ASSUME ~Limited PROVE Spec => DeadlineRespected
<1>1. Init => FaithInv
  <2> SUFFICES ASSUME Init PROVE FaithInv
    OBVIOUS
  <2>1. \A i \in Instance : ~IsCopy(i)
    BY RowTypes, WorkerStates DEF Init, IsCopy, QueueCopy, TimerCopy, LeakedCopy, WorkerHas, SendCopy,
       ClientCopy, NoCall
  <2> QED BY <2>1, InitType, WorkerStates DEF Init, FaithInv
<1>2. FaithInv /\ [Next]_vars => FaithInv'
  <2> SUFFICES ASSUME FaithInv, [Next]_vars PROVE FaithInv'
    OBVIOUS
  <2>1. AllPartsOK /\ AllPartsOK'
    BY NextType DEF FaithInv
  <2>2. \A i \in Instance : IsCopy(i)' => Faithful(i)'
    BY <2>1, EveryStep, StaysFaithful DEF FaithInv, AllPartsOK
  <2>3. ASSUME NEW w \in Worker PROVE worker'[w].pc # "acquire"
    BY <2>1, BegunBy DEF FaithInv, WaitSlot, Begin, RunHandler, AllPartsOK, WorkersOK
  <2> QED BY <2>1, <2>2, <2>3 DEF FaithInv
<1>3. FaithInv /\ [Next]_vars =>
        [\A w \in Worker, c \in Cmd : Starts(w, c) => now <= rows[c].deadlineAt]_vars
  <2> SUFFICES ASSUME FaithInv, [Next]_vars, NEW w \in Worker, NEW c \in Cmd, Starts(w, c)
               PROVE  now <= rows[c].deadlineAt
    OBVIOUS
  <2>1. Begin(w) /\ UpdateOK(First) /\ First.id = c
    BY BegunBy DEF FaithInv, Starts, WaitSlot
  <2>2. queue # <<>> /\ now <= First.deadlineAt
    BY <2>1 DEF Begin, Resolvable, Ready
  <2>3. First \in Instance /\ IsCopy(First)
    BY <2>2 DEF FaithInv, AllPartsOK, QueueOK, First, IsCopy, QueueCopy
  <2> QED BY <2>1, <2>2, <2>3 DEF FaithInv, Faithful, Kin, UpdateOK
<1> QED BY <1>1, <1>2, <1>3, PTL DEF Spec, DeadlineRespected
-----------------------------------------------------------------------------
(* One copy of each command.  When nothing hands out a second copy of a command   *)
(* that still has one, at most one of its copies waits or is being executed.  A    *)
(* second copy comes from the stuck-command loop (a handler that is only slow),    *)
(* from a Stop followed by a Start in the same process (timers that survive), from *)
(* two callers that replay the same row, and from a replay between the final write *)
(* and a panic of Recover or Expired.                                              *)
Undisturbed ==
    /\ "stuck" \notin Faults /\ "stop" \notin Faults
    /\ "replay" \in ApiOps => "callback panic" \notin Outcomes /\ \A k, l \in Client : k = l

Working == {"acquire", "running", "spawn"}

QueueOnce(c) == \A m, n \in DOMAIN queue : queue[m].id = c /\ queue[n].id = c => m = n
SendOnce(c) ==
    \A a, b \in Actor : sending[a] # NoInst /\ sending[a].id = c
                        /\ sending[b] # NoInst /\ sending[b].id = c => a = b
ReplayOnce(c) == \A i, j \in replaying : i.id = c /\ j.id = c => i = j
WorkOnce(c) ==
    \A v, w \in Worker : worker[v].pc \in Working /\ worker[v].inst.id = c
                         /\ worker[w].pc \in Working /\ worker[w].inst.id = c => v = w
Apart(c) ==
    /\ InQueue(c) => ~InTimer(c) /\ ~InSend(c) /\ ~InReplay(c) /\ ~AtWork(c)
    /\ InTimer(c) => ~InSend(c) /\ ~InReplay(c) /\ ~AtWork(c)
    /\ InSend(c) => ~InReplay(c) /\ ~AtWork(c)
    /\ InReplay(c) => ~AtWork(c)
Only(c) == QueueOnce(c) /\ SendOnce(c) /\ ReplayOnce(c) /\ WorkOnce(c) /\ Apart(c)

Open == {"PENDING", "STARTED", "REPEATING", "CANCELLED", "GONE"}
Sound(c) == Only(c) /\ (Held(c) => rows[c].status \in Open)

Settled(c) == rows[c].status \in {"FAILED", "DEAD_LETTER", "GONE"}
ReplaySettled ==
    \A k \in Client, c \in Cmd :
        client[k].op = "replay" /\ client[k].inst.id = c => "replay" \in ApiOps /\ Settled(c)
CallbackFree ==
    "callback panic" \in Outcomes =>
        \A w \in Worker, c \in Cmd : worker[w].pc = "callback" /\ worker[w].inst.id = c => ~Held(c)
PhaseCalm ==
    /\ phase \in {"down", "starting", "running"} /\ leaked = {} /\ recovering = {}
    /\ phase = "down" => /\ \A c \in Cmd : ~Held(c)
                         /\ \A w \in Worker : worker[w].pc = "idle"
                         /\ \A k \in Client : client[k].op = "none"
                         /\ \A a \in Actor : sending[a] = NoInst

OnceInv ==
    /\ AllPartsOK
    /\ \A i \in Instance : IsCopy(i) => Faithful(i)
    /\ PhaseCalm
    /\ \A c \in Cmd : Sound(c)
    /\ ReplaySettled
    /\ CallbackFree
-----------------------------------------------------------------------------
(* What the building blocks do to the places where command c may be. *)
QueueThins(c) == (InQueue(c)' => InQueue(c)) /\ (QueueOnce(c) => QueueOnce(c)')
TimerThins(c) == InTimer(c)' => InTimer(c)
SendThins(c) == (InSend(c)' => InSend(c)) /\ (SendOnce(c) => SendOnce(c)')
ReplayThins(c) == (InReplay(c)' => InReplay(c)) /\ (ReplayOnce(c) => ReplayOnce(c)')
WorkThins(c) == (AtWork(c)' => AtWork(c)) /\ (WorkOnce(c) => WorkOnce(c)')
Thins(c) == QueueThins(c) /\ TimerThins(c) /\ SendThins(c) /\ ReplayThins(c) /\ WorkThins(c)

LEMMA ThinKept ==
    ASSUME NEW c \in Cmd
    PROVE  /\ UNCHANGED queue => QueueThins(c)
           /\ UNCHANGED <<delayedTimers, leaked>> => TimerThins(c)
           /\ UNCHANGED sending => SendThins(c)
           /\ UNCHANGED replaying => ReplayThins(c)
           /\ UNCHANGED worker => WorkThins(c)
BY DEF QueueThins, TimerThins, SendThins, ReplayThins, WorkThins, InQueue, InTimer, InSend,
       InReplay, AtWork, QueueOnce, SendOnce, ReplayOnce, WorkOnce

LEMMA TailThins ==
    ASSUME QueueOK, queue # <<>>, queue' = Tail(queue), NEW c \in Cmd
    PROVE  QueueThins(c) /\ InQueue(First.id) /\ (QueueOnce(c) /\ First.id = c => ~InQueue(c)')
<1>1. Len(queue) \in Nat /\ Len(queue) > 0 /\ 1 \in DOMAIN queue /\ First = queue[1]
  BY DEF QueueOK, First
<1> DEFINE q == Tail(queue)
<1>2. DOMAIN q = 1..(Len(queue) - 1) /\ \A n \in DOMAIN q : q[n] = queue[n + 1]
  BY <1>1 DEF QueueOK
<1>3. \A n \in DOMAIN q : n + 1 \in DOMAIN queue /\ n + 1 # 1 /\ n \in Nat
  BY <1>1, <1>2 DEF QueueOK
<1>4. \A m, n \in DOMAIN q : m + 1 = n + 1 => m = n
  BY <1>3
<1>5. queue' = q
  OBVIOUS
<1> HIDE DEF q
<1>6. InQueue(c)' => InQueue(c)
  BY <1>2, <1>3, <1>5 DEF InQueue
<1>7. QueueOnce(c) => QueueOnce(c)'
  BY <1>2, <1>3, <1>4, <1>5 DEF QueueOnce
<1>8. QueueOnce(c) /\ First.id = c => ~InQueue(c)'
  BY <1>1, <1>2, <1>3, <1>5 DEF QueueOnce, InQueue
<1>9. InQueue(First.id)
  BY <1>1 DEF InQueue
<1> QED BY <1>6, <1>7, <1>8, <1>9 DEF QueueThins

LEMMA AppendThins ==
    ASSUME QueueOK, NEW i \in Instance, queue' = Append(queue, i), NEW c \in Cmd
    PROVE  /\ c # i.id => QueueThins(c)
           /\ c = i.id /\ ~InQueue(c) => QueueOnce(c)'
<1> DEFINE q == Append(queue, i)
<1>1. Len(queue) \in Nat /\ DOMAIN queue = 1..Len(queue) /\ DOMAIN q = 1..(Len(queue) + 1)
  BY DEF QueueOK
<1>2. \A n \in 1..Len(queue) : q[n] = queue[n]
  BY DEF QueueOK
<1>3. q[Len(queue) + 1] = i
  BY DEF QueueOK
<1>4. queue' = q
  OBVIOUS
<1> HIDE DEF q
<1>5. \A n \in DOMAIN q : (n \in DOMAIN queue /\ q[n] = queue[n]) \/ n = Len(queue) + 1
  BY <1>1, <1>2
<1>6. c # i.id => QueueThins(c)
  BY <1>3, <1>4, <1>5 DEF QueueThins, InQueue, QueueOnce
<1>7. c = i.id /\ ~InQueue(c) => QueueOnce(c)'
  BY <1>3, <1>4, <1>5 DEF InQueue, QueueOnce
<1> QED BY <1>6, <1>7

LEMMA ArmThins ==
    ASSUME TimersOK, NEW i \in Instance, Arm(i), leaked' = leaked, NEW c \in Cmd, c # i.id
    PROVE  TimerThins(c)
<1>1. delayedTimers'[c] = delayedTimers[c]
  BY DEF Arm, TimersOK
<1> QED BY <1>1 DEF TimerThins, InTimer

\* Actor a starts to send copy i, or is done with its send.
LEMMA SendingThins ==
    ASSUME SendsOK, NEW a \in Actor, NEW i \in Instance \cup {NoInst},
           sending' = [sending EXCEPT ![a] = i], NEW c \in Cmd
    PROVE  /\ i = NoInst \/ i.id # c => SendThins(c)
           /\ i # NoInst /\ i.id = c /\ ~InSend(c) => SendOnce(c)'
           /\ i = NoInst /\ SendOnce(c) /\ sending[a] # NoInst /\ sending[a].id = c => ~InSend(c)'
<1>1. sending'[a] = i /\ \A b \in Actor : b # a => sending'[b] = sending[b]
  BY DEF SendsOK
<1>2. i = NoInst \/ i.id # c => SendThins(c)
  BY <1>1 DEF SendThins, InSend, SendOnce
<1>3. i # NoInst /\ i.id = c /\ ~InSend(c) => SendOnce(c)'
  BY <1>1 DEF InSend, SendOnce
<1>4. i = NoInst /\ SendOnce(c) /\ sending[a] # NoInst /\ sending[a].id = c => ~InSend(c)'
  BY <1>1 DEF InSend, SendOnce
<1> QED BY <1>2, <1>3, <1>4

LEMMA ScheduleThins ==
    ASSUME TimersOK, SendsOK, NEW a \in Actor, NEW i \in Instance, Schedule(a, i), leaked' = leaked,
           NEW c \in Cmd
    PROVE  /\ c # i.id => TimerThins(c) /\ SendThins(c)
           /\ c = i.id /\ ~InTimer(c) /\ ~InSend(c) => SendOnce(c)' /\ (InTimer(c)' => ~InSend(c)')
<1>1. CASE i.readyAt <= now
  <2>1. sending' = [sending EXCEPT ![a] = i] /\ UNCHANGED <<delayedTimers, leaked>>
    BY <1>1 DEF Schedule
  <2>2. i # NoInst
    BY RowTypes
  <2> QED BY <2>1, <2>2, ThinKept, SendingThins DEF TimerThins
<1>2. CASE ~(i.readyAt <= now)
  <2>1. Arm(i) /\ UNCHANGED sending
    BY <1>2 DEF Schedule
  <2>2. ~InSend(c) => SendOnce(c)' /\ ~InSend(c)'
    BY <2>1 DEF InSend, SendOnce
  <2> QED BY <2>1, <2>2, ArmThins, ThinKept
<1> QED BY <1>1, <1>2

LEMMA MoveThins ==
    ASSUME WorkersOK, NEW w \in Worker, NEW s, worker' = [worker EXCEPT ![w] = s], NEW c \in Cmd
    PROVE  /\ \/ s.pc \notin Working
              \/ s.inst.id # c
              \/ worker[w].pc \in Working /\ worker[w].inst.id = c
              => WorkThins(c)
           /\ ~AtWork(c) => WorkOnce(c)'
           /\ WorkOnce(c) /\ worker[w].pc \in Working /\ worker[w].inst.id = c /\ s.pc \notin Working
              => ~AtWork(c)'
<1>1. worker'[w] = s /\ \A v \in Worker : v # w => worker'[v] = worker[v]
  BY DEF WorkersOK
<1> QED BY <1>1 DEF WorkThins, AtWork, WorkOnce, Working

LEMMA ReplayedThins ==
    ASSUME NEW i \in replaying, replaying' = replaying \ {i}, NEW c \in Cmd
    PROVE  ReplayThins(c) /\ (i.id = c /\ ReplayOnce(c) => ~InReplay(c)')
BY DEF ReplayThins, InReplay, ReplayOnce

(* What a step does to command c. *)
StepOf(c) ==
    /\ Sound(c)'
    /\ Settled(c) => Settled(c)'
    /\ Held(c)' => Held(c) \/ rows[c].status = "NONE"

LEMMA QuietStep ==
    ASSUME NEW c \in Cmd, Sound(c), Thins(c), rows'[c] = rows[c]
    PROVE  StepOf(c)
BY DEF StepOf, Sound, Only, Apart, Thins, QueueThins, TimerThins, SendThins, ReplayThins, WorkThins,
       Held, Settled

\* The one copy of c is let go of, with or without a write of its row.
LEMMA LetGoStep ==
    ASSUME NEW c \in Cmd, ~Held(c)', rows'[c] = rows[c] \/ ~Settled(c) \/ Settled(c)',
           Thins(c), Sound(c)
    PROVE  StepOf(c)
BY DEF StepOf, Sound, Only, Apart, Thins, QueueThins, TimerThins, SendThins, ReplayThins, WorkThins,
       Held, Settled

\* The one copy of c moves on, with or without a write of its row.
LEMMA PassStep ==
    ASSUME NEW c \in Cmd, Sound(c), Held(c), Only(c)',
           \/ rows'[c] = rows[c]
           \/ Present(rows[c]) /\ rows'[c].status \in Open
    PROVE  StepOf(c)
BY DEF StepOf, Sound, Settled, Open, Present, Status

\* A worker that enters a callback holds nothing any more.
CallbackEntry(w) ==
    \A c \in Cmd : worker'[w].pc = "callback" /\ worker'[w].inst.id = c =>
        (worker[w].pc = "callback" /\ worker[w].inst.id = c) \/ ~Held(c)'

\* The statuses the transitions leave.
LEMMA Statuses ==
    ASSUME NEW i \in Instance, NEW t \in Nat
    PROVE  /\ Started(i).status = "STARTED" /\ Unresolved(i).status = "FAILED"
           /\ Repeating(i, t).status = "REPEATING" /\ Retrying(i).status = "PENDING"
           /\ BackedOff(i, t).status = "PENDING" /\ Completed(i).status = "COMPLETED"
           /\ Panicked(i).status = "FAILED" /\ Expired(i).status = "EXPIRED"
           /\ Cancelled(i).status = "CANCELLED" /\ Replayed(i, t).status = "PENDING"
BY DEF Instance, Started, Unresolved, Repeating, Retrying, BackedOff, Completed, Panicked,
       Expired, Cancelled, Replayed

LEMMA RunHandlerOnce ==
    ASSUME AllPartsOK, NEW w \in Worker, NEW i \in Instance, RunHandler(w, i)
    PROVE  /\ worker'[w].pc # "callback"
           /\ \A c \in Cmd : c # i.id => rows'[c] = rows[c] /\ WorkThins(c)
           /\ ~AtWork(i.id) \/ (worker[w].pc \in Working /\ worker[w].inst.id = i.id /\ WorkOnce(i.id)) => WorkOnce(i.id)'
           /\ \/ rows'[i.id] = rows[i.id]
              \/ Present(rows[i.id]) /\ rows'[i.id].status \in Open
<1>0. i.id \in Cmd /\ RowsOK /\ WorkersOK
  BY DEF Instance, AllPartsOK
<1>1. CASE UpdateOK(i)
  <2> DEFINE s == [pc |-> "running", inst |-> Started(i), todo |-> <<>>]
  <2>1. Started(i) \in Instance /\ Started(i).id = i.id /\ Started(i).status = "STARTED"
    BY TransitionTypes, Statuses, 0 \in Nat
  <2>2. Put(Started(i)) /\ worker' = [worker EXCEPT ![w] = s] /\ s.pc = "running" /\ s.inst.id = i.id
    BY <1>1, <2>1 DEF RunHandler
  <2> HIDE DEF s
  <2>3. \A c \in Cmd : c # i.id => WorkThins(c)
    BY <1>0, <2>2, MoveThins
  <2>4. ~AtWork(i.id) \/ (worker[w].pc \in Working /\ worker[w].inst.id = i.id /\ WorkOnce(i.id)) => WorkOnce(i.id)'
    BY <1>0, <2>2, MoveThins DEF WorkThins
  <2>5. worker'[w].pc # "callback"
    BY <1>0, <2>2 DEF WorkersOK
  <2> QED BY <1>0, <1>1, <2>1, <2>2, <2>3, <2>4, <2>5, PutRow DEF UpdateOK, Open
<1>2. CASE ~UpdateOK(i)
  <2>1. UNCHANGED rows /\ worker' = [worker EXCEPT ![w] = Idle]
    BY <1>2 DEF RunHandler
  <2>2. Idle.pc \notin Working /\ Idle.pc # "callback"
    BY DEF Idle, Working
  <2>3. \A c \in Cmd : WorkThins(c)
    BY <1>0, <2>1, <2>2, MoveThins
  <2>4. ~AtWork(i.id) \/ WorkOnce(i.id) => WorkOnce(i.id)'
    BY <1>0, <2>1, <2>3, MoveThins DEF WorkThins
  <2>5. worker'[w].pc # "callback"
    BY <1>0, <2>1, <2>2 DEF WorkersOK
  <2> QED BY <2>1, <2>3, <2>4, <2>5
<1> QED BY <1>1, <1>2

LEMMA TakeOnce ==
    ASSUME AllPartsOK, \A c \in Cmd : Sound(c), NEW w \in Worker, Take(w)
    PROVE  CallbackEntry(w) /\ \A c \in Cmd : StepOf(c)
<1>0. /\ RowsOK /\ QueueOK /\ TimersOK /\ WorkersOK
  BY DEF AllPartsOK
<1>1. /\ queue # <<>> /\ queue' = Tail(queue) /\ worker[w].pc = "idle"
      /\ UNCHANGED <<leaked, sending, replaying>>
  BY DEF Take, Drop, HandleExpired, NotReady, NotRegistered, Begin, WaitSlot, Resolvable, Ready
<1>2. PICK f \in Instance : f = First /\ f.id \in Cmd
  <2>1. First \in Instance
    BY <1>0, <1>1 DEF QueueOK, First
  <2> QED BY <2>1 DEF Instance
<1>3. \A c \in Cmd : /\ QueueThins(c) /\ SendThins(c) /\ ReplayThins(c)
                     /\ UNCHANGED delayedTimers => TimerThins(c)
                     /\ UNCHANGED worker => WorkThins(c)
  BY <1>0, <1>1, ThinKept, TailThins
\* The head of the channel was the only copy of its command.
<1>4. /\ Sound(f.id) /\ Held(f.id) /\ ~InTimer(f.id) /\ ~AtWork(f.id)
      /\ ~InQueue(f.id)' /\ ~InSend(f.id)' /\ ~InReplay(f.id)'
  <2>1. Sound(f.id) /\ InQueue(f.id) /\ ~InQueue(f.id)'
    BY <1>0, <1>1, <1>2, TailThins DEF Sound, Only
  <2>2. ~InTimer(f.id) /\ ~AtWork(f.id) /\ ~InSend(f.id) /\ ~InReplay(f.id) /\ Held(f.id)
    BY <2>1 DEF Sound, Only, Apart, Held
  <2> QED BY <1>2, <1>3, <2>1, <2>2 DEF SendThins, ReplayThins
<1>5. QueueOnce(f.id)' /\ SendOnce(f.id)' /\ ReplayOnce(f.id)'
  BY <1>2, <1>3, <1>4 DEF Sound, Only, QueueThins, SendThins, ReplayThins
<1>6. ASSUME \A c \in Cmd : c # f.id => rows'[c] = rows[c] /\ TimerThins(c) /\ WorkThins(c)
      PROVE  \A c \in Cmd : c # f.id => StepOf(c)
  BY <1>3, <1>6, QuietStep DEF Thins
\* The copy is in no place any more.
<1>7. ASSUME TimerThins(f.id), WorkThins(f.id)
      PROVE  /\ ~Held(f.id)' 
             /\ rows'[f.id] = rows[f.id] \/ ~Settled(f.id) \/ Settled(f.id)' => StepOf(f.id)
  <2>1. ~Held(f.id)'
    BY <1>4, <1>7 DEF Held, TimerThins, WorkThins
  <2>2. Thins(f.id)
    BY <1>2, <1>3, <1>7 DEF Thins
  <2> QED BY <1>2, <1>4, <2>1, <2>2, LetGoStep
\* A row that is updated was not settled.
<1>8. UpdateOK(f) => ~Settled(f.id)
  BY <1>4 DEF UpdateOK, Sound, Settled, Present, Status, Open
<1>9. CASE Drop(w)
  <2>1. UNCHANGED <<rows, delayedTimers, worker>>
    BY <1>9 DEF Drop
  <2> QED BY <1>1, <1>2, <1>3, <1>6, <1>7, <2>1 DEF CallbackEntry
<1>10. CASE HandleExpired(w)
  <2>0. UNCHANGED delayedTimers
    BY <1>10 DEF HandleExpired
  <2>1. CASE UpdateOK(f)
    <3>1. Expired(f) \in Instance /\ Expired(f).id = f.id
      BY TransitionTypes, 0 \in Nat
    <3>2. PICK s : s = Callback(Expired(f))
      OBVIOUS
    <3>3. Put(Expired(f)) /\ worker' = [worker EXCEPT ![w] = s]
      BY <1>2, <1>10, <2>1, <3>2 DEF HandleExpired
    <3>4. s.pc \notin Working /\ (s.pc = "callback" => s.inst.id = f.id)
      BY <3>1, <3>2 DEF Callback, Idle, Working
    <3>5. \A c \in Cmd : WorkThins(c)
      BY <1>0, <3>3, <3>4, MoveThins
    <3>6. \A c \in Cmd : c # f.id => rows'[c] = rows[c]
      BY <1>0, <3>1, <3>3, PutRow
    <3>7. CallbackEntry(w)
      BY <1>0, <1>2, <1>3, <1>7, <2>0, <3>3, <3>4, <3>5 DEF CallbackEntry, WorkersOK
    <3> QED BY <1>2, <1>3, <1>6, <1>7, <1>8, <2>0, <2>1, <3>5, <3>6, <3>7
  <2>2. CASE ~UpdateOK(f)
    <3>1. UNCHANGED <<rows, worker>>
      BY <1>2, <1>10, <2>2 DEF HandleExpired
    <3> QED BY <1>1, <1>2, <1>3, <1>6, <1>7, <2>0, <3>1 DEF CallbackEntry
  <2> QED BY <2>1, <2>2
<1>11. CASE NotReady(w)
  <2>1. Arm(f) /\ UNCHANGED <<rows, worker>>
    BY <1>2, <1>11 DEF NotReady
  <2>2. \A c \in Cmd : c # f.id => TimerThins(c)
    BY <1>0, <1>1, <2>1, ArmThins
  <2>3. Only(f.id)'
    BY <1>2, <1>3, <1>4, <1>5, <2>1 DEF Sound, Only, Apart, WorkThins
  <2> QED BY <1>1, <1>2, <1>3, <1>4, <1>6, <2>1, <2>2, <2>3, PassStep DEF CallbackEntry
<1>12. CASE NotRegistered(w)
  <2>0. UNCHANGED <<delayedTimers, worker>>
    BY <1>12 DEF NotRegistered
  <2>1. CASE UpdateOK(f)
    <3>1. Unresolved(f) \in Instance /\ Unresolved(f).id = f.id
      BY TransitionTypes, 0 \in Nat
    <3>2. Put(Unresolved(f))
      BY <1>2, <1>12, <2>1 DEF NotRegistered
    <3>3. \A c \in Cmd : c # f.id => rows'[c] = rows[c]
      BY <1>0, <3>1, <3>2, PutRow
    <3> QED BY <1>1, <1>2, <1>3, <1>6, <1>7, <1>8, <2>0, <2>1, <3>3 DEF CallbackEntry
  <2>2. CASE ~UpdateOK(f)
    <3>1. UNCHANGED rows
      BY <1>2, <1>12, <2>2 DEF NotRegistered
    <3> QED BY <1>1, <1>2, <1>3, <1>6, <1>7, <2>0, <3>1 DEF CallbackEntry
  <2> QED BY <2>1, <2>2
<1>13. CASE Begin(w)
  <2>1. RunHandler(w, f) /\ UNCHANGED delayedTimers
    BY <1>2, <1>13 DEF Begin
  <2>2. WorkOnce(f.id)' /\ ~InTimer(f.id)'
    BY <1>2, <1>3, <1>4, <2>1, RunHandlerOnce DEF TimerThins
  <2>3. Only(f.id)'
    BY <1>4, <1>5, <2>2 DEF Only, Apart
  <2>4. StepOf(f.id)
    BY <1>2, <1>4, <2>1, <2>3, RunHandlerOnce, PassStep
  <2> QED BY <1>2, <1>3, <1>6, <2>1, <2>4, RunHandlerOnce DEF CallbackEntry
<1>14. CASE WaitSlot(w)
  <2> DEFINE s == [pc |-> "acquire", inst |-> f, todo |-> <<>>]
  <2>1. /\ UNCHANGED <<rows, delayedTimers>> /\ worker' = [worker EXCEPT ![w] = s]
        /\ s.pc = "acquire" /\ s.inst.id = f.id
    BY <1>2, <1>14 DEF WaitSlot
  <2> HIDE DEF s
  <2>2. WorkOnce(f.id)' /\ ~InTimer(f.id)' /\ \A c \in Cmd : c # f.id => WorkThins(c)
    BY <1>0, <1>2, <1>3, <1>4, <2>1, MoveThins DEF TimerThins
  <2>3. Only(f.id)'
    BY <1>4, <1>5, <2>2 DEF Only, Apart
  <2>4. worker'[w].pc # "callback"
    BY <1>0, <2>1 DEF WorkersOK
  <2> QED BY <1>2, <1>3, <1>4, <1>6, <2>1, <2>2, <2>3, <2>4, PassStep DEF CallbackEntry
<1> QED BY <1>9, <1>10, <1>11, <1>12, <1>13, <1>14 DEF Take

\* The worker that works on c is the only one to hold it.
LEMMA WorkedOn ==
    ASSUME NEW w \in Worker, worker[w].pc \in Working, NEW c \in Cmd, worker[w].inst.id = c, Sound(c)
    PROVE  /\ Held(c) /\ AtWork(c)
           /\ ~InQueue(c) /\ ~InTimer(c) /\ ~InSend(c) /\ ~InReplay(c)
           /\ Present(rows[c]) => ~Settled(c)
<1>1. AtWork(c)
  BY DEF AtWork, Working
<1> QED BY <1>1 DEF Sound, Only, Apart, Held, Settled, Present, Status, Open

\* A worker lets go of its command: at most its row is written.
LEMMA WorkerLetsGo ==
    ASSUME AllPartsOK, \A c \in Cmd : Sound(c), NEW w \in Worker, worker[w].pc \in Working,
           NEW i \in Instance, i.id = worker[w].inst.id,
           \/ Put(i) /\ Present(rows[i.id])
           \/ UNCHANGED rows,
           NEW s, s.pc \notin Working, s.pc = "callback" => s.inst.id = i.id,
           worker' = [worker EXCEPT ![w] = s],
           UNCHANGED <<queue, delayedTimers, leaked, sending, replaying>>
    PROVE  CallbackEntry(w) /\ \A c \in Cmd : StepOf(c)
<1>0. RowsOK /\ WorkersOK /\ i.id \in Cmd
  BY DEF AllPartsOK, Instance
<1>1. \A c \in Cmd : Thins(c)
  BY <1>0, ThinKept, MoveThins DEF Thins
<1>2. ~Held(i.id)'
  <2>1. /\ ~InQueue(i.id) /\ ~InTimer(i.id) /\ ~InSend(i.id) /\ ~InReplay(i.id)
        /\ WorkOnce(i.id)
    BY <1>0, WorkedOn DEF Sound, Only
  <2>2. ~AtWork(i.id)'
    BY <1>0, <2>1, MoveThins
  <2> QED BY <1>0, <1>1, <2>1, <2>2 DEF Held, Thins, QueueThins, TimerThins, SendThins, ReplayThins
<1>3. StepOf(i.id)
  BY <1>0, <1>1, <1>2, WorkedOn, LetGoStep
<1>4. \A c \in Cmd : c # i.id => StepOf(c)
  BY <1>0, <1>1, PutRow, QuietStep
<1>5. CallbackEntry(w)
  BY <1>0, <1>2 DEF CallbackEntry, WorkersOK
<1> QED BY <1>3, <1>4, <1>5

LEMMA UpdateAndScheduleOnce ==
    ASSUME AllPartsOK, \A c \in Cmd : Sound(c), NEW w \in Worker, Running(w),
           NEW i \in Instance, i.id = worker[w].inst.id, i.status \in Open, UpdateAndSchedule(w, i),
           UNCHANGED <<queue, leaked, replaying>>
    PROVE  CallbackEntry(w) /\ \A c \in Cmd : StepOf(c)
<1>0. /\ RowsOK /\ WorkersOK /\ TimersOK /\ SendsOK /\ i.id \in Cmd /\ w \in Actor
      /\ worker[w].pc \in Working /\ worker' = [worker EXCEPT ![w] = Idle]
      /\ Idle.pc \notin Working /\ Idle.pc # "callback"
  BY ActorTypes DEF AllPartsOK, Instance, Running, Working, UpdateAndSchedule, Idle
<1>1. CASE UpdateOK(i)
  <2>1. Put(i) /\ Schedule(w, i) /\ Present(rows[i.id])
    BY <1>1 DEF UpdateAndSchedule, UpdateOK
  <2>2. ASSUME NEW c \in Cmd, c # i.id PROVE StepOf(c)
    <3>1. Thins(c)
      BY <1>0, <2>1, <2>2, ThinKept, MoveThins, ScheduleThins DEF Thins
    <3> QED BY <1>0, <2>1, <2>2, <3>1, PutRow, QuietStep
  <2>3. /\ Sound(i.id) /\ Held(i.id) /\ WorkOnce(i.id)
        /\ ~InQueue(i.id) /\ ~InTimer(i.id) /\ ~InSend(i.id) /\ ~InReplay(i.id)
    BY <1>0, WorkedOn DEF Sound, Only
  <2>4. ~InQueue(i.id)' /\ ~InReplay(i.id)' /\ ~AtWork(i.id)'
    BY <1>0, <2>3, ThinKept, MoveThins DEF QueueThins, ReplayThins
  <2>5. QueueOnce(i.id)' /\ ReplayOnce(i.id)' /\ WorkOnce(i.id)'
    BY <1>0, <2>3, ThinKept, MoveThins DEF QueueThins, ReplayThins, WorkThins, Sound, Only
  <2>6. SendOnce(i.id)' /\ (InTimer(i.id)' => ~InSend(i.id)')
    BY <1>0, <2>1, <2>3, ScheduleThins
  <2>7. Only(i.id)'
    BY <2>4, <2>5, <2>6 DEF Only, Apart
  <2>8. rows'[i.id].status \in Open
    BY <1>0, <2>1, PutRow
  <2>9. StepOf(i.id)
    BY <1>0, <2>1, <2>3, <2>7, <2>8, PassStep
  <2>10. CallbackEntry(w)
    BY <1>0 DEF CallbackEntry, WorkersOK
  <2> QED BY <2>2, <2>9, <2>10
<1>2. CASE ~UpdateOK(i)
  <2>1. UNCHANGED <<rows, delayedTimers, sending>>
    BY <1>2 DEF UpdateAndSchedule
  <2> QED BY <1>0, <2>1, WorkerLetsGo
<1> QED BY <1>1, <1>2

\* A command that has no copy gets one: it is created or replayed.
LEMMA FirstCopy ==
    ASSUME AllPartsOK, \A c \in Cmd : Sound(c), NEW a \in Actor, NEW i \in Instance, Put(i), Schedule(a, i),
           ~Held(i.id), i.status \in Open, \A c \in Cmd : WorkThins(c),
           UNCHANGED <<queue, leaked, replaying>>
    PROVE  Sound(i.id)' /\ \A c \in Cmd : c # i.id => StepOf(c)
<1>0. RowsOK /\ TimersOK /\ SendsOK /\ i.id \in Cmd
  BY DEF AllPartsOK, Instance
<1>1. ASSUME NEW c \in Cmd, c # i.id PROVE StepOf(c)
  <2>1. Thins(c)
    BY <1>0, <1>1, ThinKept, ScheduleThins DEF Thins
  <2> QED BY <1>0, <1>1, <2>1, PutRow, QuietStep
<1>2. ~InQueue(i.id)' /\ ~InReplay(i.id)' /\ ~AtWork(i.id)'
  BY <1>0, ThinKept DEF Held, QueueThins, ReplayThins, WorkThins
<1>3. QueueOnce(i.id)' /\ ReplayOnce(i.id)' /\ WorkOnce(i.id)'
  BY <1>0, ThinKept DEF QueueThins, ReplayThins, WorkThins, Sound, Only
<1>4. SendOnce(i.id)' /\ (InTimer(i.id)' => ~InSend(i.id)')
  BY <1>0, ScheduleThins DEF Held
<1>5. Only(i.id)'
  BY <1>2, <1>3, <1>4 DEF Only, Apart
<1> QED BY <1>0, <1>1, <1>5, PutRow DEF Sound

\* A worker keeps what it has, and no row is written.
LEMMA WorkerKeeps ==
    ASSUME AllPartsOK, \A c \in Cmd : Sound(c), NEW w \in Worker, NEW s,
           \/ s.pc \notin Working
           \/ worker[w].pc \in Working /\ s.inst = worker[w].inst,
           worker' = [worker EXCEPT ![w] = s],
           UNCHANGED <<rows, queue, delayedTimers, leaked, sending, replaying>>
    PROVE  \A c \in Cmd : StepOf(c)
<1>1. \A c \in Cmd : WorkThins(c)
  BY MoveThins DEF AllPartsOK
<1>2. \A c \in Cmd : Thins(c)
  BY <1>1, ThinKept DEF Thins
<1> QED BY <1>2, QuietStep

\* A worker that goes on to its next child, or ends, keeps its copy.
LEMMA NextChildKeeps ==
    ASSUME WorkersOK, NEW w \in Worker, Spawning(w), NextChild(w)
    PROVE  \E s : /\ worker' = [worker EXCEPT ![w] = s] /\ s.pc # "callback"
                  /\ s.pc \notin Working \/ (worker[w].pc \in Working /\ s.inst = worker[w].inst)
<1> DEFINE s == IF worker[w].pc = "followup" /\ Len(worker[w].todo) = 1 THEN Idle
                ELSE [pc |-> worker[w].pc, inst |-> worker[w].inst, todo |-> Tail(worker[w].todo)]
<1>1. worker' = [worker EXCEPT ![w] = s]
  BY DEF NextChild, WorkersOK
<1>2. Idle.pc = "idle"
  BY WorkerStates
<1>3. s.pc # "callback" /\ (s.pc \notin Working \/ (worker[w].pc \in Working /\ s.inst = worker[w].inst))
  BY <1>2 DEF Spawning, Working
<1> HIDE DEF s
<1> QED BY <1>1, <1>3

LEMMA ProceedOnce ==
    ASSUME AllPartsOK, \A c \in Cmd : Sound(c), ~CtxDone, CallbackFree, NEW w \in Worker, Proceed(w)
    PROVE  CallbackEntry(w) /\ \A c \in Cmd : StepOf(c)
<1>0. /\ RowsOK /\ WorkersOK /\ TimersOK /\ SendsOK /\ now \in Nat /\ w \in Actor
      /\ worker[w].pc # "idle" /\ UNCHANGED <<queue, leaked, replaying>>
      /\ Idle.pc \notin Working /\ Idle.pc # "callback"
  BY ActorTypes DEF AllPartsOK, RestOK, Proceed, GotSlot, SlotRefused, ResultRepeat, ResultRetry,
     ResultDone, ErrorRetry, ErrorFinal, CallbackDone, Panic, SpawnChild, SkipChild, Complete,
     Running, Spawning, Idle, Working
<1>1. PICK i \in Instance : i = worker[w].inst /\ i.id \in Cmd
  <2>1. worker[w].inst \in Instance
    BY <1>0, WorkerCopy
  <2> QED BY <2>1 DEF Instance
<1>2. worker[w].todo \in Seq(Nat)
  BY <1>0, WorkerCopy
<1>3. Running(w) => worker[w].pc \in Working
  BY DEF Running, Working
<1>4. CASE GotSlot(w)
  <2>1. RunHandler(w, i) /\ UNCHANGED <<delayedTimers, sending>> /\ worker[w].pc \in Working
    BY <1>1, <1>4 DEF GotSlot, Working
  <2>2. ASSUME NEW c \in Cmd, c # i.id PROVE StepOf(c)
    <3>1. Thins(c) /\ rows'[c] = rows[c]
      BY <1>0, <2>1, <2>2, RunHandlerOnce, ThinKept DEF Thins
    <3> QED BY <3>1, QuietStep
  <2>3. /\ Sound(i.id) /\ Held(i.id) /\ WorkOnce(i.id)
        /\ ~InQueue(i.id) /\ ~InTimer(i.id) /\ ~InSend(i.id) /\ ~InReplay(i.id)
    BY <1>1, <2>1, WorkedOn DEF Sound, Only
  <2>4. WorkOnce(i.id)'
    BY <1>1, <2>1, <2>3, RunHandlerOnce
  <2>5. Only(i.id)'
    BY <1>0, <1>1, <2>1, <2>3, <2>4, ThinKept
       DEF QueueThins, TimerThins, SendThins, ReplayThins, Sound, Only, Apart
  <2>6. StepOf(i.id)
    BY <1>1, <2>1, <2>3, <2>5, RunHandlerOnce, PassStep
  <2> QED BY <2>1, <2>2, <2>6, RunHandlerOnce DEF CallbackEntry
<1>5. CASE SlotRefused(w)
  BY <1>5 DEF SlotRefused
<1>6. CASE ResultRepeat(w)
  <2>1. now + Period \in Nat
    BY <1>0, ExecutorAssumption
  <2>2. PICK j \in Instance : j = Repeating(i, now + Period) /\ j.id = i.id /\ j.status \in Open
    <3>1. Repeating(i, now + Period) \in Instance /\ Repeating(i, now + Period).id = i.id
      BY <2>1, TransitionTypes
    <3>2. Repeating(i, now + Period).status \in Open
      BY <2>1, Statuses DEF Open
    <3> QED BY <3>1, <3>2
  <2> QED BY <1>0, <1>1, <1>6, <2>2, UpdateAndScheduleOnce DEF ResultRepeat
<1>7. CASE ResultRetry(w)
  <2>1. PICK j \in Instance : j = Retrying(i) /\ j.id = i.id /\ j.status \in Open
    BY <1>0, <1>1, <1>7, ChargedTypes, Statuses DEF ResultRetry, Open
  <2> QED BY <1>0, <1>1, <1>7, <2>1, UpdateAndScheduleOnce DEF ResultRetry
<1>8. ASSUME NEW plan \in Plans, ResultDone(w, plan) PROVE CallbackEntry(w) /\ \A c \in Cmd : StepOf(c)
  <2> DEFINE s == [pc |-> "spawn", inst |-> i, todo |-> plan]
  <2>1. worker' = [worker EXCEPT ![w] = s] /\ s.pc = "spawn" /\ s.inst = i
    BY <1>1, <1>8 DEF ResultDone
  <2>2. UNCHANGED <<rows, delayedTimers, sending>> /\ worker[w].pc \in Working
    BY <1>3, <1>8 DEF ResultDone
  <2> HIDE DEF s
  <2>3. CallbackEntry(w)
    BY <1>0, <2>1 DEF CallbackEntry, WorkersOK
  <2> QED BY <1>0, <1>1, <2>1, <2>2, <2>3, WorkerKeeps
<1>9. CASE ErrorRetry(w)
  <2>1. now + Backoff \in Nat
    BY <1>0, ExecutorAssumption
  <2>2. PICK j \in Instance : j = BackedOff(i, now + Backoff) /\ j.id = i.id /\ j.status \in Open
    BY <1>1, <1>9, <2>1, ChargedTypes, Statuses DEF ErrorRetry, Open
  <2> QED BY <1>0, <1>1, <1>9, <2>2, UpdateAndScheduleOnce DEF ErrorRetry
<1>10. CASE ErrorFinal(w)
  <2>1. PICK j \in Instance : j = Failed(i, DeadLetter) /\ j.id = i.id
    BY <1>0, TransitionTypes, ExecutorAssumption
  <2>2. UNCHANGED <<delayedTimers, sending>> /\ worker[w].pc \in Working
    BY <1>3, <1>10 DEF ErrorFinal
  <2>3. CASE UpdateOK(j)
    <3>1. PICK s : s = Callback(j)
      OBVIOUS
    <3>2. Put(j) /\ Present(rows[j.id]) /\ worker' = [worker EXCEPT ![w] = s]
      BY <1>1, <1>10, <2>1, <2>3, <3>1 DEF ErrorFinal, UpdateOK
    <3>3. s.pc \notin Working /\ (s.pc = "callback" => s.inst = j)
      BY <1>0, <3>1 DEF Callback, Working
    <3> QED BY <1>0, <1>1, <2>1, <2>2, <3>2, <3>3, WorkerLetsGo
  <2>4. CASE ~UpdateOK(j)
    <3>1. UNCHANGED rows /\ worker' = [worker EXCEPT ![w] = Idle]
      BY <1>1, <1>10, <2>1, <2>4 DEF ErrorFinal
    <3> QED BY <1>0, <1>1, <2>1, <2>2, <3>1, WorkerLetsGo
  <2> QED BY <2>3, <2>4
<1>11. ASSUME NEW plan \in Plans, CallbackDone(w, plan) PROVE CallbackEntry(w) /\ \A c \in Cmd : StepOf(c)
  <2> DEFINE s == IF plan = <<>> THEN Idle ELSE [pc |-> "followup", inst |-> i, todo |-> plan]
  <2>1. /\ worker' = [worker EXCEPT ![w] = s] /\ s.pc \notin Working /\ s.pc # "callback"
        /\ UNCHANGED <<rows, delayedTimers, sending>>
    BY <1>0, <1>1, <1>11 DEF CallbackDone, Working
  <2> HIDE DEF s
  <2>2. CallbackEntry(w)
    BY <1>0, <2>1 DEF CallbackEntry, WorkersOK
  <2> QED BY <1>0, <2>1, <2>2, WorkerKeeps
<1>12. CASE Panic(w)
  <2>1. PICK j \in Instance : j = Panicked(i) /\ j.id = i.id /\ j.status = "FAILED"
    <3>1. Panicked(i) \in Instance /\ Panicked(i).id = i.id
      BY TransitionTypes, 0 \in Nat
    <3>2. Panicked(i).status = "FAILED"
      BY Statuses, 0 \in Nat
    <3> QED BY <3>1, <3>2
  <2>2. /\ UNCHANGED <<delayedTimers, sending>> /\ worker' = [worker EXCEPT ![w] = Idle]
        /\ (Put(j) /\ Present(rows[j.id])) \/ UNCHANGED rows
    <3>1. CASE Present(rows[i.id])
      BY <1>1, <1>12, <2>1, <3>1 DEF Panic
    <3>2. CASE ~Present(rows[i.id])
      BY <1>1, <1>12, <2>1, <3>2 DEF Panic
    <3> QED BY <3>1, <3>2
  <2>3. CASE Running(w)
    BY <1>0, <1>1, <1>3, <2>1, <2>2, <2>3, WorkerLetsGo
  <2>4. CASE ~Running(w)
    <3>1. worker[w].pc = "callback" /\ ~Held(i.id)
      BY <1>1, <1>12, <2>4 DEF Panic, CallbackFree
    <3>2. \A c \in Cmd : Thins(c)
      BY <1>0, <2>2, MoveThins, ThinKept DEF Thins
    <3>3. ~Held(i.id)'
      BY <1>1, <3>1, <3>2 DEF Thins, QueueThins, TimerThins, SendThins, ReplayThins, WorkThins, Held
    <3>4. /\ rows'[i.id] = rows[i.id] \/ Settled(i.id)'
          /\ \A c \in Cmd : c # i.id => rows'[c] = rows[c]
      BY <1>0, <1>1, <2>1, <2>2, PutRow DEF Settled
    <3>5. StepOf(i.id) /\ \A c \in Cmd : c # i.id => StepOf(c)
      BY <1>1, <3>2, <3>3, <3>4, LetGoStep, QuietStep
    <3>6. CallbackEntry(w)
      BY <1>0, <2>2 DEF CallbackEntry, WorkersOK
    <3> QED BY <3>5, <3>6
  <2> QED BY <2>3, <2>4
\* The worker goes on to its next child.
<1>13. Spawning(w) /\ NextChild(w) =>
           \E s : /\ worker' = [worker EXCEPT ![w] = s] /\ s.pc # "callback"
                  /\ s.pc \notin Working \/ (worker[w].pc \in Working /\ s.inst = worker[w].inst)
  BY <1>0, NextChildKeeps
<1>14. ASSUME NEW c \in Cmd, SpawnChild(w, c) PROVE CallbackEntry(w) /\ \A d \in Cmd : StepOf(d)
  <2>1. Head(worker[w].todo) \in Nat /\ rows[c].status = "NONE"
    BY <1>2, <1>14 DEF SpawnChild, Spawning, Fresh
  <2>2. Retries \in Nat /\ NoDeadline \in Nat /\ now + Head(worker[w].todo) \in Nat
    BY <1>0, <2>1, ExecutorAssumption DEF NoDeadline
  <2>3. PICK j \in Instance : j = NewInstance(c, Retries, now + Head(worker[w].todo), NoDeadline) /\ j.id = c
    BY <2>2, NewInstanceType
  <2>4. Put(j) /\ Schedule(w, j) /\ j.status \in Open
    BY <1>14, <2>3 DEF SpawnChild, NewInstance, Open
  <2>5. PICK s : /\ worker' = [worker EXCEPT ![w] = s] /\ s.pc # "callback"
                 /\ s.pc \notin Working \/ (worker[w].pc \in Working /\ s.inst = worker[w].inst)
    BY <1>13, <1>14 DEF SpawnChild
  <2>6. \A d \in Cmd : WorkThins(d)
    BY <1>0, <2>5, MoveThins
  <2>7. ~Held(j.id)
    BY <2>1, <2>3 DEF Sound, Open
  <2>8. Sound(j.id)' /\ \A d \in Cmd : d # j.id => StepOf(d)
    BY <1>0, <2>4, <2>6, <2>7, FirstCopy
  <2>9. StepOf(j.id)
    BY <2>1, <2>3, <2>8 DEF StepOf, Settled
  <2>10. CallbackEntry(w)
    BY <1>0, <2>5 DEF CallbackEntry, WorkersOK
  <2> QED BY <2>8, <2>9, <2>10
<1>15. CASE SkipChild(w)
  <2>1. PICK s : /\ worker' = [worker EXCEPT ![w] = s] /\ s.pc # "callback"
                 /\ s.pc \notin Working \/ (worker[w].pc \in Working /\ s.inst = worker[w].inst)
    BY <1>13, <1>15 DEF SkipChild
  <2>2. CallbackEntry(w)
    BY <1>0, <2>1 DEF CallbackEntry, WorkersOK
  <2>3. UNCHANGED <<rows, delayedTimers, sending>>
    BY <1>15 DEF SkipChild
  <2> QED BY <1>0, <2>1, <2>2, <2>3, WorkerKeeps
<1>16. CASE Complete(w)
  <2>1. PICK j \in Instance : j = Completed(i) /\ j.id = i.id
    BY <1>0, TransitionTypes
  <2>2. /\ UNCHANGED <<delayedTimers, sending>> /\ worker' = [worker EXCEPT ![w] = Idle]
        /\ (Put(j) /\ Present(rows[j.id])) \/ UNCHANGED rows
    <3>1. CASE UpdateOK(i)
      BY <1>1, <1>16, <2>1, <3>1 DEF Complete, UpdateOK
    <3>2. CASE ~UpdateOK(i)
      BY <1>1, <1>16, <2>1, <3>2 DEF Complete
    <3> QED BY <3>1, <3>2
  <2>3. worker[w].pc \in Working
    BY <1>16 DEF Complete, Working
  <2> QED BY <1>0, <1>1, <2>1, <2>2, <2>3, WorkerLetsGo
<1> QED
  BY <1>4, <1>5, <1>6, <1>7, <1>8, <1>9, <1>10, <1>11, <1>12, <1>14, <1>15, <1>16 DEF Proceed

LEMMA ChannelOnce ==
    ASSUME AllPartsOK, PhaseCalm, \A c \in Cmd : Sound(c),
           \/ \E a \in Actor : Enqueue(a) \/ Abandon(a)
           \/ \E c \in Cmd : Fire(c)
           \/ \E t \in leaked : FireLeaked(t)
    PROVE  \A c \in Cmd : StepOf(c)
<1>0. QueueOK /\ TimersOK /\ SendsOK /\ leaked = {} /\ ~CtxDone /\ ~Stopping
  BY DEF AllPartsOK, PhaseCalm, CtxDone, Stopping
<1>1. ASSUME NEW a \in Actor, Enqueue(a) PROVE \A c \in Cmd : StepOf(c)
  <2>1. PICK i \in Instance : i = sending[a] /\ i.id \in Cmd /\ i # NoInst
    <3>1. sending[a] \in Instance
      BY <1>0, <1>1 DEF Enqueue, SendsOK
    <3> QED BY <3>1, RowTypes DEF Instance
  <2>2. /\ queue' = Append(queue, i) /\ sending' = [sending EXCEPT ![a] = NoInst]
        /\ UNCHANGED <<rows, delayedTimers, leaked, worker, replaying>>
    BY <1>1, <2>1 DEF Enqueue
  <2>3. \A c \in Cmd : SendThins(c) /\ (c # i.id => QueueThins(c))
    BY <1>0, <2>2, SendingThins, AppendThins
  <2>4. \A c \in Cmd : c # i.id => Thins(c)
    BY <2>2, <2>3, ThinKept DEF Thins
  <2>5. /\ Sound(i.id) /\ InSend(i.id) /\ ~InQueue(i.id) /\ ~InTimer(i.id) /\ ~InReplay(i.id) /\ ~AtWork(i.id)
    <3>1. Sound(i.id) /\ InSend(i.id)
      BY <2>1 DEF InSend
    <3> QED BY <3>1 DEF Sound, Only, Apart
  <2>6. QueueOnce(i.id)' /\ ~InSend(i.id)'
    BY <1>0, <2>1, <2>2, <2>5, SendingThins, AppendThins DEF Sound, Only
  <2>7. Only(i.id)'
    BY <2>1, <2>2, <2>3, <2>5, <2>6, ThinKept
       DEF Sound, Only, Apart, TimerThins, SendThins, ReplayThins, WorkThins
  <2>8. StepOf(i.id)
    BY <2>1, <2>2, <2>5, <2>7, PassStep DEF Held
  <2> QED BY <2>2, <2>4, <2>8, QuietStep
<1>2. ASSUME NEW d \in Cmd, Fire(d) PROVE \A c \in Cmd : StepOf(c)
  <2>1. PICK i \in Instance : i = delayedTimers[d].inst /\ i.id = d /\ i # NoInst
    <3>1. delayedTimers[d] \in Timer /\ delayedTimers[d].inst.id = d
      BY <1>0, <1>2 DEF Fire, TimersOK
    <3> QED BY <3>1, RowTypes DEF Timer
  <2>2. /\ sending' = [sending EXCEPT ![d] = i] /\ d \in Actor
        /\ delayedTimers' = [delayedTimers EXCEPT ![d] = NoInst]
        /\ UNCHANGED <<rows, queue, leaked, worker, replaying>>
    BY <1>0, <1>2, <2>1, ActorTypes DEF Fire, Deliver
  <2>3. ~InTimer(d)' /\ \A c \in Cmd : TimerThins(c) /\ (c # d => SendThins(c))
    BY <1>0, <2>1, <2>2, SendingThins DEF TimerThins, InTimer, TimersOK
  <2>4. \A c \in Cmd : c # d => Thins(c)
    BY <2>2, <2>3, ThinKept DEF Thins
  <2>5. /\ Sound(d) /\ InTimer(d) /\ ~InQueue(d) /\ ~InSend(d) /\ ~InReplay(d) /\ ~AtWork(d)
    <3>1. Sound(d) /\ InTimer(d)
      BY <1>2 DEF InTimer, Fire
    <3> QED BY <3>1 DEF Sound, Only, Apart
  <2>6. SendOnce(d)'
    BY <1>0, <2>1, <2>2, <2>5, SendingThins
  <2>7. Only(d)'
    BY <2>2, <2>3, <2>5, <2>6, ThinKept DEF Sound, Only, Apart, QueueThins, ReplayThins, WorkThins
  <2>8. StepOf(d)
    BY <2>2, <2>5, <2>7, PassStep DEF Held
  <2> QED BY <2>2, <2>4, <2>8, QuietStep
<1> QED BY <1>0, <1>1, <1>2 DEF Abandon

\* A deleted row is open to copies that are still around, and settled.
LEMMA DeleteOnce ==
    ASSUME RowsOK, \A c \in Cmd : Sound(c), NEW d \in Cmd, Delete(d),
           UNCHANGED <<queue, delayedTimers, leaked, worker, sending, replaying>>
    PROVE  \A c \in Cmd : StepOf(c)
<1>1. \A c \in Cmd : Thins(c)
  BY ThinKept DEF Thins
<1>2. \A c \in Cmd : c # d => rows'[c] = rows[c]
  BY DEF Delete, RowsOK
<1>3. rows'[d] = rows[d] \/ rows'[d].status = "GONE"
  BY DEF Delete, RowsOK, Blank
<1>4. StepOf(d)
  <2>1. Only(d)' /\ (Held(d)' => Held(d)) /\ Sound(d)
    BY <1>1 DEF Sound, Only, Apart, Held, Thins, QueueThins, TimerThins, SendThins, ReplayThins, WorkThins
  <2> QED BY <1>3, <2>1 DEF StepOf, Sound, Settled, Open
<1> QED BY <1>1, <1>2, <1>4, QuietStep

\* What OnceInv needs beyond Sound, for a step that leaves the API calls alone.
LEMMA StepRest ==
    ASSUME OnceInv, AllPartsOK', \A c \in Cmd : StepOf(c), client' = client,
           \A w \in Worker : worker'[w] = worker[w] \/ CallbackEntry(w)
    PROVE  (\A c \in Cmd : Sound(c)') /\ ReplaySettled' /\ CallbackFree'
<1>1. \A c \in Cmd : Sound(c)'
  BY DEF StepOf
<1>2. ReplaySettled'
  BY DEF OnceInv, ReplaySettled, StepOf
<1>3. ASSUME "callback panic" \in Outcomes, NEW w \in Worker, NEW c \in Cmd,
             worker'[w].pc = "callback", worker'[w].inst.id = c
      PROVE  ~Held(c)'
  <2>1. CASE worker[w].pc = "callback" /\ worker[w].inst.id = c
    <3>1. ~Held(c)
      BY <1>3, <2>1 DEF OnceInv, CallbackFree
    <3>2. worker[w].inst \in Instance /\ IsCopy(worker[w].inst)
      BY <2>1, WorkerCopy DEF OnceInv, AllPartsOK, IsCopy, WorkerHas
    <3>3. rows[c].status # "NONE"
      BY <2>1, <3>2 DEF OnceInv, Faithful
    <3> QED BY <3>1, <3>3 DEF StepOf
  <2>2. CASE ~(worker[w].pc = "callback" /\ worker[w].inst.id = c)
    BY <1>3, <2>2 DEF CallbackEntry
  <2> QED BY <2>1, <2>2
<1> QED BY <1>1, <1>2, <1>3 DEF CallbackFree

LEMMA CallOnce ==
    ASSUME Undisturbed, OnceInv, AllPartsOK', NEW k \in Client, Call(k) \/ Return(k)
    PROVE  (\A c \in Cmd : Sound(c)') /\ ReplaySettled' /\ CallbackFree'
<1>0. /\ AllPartsOK /\ RowsOK /\ ClientsOK /\ now \in Nat /\ Retries \in Nat /\ NoDeadline \in Nat /\ k \in Actor
      /\ UNCHANGED <<queue, leaked, worker, replaying>>
      /\ \A c \in Cmd : Sound(c)
  BY ExecutorAssumption, ActorTypes DEF OnceInv, AllPartsOK, RestOK, NoDeadline, Call, Return, Add,
     Lookup, Cancel, ReplayFromDLQ, PurgeDLQ
<1>1. \A c \in Cmd : WorkThins(c)
  BY <1>0, ThinKept
<1>2. ASSUME NEW c \in Cmd, NEW delay \in Delays, NEW deadline \in Deadlines \cup {NoDeadline},
             Add(k, c, delay, deadline)
      PROVE  (\A d \in Cmd : Sound(d)') /\ ReplaySettled' /\ CallbackFree'
  <2>1. now + delay \in Nat /\ now + deadline \in Nat
    BY <1>0, ExecutorAssumption
  <2>2. PICK i \in Instance : i = NewInstance(c, Retries, now + delay, now + deadline) /\ i.id = c
    BY <1>0, <2>1, NewInstanceType
  <2>3. Put(i) /\ Schedule(k, i) /\ rows[i.id].status = "NONE" /\ UNCHANGED client /\ i.status \in Open
    BY <1>2, <2>2 DEF Add, Fresh, NewInstance, Open
  <2>4. ~Held(i.id)
    BY <1>0, <2>2, <2>3 DEF Sound, Open
  <2>5. Sound(i.id)' /\ \A d \in Cmd : d # i.id => StepOf(d)
    BY <1>0, <1>1, <2>3, <2>4, FirstCopy
  <2>6. StepOf(i.id)
    BY <2>3, <2>5 DEF StepOf, Settled
  <2> QED BY <1>0, <2>3, <2>5, <2>6, StepRest
\* Only Lookup starts a call, and a caller that replays is the only caller.
<1>3. \A c \in Cmd : UNCHANGED <<delayedTimers, sending>> => Thins(c)
  BY <1>0, ThinKept DEF Thins
<1>4. CallbackFree /\ (\A c \in Cmd : Held(c)' => Held(c)) => CallbackFree'
  BY <1>0 DEF CallbackFree
<1>5. ASSUME NEW op \in {"cancel", "replay", "purge"}, NEW c \in Cmd, Lookup(k, op, c)
      PROVE  (\A d \in Cmd : Sound(d)') /\ ReplaySettled' /\ CallbackFree'
  <2>1. /\ UNCHANGED <<rows, delayedTimers, sending>> /\ op \in ApiOps /\ Permits(op, rows[c])
        /\ client' = [client EXCEPT ![k] = [op |-> op, inst |-> rows[c]]] /\ rows[c].id = c
    BY <1>0, <1>5 DEF Lookup, RowsOK
  <2>2. \A d \in Cmd : StepOf(d)
    BY <1>0, <1>3, <2>1, QuietStep
  <2>3. op = "replay" => Settled(c)
    BY <2>1 DEF Permits, Settled
  <2>4. ReplaySettled'
    BY <1>0, <2>1, <2>3 DEF OnceInv, ReplaySettled, Settled, ClientsOK
  <2>5. \A d \in Cmd : Held(d)' => Held(d)
    BY <1>3, <2>1 DEF Held, Thins, QueueThins, TimerThins, SendThins, ReplayThins, WorkThins
  <2> QED BY <1>4, <2>2, <2>4, <2>5 DEF StepOf, OnceInv
<1>6. ASSUME Return(k)
      PROVE  /\ client[k].inst \in Instance /\ client[k].inst.id \in Cmd
             /\ client'[k].op = "none" /\ \A l \in Client : l # k => client'[l] = client[l]
  <2>1. client[k].op # "none" /\ client' = [client EXCEPT ![k] = NoCall]
    BY <1>6 DEF Return, Cancel, ReplayFromDLQ, PurgeDLQ
  <2>2. client[k].inst \in Instance
    BY <1>0, <2>1 DEF ClientsOK
  <2> QED BY <1>0, <2>1, <2>2 DEF Instance, ClientsOK, NoCall
<1>7. ASSUME Return(k), "replay" \in ApiOps PROVE ReplaySettled'
  BY <1>6, <1>7 DEF Undisturbed, ReplaySettled
<1>8. ASSUME Return(k), "replay" \notin ApiOps PROVE ReplaySettled' /\ client[k].op # "replay"
  <2>1. \A l \in Client : client[l].op # "replay"
    <3> SUFFICES ASSUME NEW l \in Client, client[l].op = "replay" PROVE FALSE
      OBVIOUS
    <3>1. client[l].inst \in Instance
      BY <1>0 DEF ClientsOK
    <3> QED BY <1>8, <3>1 DEF OnceInv, ReplaySettled, Instance
  <2> QED BY <1>6, <1>8, <2>1 DEF ReplaySettled
<1>9. CASE Cancel(k)
  <2>0. Return(k) /\ UNCHANGED <<delayedTimers, sending>>
    BY <1>9 DEF Return, Cancel
  <2>1. PICK i \in Instance : i = Cancelled(client[k].inst) /\ i.id \in Cmd /\ i.status = "CANCELLED"
    <3>1. Cancelled(client[k].inst) \in Instance /\ Cancelled(client[k].inst).id \in Cmd
      BY <1>6, <2>0, TransitionTypes, 0 \in Nat
    <3>2. Cancelled(client[k].inst).status = "CANCELLED"
      BY <1>6, <2>0, Statuses, 0 \in Nat
    <3> QED BY <3>1, <3>2
  <2>2. Put(i) \/ UNCHANGED rows
    BY <1>9, <2>1 DEF Cancel
  <2>3. \A c \in Cmd : Only(c)' /\ (Held(c)' => Held(c))
    BY <1>0, <1>3, <2>0 DEF Sound, Only, Apart, Held, Thins, QueueThins, TimerThins, SendThins, ReplayThins, WorkThins
  <2>4. \A c \in Cmd : rows'[c] = rows[c] \/ rows'[c].status = "CANCELLED"
    BY <1>0, <2>1, <2>2, PutRow
  <2>5. \A c \in Cmd : Sound(c)'
    BY <1>0, <2>3, <2>4 DEF Sound, Open
  <2> QED BY <1>4, <1>7, <1>8, <2>0, <2>3, <2>5 DEF OnceInv
<1>10. CASE ReplayFromDLQ(k)
  <2>0. Return(k) /\ client[k].op = "replay" /\ "replay" \in ApiOps /\ Settled(client[k].inst.id)
    <3>1. Return(k) /\ client[k].op = "replay"
      BY <1>10 DEF Return, ReplayFromDLQ
    <3> QED BY <1>6, <3>1 DEF OnceInv, ReplaySettled
  <2>1. PICK i \in Instance : i = Replayed(client[k].inst, now) /\ i.id = client[k].inst.id /\ i.status \in Open
    <3>1. Replayed(client[k].inst, now) \in Instance /\ Replayed(client[k].inst, now).id = client[k].inst.id
      BY <1>0, <1>6, <2>0, TransitionTypes
    <3>2. Replayed(client[k].inst, now).status \in Open
      BY <1>0, <1>6, <2>0, Statuses DEF Open
    <3> QED BY <3>1, <3>2
  <2>2. CallbackFree'
    BY <2>0 DEF Undisturbed, CallbackFree
  <2>3. CASE Present(rows[i.id])
    <3>1. Put(i) /\ Schedule(k, i)
      BY <1>10, <2>1, <2>3 DEF ReplayFromDLQ
    <3>2. i.id \in Cmd /\ Sound(i.id) /\ ~Held(i.id)
      BY <1>0, <1>6, <2>0, <2>1, <2>3 DEF Sound, Settled, Open, Present, Status
    <3>3. Sound(i.id)' /\ \A c \in Cmd : c # i.id => StepOf(c)
      BY <1>0, <1>1, <2>1, <3>1, <3>2, FirstCopy
    <3> QED BY <1>7, <2>0, <2>2, <3>3 DEF StepOf
  <2>4. CASE ~Present(rows[i.id])
    <3>1. UNCHANGED <<rows, sending, delayedTimers>>
      BY <1>10, <2>1, <2>4 DEF ReplayFromDLQ
    <3> QED BY <1>0, <1>3, <1>7, <2>0, <2>2, <3>1, QuietStep DEF StepOf
  <2> QED BY <2>3, <2>4
<1>11. CASE PurgeDLQ(k)
  <2>0. Return(k)
    BY <1>11 DEF Return
  <2>1. PICK d \in Cmd : d = client[k].inst.id
    BY <1>6, <2>0
  <2>2. Delete(d) /\ UNCHANGED <<delayedTimers, sending>>
    BY <1>11, <2>1 DEF PurgeDLQ
  <2>3. \A c \in Cmd : StepOf(c)
    BY <1>0, <2>2, DeleteOnce
  <2>4. \A c \in Cmd : Held(c)' => Held(c)
    BY <1>3, <2>2 DEF Held, Thins, QueueThins, TimerThins, SendThins, ReplayThins, WorkThins
  <2> QED BY <1>4, <1>7, <1>8, <2>0, <2>3, <2>4 DEF StepOf, OnceInv
<1> QED BY <1>2, <1>5, <1>9, <1>10, <1>11 DEF Call, Return

(* The life cycle of a process that is never stopped: it starts, runs and dies. *)
LEMMA NothingWhenDown ==
    ASSUME AllPartsOK, PhaseCalm, Next, phase = "down"
    PROVE  Start \/ Tick
<1>0. /\ \A w \in Worker : worker[w].pc = "idle"
      /\ \A k \in Client : client[k].op = "none"
      /\ \A a \in Actor : sending[a] = NoInst
      /\ leaked = {} /\ recovering = {}
  BY DEF PhaseCalm
<1>1. \A w \in Worker : ~Take(w)
  BY DEF Take, Drop, HandleExpired, NotReady, NotRegistered, Begin, WaitSlot, Resolvable, Ready, WorkersUp
<1>2. \A w \in Worker : ~Proceed(w)
  BY <1>0 DEF Proceed, GotSlot, SlotRefused, ResultRepeat, ResultRetry, ResultDone, ErrorRetry,
     ErrorFinal, CallbackDone, Panic, SpawnChild, SkipChild, Complete, Running, Spawning
<1>3. \A k \in Client : ~Call(k) /\ ~Return(k)
  BY DEF Call, Return, Add, Lookup, CanCall, Cancel, ReplayFromDLQ, PurgeDLQ
<1> QED
  BY <1>0, <1>1, <1>2, <1>3 DEF Next, Enqueue, Abandon, Fire, Cleanup, FindStuck, LoopsUp, Replay,
     StartDone, Stop, StopCancel, StopDone, Crash

LEMMA StartOnce ==
    ASSUME OnceInv, Start
    PROVE  (\A c \in Cmd : Sound(c)') /\ ReplaySettled' /\ CallbackFree' /\ PhaseCalm'
<1>0. /\ RowsOK /\ TimersOK /\ WorkersOK /\ phase = "down" /\ leaked = {} /\ recovering = {}
      /\ \A c \in Cmd : Sound(c) /\ ~Held(c)
      /\ \A w \in Worker : worker[w].pc = "idle"
      /\ \A k \in Client : client[k].op = "none"
  BY DEF OnceInv, AllPartsOK, PhaseCalm, Start
<1>1. \A c \in Cmd : delayedTimers[c] = NoInst
  BY <1>0 DEF Held, InTimer
<1>2. /\ queue' = <<>> /\ leaked' = {} /\ delayedTimers' = NoTimers /\ sending' = [a \in Actor |-> NoInst]
      /\ replaying' = {rows[c] : c \in Due} /\ phase' = "starting"
      /\ UNCHANGED <<rows, worker, client, recovering>>
  BY <1>0, <1>1 DEF Start
<1>3. ASSUME NEW c \in Cmd PROVE Sound(c)'
  <2>1. ~InQueue(c)' /\ ~InTimer(c)' /\ ~InSend(c)' /\ ~AtWork(c)' /\ QueueOnce(c)' /\ SendOnce(c)' /\ WorkOnce(c)'
    BY <1>0, <1>2 DEF InQueue, InTimer, InSend, AtWork, QueueOnce, SendOnce, WorkOnce, NoTimers, Working
  <2>2. \A i \in replaying' : i.id = c => i = rows[c] /\ IsActive(rows[c].status)
    BY <1>0, <1>2 DEF Due, RowsOK
  <2>3. ReplayOnce(c)' /\ (InReplay(c)' => IsActive(rows[c].status))
    BY <2>2 DEF ReplayOnce, InReplay
  <2> QED BY <1>2, <2>1, <2>3 DEF Sound, Only, Apart, Held, IsActive, Open
<1> QED BY <1>0, <1>2, <1>3 DEF ReplaySettled, CallbackFree, PhaseCalm

LEMMA CrashOnce ==
    ASSUME OnceInv, Crash
    PROVE  (\A c \in Cmd : Sound(c)') /\ ReplaySettled' /\ CallbackFree' /\ PhaseCalm'
<1>1. \A c \in Cmd : /\ ~Held(c)' /\ QueueOnce(c)' /\ SendOnce(c)' /\ WorkOnce(c)' /\ ReplayOnce(c)'
  BY WorkerStates DEF Crash, Held, InQueue, InTimer, InSend, InReplay, AtWork, QueueOnce, SendOnce,
     WorkOnce, ReplayOnce, NoTimers, Working
<1>2. \A c \in Cmd : Sound(c)'
  BY <1>1 DEF Sound, Only, Apart, Held
<1> QED BY <1>1, <1>2, WorkerStates DEF Crash, ReplaySettled, CallbackFree, PhaseCalm, NoCall

LEMMA ReplayOnceMore ==
    ASSUME AllPartsOK, \A c \in Cmd : Sound(c), NEW i \in replaying, Replay(i)
    PROVE  \A c \in Cmd : StepOf(c)
<1>0. TimersOK /\ SendsOK /\ i \in Instance /\ i.id \in Cmd /\ "start" \in Actor
  BY ActorTypes DEF AllPartsOK, LoopsOK, Instance
<1>1. /\ Schedule("start", i) /\ replaying' = replaying \ {i} /\ UNCHANGED <<rows, queue, leaked, worker>>
  BY DEF Replay
<1>2. \A c \in Cmd : ReplayThins(c) /\ QueueThins(c) /\ WorkThins(c)
  BY <1>1, ReplayedThins, ThinKept
<1>3. PICK d \in Cmd : d = i.id
  BY <1>0
<1>4. ASSUME NEW c \in Cmd, c # d PROVE StepOf(c)
  <2>1. Thins(c)
    BY <1>0, <1>1, <1>2, <1>3, <1>4, ScheduleThins DEF Thins
  <2> QED BY <1>1, <2>1, QuietStep
<1>5. Sound(d) /\ InReplay(d) /\ ~InQueue(d) /\ ~InTimer(d) /\ ~InSend(d) /\ ~AtWork(d)
  <2>1. Sound(d) /\ InReplay(d)
    BY <1>3 DEF InReplay
  <2> QED BY <2>1 DEF Sound, Only, Apart
<1>6. ~InReplay(d)'
  BY <1>1, <1>3, <1>5, ReplayedThins DEF Sound, Only
<1>7. SendOnce(d)' /\ (InTimer(d)' => ~InSend(d)')
  BY <1>0, <1>1, <1>3, <1>5, ScheduleThins
<1>8. Only(d)'
  BY <1>2, <1>5, <1>6, <1>7 DEF Sound, Only, Apart, QueueThins, ReplayThins, WorkThins
<1>9. StepOf(d)
  BY <1>1, <1>5, <1>8, PassStep DEF Held
<1> QED BY <1>4, <1>9

\* The phase stays calm in the steps that are neither Start nor Crash.
LEMMA StaysCalm ==
    ASSUME Undisturbed, AllPartsOK, PhaseCalm, [Next]_vars, ~Start, ~Crash
    PROVE  PhaseCalm'
<1>0. phase \in {"down", "starting", "running"} /\ leaked = {} /\ recovering = {}
  BY DEF PhaseCalm
<1>1. CASE Tick \/ UNCHANGED vars
  <2>1. UNCHANGED <<phase, rows, queue, delayedTimers, leaked, worker, sending, client, recovering, replaying>>
    BY <1>1 DEF Tick, vars
  <2>2. \A c \in Cmd : Held(c)' => Held(c)
    BY <2>1 DEF Held, InQueue, InTimer, InSend, InReplay, AtWork
  <2> QED BY <2>1, <2>2 DEF PhaseCalm
<1>2. CASE Next /\ ~Tick
  <2>1. phase # "down"
    BY <1>2, NothingWhenDown
  <2>2. ASSUME NEW w \in Worker, Take(w) \/ Proceed(w) PROVE UNCHANGED <<phase, leaked, recovering>>
    BY <2>2 DEF Take, Proceed, Drop, HandleExpired, NotReady, NotRegistered,
       Begin, WaitSlot, GotSlot, SlotRefused, ResultRepeat, ResultRetry, ResultDone,
       ErrorRetry, ErrorFinal, CallbackDone, Panic, SpawnChild, SkipChild, Complete
  <2>3. ASSUME NEW k \in Client, Call(k) \/ Return(k) PROVE UNCHANGED <<phase, leaked, recovering>>
    BY <2>3 DEF Call, Return, Add, Lookup, Cancel, ReplayFromDLQ, PurgeDLQ
  <2>4. \/ UNCHANGED <<phase, leaked, recovering>>
        \/ UNCHANGED <<leaked, recovering>> /\ phase' = "running"
    BY <1>0, <1>2, <2>2, <2>3 DEF Next, Undisturbed, Enqueue, Abandon, Fire, Cleanup, FindStuck,
       Replay, StartDone, Stop, StopCancel, StopDone
  <2> QED BY <1>0, <2>1, <2>4 DEF PhaseCalm
<1> QED BY <1>1, <1>2

LEMMA OnceStep ==
    ASSUME Undisturbed, OnceInv, [Next]_vars
    PROVE  OnceInv'
<1>0. AllPartsOK /\ AllPartsOK' /\ (\A c \in Cmd : Sound(c)) /\ ~CtxDone /\ PhaseCalm /\ CallbackFree
  BY NextType DEF OnceInv, PhaseCalm, CtxDone
<1>1. \A i \in Instance : IsCopy(i)' => Faithful(i)'
  BY <1>0, EveryStep, StaysFaithful DEF OnceInv, AllPartsOK
<1>2. PhaseCalm'
  BY <1>0, StartOnce, CrashOnce, StaysCalm
<1>3. (\A c \in Cmd : Sound(c)') /\ ReplaySettled' /\ CallbackFree'
  <2>1. ASSUME NEW w \in Worker, Take(w) \/ Proceed(w)
        PROVE  (\A c \in Cmd : Sound(c)') /\ ReplaySettled' /\ CallbackFree'
    <3>1. CallbackEntry(w) /\ \A c \in Cmd : StepOf(c)
      BY <1>0, <2>1, TakeOnce, ProceedOnce
    <3>2. client' = client /\ (UNCHANGED worker \/ \E s : worker' = [worker EXCEPT ![w] = s])
      BY <2>1 DEF Take, Proceed, Drop, HandleExpired, NotReady, NotRegistered, Begin, WaitSlot, GotSlot,
         SlotRefused, ResultRepeat, ResultRetry, ResultDone, ErrorRetry, ErrorFinal, CallbackDone,
         Panic, SpawnChild, SkipChild, Complete, UpdateAndSchedule, RunHandler, NextChild
    <3>3. \A v \in Worker : worker'[v] = worker[v] \/ CallbackEntry(v)
      BY <1>0, <3>1, <3>2 DEF AllPartsOK, WorkersOK
    <3> QED BY <1>0, <3>1, <3>2, <3>3, StepRest
  <2>2. CASE \/ \E a \in Actor : Enqueue(a) \/ Abandon(a)
             \/ \E c \in Cmd : Fire(c)
             \/ \E t \in leaked : FireLeaked(t)
    <3>1. UNCHANGED <<worker, client>>
      BY <2>2 DEF Enqueue, Abandon, Fire, FireLeaked
    <3> QED BY <1>0, <2>2, <3>1, ChannelOnce, StepRest
  <2>3. ASSUME NEW k \in Client, Call(k) \/ Return(k)
        PROVE  (\A c \in Cmd : Sound(c)') /\ ReplaySettled' /\ CallbackFree'
    BY <1>0, <2>3, CallOnce
  <2>4. ASSUME NEW c \in Cmd, Cleanup(c)
        PROVE  (\A d \in Cmd : Sound(d)') /\ ReplaySettled' /\ CallbackFree'
    <3>1. UNCHANGED <<worker, client>> /\ \A d \in Cmd : StepOf(d)
      BY <1>0, <2>4, DeleteOnce DEF Cleanup, AllPartsOK
    <3> QED BY <1>0, <3>1, StepRest
  <2>5. ASSUME NEW S \in SUBSET Cmd, FindStuck(S) PROVE FALSE
    BY <2>5 DEF FindStuck, Undisturbed
  <2>6. ASSUME NEW i \in recovering PROVE FALSE
    BY <1>0 DEF PhaseCalm
  <2>7. ASSUME NEW i \in replaying, Replay(i)
        PROVE  (\A c \in Cmd : Sound(c)') /\ ReplaySettled' /\ CallbackFree'
    <3>1. UNCHANGED <<worker, client>>
      BY <2>7 DEF Replay
    <3> QED BY <1>0, <2>7, <3>1, ReplayOnceMore, StepRest
  <2>8. CASE StartDone \/ Stop \/ StopCancel \/ StopDone \/ Tick \/ UNCHANGED vars
    <3>1. UNCHANGED <<rows, queue, leaked, worker, sending, client, replaying>>
      BY <2>8 DEF StartDone, Stop, StopCancel, StopDone, Tick, vars
    <3>2. UNCHANGED delayedTimers
      BY <1>0, <2>8 DEF StartDone, Stop, StopCancel, StopDone, Tick, vars, PhaseCalm
    <3>3. \A c \in Cmd : Thins(c)
      BY <3>1, <3>2, ThinKept DEF Thins
    <3>4. \A c \in Cmd : StepOf(c)
      BY <1>0, <3>1, <3>3, QuietStep
    <3> QED BY <1>0, <3>1, <3>4, StepRest
  <2> QED
    BY <2>1, <2>2, <2>3, <2>4, <2>5, <2>6, <2>7, <2>8, StartOnce, CrashOnce DEF Next
<1> QED BY <1>0, <1>1, <1>2, <1>3 DEF OnceInv

LEMMA OnceStart == Init => OnceInv
<1> SUFFICES ASSUME Init PROVE OnceInv
  OBVIOUS
<1>1. \A i \in Instance : ~IsCopy(i)
  BY RowTypes, WorkerStates DEF Init, IsCopy, QueueCopy, TimerCopy, LeakedCopy, WorkerHas, SendCopy,
     ClientCopy, NoCall
<1>2. \A c \in Cmd : ~Held(c) /\ QueueOnce(c) /\ SendOnce(c) /\ WorkOnce(c) /\ ReplayOnce(c)
  <2> TAKE c \in Cmd
  <2>1. DOMAIN queue = {}
    BY DEF Init
  <2>2. \A w \in Worker : worker[w].pc = "idle"
    BY WorkerStates DEF Init
  <2>3. \A a \in Actor : sending[a] = NoInst
    BY DEF Init
  <2>4. ~InTimer(c)
    BY DEF Init, InTimer
  <2>5. replaying = {}
    BY DEF Init
  <2>6. ~InQueue(c) /\ QueueOnce(c)
    BY <2>1 DEF InQueue, QueueOnce
  <2>7. ~AtWork(c) /\ WorkOnce(c)
    BY <2>2 DEF AtWork, WorkOnce, Working
  <2>8. ~InSend(c) /\ SendOnce(c) /\ ~InReplay(c) /\ ReplayOnce(c)
    BY <2>3, <2>5 DEF InSend, SendOnce, InReplay, ReplayOnce
  <2> QED BY <2>4, <2>6, <2>7, <2>8 DEF Held
<1>3. \A c \in Cmd : Sound(c)
  BY <1>2 DEF Sound, Only, Apart, Held
<1> QED BY <1>1, <1>2, <1>3, InitType, WorkerStates
    DEF Init, OnceInv, PhaseCalm, ReplaySettled, CallbackFree, NoCall

\* No two workers run the handler of the same command at once, in a process that may
\* crash and start again at any point, for any number of workers, callers and commands
\* and any channel size.
THEOREM RunsAreExclusive ==
    ASSUME Undisturbed PROVE Spec => []NoConcurrentRuns
<1>1. OnceInv /\ [Next]_vars => OnceInv'
  BY OnceStep
<1>2. OnceInv => NoConcurrentRuns
  <2> SUFFICES ASSUME OnceInv, NEW v \in Worker, NEW w \in Worker, worker[v].pc = "running",
                      worker[w].pc = "running", worker[v].inst.id = worker[w].inst.id
               PROVE  v = w
    BY DEF NoConcurrentRuns
  <2>1. worker[v].inst \in Instance
    BY WorkerCopy DEF OnceInv, AllPartsOK
  <2>2. WorkOnce(worker[v].inst.id)
    BY <2>1 DEF OnceInv, Sound, Only, Instance
  <2> QED BY <2>2 DEF WorkOnce, Working
<1> QED BY OnceStart, <1>1, <1>2, PTL DEF Spec

\* A command that ended on its own is let go of everywhere: no channel, timer, blocked
\* send, replay or worker has a copy left that would run it again.
THEOREM FinishedLetGo ==
    ASSUME Undisturbed PROVE Spec => []FinishedNotCarried
<1>1. OnceInv /\ [Next]_vars => OnceInv'
  BY OnceStep
<1>2. OnceInv => FinishedNotCarried
  <2>1. \A c \in Cmd : Carried(c) => Held(c)
    BY DEF Carried, Held, InWorker, AtWork
  <2> QED BY <2>1 DEF OnceInv, Sound, Open, FinishedNotCarried
<1> QED BY OnceStart, <1>1, <1>2, PTL DEF Spec
-----------------------------------------------------------------------------
(* ReadyAt.  NeverEarly compares the clock with the ReadyAt of the row, while      *)
(* execute looks at the ReadyAt of its copy.  A copy that may still be executed is *)
(* timely: neither its row nor a Cancel that is about to overwrite the row says    *)
(* later than the copy.  This rests on there being only one such copy.             *)
WorkCopy(i) == \E w \in Worker : worker[w].pc \in Working /\ worker[w].inst = i
HeldCopy(i) == QueueCopy(i) \/ TimerCopy(i) \/ SendCopy(i) \/ i \in replaying \/ WorkCopy(i)

Cancels(k, c) == client[k].op = "cancel" /\ client[k].inst.id = c
Timely(i) ==
    /\ Present(rows[i.id]) => rows[i.id].readyAt <= i.readyAt
    /\ \A k \in Client : Cancels(k, i.id) => client[k].inst.readyAt <= i.readyAt

WorkersDue == \A w \in Worker : worker[w].pc \in Working => worker[w].inst.readyAt <= now

TimeInv ==
    /\ OnceInv
    /\ \A i \in Instance : HeldCopy(i) => Timely(i)
    /\ WorkersDue

LEMMA CopyHeld ==
    ASSUME NEW i \in Instance, HeldCopy(i), TimersOK
    PROVE  Held(i.id)
<1>1. i # NoInst /\ i.id \in Cmd
  BY RowTypes DEF Instance
<1>2. QueueCopy(i) => InQueue(i.id)
  BY DEF QueueCopy, InQueue
<1>3. TimerCopy(i) => InTimer(i.id)
  BY DEF TimerCopy, InTimer, TimersOK
<1>4. SendCopy(i) => InSend(i.id)
  BY <1>1 DEF SendCopy, InSend
<1>5. i \in replaying => InReplay(i.id)
  BY DEF InReplay
<1>6. WorkCopy(i) => AtWork(i.id)
  BY DEF WorkCopy, AtWork, Working
<1> QED BY <1>2, <1>3, <1>4, <1>5, <1>6 DEF HeldCopy, Held

\* Two copies that may still be executed are copies of different commands.
LEMMA OneCopy ==
    ASSUME NEW i \in Instance, NEW j \in Instance, HeldCopy(i), HeldCopy(j), i.id = j.id,
           TimersOK, Only(i.id)
    PROVE  i = j
<1>1. i # NoInst /\ j # NoInst /\ i.id \in Cmd
  BY RowTypes DEF Instance
<1>2. \A l \in Instance : l.id = i.id =>
          /\ QueueCopy(l) => InQueue(i.id)
          /\ TimerCopy(l) => InTimer(i.id)
          /\ SendCopy(l) => InSend(i.id)
          /\ l \in replaying => InReplay(i.id)
          /\ WorkCopy(l) => AtWork(i.id)
  <2> SUFFICES ASSUME NEW l \in Instance, l.id = i.id
               PROVE  /\ QueueCopy(l) => InQueue(i.id)
                      /\ TimerCopy(l) => InTimer(i.id)
                      /\ SendCopy(l) => InSend(i.id)
                      /\ l \in replaying => InReplay(i.id)
                      /\ WorkCopy(l) => AtWork(i.id)
    OBVIOUS
  <2>1. l # NoInst
    BY RowTypes
  <2>2. TimerCopy(l) => InTimer(i.id)
    BY DEF TimerCopy, InTimer, TimersOK
  <2>3. (QueueCopy(l) => InQueue(i.id)) /\ (SendCopy(l) => InSend(i.id))
    BY <2>1 DEF QueueCopy, InQueue, SendCopy, InSend
  <2>4. (l \in replaying => InReplay(i.id)) /\ (WorkCopy(l) => AtWork(i.id))
    BY DEF InReplay, WorkCopy, AtWork, Working
  <2> QED BY <2>2, <2>3, <2>4
<1>3. QueueCopy(i) /\ QueueCopy(j) => i = j
  BY DEF QueueCopy, Only, QueueOnce
<1>4. TimerCopy(i) /\ TimerCopy(j) => i = j
  BY DEF TimerCopy, TimersOK
<1>5. SendCopy(i) /\ SendCopy(j) => i = j
  BY <1>1 DEF SendCopy, Only, SendOnce
<1>6. i \in replaying /\ j \in replaying => i = j
  BY DEF Only, ReplayOnce
<1>7. WorkCopy(i) /\ WorkCopy(j) => i = j
  BY DEF WorkCopy, Only, WorkOnce
<1>8. Apart(i.id)
  BY DEF Only
<1> QED BY <1>2, <1>3, <1>4, <1>5, <1>6, <1>7, <1>8 DEF HeldCopy, Apart

LEMMA OneCopyLater ==
    ASSUME NEW i \in Instance, NEW j \in Instance
    PROVE  HeldCopy(i)' /\ HeldCopy(j)' /\ i.id = j.id /\ TimersOK' /\ Only(i.id)' => i = j
<1>1. HeldCopy(i) /\ HeldCopy(j) /\ i.id = j.id /\ TimersOK /\ Only(i.id) => i = j
  BY OneCopy
<1>2. (HeldCopy(i) /\ HeldCopy(j) /\ i.id = j.id /\ TimersOK /\ Only(i.id) => i = j)'
  BY <1>1, PTL
<1> QED BY <1>2

(* A step of the undisturbed executor is one of four kinds. *)
SameTime(i, j) == j.id = i.id /\ j.readyAt = i.readyAt
Gains(n) == \A j \in Instance : HeldCopy(j)' => HeldCopy(j) \/ j = n

\* The copy i moves on, and at most its row is written, with the time of i.
KeepsTime(i) ==
    /\ HeldCopy(i)
    /\ \A j \in Instance : HeldCopy(j)' => HeldCopy(j) \/ SameTime(i, j)
    /\ UNCHANGED rows \/ \E j \in Instance : SameTime(i, j) /\ Put(j)
    /\ UNCHANGED client
\* The copy i is replaced by n, which is due later and is what the row says.
Postpones(i, n) ==
    /\ HeldCopy(i) /\ n.id = i.id /\ i.readyAt <= n.readyAt
    /\ Gains(n) /\ HeldCopy(n)' /\ Put(n)
    /\ UNCHANGED client
\* A command that is nowhere gets its copy n, which is what the row says.
HandsOut(n) ==
    /\ ~Held(n.id) /\ Gains(n) /\ Put(n)
    /\ \A k \in Client : client'[k].op = "cancel" => client'[k] = client[k] /\ client[k].inst.id # n.id
\* No copy is added; the rows of the copies are left alone, deleted or cancelled, and
\* a Cancel reads one.
LeavesBe ==
    /\ \A j \in Instance : HeldCopy(j)' => HeldCopy(j)
    /\ \A j \in Instance : HeldCopy(j) =>
          \/ rows'[j.id] = rows[j.id]
          \/ ~Present(rows'[j.id])
          \/ \E k \in Client : Cancels(k, j.id) /\ rows'[j.id].readyAt = client[k].inst.readyAt
    /\ \A k \in Client : client'[k].op = "cancel" =>
          \/ client'[k] = client[k]
          \/ \E c \in Cmd : Present(rows[c]) /\ rows[c].id = c /\ client'[k].inst = rows[c]

TimeStep ==
    \/ \E i \in Instance : KeepsTime(i)
    \/ \E i, n \in Instance : Postpones(i, n)
    \/ \E n \in Instance : HandsOut(n)
    \/ LeavesBe

LEMMA StaysTimely ==
    ASSUME RowsOK, ClientsOK, TimersOK, TimersOK', \A c \in Cmd : Only(c), \A c \in Cmd : Only(c)',
           \A i \in Instance : HeldCopy(i) => Timely(i), TimeStep
    PROVE  \A j \in Instance : HeldCopy(j)' => Timely(j)'
<1> SUFFICES ASSUME NEW j \in Instance, HeldCopy(j)' PROVE Timely(j)'
  OBVIOUS
<1>1. j.id \in Cmd /\ \A i \in Instance : i.id \in Cmd /\ i.readyAt \in Nat
  BY DEF Instance
<1>2. ASSUME NEW i \in Instance, KeepsTime(i) PROVE Timely(j)'
  <2>1. Timely(i) /\ UNCHANGED client
    BY <1>2 DEF KeepsTime
  <2>2. CASE j.id = i.id
    <3>1. j.readyAt = i.readyAt
      BY <1>1, <1>2, <2>2, OneCopy DEF KeepsTime, SameTime
    <3>2. rows'[i.id] = rows[i.id] \/ rows'[i.id].readyAt = i.readyAt
      BY <1>1, <1>2, PutRow DEF KeepsTime, SameTime
    <3>3. Present(rows'[j.id]) => rows'[j.id].readyAt <= j.readyAt
      BY <1>1, <2>1, <2>2, <3>1, <3>2 DEF Timely
    <3> QED BY <2>1, <2>2, <3>1, <3>3 DEF Timely, Cancels
  <2>3. CASE j.id # i.id
    <3>1. Timely(j)
      BY <1>2, <2>3 DEF KeepsTime, SameTime
    <3>2. rows'[j.id] = rows[j.id]
      BY <1>1, <1>2, <2>3, PutRow DEF KeepsTime, SameTime
    <3> QED BY <2>1, <3>1, <3>2 DEF Timely, Cancels
  <2> QED BY <2>2, <2>3
<1>3. ASSUME NEW i \in Instance, NEW n \in Instance, Postpones(i, n) PROVE Timely(j)'
  <2>1. Timely(i) /\ UNCHANGED client /\ n.id = i.id /\ i.readyAt <= n.readyAt /\ Gains(n) /\ Put(n)
    BY <1>3 DEF Postpones
  <2>2. rows'[n.id] = n /\ \A c \in Cmd : c # n.id => rows'[c] = rows[c]
    BY <2>1, PutRow
  <2>3. CASE j.id = n.id
    <3>1. j = n
      <4>1. HeldCopy(n)' /\ Only(n.id)'
        BY <1>1, <1>3 DEF Postpones
      <4> QED BY <2>3, <4>1, OneCopyLater
    <3>2. ASSUME NEW k \in Client, Cancels(k, i.id) PROVE client[k].inst.readyAt <= n.readyAt
      <4>1. client[k].inst \in Instance /\ client[k].inst.readyAt <= i.readyAt
        BY <2>1, <3>2 DEF Timely, Cancels, ClientsOK
      <4> QED BY <1>1, <2>1, <4>1
    <3>3. n.readyAt <= n.readyAt
      BY <1>1
    <3> QED BY <3>3, <2>1, <2>2, <3>1, <3>2 DEF Timely, Cancels
  <2>4. CASE j.id # n.id
    <3>1. Timely(j)
      BY <2>1, <2>4 DEF Gains
    <3> QED BY <1>1, <2>1, <2>2, <2>4, <3>1 DEF Timely, Cancels
  <2> QED BY <2>3, <2>4
<1>4. ASSUME NEW n \in Instance, HandsOut(n) PROVE Timely(j)'
  <2>1. rows'[n.id] = n /\ \A c \in Cmd : c # n.id => rows'[c] = rows[c]
    BY <1>4, PutRow DEF HandsOut
  <2>2. CASE j = n
    BY <1>1, <1>4, <2>1, <2>2 DEF HandsOut, Timely, Cancels
  <2>3. CASE j # n
    <3>1. HeldCopy(j) /\ Timely(j)
      BY <1>4, <2>3 DEF HandsOut, Gains
    <3>2. j.id # n.id
      BY <1>4, <3>1, CopyHeld DEF HandsOut
    <3> QED BY <1>1, <1>4, <2>1, <3>1, <3>2 DEF HandsOut, Timely, Cancels
  <2> QED BY <2>2, <2>3
<1>5. ASSUME LeavesBe PROVE Timely(j)'
  <2>1. HeldCopy(j) /\ Timely(j)
    BY <1>5 DEF LeavesBe
  <2>2. Present(rows'[j.id]) => rows'[j.id].readyAt <= j.readyAt
    BY <1>5, <2>1 DEF LeavesBe, Timely, Cancels
  <2>3. ASSUME NEW k \in Client, client'[k].op = "cancel", client'[k].inst.id = j.id
        PROVE  client'[k].inst.readyAt <= j.readyAt
    BY <1>5, <2>1, <2>3 DEF LeavesBe, Timely, Cancels
  <2> QED BY <2>2, <2>3 DEF Timely, Cancels
<1> QED BY <1>2, <1>3, <1>4, <1>5 DEF TimeStep
-----------------------------------------------------------------------------
(* Which copies the building blocks add, and what the transitions do to ReadyAt. *)
LEMMA HeldKept ==
    ASSUME NEW j
    PROVE  /\ UNCHANGED worker => (WorkCopy(j)' => WorkCopy(j))
           /\ UNCHANGED replaying => (j \in replaying' => j \in replaying)
BY DEF WorkCopy

LEMMA MoveWork ==
    ASSUME WorkersOK, NEW w \in Worker, NEW s, worker' = [worker EXCEPT ![w] = s]
    PROVE  \A j \in Instance : WorkCopy(j)' => WorkCopy(j) \/ (s.pc \in Working /\ j = s.inst)
<1>1. worker'[w] = s /\ \A v \in Worker : v # w => worker'[v] = worker[v]
  BY DEF WorkersOK
<1> QED BY <1>1 DEF WorkCopy

LEMMA MoveDue ==
    ASSUME WorkersOK, WorkersDue, UNCHANGED now, NEW w \in Worker, NEW s,
           worker' = [worker EXCEPT ![w] = s], s.pc \in Working => s.inst.readyAt <= now
    PROVE  WorkersDue'
<1>1. worker'[w] = s /\ \A v \in Worker : v # w => worker'[v] = worker[v]
  BY DEF WorkersOK
<1> QED BY <1>1 DEF WorkersDue

LEMMA Scheduled ==
    ASSUME TimersOK, SendsOK, now \in Nat, NEW a \in Actor, NEW i \in Instance, Schedule(a, i)
    PROVE  HeldCopy(i)'
<1>0. i.id \in Cmd /\ i # NoInst
  BY RowTypes DEF Instance
<1>1. CASE i.readyAt <= now
  BY <1>1 DEF Schedule, SendsOK, HeldCopy, SendCopy
<1>2. CASE ~(i.readyAt <= now)
  <2> DEFINE delay == IF i.readyAt <= now THEN 0
                      ELSE IF i.readyAt - now > MaxDelay THEN MaxDelay ELSE i.readyAt - now
             timer == [inst |-> i, at |-> now + delay]
  <2>1. now + delay \in Nat
    BY ExecutorAssumption DEF Instance
  <2>2. timer # NoInst /\ timer.inst = i
    BY <2>1, ExecutorAssumption
  <2>3. delayedTimers' = [delayedTimers EXCEPT ![i.id] = timer]
    BY <1>2 DEF Schedule, Arm
  <2> HIDE DEF timer, delay
  <2>4. delayedTimers'[i.id] = timer
    BY <1>0, <2>3 DEF TimersOK
  <2> QED BY <1>0, <2>2, <2>4 DEF HeldCopy, TimerCopy
<1> QED BY <1>1, <1>2

LEMMA SameTimes ==
    ASSUME NEW i \in Instance
    PROVE  /\ SameTime(i, i) /\ SameTime(i, Started(i)) /\ SameTime(i, Unresolved(i))
           /\ SameTime(i, Retrying(i)) /\ SameTime(i, Completed(i)) /\ SameTime(i, Failed(i, DeadLetter))
           /\ SameTime(i, Panicked(i)) /\ SameTime(i, Expired(i)) /\ SameTime(i, Cancelled(i))
BY DEF Instance, SameTime, Started, Unresolved, Retrying, Completed, Failed, Panicked, Expired, Cancelled

LEMMA RunHandlerTime ==
    ASSUME AllPartsOK, NEW w \in Worker, NEW i \in Instance, RunHandler(w, i)
    PROVE  /\ \A j \in Instance : WorkCopy(j)' => WorkCopy(j) \/ SameTime(i, j)
           /\ UNCHANGED rows \/ \E j \in Instance : SameTime(i, j) /\ Put(j)
           /\ i.readyAt <= now => (worker'[w].pc \in Working => worker'[w].inst.readyAt <= now)
           /\ \A v \in Worker : v # w => worker'[v] = worker[v]
<1>0. WorkersOK
  BY DEF AllPartsOK
<1>1. CASE UpdateOK(i)
  <2> DEFINE s == [pc |-> "running", inst |-> Started(i), todo |-> <<>>]
  <2>1. Started(i) \in Instance /\ SameTime(i, Started(i))
    BY TransitionTypes, SameTimes, 0 \in Nat
  <2>2. worker' = [worker EXCEPT ![w] = s] /\ s.inst = Started(i) /\ Put(Started(i))
    BY <1>1 DEF RunHandler
  <2> HIDE DEF s
  <2>3. worker'[w] = s /\ \A v \in Worker : v # w => worker'[v] = worker[v]
    BY <1>0, <2>2 DEF WorkersOK
  <2> QED BY <1>0, <2>1, <2>2, <2>3, MoveWork DEF SameTime
<1>2. CASE ~UpdateOK(i)
  <2>1. UNCHANGED rows /\ worker' = [worker EXCEPT ![w] = Idle]
    BY <1>2 DEF RunHandler
  <2>2. Idle.pc \notin Working
    BY DEF Idle, Working
  <2>3. worker'[w] = Idle /\ \A v \in Worker : v # w => worker'[v] = worker[v]
    BY <1>0, <2>1 DEF WorkersOK
  <2> QED BY <1>0, <2>1, <2>2, <2>3, MoveWork
<1> QED BY <1>1, <1>2

LEMMA TakeTime ==
    ASSUME AllPartsOK, WorkersDue, NEW w \in Worker, Take(w)
    PROVE  TimeStep /\ WorkersDue'
<1>0. QueueOK /\ TimersOK /\ WorkersOK
  BY DEF AllPartsOK
<1>1. /\ queue # <<>> /\ queue' = Tail(queue)
      /\ UNCHANGED <<now, sending, client, replaying>>
  BY DEF Take, Drop, HandleExpired, NotReady, NotRegistered, Begin, WaitSlot, Resolvable, Ready
<1>2. PICK f \in Instance : f = First /\ HeldCopy(f)
  <2>1. First \in Instance
    BY <1>0, <1>1 DEF QueueOK, First
  <2> QED BY <1>0, <1>1, <2>1, TailCopies DEF HeldCopy
<1>3. /\ \A j \in Instance : /\ TimerCopy(j)' => TimerCopy(j) \/ SameTime(f, j)
                             /\ WorkCopy(j)' => WorkCopy(j) \/ SameTime(f, j)
      /\ UNCHANGED rows \/ \E j \in Instance : SameTime(f, j) /\ Put(j)
      /\ worker'[w] = worker[w] \/ (worker'[w].pc \in Working => worker'[w].inst.readyAt <= now)
      /\ \A v \in Worker : v # w => worker'[v] = worker[v]
  <2>0. UNCHANGED <<worker, rows, delayedTimers>> => <1>3!1 /\ <1>3!2 /\ <1>3!3 /\ <1>3!4
    BY CopiesKept, HeldKept
  <2>1. CASE Drop(w)
    BY <2>0, <2>1 DEF Drop
  <2>2. CASE HandleExpired(w)
    <3>0. UNCHANGED delayedTimers
      BY <2>2 DEF HandleExpired
    <3>1. CASE UpdateOK(f)
      <4>1. Expired(f) \in Instance /\ SameTime(f, Expired(f))
        BY TransitionTypes, SameTimes, 0 \in Nat
      <4>2. PICK s : s = Callback(Expired(f))
        OBVIOUS
      <4>3. Put(Expired(f)) /\ worker' = [worker EXCEPT ![w] = s]
        BY <1>2, <2>2, <3>1, <4>2 DEF HandleExpired
      <4>4. s.pc \notin Working
        BY <4>2 DEF Callback, Idle, Working
      <4>5. worker'[w] = s /\ \A v \in Worker : v # w => worker'[v] = worker[v]
        BY <1>0, <4>3 DEF WorkersOK
      <4> QED BY <1>0, <3>0, <4>1, <4>3, <4>4, <4>5, CopiesKept, MoveWork
    <3>2. CASE ~UpdateOK(f)
      BY <1>2, <2>0, <2>2, <3>0, <3>2 DEF HandleExpired
    <3> QED BY <3>1, <3>2
  <2>3. CASE NotReady(w)
    <3>1. Arm(f) /\ UNCHANGED <<rows, worker>>
      BY <1>2, <2>3 DEF NotReady
    <3> QED BY <1>0, <3>1, ArmCopies, HeldKept, SameTimes
  <2>4. CASE NotRegistered(w)
    <3>1. UNCHANGED <<delayedTimers, worker>>
      BY <2>4 DEF NotRegistered
    <3>2. Unresolved(f) \in Instance /\ SameTime(f, Unresolved(f))
      BY TransitionTypes, SameTimes, 0 \in Nat
    <3>3. UNCHANGED rows \/ Put(Unresolved(f))
      BY <1>2, <2>4 DEF NotRegistered
    <3> QED BY <3>1, <3>2, <3>3, CopiesKept, HeldKept
  <2>5. CASE Begin(w)
    <3>1. RunHandler(w, f) /\ UNCHANGED delayedTimers /\ f.readyAt <= now
      BY <1>2, <2>5 DEF Begin, Resolvable
    <3> QED BY <3>1, RunHandlerTime, CopiesKept
  <2>6. CASE WaitSlot(w)
    <3> DEFINE s == [pc |-> "acquire", inst |-> f, todo |-> <<>>]
    <3>1. worker' = [worker EXCEPT ![w] = s] /\ s.inst = f /\ UNCHANGED <<rows, delayedTimers>> /\ f.readyAt <= now
      BY <1>2, <2>6 DEF WaitSlot, Resolvable
    <3> HIDE DEF s
    <3>2. worker'[w] = s /\ \A v \in Worker : v # w => worker'[v] = worker[v]
      BY <1>0, <3>1 DEF WorkersOK
    <3> QED BY <1>0, <3>1, <3>2, CopiesKept, MoveWork, SameTimes
  <2> QED BY <2>1, <2>2, <2>3, <2>4, <2>5, <2>6 DEF Take
<1>4. \A j \in Instance : HeldCopy(j)' => HeldCopy(j) \/ SameTime(f, j)
  BY <1>0, <1>1, <1>3, TailCopies, CopiesKept DEF HeldCopy
<1>5. KeepsTime(f)
  BY <1>1, <1>2, <1>3, <1>4 DEF KeepsTime
<1>6. WorkersDue'
  BY <1>1, <1>3 DEF WorkersDue
<1> QED BY <1>5, <1>6 DEF TimeStep

\* Worker w updates its row to j and schedules it.
LEMMA UpdateAndScheduleTime ==
    ASSUME AllPartsOK, NEW w \in Worker, NEW i \in Instance, HeldCopy(i), NEW j \in Instance, j.id = i.id,
           i.readyAt <= j.readyAt, UpdateAndSchedule(w, j), UNCHANGED <<now, queue, client, replaying>>,
           WorkersDue
    PROVE  TimeStep /\ WorkersDue'
<1>0. TimersOK /\ SendsOK /\ WorkersOK /\ w \in Actor /\ now \in Nat
  BY ActorTypes DEF AllPartsOK, RestOK
<1>1. \A l \in Instance : WorkCopy(l)' => WorkCopy(l)
  <2>1. Idle.pc \notin Working
    BY DEF Idle, Working
  <2> QED BY <1>0, <2>1, MoveWork DEF UpdateAndSchedule
<1>2. WorkersDue'
  <2>1. Idle.pc \notin Working
    BY DEF Idle, Working
  <2> QED BY <1>0, <2>1, MoveDue DEF UpdateAndSchedule
<1>3. CASE UpdateOK(j)
  <2>1. Put(j) /\ Schedule(w, j)
    BY <1>3 DEF UpdateAndSchedule
  <2>2. Gains(j)
    BY <1>0, <1>1, <2>1, ScheduleCopies, CopiesKept, HeldKept DEF Gains, HeldCopy
  <2>3. HeldCopy(j)'
    BY <1>0, <2>1, Scheduled
  <2> QED BY <1>2, <2>1, <2>2, <2>3 DEF TimeStep, Postpones
<1>4. CASE ~UpdateOK(j)
  <2>1. UNCHANGED <<rows, delayedTimers, sending>>
    BY <1>4 DEF UpdateAndSchedule
  <2>2. \A l \in Instance : HeldCopy(l)' => HeldCopy(l)
    BY <1>1, <2>1, CopiesKept, HeldKept DEF HeldCopy
  <2> QED BY <1>2, <2>1, <2>2 DEF TimeStep, LeavesBe
<1> QED BY <1>3, <1>4

\* Worker w goes on to state s, and writes at most the row of its command.
LEMMA WorkerTime ==
    ASSUME AllPartsOK, NEW w \in Worker, NEW i \in Instance, HeldCopy(i),
           NEW j \in Instance, SameTime(i, j), Put(j) \/ UNCHANGED rows,
           NEW s, s.pc \in Working => SameTime(i, s.inst), worker' = [worker EXCEPT ![w] = s],
           UNCHANGED <<now, queue, delayedTimers, sending, client, replaying>>,
           WorkersDue, i.readyAt <= now
    PROVE  TimeStep /\ WorkersDue'
<1>1. \A l \in Instance : WorkCopy(l)' => WorkCopy(l) \/ SameTime(i, l)
  BY MoveWork DEF AllPartsOK
<1>2. \A l \in Instance : HeldCopy(l)' => HeldCopy(l) \/ SameTime(i, l)
  BY <1>1, CopiesKept, HeldKept DEF HeldCopy
<1>3. WorkersDue'
  BY MoveDue DEF AllPartsOK, SameTime
<1> QED BY <1>2, <1>3 DEF TimeStep, KeepsTime

\* Worker w goes on to state s, and no row is written.
LEMMA WorkerWaits ==
    ASSUME AllPartsOK, NEW w \in Worker, NEW s, worker' = [worker EXCEPT ![w] = s],
           s.pc \in Working => worker[w].pc \in Working /\ s.inst = worker[w].inst,
           UNCHANGED <<now, rows, queue, delayedTimers, sending, client, replaying>>,
           WorkersDue
    PROVE  TimeStep /\ WorkersDue'
<1>1. \A l \in Instance : WorkCopy(l)' => WorkCopy(l)
  BY MoveWork DEF AllPartsOK, WorkCopy
<1>2. \A l \in Instance : HeldCopy(l)' => HeldCopy(l)
  BY <1>1, CopiesKept, HeldKept DEF HeldCopy
<1>3. WorkersDue'
  BY MoveDue DEF AllPartsOK, WorkersDue
<1> QED BY <1>2, <1>3 DEF TimeStep, LeavesBe

\* A command gets its first copy: it is created or replayed.
LEMMA FirstCopyTime ==
    ASSUME AllPartsOK, NEW a \in Actor, NEW n \in Instance, Put(n), Schedule(a, n), ~Held(n.id),
           \A j \in Instance : WorkCopy(j)' => WorkCopy(j),
           \A k \in Client : client'[k].op = "cancel" => client'[k] = client[k] /\ client[k].inst.id # n.id,
           UNCHANGED <<queue, replaying>>
    PROVE  TimeStep
<1>1. Gains(n)
  BY ScheduleCopies, CopiesKept, HeldKept DEF AllPartsOK, Gains, HeldCopy
<1> QED BY <1>1 DEF TimeStep, HandsOut

\* A command that was never created is in no place and in no call.
LEMMA NeverCreated ==
    ASSUME OnceInv, NEW c \in Cmd, rows[c].status = "NONE"
    PROVE  ~Held(c) /\ \A k \in Client : client[k].op # "none" => client[k].inst.id # c
<1>1. ~Held(c)
  BY DEF OnceInv, Sound, Open
<1>2. ASSUME NEW k \in Client, client[k].op # "none" PROVE client[k].inst.id # c
  <2>1. client[k].inst \in Instance /\ IsCopy(client[k].inst)
    BY <1>2 DEF OnceInv, AllPartsOK, ClientsOK, IsCopy, ClientCopy
  <2> QED BY <2>1 DEF OnceInv, Faithful
<1> QED BY <1>1, <1>2

LEMMA ProceedTime ==
    ASSUME OnceInv, WorkersDue, NEW w \in Worker, Proceed(w)
    PROVE  TimeStep /\ WorkersDue'
<1>0. /\ AllPartsOK /\ RowsOK /\ WorkersOK /\ now \in Nat /\ w \in Actor /\ ~CtxDone /\ CallbackFree
      /\ worker[w].pc # "idle" /\ UNCHANGED <<now, queue, client, replaying>>
      /\ Idle.pc \notin Working
  BY ActorTypes DEF OnceInv, AllPartsOK, PhaseCalm, CtxDone, RestOK, Proceed, GotSlot, SlotRefused,
     ResultRepeat, ResultRetry, ResultDone, ErrorRetry, ErrorFinal, CallbackDone, Panic, SpawnChild,
     SkipChild, Complete, Running, Spawning, Idle, Working
<1>1. PICK i \in Instance : i = worker[w].inst /\ i.id \in Cmd /\ i.readyAt \in Nat
  <2>1. worker[w].inst \in Instance
    BY <1>0, WorkerCopy
  <2> QED BY <2>1 DEF Instance
<1>2. worker[w].todo \in Seq(Nat)
  BY <1>0, WorkerCopy
<1>3. worker[w].pc \in Working => HeldCopy(i) /\ i.readyAt <= now
  BY <1>1 DEF HeldCopy, WorkCopy, WorkersDue
<1>4. Running(w) => worker[w].pc \in Working
  BY DEF Running, Working
<1>5. CASE GotSlot(w)
  <2>1. RunHandler(w, i) /\ UNCHANGED <<delayedTimers, sending>> /\ worker[w].pc \in Working
    BY <1>1, <1>5 DEF GotSlot, Working
  <2>2. \A j \in Instance : HeldCopy(j)' => HeldCopy(j) \/ SameTime(i, j)
    BY <1>0, <2>1, RunHandlerTime, CopiesKept DEF HeldCopy
  <2>3. KeepsTime(i)
    BY <1>0, <1>3, <2>1, <2>2, RunHandlerTime DEF KeepsTime
  <2>4. WorkersDue'
    BY <1>0, <1>3, <2>1, RunHandlerTime DEF WorkersDue
  <2> QED BY <2>3, <2>4 DEF TimeStep
<1>6. CASE SlotRefused(w)
  BY <1>0, <1>6 DEF SlotRefused
<1>7. CASE ResultRepeat(w)
  <2>1. now + Period \in Nat /\ Period \in Nat
    BY <1>0, ExecutorAssumption
  <2>2. PICK j \in Instance : j = Repeating(i, now + Period) /\ j.id = i.id
    <3>1. Repeating(i, now + Period) \in Instance /\ Repeating(i, now + Period).id = i.id
      BY <2>1, TransitionTypes
    <3> QED BY <3>1
  <2>3. j.readyAt = now + Period
    BY <2>2 DEF Repeating, Instance
  <2>4. HeldCopy(i) /\ i.readyAt <= now
    BY <1>3, <1>4, <1>7 DEF ResultRepeat
  <2>5. i.readyAt <= j.readyAt
    BY <1>0, <1>1, <2>1, <2>3, <2>4
  <2> QED BY <1>0, <1>1, <1>7, <2>2, <2>4, <2>5, UpdateAndScheduleTime DEF ResultRepeat
<1>8. CASE ResultRetry(w)
  <2>1. PICK j \in Instance : j = Retrying(i) /\ j.id = i.id
    BY <1>0, <1>1, <1>8, ChargedTypes DEF ResultRetry
  <2>2. i.readyAt <= j.readyAt
    BY <1>1, <2>1, SameTimes DEF SameTime
  <2>3. HeldCopy(i)
    BY <1>3, <1>4, <1>8 DEF ResultRetry
  <2> QED BY <1>0, <1>1, <1>8, <2>1, <2>2, <2>3, UpdateAndScheduleTime DEF ResultRetry
<1>9. ASSUME NEW plan \in Plans, ResultDone(w, plan) PROVE TimeStep /\ WorkersDue'
  <2> DEFINE s == [pc |-> "spawn", inst |-> i, todo |-> plan]
  <2>1. worker' = [worker EXCEPT ![w] = s] /\ s.inst = i
    BY <1>1, <1>9 DEF ResultDone
  <2>2. UNCHANGED <<rows, delayedTimers, sending>> /\ worker[w].pc \in Working
    BY <1>4, <1>9 DEF ResultDone
  <2> HIDE DEF s
  <2> QED BY <1>0, <1>1, <2>1, <2>2, WorkerWaits
<1>10. CASE ErrorRetry(w)
  <2>1. now + Backoff \in Nat /\ Backoff \in Nat
    BY <1>0, ExecutorAssumption
  <2>2. PICK j \in Instance : j = BackedOff(i, now + Backoff) /\ j.id = i.id
    BY <1>1, <1>10, <2>1, ChargedTypes DEF ErrorRetry
  <2>3. j.readyAt = now + Backoff
    BY <2>2 DEF BackedOff, Instance
  <2>4. HeldCopy(i) /\ i.readyAt <= now
    BY <1>3, <1>4, <1>10 DEF ErrorRetry
  <2>5. i.readyAt <= j.readyAt
    BY <1>0, <1>1, <2>1, <2>3, <2>4
  <2> QED BY <1>0, <1>1, <1>10, <2>2, <2>4, <2>5, UpdateAndScheduleTime DEF ErrorRetry
<1>11. CASE ErrorFinal(w)
  <2>1. PICK j \in Instance : j = Failed(i, DeadLetter) /\ SameTime(i, j)
    BY <1>0, TransitionTypes, SameTimes, ExecutorAssumption
  <2>2. UNCHANGED <<delayedTimers, sending>> /\ HeldCopy(i) /\ i.readyAt <= now
    BY <1>3, <1>4, <1>11 DEF ErrorFinal
  <2>3. CASE UpdateOK(j)
    <3>1. PICK s : s = Callback(j)
      OBVIOUS
    <3>2. Put(j) /\ worker' = [worker EXCEPT ![w] = s]
      BY <1>1, <1>11, <2>1, <2>3, <3>1 DEF ErrorFinal
    <3>3. s.pc \notin Working
      BY <1>0, <3>1 DEF Callback, Working
    <3> QED BY <1>0, <2>1, <2>2, <3>2, <3>3, WorkerTime
  <2>4. CASE ~UpdateOK(j)
    <3>1. UNCHANGED rows /\ worker' = [worker EXCEPT ![w] = Idle]
      BY <1>1, <1>11, <2>1, <2>4 DEF ErrorFinal
    <3> QED BY <1>0, <2>1, <2>2, <3>1, WorkerTime
  <2> QED BY <2>3, <2>4
<1>12. ASSUME NEW plan \in Plans, CallbackDone(w, plan) PROVE TimeStep /\ WorkersDue'
  <2> DEFINE s == IF plan = <<>> THEN Idle ELSE [pc |-> "followup", inst |-> i, todo |-> plan]
  <2>1. worker' = [worker EXCEPT ![w] = s] /\ s.pc \notin Working /\ UNCHANGED <<rows, delayedTimers, sending>>
    BY <1>0, <1>1, <1>12 DEF CallbackDone, Working
  <2> HIDE DEF s
  <2> QED BY <1>0, <2>1, WorkerWaits
<1>13. CASE Panic(w)
  <2>1. PICK j \in Instance : j = Panicked(i) /\ SameTime(i, j)
    BY <1>0, TransitionTypes, SameTimes
  <2>2. UNCHANGED <<delayedTimers, sending>> /\ worker' = [worker EXCEPT ![w] = Idle] /\ (Put(j) \/ UNCHANGED rows)
    BY <1>1, <1>13, <2>1 DEF Panic
  <2>3. CASE Running(w)
    BY <1>0, <1>3, <1>4, <2>1, <2>2, <2>3, WorkerTime
  <2>4. CASE ~Running(w)
    <3>1. ~Held(i.id)
      BY <1>1, <1>13, <2>4 DEF Panic, CallbackFree, OnceInv
    <3>2. \A l \in Instance : HeldCopy(l) => rows'[l.id] = rows[l.id]
      <4> SUFFICES ASSUME NEW l \in Instance, HeldCopy(l) PROVE rows'[l.id] = rows[l.id]
        OBVIOUS
      <4>1. l.id # i.id /\ l.id \in Cmd
        BY <1>0, <3>1, CopyHeld DEF AllPartsOK, Instance
      <4> QED BY <1>0, <2>1, <2>2, <4>1, PutRow DEF SameTime
    <3>3. \A l \in Instance : HeldCopy(l)' => HeldCopy(l)
      BY <1>0, <2>2, MoveWork, CopiesKept DEF HeldCopy
    <3>4. WorkersDue'
      BY <1>0, <2>2, MoveDue
    <3> QED BY <1>0, <3>2, <3>3, <3>4 DEF TimeStep, LeavesBe
  <2> QED BY <2>3, <2>4
<1>14. ASSUME NEW c \in Cmd, SpawnChild(w, c) PROVE TimeStep /\ WorkersDue'
  <2>1. Head(worker[w].todo) \in Nat /\ rows[c].status = "NONE"
    BY <1>2, <1>14 DEF SpawnChild, Spawning, Fresh
  <2>2. Retries \in Nat /\ NoDeadline \in Nat /\ now + Head(worker[w].todo) \in Nat
    BY <1>0, <2>1, ExecutorAssumption DEF NoDeadline
  <2>3. PICK j \in Instance : j = NewInstance(c, Retries, now + Head(worker[w].todo), NoDeadline) /\ j.id = c
    BY <2>2, NewInstanceType
  <2>4. Put(j) /\ Schedule(w, j)
    BY <1>14, <2>3 DEF SpawnChild
  <2>5. PICK s : /\ worker' = [worker EXCEPT ![w] = s]
                 /\ s.pc \notin Working \/ (worker[w].pc \in Working /\ s.inst = worker[w].inst)
    BY <1>0, <1>14, NextChildKeeps DEF SpawnChild
  <2>6. \A l \in Instance : WorkCopy(l)' => WorkCopy(l)
    BY <1>0, <2>5, MoveWork DEF WorkCopy
  <2>7. WorkersDue'
    BY <1>0, <2>5, MoveDue DEF WorkersDue
  <2>8. TimeStep
    BY <1>0, <2>1, <2>3, <2>4, <2>6, NeverCreated, FirstCopyTime
  <2> QED BY <2>7, <2>8
<1>15. CASE SkipChild(w)
  <2>1. PICK s : /\ worker' = [worker EXCEPT ![w] = s]
                 /\ s.pc \notin Working \/ (worker[w].pc \in Working /\ s.inst = worker[w].inst)
    BY <1>0, <1>15, NextChildKeeps DEF SkipChild
  <2>2. UNCHANGED <<rows, delayedTimers, sending>>
    BY <1>15 DEF SkipChild
  <2> QED BY <1>0, <2>1, <2>2, WorkerWaits
<1>16. CASE Complete(w)
  <2>1. PICK j \in Instance : j = Completed(i) /\ SameTime(i, j)
    BY <1>0, TransitionTypes, SameTimes
  <2>2. UNCHANGED <<delayedTimers, sending>> /\ worker' = [worker EXCEPT ![w] = Idle] /\ (Put(j) \/ UNCHANGED rows)
    BY <1>1, <1>16, <2>1 DEF Complete
  <2>3. worker[w].pc \in Working
    BY <1>16 DEF Complete, Working
  <2> QED BY <1>0, <1>3, <2>1, <2>2, <2>3, WorkerTime
<1> QED
  BY <1>5, <1>6, <1>7, <1>8, <1>9, <1>10, <1>11, <1>12, <1>13, <1>14, <1>15, <1>16 DEF Proceed

LEMMA ChannelTime ==
    ASSUME AllPartsOK, PhaseCalm,
           \/ \E a \in Actor : Enqueue(a) \/ Abandon(a)
           \/ \E c \in Cmd : Fire(c)
           \/ \E t \in leaked : FireLeaked(t)
    PROVE  TimeStep
<1>0. QueueOK /\ TimersOK /\ SendsOK /\ leaked = {} /\ ~CtxDone /\ ~Stopping
  BY DEF AllPartsOK, PhaseCalm, CtxDone, Stopping
<1>1. ASSUME NEW a \in Actor, Enqueue(a) PROVE TimeStep
  <2>1. PICK i \in Instance : i = sending[a] /\ HeldCopy(i)
    <3>1. sending[a] \in Instance
      BY <1>0, <1>1 DEF Enqueue, SendsOK
    <3> QED BY <3>1 DEF HeldCopy, SendCopy
  <2>2. /\ queue' = Append(queue, i) /\ sending' = [sending EXCEPT ![a] = NoInst]
        /\ UNCHANGED <<rows, delayedTimers, worker, client, replaying>>
    BY <1>1, <2>1 DEF Enqueue
  <2>3. \A j \in Instance : SendCopy(j)' => SendCopy(j)
    BY <1>0, <2>2, RowTypes DEF SendCopy, SendsOK
  <2>4. \A j \in Instance : HeldCopy(j)' => HeldCopy(j) \/ j = i
    BY <1>0, <2>2, <2>3, AppendCopies, CopiesKept, HeldKept DEF HeldCopy
  <2> QED BY <2>1, <2>2, <2>4, SameTimes DEF TimeStep, KeepsTime
<1>2. ASSUME NEW d \in Cmd, Fire(d) PROVE TimeStep
  <2>1. PICK i \in Instance : i = delayedTimers[d].inst /\ i.id = d /\ HeldCopy(i)
    <3>1. delayedTimers[d] \in Timer /\ delayedTimers[d].inst.id = d /\ delayedTimers[d] # NoInst
      BY <1>0, <1>2 DEF Fire, TimersOK
    <3> QED BY <3>1 DEF Timer, HeldCopy, TimerCopy
  <2>2. /\ sending' = [sending EXCEPT ![d] = i] /\ delayedTimers' = [delayedTimers EXCEPT ![d] = NoInst]
        /\ UNCHANGED <<rows, queue, worker, client, replaying>>
    BY <1>0, <1>2, <2>1 DEF Fire, Deliver
  <2>3. \A j \in Instance : (SendCopy(j)' => SendCopy(j) \/ j = i) /\ (TimerCopy(j)' => TimerCopy(j))
    BY <1>0, <2>2 DEF SendCopy, SendsOK, TimerCopy, TimersOK
  <2>4. \A j \in Instance : HeldCopy(j)' => HeldCopy(j) \/ j = i
    BY <2>2, <2>3, CopiesKept, HeldKept DEF HeldCopy
  <2> QED BY <2>1, <2>2, <2>4, SameTimes DEF TimeStep, KeepsTime
<1> QED BY <1>0, <1>1, <1>2 DEF Abandon

LEMMA CallTime ==
    ASSUME Undisturbed, OnceInv, NEW k \in Client, Call(k) \/ Return(k)
    PROVE  TimeStep
<1>0. /\ AllPartsOK /\ RowsOK /\ ClientsOK /\ now \in Nat /\ Retries \in Nat /\ NoDeadline \in Nat /\ k \in Actor
      /\ UNCHANGED <<queue, worker, replaying>>
      /\ \A c \in Cmd : Sound(c)
  BY ExecutorAssumption, ActorTypes DEF OnceInv, AllPartsOK, RestOK, NoDeadline, Call, Return, Add,
     Lookup, Cancel, ReplayFromDLQ, PurgeDLQ
<1>1. \A j \in Instance : /\ WorkCopy(j)' => WorkCopy(j)
                          /\ UNCHANGED <<delayedTimers, sending>> => (HeldCopy(j)' => HeldCopy(j))
  BY <1>0, CopiesKept, HeldKept DEF HeldCopy
<1>2. ASSUME NEW c \in Cmd, NEW delay \in Delays, NEW deadline \in Deadlines \cup {NoDeadline},
             Add(k, c, delay, deadline)
      PROVE  TimeStep
  <2>1. now + delay \in Nat /\ now + deadline \in Nat
    BY <1>0, ExecutorAssumption
  <2>2. PICK i \in Instance : i = NewInstance(c, Retries, now + delay, now + deadline) /\ i.id = c
    BY <1>0, <2>1, NewInstanceType
  <2>3. Put(i) /\ Schedule(k, i) /\ rows[c].status = "NONE" /\ UNCHANGED client
    BY <1>2, <2>2 DEF Add, Fresh
  <2> QED BY <1>0, <1>1, <2>2, <2>3, NeverCreated, FirstCopyTime
<1>3. ASSUME NEW op \in {"cancel", "replay", "purge"}, NEW c \in Cmd, Lookup(k, op, c) PROVE TimeStep
  <2>1. /\ UNCHANGED <<rows, delayedTimers, sending>> /\ Permits(op, rows[c])
        /\ client' = [client EXCEPT ![k] = [op |-> op, inst |-> rows[c]]] /\ rows[c].id = c
    BY <1>0, <1>3 DEF Lookup, RowsOK
  <2>2. /\ client'[k].op = op /\ client'[k].inst = rows[c]
        /\ \A l \in Client : l # k => client'[l] = client[l]
    BY <1>0, <2>1 DEF ClientsOK
  <2>3. op = "cancel" => Present(rows[c])
    BY <2>1 DEF Permits
  <2> QED BY <1>1, <2>1, <2>2, <2>3 DEF TimeStep, LeavesBe
<1>4. ASSUME Return(k)
      PROVE  /\ client[k].inst \in Instance /\ client[k].inst.id \in Cmd
             /\ client'[k].op = "none" /\ \A l \in Client : l # k => client'[l] = client[l]
  <2>1. client[k].op # "none" /\ client' = [client EXCEPT ![k] = NoCall]
    BY <1>4 DEF Return, Cancel, ReplayFromDLQ, PurgeDLQ
  <2>2. client[k].inst \in Instance
    BY <1>0, <2>1 DEF ClientsOK
  <2> QED BY <1>0, <2>1, <2>2 DEF Instance, ClientsOK, NoCall
<1>5. ASSUME Return(k), UNCHANGED <<delayedTimers, sending>>,
             \A c \in Cmd : \/ rows'[c] = rows[c] \/ ~Present(rows'[c])
                            \/ Cancels(k, c) /\ rows'[c].readyAt = client[k].inst.readyAt
      PROVE  TimeStep
  <2>1. \A l \in Client : client'[l].op = "cancel" => client'[l] = client[l]
    BY <1>4, <1>5
  <2>2. \A j \in Instance : j.id \in Cmd
    BY DEF Instance
  <2> QED BY <1>1, <1>5, <2>1, <2>2 DEF TimeStep, LeavesBe
<1>6. CASE Cancel(k)
  <2>0. Return(k) /\ UNCHANGED <<delayedTimers, sending>> /\ client[k].op = "cancel"
    BY <1>6 DEF Return, Cancel
  <2>1. PICK i \in Instance : i = Cancelled(client[k].inst) /\ SameTime(client[k].inst, i)
    BY <1>0, <1>4, <2>0, TransitionTypes, SameTimes
  <2>2. Put(i) \/ UNCHANGED rows
    BY <1>6, <2>1 DEF Cancel
  <2>3. \A c \in Cmd : rows'[c] = rows[c] \/ (Cancels(k, c) /\ rows'[c].readyAt = client[k].inst.readyAt)
    BY <1>0, <2>0, <2>1, <2>2, PutRow DEF Cancels, SameTime
  <2> QED BY <1>5, <2>0, <2>3
<1>7. CASE ReplayFromDLQ(k)
  <2>0. Return(k) /\ "replay" \in ApiOps /\ Settled(client[k].inst.id)
    <3>1. Return(k) /\ client[k].op = "replay"
      BY <1>7 DEF Return, ReplayFromDLQ
    <3> QED BY <1>4, <3>1 DEF OnceInv, ReplaySettled
  <2>1. PICK i \in Instance : i = Replayed(client[k].inst, now) /\ i.id = client[k].inst.id
    BY <1>0, <1>4, <2>0, TransitionTypes
  <2>2. CASE Present(rows[i.id])
    <3>1. Put(i) /\ Schedule(k, i)
      BY <1>7, <2>1, <2>2 DEF ReplayFromDLQ
    <3>2. ~Held(i.id)
      BY <1>0, <1>4, <2>0, <2>1, <2>2 DEF Sound, Settled, Open, Present, Status
    <3>3. \A l \in Client : client'[l].op # "cancel"
      BY <1>4, <2>0 DEF Undisturbed
    <3> QED BY <1>0, <1>1, <3>1, <3>2, <3>3, FirstCopyTime
  <2>3. CASE ~Present(rows[i.id])
    <3>1. UNCHANGED <<rows, sending, delayedTimers>>
      BY <1>7, <2>1, <2>3 DEF ReplayFromDLQ
    <3> QED BY <1>5, <2>0, <3>1
  <2> QED BY <2>2, <2>3
<1>8. CASE PurgeDLQ(k)
  <2>0. Return(k)
    BY <1>8 DEF Return
  <2>1. PICK d \in Cmd : d = client[k].inst.id
    BY <1>4, <2>0
  <2>2. Delete(d) /\ UNCHANGED <<delayedTimers, sending>>
    BY <1>8, <2>1 DEF PurgeDLQ
  <2>3. \A c \in Cmd : rows'[c] = rows[c] \/ ~Present(rows'[c])
    BY <1>0, <2>2 DEF Delete, RowsOK, Blank, Present, Status
  <2> QED BY <1>5, <2>0, <2>2, <2>3
<1> QED BY <1>2, <1>3, <1>6, <1>7, <1>8 DEF Call, Return

LEMMA TimeInvStep ==
    ASSUME Undisturbed, TimeInv, [Next]_vars
    PROVE  TimeInv'
<1>0. /\ OnceInv /\ OnceInv' /\ AllPartsOK /\ RowsOK /\ ClientsOK /\ TimersOK /\ TimersOK' /\ PhaseCalm
      /\ WorkersDue /\ now \in Nat
      /\ \A c \in Cmd : Only(c) /\ Only(c)'
  BY OnceStep DEF TimeInv, OnceInv, AllPartsOK, RestOK, Sound
<1> SUFFICES (\A i \in Instance : HeldCopy(i)' => Timely(i)') /\ WorkersDue'
  BY <1>0 DEF TimeInv
<1>1. ASSUME TimeStep PROVE \A i \in Instance : HeldCopy(i)' => Timely(i)'
  BY <1>0, <1>1, StaysTimely DEF TimeInv
<1>2. UNCHANGED <<worker, now>> => WorkersDue'
  BY <1>0 DEF WorkersDue
<1>3. ASSUME NEW w \in Worker, Take(w) \/ Proceed(w) PROVE TimeStep /\ WorkersDue'
  BY <1>0, <1>3, TakeTime, ProceedTime
<1>4. ASSUME \/ \E a \in Actor : Enqueue(a) \/ Abandon(a)
             \/ \E c \in Cmd : Fire(c)
             \/ \E t \in leaked : FireLeaked(t)
      PROVE  TimeStep /\ UNCHANGED <<worker, now>>
  <2>1. UNCHANGED <<worker, now>>
    BY <1>4 DEF Enqueue, Abandon, Fire, FireLeaked
  <2> QED BY <1>0, <1>4, <2>1, ChannelTime
<1>5. ASSUME NEW k \in Client, Call(k) \/ Return(k) PROVE TimeStep /\ UNCHANGED <<worker, now>>
  <2>1. UNCHANGED <<worker, now>>
    BY <1>5 DEF Call, Return, Add, Lookup, Cancel, ReplayFromDLQ, PurgeDLQ
  <2> QED BY <1>0, <1>5, <2>1, CallTime
<1>6. ASSUME UNCHANGED <<queue, delayedTimers, sending, replaying, worker, client>>,
             \A c \in Cmd : rows'[c] = rows[c] \/ ~Present(rows'[c])
      PROVE  TimeStep
  <2>1. \A j \in Instance : HeldCopy(j)' => HeldCopy(j)
    BY <1>6, CopiesKept, HeldKept DEF HeldCopy
  <2>2. \A j \in Instance : j.id \in Cmd
    BY DEF Instance
  <2> QED BY <1>6, <2>1, <2>2 DEF TimeStep, LeavesBe
<1>7. ASSUME NEW c \in Cmd, Cleanup(c) PROVE TimeStep /\ UNCHANGED <<worker, now>>
  <2>1. Delete(c) /\ UNCHANGED <<queue, delayedTimers, sending, replaying, worker, client, now>>
    BY <1>7 DEF Cleanup
  <2>2. \A d \in Cmd : rows'[d] = rows[d] \/ ~Present(rows'[d])
    BY <1>0, <2>1 DEF Delete, RowsOK, Blank, Present, Status
  <2> QED BY <1>6, <2>1, <2>2
<1>8. ASSUME StartDone \/ Stop \/ StopCancel \/ StopDone \/ Tick \/ UNCHANGED vars
      PROVE  TimeStep /\ WorkersDue'
  <2>1. UNCHANGED <<rows, queue, delayedTimers, sending, replaying, worker, client>>
    BY <1>0, <1>8 DEF StartDone, Stop, StopCancel, StopDone, Tick, vars, PhaseCalm
  <2>2. now' = now \/ now' = now + 1
    BY <1>8 DEF StartDone, Stop, StopCancel, StopDone, Tick, vars
  <2>3. ASSUME NEW w \in Worker, worker[w].pc \in Working PROVE worker[w].inst.readyAt <= now'
    <3>1. worker[w].inst \in Instance
      BY <1>0, <2>3, WorkerCopy DEF AllPartsOK, Working
    <3>2. worker[w].inst.readyAt \in Nat /\ worker[w].inst.readyAt <= now
      BY <1>0, <2>3, <3>1 DEF Instance, WorkersDue
    <3> QED BY <1>0, <2>2, <3>2
  <2> QED BY <1>6, <2>1, <2>3 DEF WorkersDue
\* Start reads the rows when there is no call and no copy.
<1>9. ASSUME Start PROVE (\A i \in Instance : HeldCopy(i)' => Timely(i)') /\ WorkersDue'
  <2>1. /\ queue' = <<>> /\ delayedTimers' = NoTimers /\ sending' = [a \in Actor |-> NoInst]
        /\ replaying' = {rows[c] : c \in Due} /\ UNCHANGED <<now, rows, worker, client>>
        /\ phase = "down"
    BY <1>0, <1>9 DEF Start, PhaseCalm
  <2>2. (\A w \in Worker : worker[w].pc = "idle") /\ \A k \in Client : client[k].op = "none"
    BY <1>0, <2>1 DEF PhaseCalm
  <2>3. \A j \in Instance : ~QueueCopy(j)' /\ ~TimerCopy(j)' /\ ~SendCopy(j)' /\ ~WorkCopy(j)'
    BY <2>1, <2>2, RowTypes DEF QueueCopy, TimerCopy, SendCopy, WorkCopy, NoTimers, Working
  <2>4. ASSUME NEW j \in Instance, HeldCopy(j)' PROVE Timely(j)'
    <3>1. j = rows[j.id] /\ j.readyAt \in Nat
      BY <1>0, <2>1, <2>3, <2>4 DEF HeldCopy, Due, RowsOK, Instance
    <3> QED BY <2>1, <2>2, <3>1 DEF Timely, Cancels
  <2> QED BY <1>2, <2>1, <2>4
<1>10. ASSUME Crash PROVE (\A i \in Instance : HeldCopy(i)' => Timely(i)') /\ WorkersDue'
  <2>1. /\ queue' = <<>> /\ delayedTimers' = NoTimers /\ sending' = [a \in Actor |-> NoInst]
        /\ replaying' = {} /\ \A w \in Worker : worker'[w].pc = "idle"
    BY <1>10, WorkerStates DEF Crash
  <2>2. \A j \in Instance : ~HeldCopy(j)'
    BY <2>1, RowTypes DEF HeldCopy, QueueCopy, TimerCopy, SendCopy, WorkCopy, NoTimers, Working
  <2> QED BY <2>1, <2>2 DEF WorkersDue, Working
<1>11. ASSUME NEW i \in replaying, Replay(i) PROVE TimeStep /\ UNCHANGED <<worker, now>>
  <2>1. i \in Instance /\ HeldCopy(i) /\ "start" \in Actor /\ SendsOK
    BY <1>0, ActorTypes DEF AllPartsOK, LoopsOK, HeldCopy
  <2>2. /\ Schedule("start", i) /\ replaying' = replaying \ {i}
        /\ UNCHANGED <<rows, queue, worker, client, now>>
    BY <1>11 DEF Replay
  <2>3. \A j \in Instance : HeldCopy(j)' => HeldCopy(j) \/ j = i
    BY <1>0, <2>1, <2>2, ScheduleCopies, CopiesKept, HeldKept DEF HeldCopy
  <2> QED BY <2>1, <2>2, <2>3, SameTimes DEF TimeStep, KeepsTime
<1>12. ASSUME NEW S \in SUBSET Cmd, FindStuck(S) PROVE FALSE
  BY <1>12 DEF FindStuck, Undisturbed
<1>13. ASSUME NEW i \in recovering PROVE FALSE
  BY <1>0 DEF PhaseCalm
<1> QED
  BY <1>1, <1>2, <1>3, <1>4, <1>5, <1>7, <1>8, <1>9, <1>10, <1>11, <1>12, <1>13 DEF Next

\* A worker that waits for a slot starts its handler by GotSlot only.
LEMMA GotBy ==
    ASSUME AllPartsOK, [Next]_vars, NEW w \in Worker, worker[w].pc = "acquire", worker'[w].pc = "running"
    PROVE  UpdateOK(worker[w].inst) /\ worker'[w].inst.id = worker[w].inst.id
<1>0. WorkersOK /\ Idle.pc = "idle" /\ worker[w].inst \in Instance
  BY WorkerStates, WorkerCopy DEF AllPartsOK
<1>1. Take(w) \/ Proceed(w)
  BY MovedBy
<1>2. ~Take(w)
  BY DEF Take, Drop, HandleExpired, NotReady, NotRegistered, Begin, WaitSlot, Resolvable, Ready
<1>3. GotSlot(w) \/ SlotRefused(w)
  BY <1>1, <1>2 DEF Proceed, ResultRepeat, ResultRetry, ResultDone, ErrorRetry, ErrorFinal,
     CallbackDone, Panic, SpawnChild, SkipChild, Complete, Running, Spawning
<1>4. GotSlot(w)
  BY <1>0, <1>3 DEF SlotRefused, WorkersOK
<1>5. UpdateOK(worker[w].inst)
  BY <1>0, <1>4 DEF GotSlot, RunHandler, WorkersOK
<1>6. worker'[w].inst = Started(worker[w].inst)
  BY <1>0, <1>4, <1>5 DEF GotSlot, RunHandler, WorkersOK
<1> QED BY <1>0, <1>5, <1>6, TransitionTypes, 0 \in Nat

\* No handler starts before the ReadyAt of its row: neither a timer that maxDelay cuts
\* short, nor a crash and a restart, nor a Cancel that overwrites the row, nor the wait
\* for a slot of the rate limiter makes a command run early.
THEOREM NoEarlyStart ==
    ASSUME Undisturbed PROVE Spec => NeverEarly
<1>1. Init => TimeInv
  <2> SUFFICES ASSUME Init PROVE TimeInv
    OBVIOUS
  <2>1. \A w \in Worker : worker[w].pc = "idle"
    BY WorkerStates DEF Init
  <2>2. \A i \in Instance : ~HeldCopy(i)
    BY <2>1, RowTypes DEF Init, HeldCopy, QueueCopy, TimerCopy, SendCopy, WorkCopy, Working
  <2> QED BY <2>1, <2>2, OnceStart DEF TimeInv, WorkersDue, Working
<1>2. TimeInv /\ [Next]_vars => TimeInv'
  BY TimeInvStep
<1>3. TimeInv /\ [Next]_vars =>
        [\A w \in Worker, c \in Cmd : Starts(w, c) => now >= rows[c].readyAt]_vars
  <2> SUFFICES ASSUME TimeInv, [Next]_vars, NEW w \in Worker, NEW c \in Cmd, Starts(w, c)
               PROVE  now >= rows[c].readyAt
    OBVIOUS
  <2>0. AllPartsOK /\ rows[c].readyAt \in Nat /\ now \in Nat
    BY DEF TimeInv, OnceInv, AllPartsOK, RestOK, RowsOK, Row
  <2>1. PICK i \in Instance : HeldCopy(i) /\ i.id = c /\ i.readyAt <= now /\ Present(rows[c])
    <3>1. CASE worker[w].pc = "acquire"
      <4>1. worker[w].inst \in Instance /\ HeldCopy(worker[w].inst)
        BY <2>0, <3>1, WorkerCopy DEF AllPartsOK, HeldCopy, WorkCopy, Working
      <4>2. worker[w].inst.readyAt <= now
        BY <3>1 DEF TimeInv, WorkersDue, Working
      <4> QED BY <2>0, <3>1, <4>1, <4>2, GotBy DEF Starts, UpdateOK
    <3>2. CASE worker[w].pc # "acquire"
      <4>1. Begin(w) /\ UpdateOK(First) /\ First.id = c
        BY <2>0, <3>2, BegunBy DEF Starts, WaitSlot, AllPartsOK, WorkersOK
      <4>2. queue # <<>> /\ First.readyAt <= now
        BY <4>1 DEF Begin, Resolvable, Ready
      <4>3. First \in Instance /\ HeldCopy(First)
        BY <2>0, <4>2 DEF AllPartsOK, QueueOK, First, HeldCopy, QueueCopy
      <4> QED BY <4>1, <4>2, <4>3 DEF UpdateOK
    <3> QED BY <3>1, <3>2
  <2>2. rows[c].readyAt <= i.readyAt /\ i.readyAt \in Nat
    BY <2>1 DEF TimeInv, Timely, Instance
  <2> QED BY <2>0, <2>1, <2>2
<1> QED BY <1>1, <1>2, <1>3, PTL DEF Spec, NeverEarly
-----------------------------------------------------------------------------
(* Final states.  Where nobody cancels, a row is written by whoever holds its only *)
(* copy, by the panic of a callback, by its creator, by a deletion or by a replay. *)
\* The status of a new row, of a row that is held, and of one that is replayed.
Writable(c) ==
    \/ rows[c].status = "NONE"
    \/ Held(c)
    \/ \E k \in Client : client[k].op = "replay" /\ client[k].inst.id = c
RowStep(c) ==
    \/ rows'[c] = rows[c]
    \/ rows'[c].status \in {"FAILED", "GONE"}
    \/ Writable(c) /\ rows'[c].status # "CANCELLED"

FinalInv ==
    /\ OnceInv
    /\ \A c \in Cmd : rows[c].status # "CANCELLED"
    /\ \A k \in Client : client[k].op # "cancel"

LEMMA PutWrites ==
    ASSUME RowsOK, NEW i \in Instance, Put(i) \/ UNCHANGED rows,
           i.status = "FAILED" \/ (Writable(i.id) /\ i.status # "CANCELLED")
    PROVE  \A c \in Cmd : RowStep(c)
BY PutRow DEF RowStep

LEMMA TakeWrites ==
    ASSUME AllPartsOK, NEW w \in Worker, Take(w)
    PROVE  \A c \in Cmd : RowStep(c)
<1>0. RowsOK /\ QueueOK /\ queue # <<>>
  BY DEF AllPartsOK, Take, Drop, HandleExpired, NotReady, NotRegistered, Begin, WaitSlot, Resolvable, Ready
<1>1. PICK f \in Instance : f = First /\ Writable(f.id)
  <2>1. First \in Instance /\ 1 \in DOMAIN queue /\ First = queue[1]
    BY <1>0 DEF QueueOK, First
  <2> QED BY <2>1 DEF Writable, Held, InQueue
<1>2. CASE Drop(w) \/ NotReady(w) \/ WaitSlot(w)
  BY <1>2 DEF Drop, NotReady, WaitSlot, RowStep
<1>3. CASE HandleExpired(w)
  <2>1. Expired(f) \in Instance /\ Expired(f).id = f.id
    BY TransitionTypes, 0 \in Nat
  <2>2. Expired(f).status # "CANCELLED"
    BY Statuses, 0 \in Nat
  <2>3. Put(Expired(f)) \/ UNCHANGED rows
    BY <1>1, <1>3 DEF HandleExpired
  <2> QED BY <1>0, <1>1, <2>1, <2>2, <2>3, PutWrites
<1>4. CASE NotRegistered(w)
  <2>1. Unresolved(f) \in Instance /\ Unresolved(f).id = f.id
    BY TransitionTypes, 0 \in Nat
  <2>2. Unresolved(f).status = "FAILED"
    BY Statuses, 0 \in Nat
  <2>3. Put(Unresolved(f)) \/ UNCHANGED rows
    BY <1>1, <1>4 DEF NotRegistered
  <2> QED BY <1>0, <2>1, <2>2, <2>3, PutWrites
<1>5. CASE Begin(w)
  <2>1. Started(f) \in Instance /\ Started(f).id = f.id
    BY TransitionTypes, 0 \in Nat
  <2>2. Started(f).status # "CANCELLED"
    BY Statuses, 0 \in Nat
  <2>3. Put(Started(f)) \/ UNCHANGED rows
    BY <1>1, <1>5 DEF Begin, RunHandler
  <2> QED BY <1>0, <1>1, <2>1, <2>2, <2>3, PutWrites
<1> QED BY <1>2, <1>3, <1>4, <1>5 DEF Take

LEMMA ProceedWrites ==
    ASSUME AllPartsOK, NEW w \in Worker, Proceed(w)
    PROVE  \A c \in Cmd : RowStep(c)
<1>0. RowsOK /\ WorkersOK /\ now \in Nat /\ worker[w].pc # "idle"
  BY DEF AllPartsOK, RestOK, Proceed, GotSlot, SlotRefused, ResultRepeat, ResultRetry, ResultDone,
     ErrorRetry, ErrorFinal, CallbackDone, Panic, SpawnChild, SkipChild, Complete, Running, Spawning
<1>1. PICK i \in Instance : i = worker[w].inst /\ i.id \in Cmd
  <2>1. worker[w].inst \in Instance
    BY <1>0, WorkerCopy
  <2> QED BY <2>1 DEF Instance
<1>2. worker[w].pc \in Working => Writable(i.id)
  BY <1>1 DEF Writable, Held, AtWork, Working
<1>3. CASE GotSlot(w)
  <2>1. Started(i) \in Instance /\ Started(i).id = i.id
    BY TransitionTypes, 0 \in Nat
  <2>2. Started(i).status # "CANCELLED"
    BY Statuses, 0 \in Nat
  <2>3. (Put(Started(i)) \/ UNCHANGED rows) /\ worker[w].pc \in Working
    BY <1>1, <1>3 DEF GotSlot, RunHandler, Working
  <2> QED BY <1>0, <1>2, <2>1, <2>2, <2>3, PutWrites
<1>4. CASE ResultRepeat(w)
  <2>0. now + Period \in Nat
    BY <1>0, ExecutorAssumption
  <2>1. Repeating(i, now + Period) \in Instance /\ Repeating(i, now + Period).id = i.id
    BY <2>0, TransitionTypes
  <2>2. Repeating(i, now + Period).status # "CANCELLED"
    BY <2>0, Statuses
  <2>3. (Put(Repeating(i, now + Period)) \/ UNCHANGED rows) /\ worker[w].pc \in Working
    BY <1>1, <1>4 DEF ResultRepeat, UpdateAndSchedule, Running, Working
  <2> QED BY <1>0, <1>2, <2>1, <2>2, <2>3, PutWrites
<1>5. CASE ResultRetry(w)
  <2>1. Retrying(i) \in Instance /\ Retrying(i).id = i.id
    BY <1>0, <1>1, <1>5, ChargedTypes DEF ResultRetry
  <2>2. Retrying(i).status # "CANCELLED"
    BY Statuses, 0 \in Nat
  <2>3. (Put(Retrying(i)) \/ UNCHANGED rows) /\ worker[w].pc \in Working
    BY <1>1, <1>5 DEF ResultRetry, UpdateAndSchedule, Running, Working
  <2> QED BY <1>0, <1>2, <2>1, <2>2, <2>3, PutWrites
<1>6. CASE ErrorRetry(w)
  <2>0. now + Backoff \in Nat
    BY <1>0, ExecutorAssumption
  <2>1. BackedOff(i, now + Backoff) \in Instance /\ BackedOff(i, now + Backoff).id = i.id
    BY <1>0, <1>1, <1>6, <2>0, ChargedTypes DEF ErrorRetry
  <2>2. BackedOff(i, now + Backoff).status # "CANCELLED"
    BY <2>0, Statuses
  <2>3. (Put(BackedOff(i, now + Backoff)) \/ UNCHANGED rows) /\ worker[w].pc \in Working
    BY <1>1, <1>6 DEF ErrorRetry, UpdateAndSchedule, Running, Working
  <2> QED BY <1>0, <1>2, <2>1, <2>2, <2>3, PutWrites
<1>7. CASE ErrorFinal(w)
  <2>1. Failed(i, DeadLetter) \in Instance /\ Failed(i, DeadLetter).id = i.id
    BY TransitionTypes, ExecutorAssumption, 0 \in Nat
  <2>2. Failed(i, DeadLetter).status # "CANCELLED"
    BY DEF Failed, Instance
  <2>3. (Put(Failed(i, DeadLetter)) \/ UNCHANGED rows) /\ worker[w].pc \in Working
    BY <1>1, <1>7 DEF ErrorFinal, Running, Working
  <2> QED BY <1>0, <1>2, <2>1, <2>2, <2>3, PutWrites
<1>8. CASE Panic(w)
  <2>1. Panicked(i) \in Instance /\ Panicked(i).id = i.id
    BY TransitionTypes, 0 \in Nat
  <2>2. Panicked(i).status = "FAILED"
    BY Statuses, 0 \in Nat
  <2>3. Put(Panicked(i)) \/ UNCHANGED rows
    BY <1>1, <1>8 DEF Panic
  <2> QED BY <1>0, <2>1, <2>2, <2>3, PutWrites
<1>9. ASSUME NEW c \in Cmd, SpawnChild(w, c) PROVE \A d \in Cmd : RowStep(d)
  <2>1. worker[w].todo \in Seq(Nat)
    BY <1>0, WorkerCopy
  <2>2. Head(worker[w].todo) \in Nat /\ rows[c].status = "NONE"
    BY <1>9, <2>1 DEF SpawnChild, Spawning, Fresh
  <2>3. Retries \in Nat /\ NoDeadline \in Nat /\ now + Head(worker[w].todo) \in Nat
    BY <1>0, <2>2, ExecutorAssumption DEF NoDeadline
  <2>4. PICK j \in Instance : j = NewInstance(c, Retries, now + Head(worker[w].todo), NoDeadline) /\ j.id = c
    BY <2>3, NewInstanceType
  <2>5. Put(j) /\ j.status # "CANCELLED"
    BY <1>9, <2>4 DEF SpawnChild, NewInstance
  <2> QED BY <1>0, <2>2, <2>4, <2>5, PutWrites DEF Writable
<1>10. CASE Complete(w)
  <2>1. Completed(i) \in Instance /\ Completed(i).id = i.id
    BY TransitionTypes, 0 \in Nat
  <2>2. Completed(i).status # "CANCELLED"
    BY Statuses, 0 \in Nat
  <2>3. (Put(Completed(i)) \/ UNCHANGED rows) /\ worker[w].pc \in Working
    BY <1>1, <1>10 DEF Complete, Working
  <2> QED BY <1>0, <1>2, <2>1, <2>2, <2>3, PutWrites
<1>11. ASSUME \/ SlotRefused(w) \/ SkipChild(w)
              \/ \E plan \in Plans : ResultDone(w, plan) \/ CallbackDone(w, plan)
       PROVE  \A c \in Cmd : RowStep(c)
  BY <1>11 DEF SlotRefused, SkipChild, ResultDone, CallbackDone, RowStep
<1> QED BY <1>3, <1>4, <1>5, <1>6, <1>7, <1>8, <1>9, <1>10, <1>11 DEF Proceed

LEMMA CallWrites ==
    ASSUME AllPartsOK, NEW k \in Client, Call(k) \/ Return(k), client[k].op # "cancel"
    PROVE  \A c \in Cmd : RowStep(c)
<1>0. RowsOK /\ ClientsOK /\ now \in Nat /\ Retries \in Nat /\ NoDeadline \in Nat
  BY ExecutorAssumption DEF AllPartsOK, RestOK, NoDeadline
<1>1. ASSUME NEW c \in Cmd, NEW delay \in Delays, NEW deadline \in Deadlines \cup {NoDeadline},
             Add(k, c, delay, deadline)
      PROVE  \A d \in Cmd : RowStep(d)
  <2>0. delay \in Nat /\ deadline \in Nat
    BY <1>0, ExecutorAssumption
  <2>1. now + delay \in Nat /\ now + deadline \in Nat
    BY <1>0, <2>0
  <2>2. PICK i \in Instance : i = NewInstance(c, Retries, now + delay, now + deadline) /\ i.id = c
    BY <1>0, <2>1, NewInstanceType
  <2>3. Put(i) /\ rows[c].status = "NONE" /\ i.status # "CANCELLED"
    BY <1>1, <2>2 DEF Add, Fresh, NewInstance
  <2> QED BY <1>0, <2>2, <2>3, PutWrites DEF Writable
<1>2. ASSUME NEW op \in {"cancel", "replay", "purge"}, NEW c \in Cmd, Lookup(k, op, c)
      PROVE  \A d \in Cmd : RowStep(d)
  BY <1>2 DEF Lookup, RowStep
<1>3. CASE ReplayFromDLQ(k)
  <2>0. client[k].op = "replay" /\ client[k].inst \in Instance
    BY <1>0, <1>3 DEF ReplayFromDLQ, ClientsOK
  <2>1. Replayed(client[k].inst, now) \in Instance /\ Replayed(client[k].inst, now).id = client[k].inst.id
    BY <1>0, <2>0, TransitionTypes
  <2>2. Replayed(client[k].inst, now).status # "CANCELLED"
    BY <1>0, <2>0, Statuses
  <2>3. Put(Replayed(client[k].inst, now)) \/ UNCHANGED rows
    BY <1>3 DEF ReplayFromDLQ
  <2> QED BY <1>0, <2>0, <2>1, <2>2, <2>3, PutWrites DEF Writable
<1>4. CASE PurgeDLQ(k)
  <2>1. client[k].inst.id \in Cmd /\ Delete(client[k].inst.id)
    BY <1>0, <1>4 DEF PurgeDLQ, ClientsOK, Instance
  <2> QED BY <1>0, <2>1 DEF Delete, RowsOK, Blank, RowStep
<1> QED BY <1>1, <1>2, <1>3, <1>4 DEF Call, Return, Cancel

LEMMA EveryWrite ==
    ASSUME Undisturbed, FinalInv, [Next]_vars
    PROVE  \A c \in Cmd : RowStep(c)
<1>0. AllPartsOK /\ RowsOK /\ recovering = {} /\ \A k \in Client : client[k].op # "cancel"
  BY DEF FinalInv, OnceInv, AllPartsOK, PhaseCalm
<1>1. UNCHANGED rows => \A c \in Cmd : RowStep(c)
  BY DEF RowStep
<1>2. ASSUME NEW w \in Worker, Take(w) \/ Proceed(w) PROVE \A c \in Cmd : RowStep(c)
  BY <1>0, <1>2, TakeWrites, ProceedWrites
<1>3. ASSUME NEW k \in Client, Call(k) \/ Return(k) PROVE \A c \in Cmd : RowStep(c)
  BY <1>0, <1>3, CallWrites
<1>4. ASSUME NEW c \in Cmd, Cleanup(c) PROVE \A d \in Cmd : RowStep(d)
  BY <1>0, <1>4 DEF Cleanup, Delete, RowsOK, Blank, RowStep
<1>5. CASE \/ \E a \in Actor : Enqueue(a) \/ Abandon(a)
           \/ \E c \in Cmd : Fire(c)
           \/ \E t \in leaked : FireLeaked(t)
           \/ \E S \in SUBSET Cmd : FindStuck(S)
           \/ \E i \in replaying : Replay(i)
           \/ Start \/ StartDone \/ Stop \/ StopCancel \/ StopDone \/ Crash \/ Tick \/ UNCHANGED vars
  <2>1. UNCHANGED rows
    BY <1>5 DEF Enqueue, Abandon, Fire, FireLeaked, FindStuck, Replay, Start, StartDone, Stop,
       StopCancel, StopDone, Crash, Tick, vars
  <2> QED BY <1>1, <2>1
<1> QED BY <1>0, <1>2, <1>3, <1>4, <1>5 DEF Next

\* Where Cancel is not in use, "a final state" is final: no interleaving of workers,
\* timers, replays, purges and crashes takes a row out of a terminal status, unless it
\* is replayed or deleted.  Run queue_cancelled shows what Cancel does to it.
THEOREM FinalWithoutCancel ==
    ASSUME Undisturbed, "cancel" \notin ApiOps PROVE Spec => TerminalIsFinal
<1>1. Init => FinalInv
  <2> SUFFICES ASSUME Init PROVE FinalInv
    OBVIOUS
  <2>1. \A c \in Cmd : rows[c].status # "CANCELLED"
    BY DEF Init, Blank
  <2>2. \A k \in Client : client[k].op # "cancel"
    BY DEF Init, NoCall
  <2> QED BY <2>1, <2>2, OnceStart DEF FinalInv
<1>2. FinalInv /\ [Next]_vars => FinalInv'
  <2> SUFFICES ASSUME FinalInv, [Next]_vars PROVE FinalInv'
    OBVIOUS
  <2>1. OnceInv' /\ ClientsOK
    BY OnceStep DEF FinalInv, OnceInv, AllPartsOK
  <2>2. \A c \in Cmd : rows'[c].status # "CANCELLED"
    BY EveryWrite DEF FinalInv, RowStep
  <2>3. \A k \in Client : client'[k].op # "cancel"
    <3>1. ASSUME NEW k \in Client, Call(k) \/ Return(k) PROVE \A l \in Client : client'[l].op # "cancel"
      BY <2>1, <3>1 DEF FinalInv, ClientsOK, Call, Return, Add, Lookup, Cancel, ReplayFromDLQ, PurgeDLQ, NoCall
    <3>2. CASE Crash
      BY <3>2 DEF Crash, NoCall
    <3>3. CASE UNCHANGED client
      BY <3>3 DEF FinalInv
    <3>4. ASSUME NEW w \in Worker, Take(w) \/ Proceed(w) PROVE UNCHANGED client
      BY <3>4 DEF Take, Proceed, Drop, HandleExpired, NotReady, NotRegistered,
         Begin, WaitSlot, GotSlot, SlotRefused, ResultRepeat, ResultRetry, ResultDone,
         ErrorRetry, ErrorFinal, CallbackDone, Panic, SpawnChild, SkipChild, Complete
    <3> QED
      BY <3>1, <3>2, <3>3, <3>4 DEF Next, vars, Enqueue, Abandon, Fire, FireLeaked, Cleanup, FindStuck,
         RecoverStuck, Start, Replay, StartDone, Stop, StopCancel, StopDone, Tick
  <2> QED BY <2>1, <2>2, <2>3 DEF FinalInv
<1>3. FinalInv /\ [Next]_vars =>
        [\A c \in Cmd : IsTerminal(rows[c].status) =>
            \/ IsTerminal(rows'[c].status) \/ rows'[c].status = "GONE"
            \/ \E k \in Client : client[k].op = "replay" /\ client[k].inst.id = c]_vars
  <2> SUFFICES ASSUME FinalInv, [Next]_vars, NEW c \in Cmd, IsTerminal(rows[c].status)
               PROVE  \/ IsTerminal(rows'[c].status) \/ rows'[c].status = "GONE"
                      \/ \E k \in Client : client[k].op = "replay" /\ client[k].inst.id = c
    OBVIOUS
  <2>1. ~Held(c)
    BY DEF FinalInv, OnceInv, Sound, Open, IsTerminal
  <2>2. RowStep(c)
    BY EveryWrite
  <2> QED BY <2>1, <2>2 DEF RowStep, Writable, IsTerminal
<1> QED BY <1>1, <1>2, <1>3, PTL DEF Spec, TerminalIsFinal
=============================================================================
