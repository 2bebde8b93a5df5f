------------------------- MODULE QueueExecutorProofs -------------------------
(* Theorems about QueueExecutor, for any number of workers, clients and commands: *)
(* types, deleted rows, no command lost, and the retry budget.                    *)
EXTENDS QueueExecutor, InstancesProofs, TLAPS

-----------------------------------------------------------------------------
(* The parts of the type invariant, and what the building blocks of the actions *)
(* do to them.                                                                  *)
RowsOK == rows \in [Cmd -> Row] /\ \A c \in Cmd : rows[c].id = c
QueueOK == queue \in Seq(Instance) /\ Len(queue) <= QueueSize
TimersOK ==
    /\ delayedTimers \in [Cmd -> Timer \cup {NoInst}]
    /\ \A c \in Cmd : delayedTimers[c] # NoInst => delayedTimers[c].inst.id = c
LeakedOK == leaked \subseteq Timer
WorkersOK ==
    /\ worker \in [Worker -> WorkerState]
    /\ \A w \in Worker : worker[w].pc # "idle" => worker[w].inst # NoInst
SendsOK == sending \in [Actor -> Instance \cup {NoInst}]
ClientsOK ==
    /\ client \in [Client -> [op : {"none", "cancel", "replay", "purge"},
                              inst : Instance \cup {NoInst}]]
    /\ \A k \in Client : client[k].op # "none" => client[k].inst # NoInst
LoopsOK == recovering \subseteq Instance /\ replaying \subseteq Instance
RestOK == now \in Nat /\ phase \in Phase /\ skipped \subseteq Cmd /\ uncharged \in Nat

AllPartsOK ==
    /\ RowsOK /\ QueueOK /\ TimersOK /\ LeakedOK /\ WorkersOK /\ SendsOK
    /\ ClientsOK /\ LoopsOK /\ RestOK

LEMMA TypeParts == TypeOK <=> AllPartsOK
BY DEF TypeOK, RowsOK, QueueOK, TimersOK, LeakedOK, WorkersOK, SendsOK, ClientsOK,
       LoopsOK, RestOK, AllPartsOK

LEMMA PutType ==
    ASSUME RowsOK, NEW i \in Instance, Put(i)
    PROVE  RowsOK'
<1>1. i \in Row /\ i.id \in Cmd
  BY RowTypes DEF Instance
<1> QED BY <1>1 DEF RowsOK, Put

LEMMA ArmType ==
    ASSUME TimersOK, now \in Nat, NEW i \in Instance, Arm(i)
    PROVE  TimersOK'
<1> DEFINE delay == IF i.readyAt <= now THEN 0
                    ELSE IF i.readyAt - now > MaxDelay THEN MaxDelay ELSE i.readyAt - now
           timer == [inst |-> i, at |-> now + delay]
<1>1. i.readyAt \in Nat /\ i.id \in Cmd /\ MaxDelay \in Nat
  BY ExecutorAssumption DEF Instance
<1>2. now + delay \in Nat
  BY <1>1
<1>3. timer \in Timer /\ timer.inst.id = i.id
  BY <1>2 DEF Timer
<1>4. delayedTimers' = [delayedTimers EXCEPT ![i.id] = timer]
  BY DEF Arm
<1> HIDE DEF timer, delay
<1> QED BY <1>1, <1>3, <1>4 DEF TimersOK

LEMMA ScheduleType ==
    ASSUME TimersOK, SendsOK, now \in Nat, NEW a \in Actor, NEW i \in Instance, Schedule(a, i)
    PROVE  TimersOK' /\ SendsOK'
<1>1. CASE i.readyAt <= now
  BY <1>1 DEF Schedule, TimersOK, SendsOK
<1>2. CASE ~(i.readyAt <= now)
  BY <1>2, ArmType DEF Schedule, SendsOK
<1> QED BY <1>1, <1>2

LEMMA TakeType ==
    ASSUME QueueOK, queue # <<>>, queue' = Tail(queue)
    PROVE  QueueOK' /\ First \in Instance
BY ExecutorAssumption DEF QueueOK, First

LEMMA SetWorkerType ==
    ASSUME WorkersOK, NEW w \in Worker, NEW s \in WorkerState,
           s.pc # "idle" => s.inst # NoInst, worker' = [worker EXCEPT ![w] = s]
    PROVE  WorkersOK'
BY DEF WorkersOK

LEMMA WorkerStates ==
    /\ Idle \in WorkerState /\ Idle.pc = "idle"
    /\ \A p \in {"acquire", "running", "spawn", "callback", "followup"},
           i \in Instance, plan \in Seq(Nat) :
         LET s == [pc |-> p, inst |-> i, todo |-> plan] IN
         s \in WorkerState /\ s.inst # NoInst
    /\ \A i \in Instance : Callback(i) \in WorkerState /\ (Callback(i).pc # "idle" => Callback(i).inst # NoInst)
    /\ \A plan \in Plans : plan \in Seq(Nat)
<1>1. Idle \in WorkerState /\ Idle.pc = "idle"
  BY DEF Idle, WorkerState
<1>2. \A p \in {"acquire", "running", "spawn", "callback", "followup"},
           i \in Instance, plan \in Seq(Nat) :
         LET s == [pc |-> p, inst |-> i, todo |-> plan] IN
         s \in WorkerState /\ s.inst # NoInst
  BY RowTypes DEF WorkerState
<1>3. \A i \in Instance : Callback(i) \in WorkerState /\ (Callback(i).pc # "idle" => Callback(i).inst # NoInst)
  <2>1. ASSUME NEW i \in Instance, i.id \notin Unregistered
        PROVE  Callback(i) = [pc |-> "callback", inst |-> i, todo |-> <<>>]
    BY <2>1 DEF Callback
  <2>2. ASSUME NEW i \in Instance, i.id \in Unregistered PROVE Callback(i) = Idle
    BY <2>2 DEF Callback
  <2>3. <<>> \in Seq(Nat)
    OBVIOUS
  <2> QED BY <1>1, <1>2, <2>1, <2>2, <2>3
<1>4. \A plan \in Plans : plan \in Seq(Nat)
  <2>1. KidPlans \subseteq Seq(Nat)
    BY ExecutorAssumption
  <2> QED BY <2>1, <<>> \in Seq(Nat) DEF Plans
<1> QED BY <1>1, <1>2, <1>3, <1>4

LEMMA WorkerCopy ==
    ASSUME WorkersOK, NEW w \in Worker, worker[w].pc # "idle"
    PROVE  worker[w].inst \in Instance /\ worker[w].todo \in Seq(Nat)
BY DEF WorkersOK, WorkerState

LEMMA Kept ==
    /\ RowsOK /\ UNCHANGED rows => RowsOK'
    /\ QueueOK /\ UNCHANGED queue => QueueOK'
    /\ TimersOK /\ UNCHANGED delayedTimers => TimersOK'
    /\ LeakedOK /\ UNCHANGED leaked => LeakedOK'
    /\ WorkersOK /\ UNCHANGED worker => WorkersOK'
    /\ SendsOK /\ UNCHANGED sending => SendsOK'
    /\ ClientsOK /\ UNCHANGED client => ClientsOK'
    /\ LoopsOK /\ UNCHANGED <<recovering, replaying>> => LoopsOK'
    /\ RestOK /\ UNCHANGED <<now, phase, skipped, uncharged>> => RestOK'
BY DEF RowsOK, QueueOK, TimersOK, LeakedOK, WorkersOK, SendsOK, ClientsOK, LoopsOK, RestOK

LEMMA Frees ==  \* the worker or the client is done
    /\ \A w \in Worker : WorkersOK /\ worker' = [worker EXCEPT ![w] = Idle] => WorkersOK'
    /\ \A k \in Client : ClientsOK /\ client' = [client EXCEPT ![k] = NoCall] => ClientsOK'
<1>1. ASSUME NEW w \in Worker, WorkersOK, worker' = [worker EXCEPT ![w] = Idle] PROVE WorkersOK'
  BY <1>1, SetWorkerType, WorkerStates
<1>2. ASSUME NEW k \in Client, ClientsOK, client' = [client EXCEPT ![k] = NoCall] PROVE ClientsOK'
  BY <1>2 DEF ClientsOK, NoCall
<1> QED BY <1>1, <1>2

LEMMA ActorTypes ==
    /\ Worker \subseteq Actor /\ Client \subseteq Actor /\ Cmd \subseteq Actor
    /\ "recovery" \in Actor /\ "start" \in Actor
BY DEF Actor

LEMMA RunHandlerType ==
    ASSUME RowsOK, WorkersOK, NEW w \in Worker, NEW i \in Instance, RunHandler(w, i)
    PROVE  RowsOK' /\ WorkersOK'
<1>1. CASE UpdateOK(i)
  <2>1. Started(i) \in Instance
    BY TransitionTypes
  <2> DEFINE s == [pc |-> "running", inst |-> Started(i), todo |-> <<>>]
  <2>2. s \in WorkerState /\ s.inst # NoInst
    BY <2>1, WorkerStates, <<>> \in Seq(Nat)
  <2>3. Put(Started(i)) /\ worker' = [worker EXCEPT ![w] = s]
    BY <1>1 DEF RunHandler
  <2> HIDE DEF s
  <2> QED BY <2>1, <2>2, <2>3, PutType, SetWorkerType
<1>2. CASE ~UpdateOK(i)
  BY <1>2, Kept, Frees DEF RunHandler
<1> QED BY <1>1, <1>2

(* A worker takes a copy off the queue. *)
LEMMA TakeKeepsType ==
    ASSUME AllPartsOK, NEW w \in Worker, Take(w)
    PROVE  AllPartsOK'
<1> USE Kept DEF AllPartsOK
<1>0. queue # <<>> /\ queue' = Tail(queue) /\ First \in Instance /\ QueueOK'
  <2>1. queue # <<>> /\ queue' = Tail(queue)
    BY DEF Take, Drop, HandleExpired, NotReady, NotRegistered, Begin, WaitSlot, Resolvable,
           ResolvableEarly, Ready
  <2> QED BY <2>1, TakeType
<1>1. CASE Drop(w)
  BY <1>0, <1>1 DEF Drop
<1>2. CASE HandleExpired(w)
  <2>1. CASE UpdateOK(First)
    <3>1. Expired(First) \in Instance
      BY <1>0, TransitionTypes
    <3>2. RowsOK'
      BY <1>2, <2>1, <3>1, PutType DEF HandleExpired
    <3>3. WorkersOK'
      BY <1>2, <2>1, <3>1, SetWorkerType, WorkerStates DEF HandleExpired
    <3> QED BY <1>0, <1>2, <3>2, <3>3 DEF HandleExpired
  <2>2. CASE ~UpdateOK(First)
    BY <1>0, <1>2, <2>2 DEF HandleExpired
  <2> QED BY <2>1, <2>2
<1>3. CASE NotReady(w)
  <2>1. TimersOK'
    BY <1>0, <1>3, ArmType DEF NotReady, RestOK
  <2> QED BY <1>0, <1>3, <2>1 DEF NotReady
<1>4. CASE NotRegistered(w)
  <2>1. RowsOK'
    BY <1>0, <1>4, PutType, TransitionTypes DEF NotRegistered
  <2> QED BY <1>0, <1>4, <2>1 DEF NotRegistered
<1>5. CASE Begin(w)
  <2>1. RowsOK' /\ WorkersOK'
    BY <1>0, <1>5, RunHandlerType DEF Begin
  <2> QED BY <1>0, <1>5, <2>1 DEF Begin
<1>6. CASE WaitSlot(w)
  <2>1. WorkersOK'
    BY <1>0, <1>6, SetWorkerType, WorkerStates, <<>> \in Seq(Nat) DEF WaitSlot
  <2> QED BY <1>0, <1>6, <2>1 DEF WaitSlot
<1> QED BY <1>1, <1>2, <1>3, <1>4, <1>5, <1>6 DEF Take

LEMMA UpdateAndScheduleType ==
    ASSUME AllPartsOK, NEW w \in Worker, NEW i \in Instance, UpdateAndSchedule(w, i)
    PROVE  RowsOK' /\ TimersOK' /\ SendsOK' /\ WorkersOK'
<1> USE DEF AllPartsOK
<1>1. WorkersOK'
  BY Frees DEF UpdateAndSchedule
<1>2. CASE UpdateOK(i)
  <2>1. RowsOK'
    BY <1>2, PutType DEF UpdateAndSchedule
  <2>2. TimersOK' /\ SendsOK'
    BY <1>2, ScheduleType, ActorTypes DEF UpdateAndSchedule, RestOK
  <2> QED BY <1>1, <2>1, <2>2
<1>3. CASE ~UpdateOK(i)
  BY <1>1, <1>3, Kept DEF UpdateAndSchedule
<1> QED BY <1>2, <1>3

(* A worker proceeds with the copy it has. *)
LEMMA ProceedKeepsType ==
    ASSUME AllPartsOK, NEW w \in Worker, Proceed(w)
    PROVE  AllPartsOK'
<1> USE Kept DEF AllPartsOK
<1> DEFINE i == worker[w].inst
<1>0. /\ worker[w].pc # "idle" /\ i \in Instance /\ worker[w].todo \in Seq(Nat)
      /\ now \in Nat
  <2>1. worker[w].pc # "idle" /\ now \in Nat
    BY DEF Proceed, GotSlot, SlotRefused, ResultRepeat, ResultRetry, ResultDone, ErrorRetry,
           ErrorFinal, CallbackDone, Panic, SpawnChild, SkipChild, Complete, Running, Spawning,
           RestOK
  <2> QED BY <2>1, WorkerCopy
<1>1. CASE GotSlot(w)
  <2>1. RowsOK' /\ WorkersOK'
    BY <1>0, <1>1, RunHandlerType DEF GotSlot
  <2> QED BY <1>1, <2>1 DEF GotSlot
<1>2. CASE SlotRefused(w)
  <2>1. TimersOK'
    BY <1>0, <1>2, ArmType DEF SlotRefused
  <2>2. WorkersOK'
    BY <1>2, Frees DEF SlotRefused
  <2> QED BY <1>2, <2>1, <2>2 DEF SlotRefused
<1>3. CASE ResultRepeat(w)
  <2>1. now + Period \in Nat
    BY <1>0, ExecutorAssumption
  <2>2. Repeating(i, now + Period) \in Instance
    BY <1>0, <2>1, TransitionTypes
  <2>3. RowsOK' /\ TimersOK' /\ SendsOK' /\ WorkersOK'
    BY <1>3, <2>2, UpdateAndScheduleType DEF ResultRepeat
  <2>4. RestOK'
    BY <1>3 DEF ResultRepeat, RestOK
  <2> QED BY <1>3, <2>3, <2>4 DEF ResultRepeat
<1>4. CASE ResultRetry(w)
  <2>1. Retrying(i) \in Instance
    BY <1>0, <1>4, ChargedTypes DEF ResultRetry
  <2>2. RowsOK' /\ TimersOK' /\ SendsOK' /\ WorkersOK'
    BY <1>4, <2>1, UpdateAndScheduleType DEF ResultRetry
  <2> QED BY <1>4, <2>2 DEF ResultRetry
<1>5. ASSUME NEW plan \in Plans, ResultDone(w, plan) PROVE AllPartsOK'
  <2> DEFINE s == [pc |-> "spawn", inst |-> i, todo |-> plan]
  <2>1. s \in WorkerState /\ s.inst # NoInst
    BY <1>0, WorkerStates
  <2>2. worker' = [worker EXCEPT ![w] = s]
    BY <1>5 DEF ResultDone, WorkersOK
  <2> HIDE DEF s
  <2>3. WorkersOK'
    BY <2>1, <2>2, SetWorkerType
  <2> QED BY <1>5, <2>3 DEF ResultDone
<1>6. CASE ErrorRetry(w)
  <2>1. now + Backoff \in Nat
    BY <1>0, ExecutorAssumption
  <2>2. BackedOff(i, now + Backoff) \in Instance
    BY <1>0, <1>6, <2>1, ChargedTypes DEF ErrorRetry
  <2>3. RowsOK' /\ TimersOK' /\ SendsOK' /\ WorkersOK'
    BY <1>6, <2>2, UpdateAndScheduleType DEF ErrorRetry
  <2> QED BY <1>6, <2>3 DEF ErrorRetry
<1>7. CASE ErrorFinal(w)
  <2>1. Failed(i, DeadLetter) \in Instance
    BY <1>0, TransitionTypes, ExecutorAssumption
  <2>2. RowsOK' /\ WorkersOK'
    <3>1. CASE UpdateOK(Failed(i, DeadLetter))
      BY <1>7, <2>1, <3>1, PutType, SetWorkerType, WorkerStates DEF ErrorFinal
    <3>2. CASE ~UpdateOK(Failed(i, DeadLetter))
      BY <1>7, <3>2, Frees DEF ErrorFinal
    <3> QED BY <3>1, <3>2
  <2> QED BY <1>7, <2>2 DEF ErrorFinal
<1>8. ASSUME NEW plan \in Plans, CallbackDone(w, plan) PROVE AllPartsOK'
  <2> DEFINE s == [pc |-> "followup", inst |-> i, todo |-> plan]
  <2>1. s \in WorkerState /\ s.inst # NoInst
    BY <1>0, WorkerStates
  <2>2. worker' = [worker EXCEPT ![w] = s] \/ worker' = [worker EXCEPT ![w] = Idle]
    BY <1>8 DEF CallbackDone, WorkersOK
  <2> HIDE DEF s
  <2>3. WorkersOK'
    BY <2>1, <2>2, SetWorkerType, Frees
  <2> QED BY <1>8, <2>3 DEF CallbackDone
<1>9. CASE Panic(w)
  <2>1. RowsOK'
    <3>1. Panicked(i) \in Instance
      BY <1>0, TransitionTypes
    <3>2. Put(Panicked(i)) \/ UNCHANGED rows
      BY <1>9 DEF Panic
    <3> QED BY <3>1, <3>2, PutType
  <2>2. WorkersOK'
    BY <1>9, Frees DEF Panic
  <2> QED BY <1>9, <2>1, <2>2 DEF Panic
<1>10. ASSUME Spawning(w), NextChild(w) PROVE WorkersOK'
  <2> DEFINE s == [pc |-> worker[w].pc, inst |-> i, todo |-> Tail(worker[w].todo)]
  <2>1. Tail(worker[w].todo) \in Seq(Nat) /\ worker[w] \in WorkerState
    BY <1>0, <1>10 DEF Spawning, WorkersOK
  <2>2. s \in WorkerState /\ s.inst = i
    BY <2>1 DEF WorkerState
  <2>3. worker' = [worker EXCEPT ![w] = s] \/ worker' = [worker EXCEPT ![w] = Idle]
    <3>1. CASE worker[w].pc = "followup" /\ Len(worker[w].todo) = 1
      BY <1>10, <3>1 DEF NextChild, WorkersOK
    <3>2. CASE ~(worker[w].pc = "followup" /\ Len(worker[w].todo) = 1)
      BY <1>10, <3>2 DEF NextChild, WorkersOK
    <3> QED BY <3>1, <3>2
  <2>4. s.inst # NoInst
    BY <1>0, <2>2, RowTypes
  <2> HIDE DEF s
  <2> QED BY <2>2, <2>3, <2>4, SetWorkerType, Frees
<1>11. ASSUME NEW c \in Cmd, SpawnChild(w, c) PROVE AllPartsOK'
  <2> DEFINE new == NewInstance(c, Retries, now + Head(worker[w].todo), NoDeadline)
  <2>1. Head(worker[w].todo) \in Nat
    BY <1>0, <1>11 DEF SpawnChild, Spawning
  <2>2. Retries \in Nat /\ NoDeadline \in Nat /\ now + Head(worker[w].todo) \in Nat
    <3>1. Retries \in Nat /\ MaxTime \in Nat
      BY ExecutorAssumption
    <3> QED BY <1>0, <2>1, <3>1 DEF NoDeadline
  <2>3. new \in Instance
    BY <2>2, NewInstanceType
  <2>4. Put(new) /\ Schedule(w, new)
    BY <1>11 DEF SpawnChild
  <2> HIDE DEF new
  <2>5. RowsOK' /\ TimersOK' /\ SendsOK'
    BY <1>0, <2>3, <2>4, PutType, ScheduleType, ActorTypes
  <2>6. WorkersOK'
    BY <1>10, <1>11 DEF SpawnChild
  <2> QED BY <1>11, <2>5, <2>6 DEF SpawnChild
<1>12. CASE SkipChild(w)
  <2>1. WorkersOK'
    BY <1>10, <1>12 DEF SkipChild
  <2> QED BY <1>12, <2>1 DEF SkipChild
<1>13. CASE Complete(w)
  <2>1. RowsOK'
    BY <1>0, <1>13, PutType, TransitionTypes DEF Complete
  <2>2. WorkersOK'
    BY <1>13, Frees DEF Complete
  <2> QED BY <1>13, <2>1, <2>2 DEF Complete
<1> HIDE DEF i
<1> QED
  BY <1>1, <1>2, <1>3, <1>4, <1>5, <1>6, <1>7, <1>8, <1>9, <1>11, <1>12, <1>13 DEF Proceed

(* Sends and timers. *)
LEMMA DeliverType ==
    ASSUME SendsOK, NEW i \in Instance, Deliver(i)
    PROVE  SendsOK'
<1>1. i.id \in Actor
  BY ActorTypes DEF Instance
<1> QED BY <1>1 DEF Deliver, SendsOK

LEMMA ChannelKeepsType ==
    ASSUME AllPartsOK,
           \/ \E a \in Actor : Enqueue(a) \/ Abandon(a)
           \/ \E c \in Cmd : Fire(c)
           \/ \E t \in leaked : FireLeaked(t)
    PROVE  AllPartsOK'
<1> USE Kept DEF AllPartsOK
<1>1. ASSUME NEW a \in Actor, Enqueue(a) PROVE AllPartsOK'
  <2>1. sending[a] \in Instance
    BY <1>1 DEF Enqueue, SendsOK
  <2>2. QueueOK'
    BY <1>1, <2>1, ExecutorAssumption DEF Enqueue, QueueOK
  <2>3. SendsOK'
    BY <1>1 DEF Enqueue, SendsOK
  <2> QED BY <1>1, <2>2, <2>3 DEF Enqueue
<1>2. ASSUME NEW a \in Actor, Abandon(a) PROVE AllPartsOK'
  <2>1. SendsOK'
    BY <1>2 DEF Abandon, SendsOK
  <2> QED BY <1>2, <2>1 DEF Abandon
<1>3. ASSUME NEW c \in Cmd, Fire(c) PROVE AllPartsOK'
  <2>1. delayedTimers[c] \in Timer
    BY <1>3 DEF Fire, TimersOK
  <2>2. delayedTimers[c].inst \in Instance
    BY <2>1 DEF Timer
  <2>3. SendsOK'
    BY <1>3, <2>2, DeliverType DEF Fire
  <2>4. TimersOK'
    BY <1>3 DEF Fire, TimersOK
  <2> QED BY <1>3, <2>3, <2>4 DEF Fire
<1>4. ASSUME NEW t \in leaked, FireLeaked(t) PROVE AllPartsOK'
  <2>1. t \in Timer
    BY DEF LeakedOK
  <2>2. t.inst \in Instance /\ t.inst.id \in Cmd
    BY <2>1 DEF Timer, Instance
  <2>3. SendsOK'
    BY <1>4, <2>2, DeliverType DEF FireLeaked
  <2>4. TimersOK'
    BY <1>4, <2>2 DEF FireLeaked, TimersOK
  <2>5. LeakedOK'
    BY <1>4, <2>2 DEF FireLeaked, TimersOK, LeakedOK
  <2> QED BY <1>4, <2>3, <2>4, <2>5 DEF FireLeaked
<1> QED BY <1>1, <1>2, <1>3, <1>4

(* API calls. *)
LEMMA DeleteType ==
    ASSUME RowsOK, NEW c \in Cmd, Delete(c)
    PROVE  RowsOK'
BY RowTypes DEF RowsOK, Delete

LEMMA CallKeepsType ==
    ASSUME AllPartsOK, NEW k \in Client, Call(k) \/ Return(k)
    PROVE  AllPartsOK'
<1> USE Kept DEF AllPartsOK
<1>0. now \in Nat /\ Retries \in Nat /\ NoDeadline \in Nat
  BY ExecutorAssumption DEF RestOK, NoDeadline
<1>1. ASSUME NEW c \in Cmd, NEW delay \in Delays, NEW deadline \in Deadlines \cup {NoDeadline},
             Add(k, c, delay, deadline)
      PROVE  AllPartsOK'
  <2> DEFINE new == NewInstance(c, Retries, now + delay, now + deadline)
  <2>1. now + delay \in Nat /\ now + deadline \in Nat
    BY <1>0, ExecutorAssumption
  <2>2. new \in Instance
    BY <1>0, <2>1, NewInstanceType
  <2>3. Put(new) /\ Schedule(k, new)
    BY <1>1 DEF Add
  <2> HIDE DEF new
  <2>4. RowsOK' /\ TimersOK' /\ SendsOK'
    BY <1>0, <2>2, <2>3, PutType, ScheduleType, ActorTypes
  <2> QED BY <1>1, <2>4 DEF Add
<1>2. ASSUME NEW op \in {"cancel", "replay", "purge"}, NEW c \in Cmd, Lookup(k, op, c)
      PROVE  AllPartsOK'
  <2>1. Present(rows[c])
    BY <1>2 DEF Lookup, Permits, Present, Status
  <2>2. rows[c] \in Instance
    BY <2>1, RowTypes DEF RowsOK
  <2>3. ClientsOK'
    BY <1>2, <2>2, RowTypes DEF Lookup, ClientsOK
  <2> QED BY <1>2, <2>3 DEF Lookup
<1>3. ASSUME client[k].op # "none" PROVE client[k].inst \in Instance /\ client[k].inst.id \in Cmd
  <2>1. client[k].inst \in Instance
    BY <1>3 DEF ClientsOK
  <2> QED BY <2>1 DEF Instance
<1>4. CASE Cancel(k)
  <2>1. Cancelled(client[k].inst) \in Instance
    BY <1>3, <1>4, TransitionTypes DEF Cancel
  <2>2. Put(Cancelled(client[k].inst)) \/ UNCHANGED rows
    BY <1>4 DEF Cancel
  <2>3. RowsOK'
    BY <2>1, <2>2, PutType
  <2>4. ClientsOK'
    BY <1>4, Frees DEF Cancel
  <2> QED BY <1>4, <2>3, <2>4 DEF Cancel
<1>5. CASE ReplayFromDLQ(k)
  <2> DEFINE i == Replayed(client[k].inst, now)
  <2>1. i \in Instance
    BY <1>0, <1>3, <1>5, TransitionTypes DEF ReplayFromDLQ
  <2>2. (Put(i) /\ Schedule(k, i)) \/ UNCHANGED <<rows, sending, delayedTimers>>
    BY <1>5 DEF ReplayFromDLQ
  <2> HIDE DEF i
  <2>3. RowsOK' /\ TimersOK' /\ SendsOK'
    BY <1>0, <2>1, <2>2, PutType, ScheduleType, ActorTypes
  <2>4. ClientsOK'
    BY <1>5, Frees DEF ReplayFromDLQ
  <2> QED BY <1>5, <2>3, <2>4 DEF ReplayFromDLQ
<1>6. CASE PurgeDLQ(k)
  <2>1. RowsOK'
    BY <1>3, <1>6, DeleteType DEF PurgeDLQ
  <2>2. ClientsOK'
    BY <1>6, Frees DEF PurgeDLQ
  <2> QED BY <1>6, <2>1, <2>2 DEF PurgeDLQ
<1> QED BY <1>1, <1>2, <1>4, <1>5, <1>6 DEF Call, Return

(* Maintenance loops and life cycle. *)
LEMMA MaintenanceKeepsType ==
    ASSUME AllPartsOK,
           \/ \E c \in Cmd : Cleanup(c)
           \/ \E S \in SUBSET Cmd : FindStuck(S)
           \/ \E i \in recovering : RecoverStuck(i)
    PROVE  AllPartsOK'
<1> USE Kept DEF AllPartsOK
<1>1. ASSUME NEW c \in Cmd, Cleanup(c) PROVE AllPartsOK'
  <2>1. RowsOK'
    BY <1>1, DeleteType DEF Cleanup
  <2> QED BY <1>1, <2>1 DEF Cleanup
<1>2. ASSUME NEW S \in SUBSET Cmd, FindStuck(S) PROVE AllPartsOK'
  <2>1. \A c \in S : rows[c] \in Instance
    BY <1>2, RowTypes DEF FindStuck, RowsOK, Present, Status
  <2>2. LoopsOK'
    BY <1>2, <2>1 DEF FindStuck, LoopsOK
  <2> QED BY <1>2, <2>2 DEF FindStuck
<1>3. ASSUME NEW i \in recovering, RecoverStuck(i) PROVE AllPartsOK'
  <2>1. i \in Instance /\ now \in Nat
    BY DEF LoopsOK, RestOK
  <2>2. Recovered(i) \in Instance
    BY <2>1, TransitionTypes
  <2>3. \/ Put(Recovered(i)) /\ Schedule("recovery", Recovered(i))
        \/ UNCHANGED <<rows, sending, delayedTimers>>
    BY <1>3 DEF RecoverStuck
  <2>4. RowsOK' /\ TimersOK' /\ SendsOK'
    BY <2>1, <2>2, <2>3, PutType, ScheduleType, ActorTypes
  <2>5. LoopsOK' /\ RestOK'
    BY <1>3 DEF RecoverStuck, LoopsOK, RestOK
  <2> QED BY <1>3, <2>4, <2>5 DEF RecoverStuck
<1> QED BY <1>1, <1>2, <1>3

LEMMA LifeCycleKeepsType ==
    ASSUME AllPartsOK,
           \/ Start \/ StartDone \/ Stop \/ StopCancel \/ StopDone \/ Crash \/ Tick
           \/ \E i \in replaying : Replay(i)
    PROVE  AllPartsOK'
<1> USE Kept DEF AllPartsOK
<1>0. /\ queue' = <<>> => QueueOK'
      /\ delayedTimers' = NoTimers => TimersOK'
      /\ sending' = [a \in Actor |-> NoInst] => SendsOK'
  <2>1. QueueSize \in Nat
    BY ExecutorAssumption
  <2>2. queue' = <<>> => QueueOK'
    BY <2>1 DEF QueueOK
  <2>3. delayedTimers' = NoTimers => TimersOK'
    BY DEF TimersOK, NoTimers
  <2>4. sending' = [a \in Actor |-> NoInst] => SendsOK'
    BY DEF SendsOK
  <2> QED BY <2>2, <2>3, <2>4
<1>1. CASE Start
  <2>1. LeakedOK'
    BY <1>1 DEF Start, LeakedOK, TimersOK
  <2>2. \A c \in Due : rows[c] \in Instance
    BY RowTypes DEF Due, IsActive, RowsOK, Present, Status
  <2>3. LoopsOK'
    BY <1>1, <2>2 DEF Start, LoopsOK
  <2>4. RestOK'
    BY <1>1 DEF Start, RestOK, Phase
  <2> QED BY <1>0, <1>1, <2>1, <2>3, <2>4 DEF Start
<1>2. ASSUME NEW i \in replaying, Replay(i) PROVE AllPartsOK'
  <2>1. TimersOK' /\ SendsOK'
    BY <1>2, ScheduleType, ActorTypes DEF Replay, LoopsOK, RestOK
  <2>2. LoopsOK'
    BY <1>2 DEF Replay, LoopsOK
  <2> QED BY <1>2, <2>1, <2>2 DEF Replay
<1>3. CASE StartDone \/ Stop \/ StopDone \/ Tick
  <2>1. RestOK'
    BY <1>3 DEF StartDone, Stop, StopDone, Tick, RestOK, Phase
  <2> QED BY <1>3, <2>1 DEF StartDone, Stop, StopDone, Tick
<1>4. CASE StopCancel
  <2>1. RestOK'
    BY <1>4 DEF StopCancel, RestOK, Phase
  <2> QED BY <1>0, <1>4, <2>1 DEF StopCancel
<1>5. CASE Crash
  <2>1. RestOK' /\ LoopsOK' /\ LeakedOK'
    BY <1>5 DEF Crash, RestOK, Phase, LoopsOK, LeakedOK
  <2>2. WorkersOK'
    BY <1>5, WorkerStates DEF Crash, WorkersOK
  <2>3. ClientsOK'
    BY <1>5 DEF Crash, ClientsOK, NoCall
  <2> QED BY <1>0, <1>5, <2>1, <2>2, <2>3 DEF Crash
<1> QED BY <1>1, <1>2, <1>3, <1>4, <1>5

LEMMA InitType == Init => AllPartsOK
<1> SUFFICES ASSUME Init PROVE AllPartsOK
  OBVIOUS
<1>1. RowsOK
  BY RowTypes DEF Init, RowsOK
<1>2. QueueOK
  BY ExecutorAssumption DEF Init, QueueOK
<1>3. WorkersOK
  BY WorkerStates DEF Init, WorkersOK
<1>4. ClientsOK
  BY DEF Init, ClientsOK, NoCall
<1>5. TimersOK /\ LeakedOK /\ SendsOK /\ LoopsOK /\ RestOK
  BY DEF Init, TimersOK, LeakedOK, SendsOK, LoopsOK, RestOK, Phase
<1> QED BY <1>1, <1>2, <1>3, <1>4, <1>5 DEF AllPartsOK

LEMMA NextType == AllPartsOK /\ [Next]_vars => AllPartsOK'
<1> SUFFICES ASSUME AllPartsOK, [Next]_vars PROVE AllPartsOK'
  OBVIOUS
<1>1. CASE UNCHANGED vars
  BY <1>1, Kept DEF vars, AllPartsOK
<1> QED
  BY <1>1, TakeKeepsType, ProceedKeepsType, ChannelKeepsType, CallKeepsType,
     MaintenanceKeepsType, LifeCycleKeepsType DEF Next

\* Type correctness of the queue-mode executor: among other things the channel
\* never holds more than queueSize copies, no retry budget goes below zero, and a
\* worker or an API call in the middle of its work has a copy to work on.
THEOREM TypeCorrect == Spec => []TypeOK
BY InitType, NextType, TypeParts, PTL DEF Spec
-----------------------------------------------------------------------------
(* The storage.  Every write is a Create of a fresh row, an Update of a row that *)
(* is there, or a Delete.                                                        *)
Written(i) == i.id \in Cmd /\ rows[i.id].status # "GONE" /\ Put(i)
WriteStep ==
    \/ UNCHANGED rows
    \/ \E i \in Instance : Written(i)
    \/ \E c \in Cmd : Delete(c)

LEMMA UpdateWrites ==
    ASSUME NEW i \in Instance, NEW j \in Instance, j.id = i.id,
           Present(rows[i.id]), Put(j)
    PROVE  WriteStep
<1>1. rows[j.id].status # "GONE" /\ j.id \in Cmd
  BY DEF Present, Status, Instance
<1> QED BY <1>1 DEF WriteStep, Written

LEMMA CreateWrites ==
    ASSUME NEW c \in Fresh, NEW i \in Instance, i.id = c, Put(i)
    PROVE  WriteStep
BY DEF Fresh, WriteStep, Written

LEMMA WorkerWrites ==
    ASSUME AllPartsOK, NEW w \in Worker, Take(w) \/ Proceed(w)
    PROVE  WriteStep
<1> USE DEF AllPartsOK
<1>0. WorkersOK /\ QueueOK /\ now \in Nat
  BY DEF RestOK
<1>1. CASE UNCHANGED rows
  BY <1>1 DEF WriteStep
<1>2. ASSUME rows' # rows, Take(w) PROVE WriteStep
  <2>1. /\ First \in Instance /\ UpdateOK(First)
        /\ Put(Expired(First)) \/ Put(Unresolved(First)) \/ Put(Started(First))
    <3>1. queue # <<>>
      BY <1>2 DEF Take, Drop, HandleExpired, NotReady, NotRegistered, Begin, WaitSlot,
         Resolvable, Ready
    <3>2. First \in Instance
      BY <3>1 DEF QueueOK, First
    <3> QED BY <1>2, <3>2 DEF Take, Drop, HandleExpired, NotReady, NotRegistered, Begin,
        WaitSlot, RunHandler
  <2> QED BY <2>1, UpdateWrites, TransitionTypes DEF UpdateOK
<1>3. ASSUME rows' # rows, Proceed(w) PROVE WriteStep
  <2> DEFINE i == worker[w].inst
  <2>0. i \in Instance /\ worker[w].todo \in Seq(Nat)
    <3>1. worker[w].pc # "idle"
      BY <1>3 DEF Proceed, GotSlot, SlotRefused, ResultRepeat, ResultRetry, ResultDone,
         ErrorRetry, ErrorFinal, CallbackDone, Panic, SpawnChild, SkipChild, Complete,
         Running, Spawning
    <3> QED BY <3>1, WorkerCopy
  <2>1. CASE GotSlot(w)
    <3>1. UpdateOK(i) /\ Put(Started(i))
      BY <1>3, <2>1 DEF GotSlot, RunHandler
    <3> QED BY <2>0, <3>1, UpdateWrites, TransitionTypes DEF UpdateOK
  <2>2. ASSUME NEW j \in Instance, j.id = i.id, UpdateAndSchedule(w, j) PROVE WriteStep
    <3>1. UpdateOK(j) /\ Put(j)
      BY <1>3, <2>2 DEF UpdateAndSchedule
    <3> QED BY <2>2, <3>1, UpdateWrites DEF UpdateOK
  <2>3. CASE ResultRepeat(w)
    <3>1. now + Period \in Nat
      BY <1>0, ExecutorAssumption
    <3> QED BY <2>0, <2>2, <2>3, <3>1, TransitionTypes DEF ResultRepeat
  <2>4. CASE ResultRetry(w)
    BY <1>0, <2>0, <2>2, <2>4, ChargedTypes DEF ResultRetry
  <2>5. CASE ErrorRetry(w)
    <3>1. now + Backoff \in Nat
      BY <1>0, ExecutorAssumption
    <3> QED BY <2>0, <2>2, <2>5, <3>1, ChargedTypes DEF ErrorRetry
  <2>6. CASE ErrorFinal(w)
    <3>1. Failed(i, DeadLetter) \in Instance /\ Failed(i, DeadLetter).id = i.id
      BY <2>0, TransitionTypes, ExecutorAssumption
    <3>2. UpdateOK(Failed(i, DeadLetter)) /\ Put(Failed(i, DeadLetter))
      BY <1>3, <2>6 DEF ErrorFinal
    <3> QED BY <3>1, <3>2, UpdateWrites DEF UpdateOK
  <2>7. CASE Panic(w)
    <3>1. Present(rows[i.id]) /\ Put(Panicked(i))
      BY <1>3, <2>7 DEF Panic
    <3> QED BY <2>0, <3>1, UpdateWrites, TransitionTypes
  <2>8. ASSUME NEW c \in Cmd, SpawnChild(w, c) PROVE WriteStep
    <3> DEFINE new == NewInstance(c, Retries, now + Head(worker[w].todo), NoDeadline)
    <3>1. Head(worker[w].todo) \in Nat
      BY <2>0, <2>8 DEF SpawnChild, Spawning
    <3>2. Retries \in Nat /\ NoDeadline \in Nat /\ now + Head(worker[w].todo) \in Nat
      BY <1>0, <3>1, ExecutorAssumption DEF NoDeadline
    <3>3. new \in Instance /\ new.id = c
      BY <3>2, NewInstanceType
    <3>4. c \in Fresh /\ Put(new)
      BY <2>8 DEF SpawnChild
    <3> HIDE DEF new
    <3> QED BY <3>3, <3>4, CreateWrites
  <2>9. CASE Complete(w)
    <3>1. UpdateOK(i) /\ Put(Completed(i))
      BY <1>3, <2>9 DEF Complete
    <3> QED BY <2>0, <3>1, UpdateWrites, TransitionTypes DEF UpdateOK
  <2> HIDE DEF i
  <2> QED
    BY <1>3, <2>1, <2>3, <2>4, <2>5, <2>6, <2>7, <2>8, <2>9 DEF Proceed, SlotRefused,
       ResultDone, CallbackDone, SkipChild
<1> QED BY <1>1, <1>2, <1>3

LEMMA OtherWrites ==
    ASSUME AllPartsOK, Next, \A w \in Worker : ~Take(w) /\ ~Proceed(w)
    PROVE  WriteStep
<1> USE DEF AllPartsOK
<1>0. now \in Nat /\ Retries \in Nat /\ NoDeadline \in Nat
  BY ExecutorAssumption DEF RestOK, NoDeadline
<1>1. ASSUME NEW k \in Client, Call(k) \/ Return(k), rows' # rows PROVE WriteStep
  <2>1. ASSUME NEW c \in Cmd, NEW delay \in Delays, NEW deadline \in Deadlines \cup {NoDeadline},
               Add(k, c, delay, deadline)
        PROVE  WriteStep
    <3>1. now + delay \in Nat /\ now + deadline \in Nat
      BY <1>0, ExecutorAssumption
    <3> DEFINE new == NewInstance(c, Retries, now + delay, now + deadline)
    <3>2. new \in Instance /\ new.id = c
      BY <1>0, <3>1, NewInstanceType
    <3>3. c \in Fresh /\ Put(new)
      BY <2>1 DEF Add
    <3> HIDE DEF new
    <3> QED BY <3>2, <3>3, CreateWrites
  <2>2. ASSUME client[k].op # "none" PROVE client[k].inst \in Instance /\ client[k].inst.id \in Cmd
    <3>1. client[k].inst \in Instance
      BY <2>2 DEF ClientsOK
    <3> QED BY <3>1 DEF Instance
  <2>3. CASE Cancel(k)
    <3>1. Present(rows[client[k].inst.id]) /\ Put(Cancelled(client[k].inst))
      BY <1>1, <2>3 DEF Cancel
    <3> QED BY <2>2, <2>3, <3>1, UpdateWrites, TransitionTypes DEF Cancel
  <2>4. CASE ReplayFromDLQ(k)
    <3> DEFINE j == Replayed(client[k].inst, now)
    <3>1. j \in Instance /\ j.id = client[k].inst.id
      BY <1>0, <2>2, <2>4, TransitionTypes DEF ReplayFromDLQ
    <3>2. Present(rows[j.id]) /\ Put(j)
      BY <1>1, <2>4 DEF ReplayFromDLQ
    <3> HIDE DEF j
    <3> QED BY <3>1, <3>2, UpdateWrites
  <2>5. CASE PurgeDLQ(k)
    BY <2>2, <2>5 DEF PurgeDLQ, WriteStep
  <2> QED BY <1>1, <2>1, <2>3, <2>4, <2>5 DEF Call, Return, Lookup
<1>2. ASSUME NEW i \in recovering, RecoverStuck(i), rows' # rows PROVE WriteStep
  <2>1. i \in Instance
    BY DEF LoopsOK
  <2>2. UpdateOK(i) /\ Put(Recovered(i))
    BY <1>2 DEF RecoverStuck
  <2> QED BY <2>1, <2>2, UpdateWrites, TransitionTypes DEF UpdateOK
<1>3. ASSUME NEW c \in Cmd, Cleanup(c) PROVE WriteStep
  BY <1>3 DEF Cleanup, WriteStep
<1>4. CASE UNCHANGED rows
  BY <1>4 DEF WriteStep
<1> QED
  BY <1>1, <1>2, <1>3, <1>4 DEF Next, Enqueue, Abandon, Fire, FireLeaked, FindStuck, Start,
     Replay, StartDone, Stop, StopCancel, StopDone, Crash, Tick

\* No late Update resurrects a deleted row: whatever copies workers, timers, API
\* calls and the recovery loop still hold, a row removed by Cleanup or PurgeDLQ
\* stays removed.
THEOREM DeletedForGood == Spec => GoneStaysGone
<1>1. AllPartsOK /\ [Next]_vars =>
        [\A c \in Cmd : rows[c].status = "GONE" => rows'[c].status = "GONE"]_vars
  <2> SUFFICES ASSUME AllPartsOK, Next, NEW c \in Cmd, rows[c].status = "GONE"
               PROVE  rows'[c].status = "GONE"
    OBVIOUS
  <2>1. WriteStep
    BY WorkerWrites, OtherWrites
  <2>2. rows \in [Cmd -> Row]
    BY DEF AllPartsOK, RowsOK
  <2>3. ASSUME NEW i \in Instance, Written(i) PROVE rows'[c].status = "GONE"
    BY <2>2, <2>3 DEF Written, Put
  <2>4. ASSUME NEW d \in Cmd, Delete(d) PROVE rows'[c].status = "GONE"
    BY <2>2, <2>4 DEF Delete, Blank
  <2> QED BY <2>1, <2>3, <2>4 DEF WriteStep
<1>2. TypeOK <=> AllPartsOK
  BY TypeParts
<1> QED BY <1>1, <1>2, TypeCorrect, PTL DEF Spec, GoneStaysGone
-----------------------------------------------------------------------------
(* No active command is forgotten.  A command is held by what carries a copy of  *)
(* it or by the worker about to complete it.  Two things could lose it: an action *)
(* that lets go of the copy without ending the row, and a Schedule that overwrites *)
(* the send its actor is still blocked in, which SendFree excludes.               *)
Live == phase \in {"starting", "running"}

AtWork(c) ==
    \E w \in Worker : worker[w].pc \in {"acquire", "running", "spawn"} /\ worker[w].inst.id = c
Held(c) == InQueue(c) \/ InTimer(c) \/ InSend(c) \/ InReplay(c) \/ AtWork(c)
Safe(c) == IsActive(rows[c].status) => Held(c) \/ c \in skipped

SendFree ==
    /\ \A w \in Worker : worker[w].pc \in {"acquire", "running", "callback"} => sending[w] = NoInst
    /\ \A k \in Client : client[k].op # "none" => sending[k] = NoInst

LostInv ==
    /\ AllPartsOK
    /\ SendFree
    /\ Live => \A c \in Cmd : Safe(c)

\* The step lets go of no copy of command c.
KeepsHold(c) ==
    /\ InQueue(c) => InQueue(c)'
    /\ InTimer(c) => InTimer(c)'
    /\ InSend(c) => InSend(c)'
    /\ InReplay(c) => InReplay(c)'
    /\ AtWork(c) => AtWork(c)'

LEMMA SafeSteps ==
    ASSUME NEW c \in Cmd
    PROVE  /\ Safe(c) /\ KeepsHold(c) /\ rows'[c] = rows[c] /\ UNCHANGED skipped => Safe(c)'
           /\ Held(c)' => Safe(c)'
           /\ ~IsActive(rows'[c].status) => Safe(c)'
BY DEF Safe, KeepsHold, Held

LEMMA HoldKept ==
    ASSUME NEW c \in Cmd
    PROVE  /\ UNCHANGED queue => (InQueue(c) => InQueue(c)')
           /\ UNCHANGED <<delayedTimers, leaked>> => (InTimer(c) => InTimer(c)')
           /\ UNCHANGED sending => (InSend(c) => InSend(c)')
           /\ UNCHANGED replaying => (InReplay(c) => InReplay(c)')
           /\ UNCHANGED worker => (AtWork(c) => AtWork(c)')
BY DEF InQueue, InTimer, InSend, InReplay, AtWork

\* Receiving the head of the channel lets go of that copy only.
LEMMA TakeHolds ==
    ASSUME QueueOK, queue # <<>>, queue' = Tail(queue), NEW c \in Cmd, c # First.id
    PROVE  InQueue(c) => InQueue(c)'
<1> SUFFICES ASSUME InQueue(c) PROVE InQueue(c)'
  OBVIOUS
<1>1. PICK n \in DOMAIN queue : queue[n].id = c
  BY DEF InQueue
<1> DEFINE rest == Tail(queue)
<1>2. n \in 1..Len(queue) /\ n # 1
  BY <1>1 DEF QueueOK, First
<1>3. Len(rest) = Len(queue) - 1 /\ n - 1 \in 1..Len(rest) /\ rest[n - 1] = queue[n]
  BY <1>2 DEF QueueOK
<1>4. rest \in Seq(Instance)
  BY DEF QueueOK
<1>5. n - 1 \in DOMAIN rest /\ rest[n - 1].id = c
  BY <1>1, <1>3, <1>4
<1> HIDE DEF rest
<1>6. queue' = rest
  BY DEF rest
<1> QED BY <1>5, <1>6 DEF InQueue

LEMMA AppendHolds ==
    ASSUME QueueOK, NEW i \in Instance, queue' = Append(queue, i)
    PROVE  InQueue(i.id)' /\ \A c \in Cmd : InQueue(c) => InQueue(c)'
<1> DEFINE q == Append(queue, i)
<1>1. q \in Seq(Instance) /\ Len(q) = Len(queue) + 1 /\ q[Len(queue) + 1] = i
  BY DEF QueueOK
<1>2. Len(queue) + 1 \in DOMAIN q
  BY <1>1 DEF QueueOK
<1>3. \A n \in DOMAIN queue : n \in DOMAIN q /\ q[n] = queue[n]
  BY DEF QueueOK
<1>4. queue' = q
  OBVIOUS
<1> HIDE DEF q
<1>5. InQueue(i.id)'
  BY <1>1, <1>2, <1>4 DEF InQueue
<1> QED BY <1>3, <1>4, <1>5 DEF InQueue

\* A timer armed for a command replaces at most a timer of the same command.
LEMMA ArmHolds ==
    ASSUME TimersOK, now \in Nat, NEW i \in Instance, Arm(i), leaked' = leaked
    PROVE  InTimer(i.id)' /\ \A c \in Cmd : InTimer(c) => InTimer(c)'
<1> DEFINE delay == IF i.readyAt <= now THEN 0
                    ELSE IF i.readyAt - now > MaxDelay THEN MaxDelay ELSE i.readyAt - now
           timer == [inst |-> i, at |-> now + delay]
<1>1. i.readyAt \in Nat /\ i.id \in Cmd /\ MaxDelay \in Nat
  BY ExecutorAssumption DEF Instance
<1>2. now + delay \in Nat
  BY <1>1
<1>3. timer # NoInst
  BY <1>2, ExecutorAssumption
<1>4. delayedTimers' = [delayedTimers EXCEPT ![i.id] = timer]
  BY DEF Arm
<1> HIDE DEF timer, delay
<1> QED BY <1>1, <1>3, <1>4 DEF TimersOK, InTimer

\* Scheduling for an actor that is not blocked in a send.
LEMMA ScheduleHolds ==
    ASSUME TimersOK, SendsOK, now \in Nat, NEW a \in Actor, NEW i \in Instance,
           Schedule(a, i), sending[a] = NoInst, leaked' = leaked
    PROVE  /\ InTimer(i.id)' \/ InSend(i.id)'
           /\ \A c \in Cmd : (InTimer(c) => InTimer(c)') /\ (InSend(c) => InSend(c)')
<1>1. CASE i.readyAt <= now
  <2>1. sending' = [sending EXCEPT ![a] = i] /\ UNCHANGED <<delayedTimers, leaked>>
    BY <1>1 DEF Schedule
  <2>2. i # NoInst
    BY RowTypes
  <2> QED BY <2>1, <2>2, HoldKept DEF SendsOK, InSend
<1>2. CASE ~(i.readyAt <= now)
  BY <1>2, ArmHolds, HoldKept DEF Schedule
<1> QED BY <1>1, <1>2

\* A worker moves on: it lets go of its own command only, and holds the one it has.
LEMMA MoveHolds ==
    ASSUME WorkersOK, NEW w \in Worker, NEW s, worker' = [worker EXCEPT ![w] = s]
    PROVE  /\ s.pc \in {"acquire", "running", "spawn"} => AtWork(s.inst.id)'
           /\ \A c \in Cmd :
                 \/ worker[w].pc \notin {"acquire", "running", "spawn"}
                 \/ worker[w].inst.id # c
                 \/ s.pc \in {"acquire", "running", "spawn"} /\ s.inst.id = c
                 => (AtWork(c) => AtWork(c)')
<1>1. worker'[w] = s /\ \A v \in Worker : v # w => worker'[v] = worker[v]
  BY DEF WorkersOK
<1> QED BY <1>1 DEF AtWork

LEMMA PutRow ==
    ASSUME RowsOK, NEW i \in Instance, Put(i)
    PROVE  rows'[i.id] = i /\ \A c \in Cmd : c # i.id => rows'[c] = rows[c]
BY DEF RowsOK, Put, Instance

\* A row that is not there is not active, and the transitions that end a command
\* leave a row that is not active.
LEMMA Inactive ==
    /\ \A r \in Row : ~Present(r) => ~IsActive(r.status)
    /\ \A i \in Instance : /\ ~IsActive(Expired(i).status) /\ ~IsActive(Unresolved(i).status)
                           /\ ~IsActive(Failed(i, DeadLetter).status)
                           /\ ~IsActive(Panicked(i).status) /\ ~IsActive(Completed(i).status)
                           /\ ~IsActive(Cancelled(i).status)
<1>1. \A r \in Row : ~Present(r) => ~IsActive(r.status)
  BY DEF Present, IsActive, Status
<1>2. ASSUME NEW i \in Instance
      PROVE  /\ ~IsActive(Expired(i).status) /\ ~IsActive(Unresolved(i).status)
             /\ ~IsActive(Failed(i, DeadLetter).status)
             /\ ~IsActive(Panicked(i).status) /\ ~IsActive(Completed(i).status)
             /\ ~IsActive(Cancelled(i).status)
  BY DEF Instance, IsActive, Expired, Unresolved, Failed, Panicked, Completed, Cancelled
<1> QED BY <1>1, <1>2

\* In a live process the context is not cancelled: an Update fails on a missing row only.
LEMMA LiveUpdates ==
    ASSUME Live, RowsOK, NEW i \in Instance
    PROVE  UpdateOK(i) \/ ~IsActive(rows[i.id].status)
<1>1. rows[i.id] \in Row
  BY DEF RowsOK, Instance
<1> QED BY <1>1, Inactive DEF Live, UpdateOK, CtxDone

LEMMA RunHandlerSafe ==
    ASSUME AllPartsOK, Live, NEW w \in Worker, NEW i \in Instance, RunHandler(w, i)
    PROVE  /\ Safe(i.id)'
           /\ \A c \in Cmd : c # i.id => rows'[c] = rows[c]
           /\ \A c \in Cmd : worker[w].pc = "idle" \/ worker[w].inst.id # c => (AtWork(c) => AtWork(c)')
<1>0. i.id \in Cmd /\ RowsOK /\ WorkersOK
  BY DEF Instance, AllPartsOK
<1>1. CASE UpdateOK(i)
  <2> DEFINE s == [pc |-> "running", inst |-> Started(i), todo |-> <<>>]
  <2>1. Started(i) \in Instance /\ Started(i).id = i.id
    BY TransitionTypes
  <2>2. Put(Started(i)) /\ worker' = [worker EXCEPT ![w] = s] /\ s.pc = "running" /\ s.inst.id = i.id
    BY <1>1, <2>1 DEF RunHandler
  <2> HIDE DEF s
  <2>3. AtWork(i.id)'
    BY <1>0, <2>2, MoveHolds
  <2>4. Safe(i.id)'
    BY <1>0, <2>3, SafeSteps DEF Held
  <2>5. \A c \in Cmd : worker[w].pc = "idle" \/ worker[w].inst.id # c => (AtWork(c) => AtWork(c)')
    BY <1>0, <2>2, MoveHolds
  <2> QED BY <1>0, <2>1, <2>2, <2>4, <2>5, PutRow
<1>2. CASE ~UpdateOK(i)
  <2>1. UNCHANGED rows /\ worker' = [worker EXCEPT ![w] = Idle]
    BY <1>2 DEF RunHandler
  <2>2. Safe(i.id)'
    BY <1>0, <1>2, <2>1, LiveUpdates, SafeSteps
  <2> QED BY <1>0, <2>1, <2>2, MoveHolds
<1> QED BY <1>1, <1>2

LEMMA TakeSafe ==
    ASSUME AllPartsOK, Live, \A c \in Cmd : Safe(c), NEW w \in Worker, Take(w)
    PROVE  \A c \in Cmd : Safe(c)'
<1>0. /\ RowsOK /\ QueueOK /\ TimersOK /\ WorkersOK /\ now \in Nat
  BY DEF AllPartsOK, RestOK
<1>1. /\ queue # <<>> /\ queue' = Tail(queue) /\ worker[w].pc = "idle"
      /\ UNCHANGED <<leaked, sending, replaying, skipped>>
  BY DEF Take, Drop, HandleExpired, NotReady, NotRegistered, Begin, WaitSlot, Resolvable, Ready
<1>2. PICK f \in Instance : f = First /\ f.id \in Cmd
  <2>1. First \in Instance
    BY <1>0, <1>1 DEF QueueOK, First
  <2> QED BY <2>1 DEF Instance
<1>3. \A c \in Cmd : /\ InSend(c) => InSend(c)'
                     /\ InReplay(c) => InReplay(c)'
                     /\ c # f.id => (InQueue(c) => InQueue(c)')
                     /\ UNCHANGED delayedTimers => (InTimer(c) => InTimer(c)')
                     /\ UNCHANGED worker => (AtWork(c) => AtWork(c)')
  BY <1>0, <1>1, <1>2, HoldKept, TakeHolds
\* Only the command of the head of the channel needs an argument.
<1>4. ASSUME Safe(f.id)', \A c \in Cmd : c # f.id => rows'[c] = rows[c],
             \A c \in Cmd : InTimer(c) => InTimer(c)', \A c \in Cmd : AtWork(c) => AtWork(c)'
      PROVE  \A c \in Cmd : Safe(c)'
  <2> SUFFICES ASSUME NEW c \in Cmd, c # f.id PROVE Safe(c)'
    BY <1>4
  <2>1. KeepsHold(c)
    BY <1>3, <1>4 DEF KeepsHold
  <2> QED BY <1>1, <1>4, <2>1, SafeSteps
<1>5. CASE Drop(w)
  BY <1>5 DEF Drop, Live, Stopping
<1>6. CASE HandleExpired(w)
  <2>0. UNCHANGED delayedTimers
    BY <1>2, <1>6 DEF HandleExpired
  <2>1. CASE UpdateOK(f)
    <3>1. /\ Expired(f) \in Instance /\ Expired(f).id = f.id
          /\ ~IsActive(Expired(f).status)
      BY <1>2, TransitionTypes, Inactive
    <3>2. Put(Expired(f)) /\ worker' = [worker EXCEPT ![w] = Callback(Expired(f))]
      BY <1>2, <1>6, <2>1 DEF HandleExpired
    <3>3. Safe(f.id)' /\ \A c \in Cmd : c # f.id => rows'[c] = rows[c]
      BY <1>0, <1>2, <3>1, <3>2, PutRow, SafeSteps
    <3>4. \A c \in Cmd : AtWork(c) => AtWork(c)'
      BY <1>0, <1>1, <3>2, MoveHolds
    <3> QED BY <1>3, <1>4, <2>0, <3>3, <3>4
  <2>2. CASE ~UpdateOK(f)
    <3>1. UNCHANGED <<rows, worker>>
      BY <1>2, <1>6, <2>2 DEF HandleExpired
    <3>2. Safe(f.id)'
      BY <1>0, <1>2, <2>2, <3>1, LiveUpdates, SafeSteps
    <3> QED BY <1>3, <1>4, <2>0, <3>1, <3>2
  <2> QED BY <2>1, <2>2
<1>7. CASE NotReady(w)
  <2>1. Arm(f) /\ UNCHANGED <<rows, worker>>
    BY <1>2, <1>7 DEF NotReady
  <2>2. InTimer(f.id)' /\ \A c \in Cmd : InTimer(c) => InTimer(c)'
    BY <1>0, <1>1, <1>2, <2>1, ArmHolds
  <2>3. Safe(f.id)'
    BY <1>2, <2>2, SafeSteps DEF Held
  <2> QED BY <1>3, <1>4, <2>1, <2>2, <2>3
<1>8. CASE NotRegistered(w)
  <2>0. UNCHANGED <<delayedTimers, worker>>
    BY <1>2, <1>8 DEF NotRegistered
  <2>1. CASE UpdateOK(f)
    <3>1. /\ Unresolved(f) \in Instance /\ Unresolved(f).id = f.id
          /\ ~IsActive(Unresolved(f).status)
      BY <1>2, TransitionTypes, Inactive
    <3>2. Put(Unresolved(f))
      BY <1>2, <1>8, <2>1 DEF NotRegistered
    <3>3. Safe(f.id)' /\ \A c \in Cmd : c # f.id => rows'[c] = rows[c]
      BY <1>0, <1>2, <3>1, <3>2, PutRow, SafeSteps
    <3> QED BY <1>3, <1>4, <2>0, <3>3
  <2>2. CASE ~UpdateOK(f)
    <3>1. UNCHANGED rows
      BY <1>2, <1>8, <2>2 DEF NotRegistered
    <3>2. Safe(f.id)'
      BY <1>0, <1>2, <2>2, <3>1, LiveUpdates, SafeSteps
    <3> QED BY <1>3, <1>4, <2>0, <3>1, <3>2
  <2> QED BY <2>1, <2>2
<1>9. CASE Begin(w)
  <2>1. RunHandler(w, f) /\ UNCHANGED delayedTimers
    BY <1>2, <1>9 DEF Begin
  <2> QED BY <1>1, <1>2, <1>3, <1>4, <2>1, RunHandlerSafe
<1>10. CASE WaitSlot(w)
  <2> DEFINE s == [pc |-> "acquire", inst |-> f, todo |-> <<>>]
  <2>1. /\ UNCHANGED <<rows, delayedTimers>> /\ worker' = [worker EXCEPT ![w] = s]
        /\ s.pc = "acquire" /\ s.inst.id = f.id
    BY <1>2, <1>10 DEF WaitSlot
  <2> HIDE DEF s
  <2>2. AtWork(f.id)' /\ \A c \in Cmd : AtWork(c) => AtWork(c)'
    BY <1>0, <1>1, <2>1, MoveHolds
  <2>3. Safe(f.id)'
    BY <1>2, <2>2, SafeSteps DEF Held
  <2> QED BY <1>3, <1>4, <2>1, <2>2, <2>3
<1> QED BY <1>5, <1>6, <1>7, <1>8, <1>9, <1>10 DEF Take

LEMMA UpdateAndScheduleSafe ==
    ASSUME AllPartsOK, SendFree, Live, \A c \in Cmd : Safe(c), NEW w \in Worker, Running(w),
           NEW i \in Instance, i.id = worker[w].inst.id, UpdateAndSchedule(w, i),
           UNCHANGED <<queue, leaked, replaying, skipped>>
    PROVE  \A c \in Cmd : Safe(c)'
<1>0. /\ RowsOK /\ TimersOK /\ SendsOK /\ WorkersOK /\ now \in Nat /\ i.id \in Cmd
      /\ w \in Actor /\ sending[w] = NoInst
  BY ActorTypes DEF AllPartsOK, RestOK, Instance, Running, SendFree
<1>1. worker' = [worker EXCEPT ![w] = Idle]
  BY DEF UpdateAndSchedule
<1>2. \A c \in Cmd : c # i.id => (AtWork(c) => AtWork(c)')
  BY <1>0, <1>1, MoveHolds
<1>3. CASE UpdateOK(i)
  <2>1. Put(i) /\ Schedule(w, i)
    BY <1>3 DEF UpdateAndSchedule
  <2>2. /\ InTimer(i.id)' \/ InSend(i.id)'
        /\ \A c \in Cmd : (InTimer(c) => InTimer(c)') /\ (InSend(c) => InSend(c)')
    BY <1>0, <2>1, ScheduleHolds
  <2>3. Safe(i.id)'
    BY <1>0, <2>2, SafeSteps DEF Held
  <2>4. ASSUME NEW c \in Cmd, c # i.id PROVE Safe(c)'
    <3>1. KeepsHold(c)
      BY <1>2, <2>2, <2>4, HoldKept DEF KeepsHold
    <3> QED BY <1>0, <2>1, <2>4, <3>1, PutRow, SafeSteps
  <2> QED BY <2>3, <2>4
<1>4. CASE ~UpdateOK(i)
  <2>1. UNCHANGED <<rows, delayedTimers, sending>>
    BY <1>4 DEF UpdateAndSchedule
  <2>2. Safe(i.id)'
    BY <1>0, <1>4, <2>1, LiveUpdates, SafeSteps
  <2>3. ASSUME NEW c \in Cmd, c # i.id PROVE Safe(c)'
    <3>1. KeepsHold(c)
      BY <1>2, <2>1, <2>3, HoldKept DEF KeepsHold
    <3> QED BY <2>1, <3>1, SafeSteps
  <2> QED BY <2>2, <2>3
<1> QED BY <1>3, <1>4

\* A worker ends its command: the row is terminal, or it is not there.
LEMMA EndSafe ==
    ASSUME AllPartsOK, Live, \A c \in Cmd : Safe(c), NEW w \in Worker,
           NEW i \in Instance, i.id = worker[w].inst.id, ~IsActive(i.status),
           \/ Put(i)
           \/ UNCHANGED rows /\ ~Present(rows[i.id]),
           NEW s, worker' = [worker EXCEPT ![w] = s],
           UNCHANGED <<queue, delayedTimers, leaked, sending, replaying, skipped>>
    PROVE  \A c \in Cmd : Safe(c)'
<1>0. RowsOK /\ WorkersOK /\ i.id \in Cmd /\ rows[i.id] \in Row
  BY DEF AllPartsOK, RowsOK, Instance
<1>1. Safe(i.id)' /\ \A c \in Cmd : c # i.id => rows'[c] = rows[c]
  BY <1>0, PutRow, Inactive, SafeSteps
<1>2. ASSUME NEW c \in Cmd, c # i.id PROVE Safe(c)'
  <2>1. AtWork(c) => AtWork(c)'
    BY <1>0, <1>2, MoveHolds
  <2>2. KeepsHold(c)
    BY <2>1, HoldKept DEF KeepsHold
  <2> QED BY <1>1, <1>2, <2>2, SafeSteps
<1> QED BY <1>1, <1>2

\* A new command is created and scheduled.
LEMMA CreateSafe ==
    ASSUME AllPartsOK, \A c \in Cmd : Safe(c), NEW a \in Actor, sending[a] = NoInst,
           NEW i \in Instance, Put(i), Schedule(a, i),
           \A c \in Cmd : AtWork(c) => AtWork(c)',
           \A c \in Cmd : c # i.id => (InReplay(c) => InReplay(c)'),
           UNCHANGED <<queue, leaked, skipped>>
    PROVE  \A c \in Cmd : Safe(c)'
<1>0. RowsOK /\ TimersOK /\ SendsOK /\ now \in Nat /\ i.id \in Cmd
  BY DEF AllPartsOK, RestOK, Instance
<1>1. /\ InTimer(i.id)' \/ InSend(i.id)'
      /\ \A c \in Cmd : (InTimer(c) => InTimer(c)') /\ (InSend(c) => InSend(c)')
  BY <1>0, ScheduleHolds
<1>2. Safe(i.id)'
  BY <1>0, <1>1, SafeSteps DEF Held
<1>3. ASSUME NEW c \in Cmd, c # i.id PROVE Safe(c)'
  <2>1. KeepsHold(c)
    BY <1>1, <1>3, HoldKept DEF KeepsHold
  <2> QED BY <1>0, <1>3, <2>1, PutRow, SafeSteps
<1> QED BY <1>2, <1>3

LEMMA ProceedSafe ==
    ASSUME AllPartsOK, SendFree, Live, \A c \in Cmd : Safe(c), NEW w \in Worker, Proceed(w)
    PROVE  \A c \in Cmd : Safe(c)'
<1>0. /\ RowsOK /\ WorkersOK /\ now \in Nat /\ w \in Actor
      /\ worker[w].pc # "idle" /\ UNCHANGED <<queue, leaked, replaying, skipped>>
  BY ActorTypes DEF AllPartsOK, RestOK, Proceed, GotSlot, SlotRefused, ResultRepeat, ResultRetry,
     ResultDone, ErrorRetry, ErrorFinal, CallbackDone, Panic, SpawnChild, SkipChild, Complete,
     Running, Spawning
<1>1. PICK i \in Instance : i = worker[w].inst /\ i.id \in Cmd
  <2>1. worker[w].inst \in Instance
    BY <1>0, WorkerCopy
  <2> QED BY <2>1 DEF Instance
<1>2. worker[w].todo \in Seq(Nat)
  BY <1>0, WorkerCopy
\* A step in which the worker keeps what it has and no row is written.
<1>3. ASSUME UNCHANGED <<rows, delayedTimers, sending>>, \A c \in Cmd : AtWork(c) => AtWork(c)'
      PROVE  \A c \in Cmd : Safe(c)'
  <2> SUFFICES ASSUME NEW c \in Cmd PROVE Safe(c)'
    OBVIOUS
  <2>1. KeepsHold(c)
    BY <1>0, <1>3, HoldKept DEF KeepsHold
  <2> QED BY <1>0, <1>3, <2>1, SafeSteps
<1>4. CASE GotSlot(w)
  <2>1. RunHandler(w, i) /\ UNCHANGED <<delayedTimers, sending>>
    BY <1>1, <1>4 DEF GotSlot
  <2>2. /\ Safe(i.id)'
        /\ \A c \in Cmd : c # i.id => rows'[c] = rows[c] /\ (AtWork(c) => AtWork(c)')
    BY <1>1, <2>1, RunHandlerSafe
  <2>3. ASSUME NEW c \in Cmd, c # i.id PROVE Safe(c)'
    <3>1. KeepsHold(c)
      BY <1>0, <2>1, <2>2, <2>3, HoldKept DEF KeepsHold
    <3> QED BY <1>0, <2>2, <2>3, <3>1, SafeSteps
  <2> QED BY <2>2, <2>3
<1>5. CASE SlotRefused(w)
  BY <1>5 DEF SlotRefused, Live, CtxDone
<1>6. CASE ResultRepeat(w)
  <2>1. now + Period \in Nat
    BY <1>0, ExecutorAssumption
  <2>2. PICK j \in Instance : j = Repeating(i, now + Period) /\ j.id = i.id
    BY <2>1, TransitionTypes
  <2> QED BY <1>0, <1>1, <1>6, <2>2, UpdateAndScheduleSafe DEF ResultRepeat
<1>7. CASE ResultRetry(w)
  <2>1. PICK j \in Instance : j = Retrying(i) /\ j.id = i.id
    BY <1>0, <1>1, <1>7, ChargedTypes DEF ResultRetry
  <2> QED BY <1>0, <1>1, <1>7, <2>1, UpdateAndScheduleSafe DEF ResultRetry
<1>8. ASSUME NEW plan \in Plans, ResultDone(w, plan) PROVE \A c \in Cmd : Safe(c)'
  <2> DEFINE s == [pc |-> "spawn", inst |-> i, todo |-> plan]
  <2>1. worker' = [worker EXCEPT ![w] = s] /\ s.pc = "spawn" /\ s.inst = i
    BY <1>1, <1>8 DEF ResultDone
  <2>2. UNCHANGED <<rows, delayedTimers, sending>>
    BY <1>8 DEF ResultDone
  <2> HIDE DEF s
  <2>3. \A c \in Cmd : AtWork(c) => AtWork(c)'
    BY <1>0, <1>1, <2>1, MoveHolds
  <2> QED BY <1>3, <2>2, <2>3
<1>9. CASE ErrorRetry(w)
  <2>1. now + Backoff \in Nat
    BY <1>0, ExecutorAssumption
  <2>2. PICK j \in Instance : j = BackedOff(i, now + Backoff) /\ j.id = i.id
    BY <1>1, <1>9, <2>1, ChargedTypes DEF ErrorRetry
  <2> QED BY <1>0, <1>1, <1>9, <2>2, UpdateAndScheduleSafe DEF ErrorRetry
<1>10. CASE ErrorFinal(w)
  <2>1. PICK j \in Instance : j = Failed(i, DeadLetter) /\ j.id = i.id /\ ~IsActive(j.status)
    BY TransitionTypes, Inactive, ExecutorAssumption
  <2>2. /\ UNCHANGED <<delayedTimers, sending>>
        /\ Put(j) \/ (UNCHANGED rows /\ ~Present(rows[j.id]))
        /\ worker' = [worker EXCEPT ![w] = Callback(j)] \/ worker' = [worker EXCEPT ![w] = Idle]
    <3>1. UpdateOK(j) <=> Present(rows[j.id])
      BY DEF UpdateOK, Live, CtxDone
    <3>2. CASE UpdateOK(j)
      BY <1>1, <1>10, <2>1, <3>2 DEF ErrorFinal
    <3>3. CASE ~UpdateOK(j)
      BY <1>1, <1>10, <2>1, <3>1, <3>3 DEF ErrorFinal
    <3> QED BY <3>2, <3>3
  <2>3. PICK s : worker' = [worker EXCEPT ![w] = s]
    BY <2>2
  <2> QED BY <1>0, <1>1, <2>1, <2>2, <2>3, EndSafe
<1>11. ASSUME NEW plan \in Plans, CallbackDone(w, plan) PROVE \A c \in Cmd : Safe(c)'
  <2>1. /\ UNCHANGED <<rows, delayedTimers, sending>> /\ worker[w].pc = "callback"
        /\ \E s : worker' = [worker EXCEPT ![w] = s]
    BY <1>11 DEF CallbackDone
  <2>2. \A c \in Cmd : AtWork(c) => AtWork(c)'
    BY <1>0, <2>1, MoveHolds
  <2> QED BY <1>3, <2>1, <2>2
<1>12. CASE Panic(w)
  <2>1. PICK j \in Instance : j = Panicked(i) /\ j.id = i.id /\ ~IsActive(j.status)
    BY TransitionTypes, Inactive
  <2>2. /\ UNCHANGED <<delayedTimers, sending>> /\ worker' = [worker EXCEPT ![w] = Idle]
        /\ Put(j) \/ (UNCHANGED rows /\ ~Present(rows[j.id]))
    <3>1. CASE Present(rows[i.id])
      BY <1>1, <1>12, <2>1, <3>1 DEF Panic
    <3>2. CASE ~Present(rows[i.id])
      BY <1>1, <1>12, <2>1, <3>2 DEF Panic
    <3> QED BY <3>1, <3>2
  <2> QED BY <1>0, <1>1, <2>1, <2>2, EndSafe
<1>13. ASSUME Spawning(w), NextChild(w) PROVE \A c \in Cmd : AtWork(c) => AtWork(c)'
  <2>1. CASE worker[w].pc = "followup"
    <3>1. PICK s : worker' = [worker EXCEPT ![w] = s]
      BY <1>13 DEF NextChild
    <3> QED BY <1>0, <2>1, <3>1, MoveHolds
  <2>2. CASE worker[w].pc = "spawn"
    <3> DEFINE s == [pc |-> "spawn", inst |-> i, todo |-> Tail(worker[w].todo)]
    <3>1. worker' = [worker EXCEPT ![w] = s] /\ s.pc = "spawn" /\ s.inst = i
      BY <1>1, <1>13, <2>2 DEF NextChild
    <3> HIDE DEF s
    <3>2. PICK t : t = s
      OBVIOUS
    <3> QED BY <1>0, <1>1, <3>1, <3>2, MoveHolds
  <2> QED BY <1>13, <2>1, <2>2 DEF Spawning
<1>14. ASSUME NEW c \in Cmd, SpawnChild(w, c) PROVE \A d \in Cmd : Safe(d)'
  <2>1. Head(worker[w].todo) \in Nat /\ sending[w] = NoInst
    BY <1>2, <1>14 DEF SpawnChild, Spawning
  <2>2. Retries \in Nat /\ NoDeadline \in Nat /\ now + Head(worker[w].todo) \in Nat
    BY <1>0, <2>1, ExecutorAssumption DEF NoDeadline
  <2>3. PICK j \in Instance : j = NewInstance(c, Retries, now + Head(worker[w].todo), NoDeadline)
    BY <2>2, NewInstanceType
  <2>4. Put(j) /\ Schedule(w, j)
    BY <1>14, <2>3 DEF SpawnChild
  <2>5. \A d \in Cmd : AtWork(d) => AtWork(d)'
    BY <1>13, <1>14 DEF SpawnChild
  <2>6. \A d \in Cmd : InReplay(d) => InReplay(d)'
    BY <1>0, HoldKept
  <2> QED BY <1>0, <2>1, <2>4, <2>5, <2>6, CreateSafe
<1>15. CASE SkipChild(w)
  BY <1>3, <1>13, <1>15 DEF SkipChild
<1>16. CASE Complete(w)
  <2>1. PICK j \in Instance : j = Completed(i) /\ j.id = i.id /\ ~IsActive(j.status)
    BY TransitionTypes, Inactive
  <2>2. /\ UNCHANGED <<delayedTimers, sending>> /\ worker' = [worker EXCEPT ![w] = Idle]
        /\ Put(j) \/ (UNCHANGED rows /\ ~Present(rows[j.id]))
    <3>1. UpdateOK(i) <=> Present(rows[i.id])
      BY DEF UpdateOK, Live, CtxDone
    <3>2. CASE UpdateOK(i)
      BY <1>1, <1>16, <2>1, <3>2 DEF Complete
    <3>3. CASE ~UpdateOK(i)
      BY <1>1, <1>16, <2>1, <3>1, <3>3 DEF Complete
    <3> QED BY <3>2, <3>3
  <2> QED BY <1>0, <1>1, <2>1, <2>2, EndSafe
<1> QED
  BY <1>4, <1>5, <1>6, <1>7, <1>8, <1>9, <1>10, <1>11, <1>12, <1>14, <1>15, <1>16 DEF Proceed

(* The channel and the timers. *)
LEMMA ChannelSafe ==
    ASSUME AllPartsOK, Live, \A c \in Cmd : Safe(c),
           \/ \E a \in Actor : Enqueue(a) \/ Abandon(a)
           \/ \E c \in Cmd : Fire(c)
           \/ \E t \in leaked : FireLeaked(t)
    PROVE  \A c \in Cmd : Safe(c)'
<1>0. QueueOK /\ TimersOK /\ LeakedOK /\ SendsOK /\ ~Stopping
  BY DEF AllPartsOK, Live, Stopping
<1>1. ASSUME NEW a \in Actor, Enqueue(a) PROVE \A c \in Cmd : Safe(c)'
  <2>1. PICK i \in Instance : i = sending[a] /\ i.id \in Cmd
    <3>1. sending[a] \in Instance
      BY <1>0, <1>1 DEF Enqueue, SendsOK
    <3> QED BY <3>1 DEF Instance
  <2>2. /\ queue' = Append(queue, i) /\ sending' = [sending EXCEPT ![a] = NoInst]
        /\ UNCHANGED <<rows, delayedTimers, leaked, worker, replaying, skipped>>
    BY <1>1, <2>1 DEF Enqueue
  <2>3. InQueue(i.id)' /\ \A c \in Cmd : InQueue(c) => InQueue(c)'
    BY <1>0, <2>2, AppendHolds
  <2>4. Safe(i.id)'
    BY <2>1, <2>3, SafeSteps DEF Held
  <2>5. ASSUME NEW c \in Cmd, c # i.id PROVE Safe(c)'
    <3>1. InSend(c) => InSend(c)'
      BY <1>0, <2>1, <2>2, <2>5 DEF InSend, SendsOK
    <3>2. KeepsHold(c)
      BY <2>2, <2>3, <3>1, HoldKept DEF KeepsHold
    <3> QED BY <2>2, <3>2, SafeSteps
  <2> QED BY <2>4, <2>5
<1>2. ASSUME NEW a \in Actor, Abandon(a) PROVE FALSE
  BY <1>2 DEF Abandon, Live, CtxDone
\* The callback of a timer of command d sends the copy i.
<1>3. ASSUME NEW i \in Instance, i.id \in Cmd, Deliver(i),
             \A c \in Cmd : c # i.id => (InTimer(c) => InTimer(c)'),
             UNCHANGED <<rows, queue, worker, replaying, skipped>>
      PROVE  \A c \in Cmd : Safe(c)'
  <2>1. /\ sending[i.id] = NoInst /\ sending' = [sending EXCEPT ![i.id] = i]
        /\ i.id \in Actor /\ i # NoInst
    BY <1>0, <1>3, ActorTypes, RowTypes DEF Deliver
  <2>2. InSend(i.id)' /\ \A c \in Cmd : InSend(c) => InSend(c)'
    BY <1>0, <2>1 DEF InSend, SendsOK
  <2>3. Safe(i.id)'
    BY <1>3, <2>2, SafeSteps DEF Held
  <2>4. ASSUME NEW c \in Cmd, c # i.id PROVE Safe(c)'
    <3>1. KeepsHold(c)
      BY <1>3, <2>2, <2>4, HoldKept DEF KeepsHold
    <3> QED BY <1>3, <3>1, SafeSteps
  <2> QED BY <2>3, <2>4
<1>4. ASSUME NEW d \in Cmd, Fire(d) PROVE \A c \in Cmd : Safe(c)'
  <2>1. delayedTimers[d] \in Timer /\ delayedTimers[d].inst.id = d
    BY <1>0, <1>4 DEF Fire, TimersOK
  <2>2. PICK i \in Instance : i = delayedTimers[d].inst /\ i.id = d
    BY <2>1 DEF Timer
  <2>3. \A c \in Cmd : c # i.id => (InTimer(c) => InTimer(c)')
    BY <1>0, <1>4, <2>2 DEF Fire, InTimer, TimersOK
  <2>4. Deliver(i) /\ UNCHANGED <<rows, queue, worker, replaying, skipped>>
    BY <1>4, <2>2 DEF Fire
  <2> QED BY <1>3, <2>2, <2>3, <2>4
<1>5. ASSUME NEW t \in leaked, FireLeaked(t) PROVE \A c \in Cmd : Safe(c)'
  <2>1. t \in Timer
    BY <1>0 DEF LeakedOK
  <2>2. PICK i \in Instance : i = t.inst /\ i.id \in Cmd
    <3>1. t.inst \in Instance
      BY <2>1 DEF Timer
    <3> QED BY <3>1 DEF Instance
  <2>3. \A c \in Cmd : c # i.id => (InTimer(c) => InTimer(c)')
    BY <1>0, <1>5, <2>2 DEF FireLeaked, InTimer, TimersOK
  <2>4. Deliver(i) /\ UNCHANGED <<rows, queue, worker, replaying, skipped>>
    BY <1>5, <2>2 DEF FireLeaked
  <2> QED BY <1>3, <2>2, <2>3, <2>4
<1> QED BY <1>1, <1>2, <1>4, <1>5

(* API calls and maintenance. *)
\* A row is ended or deleted while no copy moves.
LEMMA WriteSafe ==
    ASSUME \A c \in Cmd : Safe(c), NEW d \in Cmd, ~IsActive(rows'[d].status) \/ rows'[d] = rows[d],
           \A c \in Cmd : c # d => rows'[c] = rows[c],
           UNCHANGED <<queue, delayedTimers, leaked, worker, sending, replaying, skipped>>
    PROVE  \A c \in Cmd : Safe(c)'
<1> SUFFICES ASSUME NEW c \in Cmd PROVE Safe(c)'
  OBVIOUS
<1>1. KeepsHold(c)
  BY HoldKept DEF KeepsHold
<1> QED BY <1>1, SafeSteps

LEMMA DeleteSafe ==
    ASSUME RowsOK, NEW d \in Cmd, Delete(d)
    PROVE  /\ ~IsActive(rows'[d].status) \/ rows'[d] = rows[d]
           /\ \A c \in Cmd : c # d => rows'[c] = rows[c]
BY DEF RowsOK, Delete, Blank, IsActive

LEMMA CallSafe ==
    ASSUME AllPartsOK, SendFree, Live, \A c \in Cmd : Safe(c), NEW k \in Client, Call(k) \/ Return(k)
    PROVE  \A c \in Cmd : Safe(c)'
<1>0. /\ RowsOK /\ now \in Nat /\ Retries \in Nat /\ NoDeadline \in Nat /\ k \in Actor
      /\ UNCHANGED <<queue, leaked, worker, replaying, skipped>>
  BY ExecutorAssumption, ActorTypes DEF AllPartsOK, RestOK, NoDeadline, Call, Return, Add, Lookup,
     Cancel, ReplayFromDLQ, PurgeDLQ
<1>1. \A c \in Cmd : (InReplay(c) => InReplay(c)') /\ (AtWork(c) => AtWork(c)')
  BY <1>0, HoldKept
<1>2. ASSUME NEW c \in Cmd, NEW delay \in Delays, NEW deadline \in Deadlines \cup {NoDeadline},
             Add(k, c, delay, deadline)
      PROVE  \A d \in Cmd : Safe(d)'
  <2>1. now + delay \in Nat /\ now + deadline \in Nat
    BY <1>0, ExecutorAssumption
  <2>2. PICK i \in Instance : i = NewInstance(c, Retries, now + delay, now + deadline)
    BY <1>0, <2>1, NewInstanceType
  <2>3. Put(i) /\ Schedule(k, i) /\ sending[k] = NoInst
    BY <1>2, <2>2 DEF Add, CanCall
  <2> QED BY <1>0, <1>1, <2>3, CreateSafe
<1>3. ASSUME NEW op \in {"cancel", "replay", "purge"}, NEW c \in Cmd, Lookup(k, op, c)
      PROVE  \A d \in Cmd : Safe(d)'
  BY <1>3, WriteSafe DEF Lookup
<1>4. ASSUME client[k].op # "none"
      PROVE  client[k].inst \in Instance /\ client[k].inst.id \in Cmd /\ sending[k] = NoInst
  <2>1. client[k].inst \in Instance
    BY <1>4 DEF AllPartsOK, ClientsOK
  <2> QED BY <1>4, <2>1 DEF Instance, SendFree
<1>5. CASE Cancel(k)
  <2>1. PICK i \in Instance : i = Cancelled(client[k].inst) /\ i.id \in Cmd /\ ~IsActive(i.status)
    BY <1>4, <1>5, TransitionTypes, Inactive DEF Cancel
  <2>2. Put(i) \/ UNCHANGED rows
    BY <1>5, <2>1 DEF Cancel
  <2>3. /\ ~IsActive(rows'[i.id].status) \/ rows'[i.id] = rows[i.id]
        /\ \A c \in Cmd : c # i.id => rows'[c] = rows[c]
    BY <1>0, <2>1, <2>2, PutRow
  <2> QED BY <1>5, <2>1, <2>3, WriteSafe DEF Cancel
<1>6. CASE ReplayFromDLQ(k)
  <2>1. PICK i \in Instance : i = Replayed(client[k].inst, now)
    BY <1>0, <1>4, <1>6, TransitionTypes DEF ReplayFromDLQ
  <2>2. CASE Present(rows[i.id])
    <3>1. Put(i) /\ Schedule(k, i) /\ sending[k] = NoInst
      BY <1>4, <1>6, <2>1, <2>2 DEF ReplayFromDLQ
    <3> QED BY <1>0, <1>1, <3>1, CreateSafe
  <2>3. CASE ~Present(rows[i.id])
    <3>1. i.id \in Cmd /\ UNCHANGED <<rows, sending, delayedTimers>>
      BY <1>6, <2>1, <2>3 DEF ReplayFromDLQ, Instance
    <3> QED BY <1>0, <3>1, WriteSafe
  <2> QED BY <2>2, <2>3
<1>7. CASE PurgeDLQ(k)
  <2>1. PICK d \in Cmd : d = client[k].inst.id
    BY <1>4, <1>7 DEF PurgeDLQ
  <2>2. Delete(d)
    BY <1>7, <2>1 DEF PurgeDLQ
  <2> QED BY <1>0, <1>7, <2>2, DeleteSafe, WriteSafe DEF PurgeDLQ
<1> QED BY <1>2, <1>3, <1>5, <1>6, <1>7 DEF Call, Return

LEMMA MaintenanceSafe ==
    ASSUME AllPartsOK, Live, \A c \in Cmd : Safe(c),
           \/ \E c \in Cmd : Cleanup(c)
           \/ \E S \in SUBSET Cmd : FindStuck(S)
           \/ \E i \in recovering : RecoverStuck(i)
    PROVE  \A c \in Cmd : Safe(c)'
<1>0. RowsOK /\ "recovery" \in Actor
  BY ActorTypes DEF AllPartsOK
<1>1. ASSUME NEW d \in Cmd, Cleanup(d) PROVE \A c \in Cmd : Safe(c)'
  BY <1>0, <1>1, DeleteSafe, WriteSafe DEF Cleanup
<1>2. ASSUME NEW S \in SUBSET Cmd, FindStuck(S) PROVE \A c \in Cmd : Safe(c)'
  <2> SUFFICES ASSUME NEW c \in Cmd PROVE Safe(c)'
    OBVIOUS
  <2>1. KeepsHold(c)
    BY <1>2, HoldKept DEF KeepsHold, FindStuck
  <2> QED BY <1>2, <2>1, SafeSteps DEF FindStuck
<1>3. ASSUME NEW j \in recovering, RecoverStuck(j) PROVE \A c \in Cmd : Safe(c)'
  <2>0. j \in Instance
    BY DEF AllPartsOK, LoopsOK
  <2>1. PICK i \in Instance : i = Recovered(j) /\ i.id \in Cmd
    BY <2>0, TransitionTypes DEF Instance
  <2>2. UNCHANGED <<queue, leaked, worker, replaying, skipped>> /\ sending["recovery"] = NoInst
    BY <1>3 DEF RecoverStuck
  <2>3. \A c \in Cmd : (InReplay(c) => InReplay(c)') /\ (AtWork(c) => AtWork(c)')
    BY <2>2, HoldKept
  <2>4. CASE UpdateOK(j)
    <3>1. Put(i) /\ Schedule("recovery", i)
      BY <1>3, <2>1, <2>4 DEF RecoverStuck
    <3> QED BY <1>0, <2>2, <2>3, <3>1, CreateSafe
  <2>5. CASE ~UpdateOK(j)
    <3>1. UNCHANGED <<rows, sending, delayedTimers>>
      BY <1>3, <2>5 DEF RecoverStuck
    <3> QED BY <2>1, <2>2, <3>1, WriteSafe
  <2> QED BY <2>4, <2>5
<1> QED BY <1>1, <1>2, <1>3

(* The life cycle.  Start makes every active command safe, whatever was lost *)
(* before: it is in the snapshot to be replayed or among the skipped ones.    *)
LEMMA LifeCycleSafe ==
    ASSUME AllPartsOK, Live => \A c \in Cmd : Safe(c), Live',
           \/ Start \/ StartDone \/ Stop \/ StopCancel \/ StopDone \/ Crash \/ Tick
           \/ \E i \in replaying : Replay(i)
    PROVE  \A c \in Cmd : Safe(c)'
<1>0. RowsOK /\ TimersOK /\ SendsOK /\ LoopsOK /\ now \in Nat /\ "start" \in Actor
  BY ActorTypes DEF AllPartsOK, RestOK
<1>1. CASE Start
  <2> SUFFICES ASSUME NEW c \in Cmd, IsActive(rows'[c].status) PROVE Held(c)' \/ c \in skipped'
    BY DEF Safe
  <2>1. rows' = rows /\ rows[c].readyAt \in Nat /\ rows[c].id = c
    BY <1>0, <1>1 DEF Start, RowsOK, Row
  <2>2. CASE rows[c].readyAt <= now
    <3>1. rows[c] \in replaying'
      BY <1>1, <2>1, <2>2 DEF Start, Due
    <3>2. PICK i \in replaying' : i.id = c
      BY <2>1, <3>1
    <3> QED BY <3>2 DEF Held, InReplay
  <2>3. CASE rows[c].readyAt > now
    BY <1>1, <2>1, <2>3 DEF Start
  <2> QED BY <1>0, <2>1, <2>2, <2>3
<1>2. ASSUME NEW i \in replaying, Replay(i) PROVE \A c \in Cmd : Safe(c)'
  <2>1. i \in Instance /\ i.id \in Cmd
    BY <1>0 DEF LoopsOK, Instance
  <2>2. /\ sending["start"] = NoInst /\ Schedule("start", i) /\ replaying' = replaying \ {i}
        /\ UNCHANGED <<rows, queue, leaked, worker, skipped>>
    BY <1>2 DEF Replay
  <2>3. /\ InTimer(i.id)' \/ InSend(i.id)'
        /\ \A c \in Cmd : (InTimer(c) => InTimer(c)') /\ (InSend(c) => InSend(c)')
    BY <1>0, <2>1, <2>2, ScheduleHolds
  <2>4. PICK d \in Cmd : d = i.id
    BY <2>1
  <2>5. Safe(d)'
    BY <2>3, <2>4, SafeSteps DEF Held
  <2>6. ASSUME NEW c \in Cmd, c # d PROVE Safe(c)'
    <3>1. InReplay(c) => InReplay(c)'
      BY <2>2, <2>4, <2>6 DEF InReplay
    <3>2. KeepsHold(c)
      BY <2>2, <2>3, <3>1, HoldKept DEF KeepsHold
    <3> QED BY <1>2, <2>2, <3>2, SafeSteps DEF Replay, Live
  <2> QED BY <2>5, <2>6
<1>3. CASE StartDone \/ Tick
  <2> SUFFICES ASSUME NEW c \in Cmd PROVE Safe(c)'
    OBVIOUS
  <2>1. /\ UNCHANGED <<rows, queue, delayedTimers, leaked, worker, sending, replaying, skipped>>
        /\ Live
    BY <1>3 DEF StartDone, Tick, Live
  <2>2. KeepsHold(c)
    BY <2>1, HoldKept DEF KeepsHold
  <2> QED BY <2>1, <2>2, SafeSteps
<1>4. CASE Stop \/ StopCancel \/ StopDone \/ Crash
  BY <1>4 DEF Stop, StopCancel, StopDone, Crash, Live
<1> QED BY <1>1, <1>2, <1>3, <1>4

\* An actor that is about to schedule a copy is not blocked in a send.
LEMMA FreeStep ==
    ASSUME SendFree,
           \A w \in Worker : worker'[w].pc \in {"acquire", "running", "callback"} =>
              \/ sending'[w] = NoInst
              \/ worker[w].pc \in {"acquire", "running", "callback"} /\ sending'[w] = sending[w],
           \A k \in Client : client'[k].op # "none" =>
              \/ sending'[k] = NoInst
              \/ client[k].op # "none" /\ sending'[k] = sending[k]
    PROVE  SendFree'
BY DEF SendFree

LEMMA SchedulesFor ==
    ASSUME SendsOK, NEW a \in Actor, NEW i, Schedule(a, i)
    PROVE  \A b \in Actor : b # a => sending'[b] = sending[b]
BY DEF SendsOK, Schedule

LEMMA WorkerFree ==
    ASSUME AllPartsOK, SendFree, NEW w \in Worker, Take(w) \/ Proceed(w)
    PROVE  SendFree'
<1>0. WorkersOK /\ SendsOK /\ w \in Actor /\ Worker \subseteq Actor /\ Client \subseteq Actor /\ w \notin Client
  BY ActorTypes, ExecutorAssumption DEF AllPartsOK
<1>1. /\ client' = client /\ \A b \in Actor : b # w => sending'[b] = sending[b]
      /\ \A v \in Worker : v # w => worker'[v] = worker[v]
  <2>1. client' = client
    BY DEF Take, Proceed, Drop, HandleExpired, NotReady, NotRegistered, Begin, WaitSlot, GotSlot,
       SlotRefused, ResultRepeat, ResultRetry, ResultDone, ErrorRetry, ErrorFinal, CallbackDone,
       Panic, SpawnChild, SkipChild, Complete
  <2>2. UNCHANGED sending \/ \E i : Schedule(w, i)
    BY DEF Take, Proceed, Drop, HandleExpired, NotReady, NotRegistered, Begin, WaitSlot, GotSlot,
       SlotRefused, ResultRepeat, ResultRetry, ResultDone, ErrorRetry, ErrorFinal, CallbackDone,
       Panic, SpawnChild, SkipChild, Complete, UpdateAndSchedule
  <2>3. UNCHANGED worker \/ \E s : worker' = [worker EXCEPT ![w] = s]
    BY DEF Take, Proceed, Drop, HandleExpired, NotReady, NotRegistered, Begin, WaitSlot, GotSlot,
       SlotRefused, ResultRepeat, ResultRetry, ResultDone, ErrorRetry, ErrorFinal, CallbackDone,
       Panic, SpawnChild, SkipChild, Complete, UpdateAndSchedule, RunHandler, NextChild
  <2>4. \A v \in Worker : v # w => worker'[v] = worker[v]
    BY <1>0, <2>3 DEF WorkersOK
  <2> QED BY <1>0, <2>1, <2>2, <2>4, SchedulesFor
<1>2. \/ worker'[w].pc \notin {"acquire", "running", "callback"}
      \/ sending'[w] = NoInst
  <2>1. CASE Take(w)
    BY <2>1 DEF Take, Drop, HandleExpired, NotReady, NotRegistered, Begin, WaitSlot, Resolvable, Ready
  <2>2. CASE GotSlot(w) \/ ErrorFinal(w) 
    BY <2>2 DEF GotSlot, ErrorFinal, Running, SendFree
  <2>3. CASE \/ SlotRefused(w) \/ ResultRepeat(w) \/ ResultRetry(w) \/ ErrorRetry(w) \/ Panic(w)
             \/ Complete(w)
    <3>1. worker' = [worker EXCEPT ![w] = Idle]
      BY <2>3 DEF SlotRefused, ResultRepeat, ResultRetry, ErrorRetry, Panic, Complete, UpdateAndSchedule
    <3> QED BY <1>0, <3>1, WorkerStates DEF WorkersOK
  <2>4. CASE \E plan \in Plans : ResultDone(w, plan) \/ CallbackDone(w, plan)
    BY <1>0, <2>4 DEF ResultDone, CallbackDone, Idle, WorkersOK
  <2>5. CASE SkipChild(w) \/ \E c \in Cmd : SpawnChild(w, c)
    BY <1>0, <2>5 DEF SkipChild, SpawnChild, Spawning, NextChild, Idle, WorkersOK
  <2> QED BY <2>1, <2>2, <2>3, <2>4, <2>5 DEF Proceed
<1> QED BY <1>0, <1>1, <1>2, FreeStep DEF SendFree

LEMMA OtherFree ==
    ASSUME AllPartsOK, SendFree, Next, \A w \in Worker : ~Take(w) /\ ~Proceed(w)
    PROVE  SendFree'
<1>0. /\ ClientsOK /\ SendsOK /\ Worker \subseteq Actor /\ Client \subseteq Actor /\ Cmd \subseteq Actor
      /\ "recovery" \in Actor /\ "start" \in Actor
      /\ {"recovery", "start"} \cap (Worker \cup Client) = {} /\ Cmd \cap (Worker \cup Client) = {}
      /\ Worker \cap Client = {}
  BY ActorTypes, ExecutorAssumption DEF AllPartsOK
<1>1. ASSUME NEW a \in Actor, Enqueue(a) \/ Abandon(a) PROVE SendFree'
  BY <1>0, <1>1, FreeStep DEF SendFree, SendsOK, Enqueue, Abandon
\* The callback of a timer and the loops are actors of their own.
<1>2. ASSUME NEW a \in Actor, a \notin Worker \cup Client, \A b \in Actor : b # a => sending'[b] = sending[b],
             UNCHANGED <<worker, client>>
      PROVE  SendFree'
  BY <1>0, <1>2, FreeStep DEF SendFree
<1>3. ASSUME NEW i \in Instance, Deliver(i), UNCHANGED <<worker, client>> PROVE SendFree'
  <2>1. i.id \in Actor /\ i.id \notin Worker \cup Client
    BY <1>0 DEF Instance
  <2>2. \A b \in Actor : b # i.id => sending'[b] = sending[b]
    BY <1>0, <1>3, <2>1 DEF Deliver, SendsOK
  <2> QED BY <1>2, <1>3, <2>1, <2>2
<1>4. ASSUME NEW c \in Cmd, Fire(c) PROVE SendFree'
  <2>1. delayedTimers[c].inst \in Instance
    BY <1>4 DEF Fire, AllPartsOK, TimersOK, Timer
  <2> QED BY <1>3, <1>4, <2>1 DEF Fire
<1>5. ASSUME NEW t \in leaked, FireLeaked(t) PROVE SendFree'
  <2>1. t.inst \in Instance
    BY DEF AllPartsOK, LeakedOK, Timer
  <2> QED BY <1>3, <1>5, <2>1 DEF FireLeaked
<1>6. ASSUME NEW k \in Client, Call(k) \/ Return(k) PROVE SendFree'
  <2>1. worker' = worker /\ \A b \in Actor : b # k => sending'[b] = sending[b]
    <3>1. worker' = worker /\ (UNCHANGED sending \/ \E i : Schedule(k, i))
      BY <1>6 DEF Call, Return, Add, Lookup, Cancel, ReplayFromDLQ, PurgeDLQ
    <3> QED BY <1>0, <3>1, SchedulesFor
  <2>2. /\ \A j \in Client : j # k => client'[j] = client[j]
        /\ client'[k].op # "none" => sending'[k] = NoInst
    BY <1>0, <1>6 DEF Call, Return, Add, Lookup, Cancel, ReplayFromDLQ, PurgeDLQ, CanCall, NoCall, ClientsOK
  <2> QED BY <1>0, <2>1, <2>2, FreeStep DEF SendFree
<1>7. ASSUME NEW i \in recovering, RecoverStuck(i) PROVE SendFree'
  <2>1. UNCHANGED sending \/ Schedule("recovery", Recovered(i))
    BY <1>7 DEF RecoverStuck
  <2>2. \A b \in Actor : b # "recovery" => sending'[b] = sending[b]
    BY <1>0, <2>1, SchedulesFor
  <2> QED BY <1>0, <1>2, <1>7, <2>2 DEF RecoverStuck
<1>8. ASSUME NEW i \in replaying, Replay(i) PROVE SendFree'
  <2>1. \A b \in Actor : b # "start" => sending'[b] = sending[b]
    BY <1>0, <1>8, SchedulesFor DEF Replay
  <2> QED BY <1>0, <1>2, <1>8, <2>1 DEF Replay
<1>9. CASE Start \/ Crash
  BY <1>0, <1>9 DEF Start, Crash, SendFree
<1>10. CASE UNCHANGED <<worker, client, sending>>
  BY <1>10 DEF SendFree
<1> QED
  BY <1>1, <1>4, <1>5, <1>6, <1>7, <1>8, <1>9, <1>10 DEF Next, Cleanup, FindStuck, StartDone,
     Stop, StopCancel, StopDone, Tick

\* While the executor runs, every active row has someone who will still act on it:
\* the queue, a timer, a blocked send, the replay or a worker, except the rows the
\* last Start did not load.  True whatever crashes, stops, stuck recoveries and API
\* calls happen, for any number of workers, clients and commands and any channel size.
THEOREM NothingIsLost == Spec => []NothingLost
<1>1. Init => LostInv
  <2> SUFFICES ASSUME Init PROVE LostInv
    OBVIOUS
  <2>1. AllPartsOK
    BY InitType
  <2>2. SendFree /\ ~Live
    BY ActorTypes DEF Init, SendFree, Live
  <2> QED BY <2>1, <2>2 DEF LostInv
<1>2. LostInv /\ [Next]_vars => LostInv'
  <2> SUFFICES ASSUME LostInv, [Next]_vars PROVE LostInv'
    OBVIOUS
  <2> USE DEF LostInv
  <2>1. AllPartsOK'
    BY NextType
  <2>2. CASE UNCHANGED vars
    <3>1. SendFree'
      BY <2>2 DEF vars, SendFree
    <3>2. ASSUME Live', NEW c \in Cmd PROVE Safe(c)'
      <4>1. KeepsHold(c) /\ Live
        BY <2>2, <3>2, HoldKept DEF vars, KeepsHold, Live
      <4> QED BY <2>2, <4>1, SafeSteps DEF vars
    <3> QED BY <2>1, <3>1, <3>2
  <2>3. CASE Next
    <3>1. SendFree'
      BY <2>3, WorkerFree, OtherFree
    <3>2. ASSUME Live' PROVE \A c \in Cmd : Safe(c)'
      <4>1. ASSUME NEW w \in Worker, Take(w) \/ Proceed(w) PROVE \A c \in Cmd : Safe(c)'
        <5>1. Live
          BY <3>2, <4>1 DEF Live, Take, Proceed, Drop, HandleExpired, NotReady, NotRegistered,
             Begin, WaitSlot, GotSlot, SlotRefused, ResultRepeat, ResultRetry, ResultDone,
             ErrorRetry, ErrorFinal, CallbackDone, Panic, SpawnChild, SkipChild, Complete
        <5> QED BY <4>1, <5>1, TakeSafe, ProceedSafe
      <4>2. CASE \/ \E a \in Actor : Enqueue(a) \/ Abandon(a)
                 \/ \E c \in Cmd : Fire(c)
                 \/ \E t \in leaked : FireLeaked(t)
        <5>1. Live
          BY <3>2, <4>2 DEF Live, Enqueue, Abandon, Fire, FireLeaked
        <5> QED BY <4>2, <5>1, ChannelSafe
      <4>3. ASSUME NEW k \in Client, Call(k) \/ Return(k) PROVE \A c \in Cmd : Safe(c)'
        <5>1. Live
          BY <3>2, <4>3 DEF Live, Call, Return, Add, Lookup, Cancel, ReplayFromDLQ, PurgeDLQ
        <5> QED BY <4>3, <5>1, CallSafe
      <4>4. CASE \/ \E c \in Cmd : Cleanup(c)
                 \/ \E S \in SUBSET Cmd : FindStuck(S)
                 \/ \E i \in recovering : RecoverStuck(i)
        <5>1. Live
          BY <3>2, <4>4 DEF Live, Cleanup, FindStuck, RecoverStuck
        <5> QED BY <4>4, <5>1, MaintenanceSafe
      <4>5. CASE \/ Start \/ StartDone \/ Stop \/ StopCancel \/ StopDone \/ Crash \/ Tick
                 \/ \E i \in replaying : Replay(i)
        BY <3>2, <4>5, LifeCycleSafe
      <4> QED BY <2>3, <4>1, <4>2, <4>3, <4>4, <4>5 DEF Next
    <3> QED BY <2>1, <3>1, <3>2
  <2> QED BY <2>2, <2>3
<1>3. LostInv => NothingLost
  <2>1. \A c \in Cmd : Held(c) => Carried(c) \/ Completing(c)
    BY DEF Held, Carried, Completing, AtWork, InWorker
  <2> QED BY <2>1 DEF LostInv, NothingLost, Live, Safe
<1> QED BY <1>1, <1>2, <1>3, PTL DEF Spec
-----------------------------------------------------------------------------
(***************************************************************************)
(* RetryBudget as a theorem.  RetryBudget speaks of rows only, but a row is *)
(* overwritten from copies, so the induction bounds every copy there is.   *)
(* Slack is what a copy may have cost and still be run once more: a copy   *)
(* that waits to be executed is within Slack, one that is or was executed  *)
(* within Slack + 1.  A stop is charged when it begins, and pays for the   *)
(* commands that are still STARTED when it ends: until then it is not part *)
(* of Slack.                                                               *)
(***************************************************************************)
Within(i, s) == i.retries <= Retries /\ i.attempt + i.retries <= s

Slack == IF Stopping THEN Retries + uncharged - 1 ELSE Retries + uncharged

PhaseBudget ==
    /\ Stopping => uncharged > 0
    /\ phase = "down" => /\ \A w \in Worker : worker[w].pc = "idle"
                         /\ \A k \in Client : client[k].op = "none"
                         /\ recovering = {}
RowBudget ==
    \A c \in Cmd : /\ Within(rows[c], Slack + 1)
                   /\ phase = "down" => Within(rows[c], Slack)
QueueBudget == \A n \in 1..Len(queue) : Within(queue[n], Slack)
TimerBudget == \A c \in Cmd : delayedTimers[c] # NoInst => Within(delayedTimers[c].inst, Slack)
LeakedBudget == \A t \in leaked : Within(t.inst, Slack)
WorkerBudget ==
    \A w \in Worker : /\ worker[w].pc # "idle" => Within(worker[w].inst, Slack + 1)
                      /\ worker[w].pc = "acquire" => Within(worker[w].inst, Slack)
SendBudget == \A a \in Actor : sending[a] # NoInst => Within(sending[a], Slack)
ClientBudget == \A k \in Client : client[k].op # "none" => Within(client[k].inst, Slack + 1)
LoopBudget == /\ \A i \in recovering : Within(i, Slack + 1)
              /\ \A i \in replaying : Within(i, Slack)

BudgetInv ==
    /\ AllPartsOK
    /\ PhaseBudget /\ RowBudget /\ QueueBudget /\ TimerBudget /\ LeakedBudget
    /\ WorkerBudget /\ SendBudget /\ ClientBudget /\ LoopBudget
-----------------------------------------------------------------------------
LEMMA SlackType ==
    ASSUME RestOK, Stopping => uncharged > 0
    PROVE  Slack \in Nat /\ Retries \in Nat /\ Retries <= Slack
<1>1. Retries \in Nat
  BY ExecutorAssumption
<1> QED BY <1>1 DEF RestOK, Slack

\* Slack only grows, so what was within it stays within it.
Grows == Slack \in Nat /\ Slack' \in Nat /\ Slack <= Slack' /\ Retries \in Nat /\ Retries <= Slack

LEMMA WithinGrows ==
    ASSUME Grows, NEW i \in Row
    PROVE  /\ Within(i, Slack) => Within(i, Slack') /\ Within(i, Slack + 1) /\ Within(i, Slack' + 1)
           /\ Within(i, Slack + 1) => Within(i, Slack' + 1)
           /\ Slack < Slack' /\ Within(i, Slack + 1) => Within(i, Slack')
<1>1. i.attempt \in Nat /\ i.retries \in Nat
  BY DEF Row
<1> QED BY <1>1 DEF Grows, Within

\* What the transitions cost: an execution one, a charged retry gives one back.
LEMMA Costs ==
    ASSUME NEW i \in Instance, NEW t \in Nat, NEW d \in BOOLEAN, NEW s \in Nat, Retries \in Nat
    PROVE  /\ Within(i, s) => Within(Started(i), s + 1)
           /\ Within(i, s) => /\ Within(Unresolved(i), s) /\ Within(Repeating(i, t), s)
                              /\ Within(Completed(i), s) /\ Within(Failed(i, d), s)
                              /\ Within(Panicked(i), s) /\ Within(Expired(i), s)
                              /\ Within(Cancelled(i), s) /\ Within(Recovered(i), s)
           /\ Within(i, s + 1) /\ i.retries > 0 => Within(Retrying(i), s) /\ Within(BackedOff(i, t), s)
           /\ i.retries <= Retries /\ Retries <= s => Within(Replayed(i, t), s)
<1>0. i.attempt \in Nat /\ i.retries \in Nat
  BY DEF Instance
<1>1. Within(i, s) => Within(Started(i), s + 1)
  <2>1. Started(i).attempt = i.attempt + 1 /\ Started(i).retries = i.retries
    BY DEF Started, Instance
  <2> QED BY <1>0, <2>1 DEF Within
<1>2. Within(i, s) => /\ Within(Unresolved(i), s) /\ Within(Repeating(i, t), s)
                      /\ Within(Completed(i), s) /\ Within(Failed(i, d), s)
                      /\ Within(Panicked(i), s) /\ Within(Expired(i), s)
                      /\ Within(Cancelled(i), s) /\ Within(Recovered(i), s)
  BY DEF Within, Instance, Unresolved, Repeating, Completed, Failed, Panicked, Expired, Cancelled,
     Recovered
<1>3. Within(i, s + 1) /\ i.retries > 0 => Within(Retrying(i), s) /\ Within(BackedOff(i, t), s)
  <2>1. /\ Retrying(i).attempt = i.attempt /\ Retrying(i).retries = i.retries - 1
        /\ BackedOff(i, t).attempt = i.attempt /\ BackedOff(i, t).retries = i.retries - 1
    BY DEF Retrying, BackedOff, Instance
  <2> QED BY <1>0, <2>1 DEF Within
<1>4. i.retries <= Retries /\ Retries <= s => Within(Replayed(i, t), s)
  <2>1. Replayed(i, t).attempt = 0 /\ Replayed(i, t).retries = i.retries
    BY DEF Replayed, Instance
  <2> QED BY <1>0, <2>1 DEF Within
<1> QED BY <1>1, <1>2, <1>3, <1>4

\* A new command and a row that is not there are within any Slack.
LEMMA NewCost ==
    ASSUME NEW c, NEW t, NEW d, NEW s \in Nat, Retries \in Nat, Retries <= s
    PROVE  /\ Within(NewInstance(c, Retries, t, d), s)
           /\ \A x : Within(Blank(c, x), s) /\ Within(Blank(c, x), s + 1)
BY DEF Within, NewInstance, Blank

LEMMA BudgetKept ==
    ASSUME AllPartsOK, Grows
    PROVE  /\ RowBudget /\ UNCHANGED rows /\ (phase' = "down" => phase = "down") => RowBudget'
           /\ QueueBudget /\ UNCHANGED queue => QueueBudget'
           /\ TimerBudget /\ UNCHANGED delayedTimers => TimerBudget'
           /\ LeakedBudget /\ UNCHANGED leaked => LeakedBudget'
           /\ WorkerBudget /\ UNCHANGED worker => WorkerBudget'
           /\ SendBudget /\ UNCHANGED sending => SendBudget'
           /\ ClientBudget /\ UNCHANGED client => ClientBudget'
           /\ LoopBudget /\ UNCHANGED <<recovering, replaying>> => LoopBudget'
<1> USE DEF AllPartsOK
<1>0. Instance \subseteq Row /\ NoInst \notin Instance
  BY RowTypes
<1>1. RowBudget /\ UNCHANGED rows /\ (phase' = "down" => phase = "down") => RowBudget'
  BY WithinGrows DEF RowBudget, RowsOK
<1>2. QueueBudget /\ UNCHANGED queue => QueueBudget'
  <2>1. \A n \in 1..Len(queue) : queue[n] \in Row
    BY <1>0 DEF QueueOK
  <2> QED BY <2>1, WithinGrows DEF QueueBudget
<1>3. TimerBudget /\ UNCHANGED delayedTimers => TimerBudget'
  <2>1. \A c \in Cmd : delayedTimers[c] # NoInst => delayedTimers[c].inst \in Row
    BY <1>0 DEF TimersOK, Timer
  <2> QED BY <2>1, WithinGrows DEF TimerBudget
<1>4. LeakedBudget /\ UNCHANGED leaked => LeakedBudget'
  <2>1. \A t \in leaked : t.inst \in Row
    BY <1>0 DEF LeakedOK, Timer
  <2> QED BY <2>1, WithinGrows DEF LeakedBudget
<1>5. WorkerBudget /\ UNCHANGED worker => WorkerBudget'
  <2>1. \A w \in Worker : worker[w].pc # "idle" => worker[w].inst \in Row
    BY <1>0, WorkerCopy
  <2> QED BY <2>1, WithinGrows DEF WorkerBudget
<1>6. SendBudget /\ UNCHANGED sending => SendBudget'
  <2>1. \A a \in Actor : sending[a] # NoInst => sending[a] \in Row
    BY <1>0 DEF SendsOK
  <2> QED BY <2>1, WithinGrows DEF SendBudget
<1>7. ClientBudget /\ UNCHANGED client => ClientBudget'
  <2>1. \A k \in Client : client[k].op # "none" => client[k].inst \in Row
    BY <1>0 DEF ClientsOK
  <2> QED BY <2>1, WithinGrows DEF ClientBudget
<1>8. LoopBudget /\ UNCHANGED <<recovering, replaying>> => LoopBudget'
  <2>1. \A i \in recovering \cup replaying : i \in Row
    BY <1>0 DEF LoopsOK
  <2> QED BY <2>1, WithinGrows DEF LoopBudget
<1> QED BY <1>1, <1>2, <1>3, <1>4, <1>5, <1>6, <1>7, <1>8
-----------------------------------------------------------------------------
(* The building blocks of the actions. *)
LEMMA PutBudget ==
    ASSUME AllPartsOK, Grows, RowBudget, NEW i \in Instance, Put(i),
           Within(i, Slack' + 1), phase' # "down"
    PROVE  RowBudget'
BY WithinGrows DEF AllPartsOK, RowsOK, RowBudget, Put

LEMMA DeleteBudget ==
    ASSUME AllPartsOK, Grows, RowBudget, NEW c \in Cmd, Delete(c), phase' # "down"
    PROVE  RowBudget'
<1>1. Within(Blank(c, "GONE"), Slack' + 1)
  BY NewCost DEF Grows
<1> QED BY <1>1, WithinGrows DEF AllPartsOK, RowsOK, RowBudget, Delete

LEMMA ArmBudget ==
    ASSUME AllPartsOK, Grows, TimerBudget, NEW i \in Instance, Arm(i), Within(i, Slack')
    PROVE  TimerBudget'
<1>1. \A c \in Cmd : delayedTimers[c] # NoInst => delayedTimers[c].inst \in Row
  BY RowTypes DEF AllPartsOK, TimersOK, Timer
<1>2. PICK d : delayedTimers' = [delayedTimers EXCEPT ![i.id] = [inst |-> i, at |-> d]]
  BY DEF Arm
<1> QED BY <1>1, <1>2, WithinGrows DEF AllPartsOK, TimersOK, TimerBudget

LEMMA ScheduleBudget ==
    ASSUME AllPartsOK, Grows, TimerBudget, SendBudget, NEW a \in Actor, NEW i \in Instance,
           Schedule(a, i), Within(i, Slack')
    PROVE  TimerBudget' /\ SendBudget'
<1>1. CASE i.readyAt <= now
  <2>1. \A b \in Actor : sending[b] # NoInst => sending[b] \in Row
    BY RowTypes DEF AllPartsOK, SendsOK
  <2>2. sending' = [sending EXCEPT ![a] = i] /\ UNCHANGED delayedTimers
    BY <1>1 DEF Schedule
  <2>3. SendBudget'
    BY <2>1, <2>2, WithinGrows DEF AllPartsOK, SendsOK, SendBudget
  <2> QED BY <2>2, <2>3, BudgetKept
<1>2. CASE ~(i.readyAt <= now)
  BY <1>2, ArmBudget, BudgetKept DEF Schedule
<1> QED BY <1>1, <1>2

LEMMA DeliverBudget ==
    ASSUME AllPartsOK, Grows, SendBudget, NEW i \in Instance, Deliver(i), Within(i, Slack)
    PROVE  SendBudget'
<1>1. i.id \in Actor
  BY ActorTypes DEF Instance
<1>2. sending' = sending \/ sending' = [sending EXCEPT ![i.id] = i]
  BY DEF Deliver
<1>3. \A a \in Actor : sending'[a] # NoInst => sending'[a] \in Row /\ Within(sending'[a], Slack)
  BY <1>1, <1>2, RowTypes DEF AllPartsOK, SendsOK, SendBudget
<1> QED BY <1>3, WithinGrows DEF SendBudget

LEMMA SetWorkerBudget ==
    ASSUME AllPartsOK, Grows, WorkerBudget, NEW w \in Worker, NEW s,
           worker' = [worker EXCEPT ![w] = s],
           s.pc # "idle" => Within(s.inst, Slack' + 1),
           s.pc = "acquire" => Within(s.inst, Slack')
    PROVE  WorkerBudget'
<1>1. \A v \in Worker : worker[v].pc # "idle" => worker[v].inst \in Row
  BY RowTypes, WorkerCopy DEF AllPartsOK
<1> QED BY <1>1, WithinGrows DEF AllPartsOK, WorkersOK, WorkerBudget

LEMMA FreesBudget ==
    ASSUME AllPartsOK, Grows
    PROVE  /\ \A w \in Worker : WorkerBudget /\ worker' = [worker EXCEPT ![w] = Idle] => WorkerBudget'
           /\ \A k \in Client : ClientBudget /\ client' = [client EXCEPT ![k] = NoCall] => ClientBudget'
<1>1. ASSUME NEW w \in Worker, WorkerBudget, worker' = [worker EXCEPT ![w] = Idle]
      PROVE  WorkerBudget'
  BY <1>1, SetWorkerBudget, WorkerStates
<1>2. ASSUME NEW k \in Client, ClientBudget, client' = [client EXCEPT ![k] = NoCall]
      PROVE  ClientBudget'
  <2>1. \A j \in Client : client[j].op # "none" => client[j].inst \in Row
    BY RowTypes DEF AllPartsOK, ClientsOK
  <2> QED BY <1>2, <2>1, WithinGrows DEF AllPartsOK, ClientsOK, ClientBudget, NoCall
<1> QED BY <1>1, <1>2

LEMMA RunHandlerBudget ==
    ASSUME AllPartsOK, Grows, RowBudget, WorkerBudget, NEW w \in Worker, NEW i \in Instance,
           RunHandler(w, i), Within(i, Slack), phase' # "down", phase # "down"
    PROVE  RowBudget' /\ WorkerBudget'
<1>1. CASE UpdateOK(i)
  <2> DEFINE s == [pc |-> "running", inst |-> Started(i), todo |-> <<>>]
  <2>1. Started(i) \in Instance
    BY TransitionTypes
  <2>2. Within(i, Slack')
    BY RowTypes, WithinGrows
  <2>3. Within(Started(i), Slack' + 1)
    BY <2>2, Costs DEF Grows
  <2>4. Put(Started(i)) /\ worker' = [worker EXCEPT ![w] = s]
    BY <1>1 DEF RunHandler
  <2>5. RowBudget'
    BY <2>1, <2>3, <2>4, PutBudget
  <2>6. WorkerBudget'
    BY <2>3, <2>4, SetWorkerBudget
  <2> QED BY <2>5, <2>6
<1>2. CASE ~UpdateOK(i)
  BY <1>2, BudgetKept, FreesBudget DEF RunHandler
<1> QED BY <1>1, <1>2

LEMMA UpdateAndScheduleBudget ==
    ASSUME AllPartsOK, Grows, RowBudget, WorkerBudget, TimerBudget, SendBudget, NEW w \in Worker,
           NEW i \in Instance, UpdateAndSchedule(w, i), Within(i, Slack'), phase' # "down", phase # "down"
    PROVE  RowBudget' /\ WorkerBudget' /\ TimerBudget' /\ SendBudget'
<1>1. WorkerBudget'
  BY FreesBudget DEF UpdateAndSchedule
<1>2. CASE UpdateOK(i)
  <2>1. Within(i, Slack' + 1)
    <3>1. i.attempt \in Nat /\ i.retries \in Nat
      BY DEF Instance
    <3> QED BY <3>1 DEF Within, Grows
  <2>2. RowBudget'
    BY <1>2, <2>1, PutBudget DEF UpdateAndSchedule
  <2>3. TimerBudget' /\ SendBudget'
    BY <1>2, ScheduleBudget, ActorTypes DEF UpdateAndSchedule
  <2> QED BY <1>1, <2>2, <2>3
<1>3. CASE ~UpdateOK(i)
  BY <1>1, <1>3, BudgetKept DEF UpdateAndSchedule
<1> QED BY <1>2, <1>3

\* A step that leaves phase and uncharged alone leaves Slack alone.
LEMMA SlackKept ==
    ASSUME BudgetInv, UNCHANGED <<phase, uncharged>>
    PROVE  Slack' = Slack /\ Grows
<1>1. Slack' = Slack
  BY DEF Slack, Stopping
<1> QED BY <1>1, SlackType DEF BudgetInv, AllPartsOK, PhaseBudget, Grows

LEMMA SlackCharged ==
    ASSUME BudgetInv, UNCHANGED phase, uncharged' = uncharged + 1
    PROVE  Slack' = Slack + 1 /\ Grows
<1>0. Slack \in Nat /\ Retries \in Nat /\ Retries <= Slack /\ uncharged \in Nat
  BY SlackType DEF BudgetInv, AllPartsOK, PhaseBudget, RestOK
<1>1. Slack' = Slack + 1
  BY <1>0 DEF Slack, Stopping
<1> QED BY <1>0, <1>1 DEF Grows

\* The executor is up and stays up: nothing to show about a down process.
LEMMA PhaseKept ==
    ASSUME BudgetInv, phase # "down", UNCHANGED phase, uncharged' \in {uncharged, uncharged + 1}
    PROVE  PhaseBudget'
BY DEF BudgetInv, PhaseBudget, Stopping, AllPartsOK, RestOK
-----------------------------------------------------------------------------
(* One lemma per part of Next.  Budgets is BudgetInv without its types. *)
Budgets ==
    /\ PhaseBudget /\ RowBudget /\ QueueBudget /\ TimerBudget /\ LeakedBudget
    /\ WorkerBudget /\ SendBudget /\ ClientBudget /\ LoopBudget

LEMMA TakeKeepsBudget ==
    ASSUME BudgetInv, NEW w \in Worker, Take(w)
    PROVE  Budgets'
<1> USE DEF Budgets
<1>0. /\ AllPartsOK /\ Budgets
      /\ phase # "down" /\ UNCHANGED <<phase, uncharged>>
      /\ queue # <<>> /\ queue' = Tail(queue)
  BY DEF BudgetInv, Take, Drop, HandleExpired, NotReady, NotRegistered, Begin, WaitSlot,
     Resolvable, Ready, WorkersUp
<1>1. Slack' = Slack /\ Grows /\ PhaseBudget' /\ Slack' + 1 \in Nat
  BY <1>0, SlackKept, PhaseKept DEF Grows
<1>2. First \in Instance /\ Within(First, Slack)
  <2>1. queue \in Seq(Instance)
    BY <1>0 DEF AllPartsOK, QueueOK
  <2>2. Len(queue) > 0 /\ First = queue[1]
    BY <1>0, <2>1 DEF First
  <2> QED BY <1>0, <2>1, <2>2 DEF QueueBudget
<1>3. QueueBudget'
  <2>1. queue \in Seq(Instance)
    BY <1>0 DEF AllPartsOK, QueueOK
  <2>2. \A n \in 1..Len(queue') : n + 1 \in 1..Len(queue) /\ queue'[n] = queue[n + 1]
    BY <1>0, <2>1
  <2> QED BY <1>0, <1>1, <2>2 DEF QueueBudget
<1>4. Within(First, Slack') /\ Within(First, Slack' + 1)
  BY <1>1, <1>2, RowTypes, WithinGrows
<1> USE BudgetKept
<1>5. CASE Drop(w)
  BY <1>0, <1>1, <1>3, <1>5 DEF Drop
<1>6. CASE HandleExpired(w)
  <2>1. CASE UpdateOK(First)
    <3>1. Expired(First) \in Instance /\ Within(Expired(First), Slack' + 1)
      BY <1>1, <1>2, <1>4, TransitionTypes, Costs, ExecutorAssumption
    <3>2. RowBudget'
      BY <1>0, <1>1, <1>6, <2>1, <3>1, PutBudget DEF HandleExpired
    <3>3. \/ Callback(Expired(First)).pc = "idle"
          \/ Callback(Expired(First)).pc = "callback" /\ Callback(Expired(First)).inst = Expired(First)
      BY DEF Callback, Idle
    <3>4. WorkerBudget'
      BY <1>0, <1>1, <1>6, <2>1, <3>1, <3>3, SetWorkerBudget DEF HandleExpired
    <3> QED BY <1>0, <1>1, <1>3, <1>6, <3>2, <3>4 DEF HandleExpired
  <2>2. CASE ~UpdateOK(First)
    BY <1>0, <1>1, <1>3, <1>6, <2>2 DEF HandleExpired
  <2> QED BY <2>1, <2>2
<1>7. CASE NotReady(w)
  <2>1. TimerBudget'
    BY <1>0, <1>1, <1>2, <1>4, <1>7, ArmBudget DEF NotReady
  <2> QED BY <1>0, <1>1, <1>3, <1>7, <2>1 DEF NotReady
<1>8. CASE NotRegistered(w)
  <2>1. Unresolved(First) \in Instance /\ Within(Unresolved(First), Slack' + 1)
    BY <1>1, <1>2, <1>4, TransitionTypes, Costs, ExecutorAssumption
  <2>2. Put(Unresolved(First)) \/ UNCHANGED rows
    BY <1>8 DEF NotRegistered
  <2>3. RowBudget'
    BY <1>0, <1>1, <2>1, <2>2, PutBudget
  <2> QED BY <1>0, <1>1, <1>3, <1>8, <2>3 DEF NotRegistered
<1>9. CASE Begin(w)
  <2>1. RowBudget' /\ WorkerBudget'
    BY <1>0, <1>1, <1>2, <1>9, RunHandlerBudget DEF Begin
  <2> QED BY <1>0, <1>1, <1>3, <1>9, <2>1 DEF Begin
<1>10. CASE WaitSlot(w)
  <2>1. WorkerBudget'
    BY <1>0, <1>1, <1>4, <1>10, SetWorkerBudget DEF WaitSlot
  <2> QED BY <1>0, <1>1, <1>3, <1>10, <2>1 DEF WaitSlot
<1> QED BY <1>5, <1>6, <1>7, <1>8, <1>9, <1>10 DEF Take

LEMMA ProceedKeepsBudget ==
    ASSUME BudgetInv, NEW w \in Worker, Proceed(w)
    PROVE  Budgets'
<1> USE DEF Budgets
<1> DEFINE i == worker[w].inst
<1>0. /\ AllPartsOK /\ Budgets /\ worker[w].pc # "idle" /\ UNCHANGED phase
      /\ now \in Nat /\ Retries \in Nat /\ NoDeadline \in Nat /\ now + Period \in Nat /\ now + Backoff \in Nat
  <2>1. AllPartsOK /\ Budgets /\ now \in Nat
    BY DEF BudgetInv, AllPartsOK, RestOK
  <2>2. worker[w].pc # "idle" /\ UNCHANGED phase
    BY DEF Proceed, GotSlot, SlotRefused, ResultRepeat, ResultRetry, ResultDone, ErrorRetry,
       ErrorFinal, CallbackDone, Panic, SpawnChild, SkipChild, Complete, Running, Spawning
  <2>3. Retries \in Nat /\ Period \in Nat /\ Backoff \in Nat /\ NoDeadline \in Nat
    BY ExecutorAssumption DEF NoDeadline
  <2> QED BY <2>1, <2>2, <2>3
<1>1. phase # "down"
  BY <1>0 DEF PhaseBudget
<1>2. i \in Instance /\ i \in Row /\ Within(i, Slack + 1) /\ worker[w].todo \in Seq(Nat)
  BY <1>0, WorkerCopy, RowTypes DEF AllPartsOK, WorkerBudget
<1>3. ASSUME UNCHANGED uncharged
      PROVE  Slack' = Slack /\ Grows /\ PhaseBudget' /\ Within(i, Slack' + 1)
  BY <1>0, <1>1, <1>2, <1>3, SlackKept, PhaseKept
<1> USE BudgetKept
<1>4. CASE GotSlot(w)
  <2>1. Slack' = Slack /\ Grows /\ PhaseBudget' /\ Within(i, Slack)
    BY <1>0, <1>3, <1>4 DEF GotSlot, WorkerBudget
  <2>2. RowBudget' /\ WorkerBudget'
    BY <1>0, <1>1, <1>2, <1>4, <2>1, RunHandlerBudget DEF GotSlot
  <2> QED BY <1>0, <1>4, <2>1, <2>2 DEF GotSlot
<1>5. CASE SlotRefused(w)
  <2>1. Slack' = Slack /\ Grows /\ PhaseBudget' /\ Within(i, Slack')
    BY <1>0, <1>3, <1>5 DEF SlotRefused, WorkerBudget
  <2>2. TimerBudget' /\ WorkerBudget'
    BY <1>0, <1>2, <1>5, <2>1, ArmBudget, FreesBudget DEF SlotRefused
  <2> QED BY <1>0, <1>5, <2>1, <2>2 DEF SlotRefused
<1>6. CASE ResultRepeat(w)
  <2>1. Slack' = Slack + 1 /\ Grows /\ PhaseBudget'
    BY <1>0, <1>1, <1>6, SlackCharged, PhaseKept DEF ResultRepeat
  <2>2. Repeating(i, now + Period) \in Instance /\ Within(Repeating(i, now + Period), Slack')
    BY <1>0, <1>2, <2>1, TransitionTypes, Costs DEF Grows
  <2>3. RowBudget' /\ WorkerBudget' /\ TimerBudget' /\ SendBudget'
    BY <1>0, <1>1, <1>6, <2>1, <2>2, UpdateAndScheduleBudget DEF ResultRepeat
  <2> QED BY <1>0, <1>6, <2>1, <2>3 DEF ResultRepeat
<1>7. CASE ResultRetry(w)
  <2>1. Slack' = Slack /\ Grows /\ PhaseBudget'
    BY <1>3, <1>7 DEF ResultRetry
  <2>2. Retrying(i) \in Instance /\ Within(Retrying(i), Slack')
    BY <1>0, <1>2, <1>7, <2>1, ChargedTypes, Costs DEF ResultRetry, Grows
  <2>3. RowBudget' /\ WorkerBudget' /\ TimerBudget' /\ SendBudget'
    BY <1>0, <1>1, <1>7, <2>1, <2>2, UpdateAndScheduleBudget DEF ResultRetry
  <2> QED BY <1>0, <1>7, <2>1, <2>3 DEF ResultRetry
<1>8. ASSUME NEW plan \in Plans, ResultDone(w, plan) PROVE Budgets'
  <2>1. Slack' = Slack /\ Grows /\ PhaseBudget' /\ Within(i, Slack' + 1)
    BY <1>3, <1>8 DEF ResultDone
  <2>2. worker' = [worker EXCEPT ![w] = [pc |-> "spawn", inst |-> i, todo |-> plan]]
    BY <1>0, <1>8 DEF ResultDone, AllPartsOK, WorkersOK
  <2>3. WorkerBudget'
    BY <1>0, <2>1, <2>2, SetWorkerBudget
  <2> QED BY <1>0, <1>8, <2>1, <2>3 DEF ResultDone
<1>9. CASE ErrorRetry(w)
  <2>1. Slack' = Slack /\ Grows /\ PhaseBudget'
    BY <1>3, <1>9 DEF ErrorRetry
  <2>2. BackedOff(i, now + Backoff) \in Instance /\ Within(BackedOff(i, now + Backoff), Slack')
    BY <1>0, <1>2, <1>9, <2>1, ChargedTypes, Costs DEF ErrorRetry, Grows
  <2>3. RowBudget' /\ WorkerBudget' /\ TimerBudget' /\ SendBudget'
    BY <1>0, <1>1, <1>9, <2>1, <2>2, UpdateAndScheduleBudget DEF ErrorRetry
  <2> QED BY <1>0, <1>9, <2>1, <2>3 DEF ErrorRetry
<1>10. CASE ErrorFinal(w)
  <2> DEFINE f == Failed(i, DeadLetter)
  <2>1. Slack' = Slack /\ Grows /\ PhaseBudget' /\ Within(i, Slack' + 1)
    BY <1>3, <1>10 DEF ErrorFinal
  <2>2. DeadLetter \in BOOLEAN /\ Slack' + 1 \in Nat
    BY <2>1, ExecutorAssumption DEF Grows
  <2>3. f \in Instance /\ Within(f, Slack' + 1)
    BY <1>0, <1>2, <2>1, <2>2, TransitionTypes, Costs
  <2>4. \/ Put(f) /\ worker' = [worker EXCEPT ![w] = Callback(f)]
        \/ UNCHANGED rows /\ worker' = [worker EXCEPT ![w] = Idle]
    BY <1>10 DEF ErrorFinal
  <2>5. Callback(f).pc = "idle" \/ (Callback(f).pc = "callback" /\ Callback(f).inst = f)
    BY DEF Callback, Idle
  <2> HIDE DEF f
  <2>6. RowBudget'
    BY <1>0, <1>1, <2>1, <2>3, <2>4, PutBudget
  <2>7. WorkerBudget'
    BY <1>0, <2>1, <2>3, <2>4, <2>5, SetWorkerBudget, FreesBudget
  <2> QED BY <1>0, <1>10, <2>1, <2>6, <2>7 DEF ErrorFinal
<1>11. ASSUME NEW plan \in Plans, CallbackDone(w, plan) PROVE Budgets'
  <2>1. Slack' = Slack /\ Grows /\ PhaseBudget' /\ Within(i, Slack' + 1)
    BY <1>3, <1>11 DEF CallbackDone
  <2>2. \/ worker' = [worker EXCEPT ![w] = [pc |-> "followup", inst |-> i, todo |-> plan]]
        \/ worker' = [worker EXCEPT ![w] = Idle]
    BY <1>0, <1>11 DEF CallbackDone, AllPartsOK, WorkersOK
  <2>3. WorkerBudget'
    BY <1>0, <2>1, <2>2, SetWorkerBudget, FreesBudget
  <2> QED BY <1>0, <1>11, <2>1, <2>3 DEF CallbackDone
<1>12. CASE Panic(w)
  <2>0. UNCHANGED uncharged
    BY <1>12 DEF Panic
  <2>1. Slack' = Slack /\ Grows /\ PhaseBudget' /\ Within(i, Slack' + 1) /\ Slack' + 1 \in Nat
    BY <1>3, <2>0 DEF Grows
  <2>2. Panicked(i) \in Instance /\ Within(Panicked(i), Slack' + 1)
    BY <1>0, <1>2, <2>1, TransitionTypes, Costs
  <2>3. (Put(Panicked(i)) \/ UNCHANGED rows) /\ worker' = [worker EXCEPT ![w] = Idle]
    BY <1>12 DEF Panic
  <2>4. RowBudget' /\ WorkerBudget'
    BY <1>0, <1>1, <2>1, <2>2, <2>3, PutBudget, FreesBudget
  <2> QED BY <1>0, <1>12, <2>1, <2>4 DEF Panic
<1>13. ASSUME Grows, NextChild(w), Within(i, Slack' + 1), worker[w].pc # "acquire" PROVE WorkerBudget'
  <2>1. \/ worker' = [worker EXCEPT ![w] =
                [pc |-> worker[w].pc, inst |-> i, todo |-> Tail(worker[w].todo)]]
        \/ worker' = [worker EXCEPT ![w] = Idle]
    <3>1. CASE worker[w].pc = "followup" /\ Len(worker[w].todo) = 1
      BY <1>0, <1>13, <3>1 DEF NextChild, AllPartsOK, WorkersOK
    <3>2. CASE ~(worker[w].pc = "followup" /\ Len(worker[w].todo) = 1)
      BY <1>0, <1>13, <3>2 DEF NextChild, AllPartsOK, WorkersOK
    <3> QED BY <3>1, <3>2
  <2> QED BY <1>0, <1>13, <2>1, SetWorkerBudget, FreesBudget
<1>14. ASSUME NEW c \in Cmd, SpawnChild(w, c) PROVE Budgets'
  <2> DEFINE new == NewInstance(c, Retries, now + Head(worker[w].todo), NoDeadline)
  <2>1. Slack' = Slack /\ Grows /\ PhaseBudget' /\ Within(i, Slack' + 1)
    BY <1>3, <1>14 DEF SpawnChild
  <2>2. now + Head(worker[w].todo) \in Nat
    <3>1. worker[w].todo # <<>>
      BY <1>14 DEF SpawnChild, Spawning
    <3>2. Head(worker[w].todo) \in Nat
      BY <1>2, <3>1
    <3> QED BY <1>0, <3>2
  <2>3. new \in Instance /\ Within(new, Slack') /\ Within(new, Slack' + 1)
    <3>1. new \in Instance
      BY <1>0, <2>2, NewInstanceType
    <3>2. Slack' \in Nat /\ Slack' + 1 \in Nat /\ Retries <= Slack' /\ Retries <= Slack' + 1
      BY <1>0, <2>1 DEF Grows
    <3> QED BY <1>0, <3>1, <3>2, NewCost
  <2>4. Put(new) /\ Schedule(w, new) /\ NextChild(w) /\ worker[w].pc # "acquire"
    BY <1>14 DEF SpawnChild, Spawning
  <2> HIDE DEF new
  <2>5. RowBudget' /\ TimerBudget' /\ SendBudget'
    BY <1>0, <1>1, <2>1, <2>3, <2>4, PutBudget, ScheduleBudget, ActorTypes
  <2>6. WorkerBudget'
    BY <1>13, <2>1, <2>4
  <2> QED BY <1>0, <1>14, <2>1, <2>5, <2>6 DEF SpawnChild
<1>15. CASE SkipChild(w)
  <2>1. Slack' = Slack /\ Grows /\ PhaseBudget' /\ Within(i, Slack' + 1)
    BY <1>3, <1>15 DEF SkipChild
  <2>2. WorkerBudget'
    BY <1>13, <1>15, <2>1 DEF SkipChild, Spawning
  <2> QED BY <1>0, <1>15, <2>1, <2>2 DEF SkipChild
<1>16. CASE Complete(w)
  <2>1. Slack' = Slack /\ Grows /\ PhaseBudget' /\ Within(i, Slack' + 1) /\ Slack' + 1 \in Nat
    BY <1>3, <1>16 DEF Complete, Grows
  <2>2. Completed(i) \in Instance /\ Within(Completed(i), Slack' + 1)
    BY <1>0, <1>2, <2>1, TransitionTypes, Costs
  <2>3. (Put(Completed(i)) \/ UNCHANGED rows) /\ worker' = [worker EXCEPT ![w] = Idle]
    BY <1>16 DEF Complete
  <2>4. RowBudget' /\ WorkerBudget'
    BY <1>0, <1>1, <2>1, <2>2, <2>3, PutBudget, FreesBudget
  <2> QED BY <1>0, <1>16, <2>1, <2>4 DEF Complete
<1> HIDE DEF i
<1> QED
  BY <1>4, <1>5, <1>6, <1>7, <1>8, <1>9, <1>10, <1>11, <1>12, <1>14, <1>15, <1>16 DEF Proceed

LEMMA ChannelKeepsBudget ==
    ASSUME BudgetInv,
           \/ \E a \in Actor : Enqueue(a) \/ Abandon(a)
           \/ \E c \in Cmd : Fire(c)
           \/ \E t \in leaked : FireLeaked(t)
    PROVE  Budgets'
<1> USE DEF Budgets
<1>0. AllPartsOK /\ Budgets /\ UNCHANGED <<phase, uncharged>>
  BY DEF BudgetInv, Enqueue, Abandon, Fire, FireLeaked
<1>1. Slack' = Slack /\ Grows
  BY <1>0, SlackKept
<1>2. PhaseBudget /\ UNCHANGED <<phase, worker, client, recovering, uncharged>> => PhaseBudget'
  BY DEF PhaseBudget, Stopping
<1>3. ASSUME NEW j, Within(j, Slack), Append(queue, j) = queue', j \in Instance
      PROVE  QueueBudget'
  <2>1. queue \in Seq(Instance)
    BY <1>0 DEF AllPartsOK, QueueOK
  <2>2. ASSUME NEW n \in 1..Len(queue')
        PROVE  queue'[n] = j \/ (n \in 1..Len(queue) /\ queue'[n] = queue[n])
    BY <1>3, <2>1, <2>2
  <2> QED BY <1>0, <1>1, <1>3, <2>2 DEF QueueBudget
<1> USE BudgetKept
<1>4. ASSUME NEW a \in Actor, sending' = [sending EXCEPT ![a] = NoInst] PROVE SendBudget'
  BY <1>0, <1>1, <1>4 DEF AllPartsOK, SendsOK, SendBudget
<1>5. ASSUME NEW c \in Cmd, delayedTimers' = [delayedTimers EXCEPT ![c] = NoInst] PROVE TimerBudget'
  BY <1>0, <1>1, <1>5 DEF AllPartsOK, TimersOK, TimerBudget
<1>6. ASSUME NEW a \in Actor, Enqueue(a) PROVE Budgets'
  <2>1. sending[a] \in Instance /\ Within(sending[a], Slack)
    BY <1>0, <1>6 DEF Enqueue, AllPartsOK, SendsOK, SendBudget
  <2>2. QueueBudget' /\ SendBudget'
    BY <1>3, <1>4, <1>6, <2>1 DEF Enqueue
  <2> QED BY <1>0, <1>1, <1>2, <1>6, <2>2 DEF Enqueue
<1>7. ASSUME NEW a \in Actor, Abandon(a) PROVE Budgets'
  <2>1. SendBudget'
    BY <1>4, <1>7 DEF Abandon
  <2> QED BY <1>0, <1>1, <1>2, <1>7, <2>1 DEF Abandon
<1>8. ASSUME NEW c \in Cmd, Fire(c) PROVE Budgets'
  <2>1. delayedTimers[c].inst \in Instance /\ Within(delayedTimers[c].inst, Slack)
    BY <1>0, <1>8 DEF Fire, AllPartsOK, TimersOK, TimerBudget, Timer
  <2>2. Deliver(delayedTimers[c].inst)
    BY <1>8 DEF Fire
  <2>3. SendBudget'
    BY <1>0, <1>1, <2>1, <2>2, DeliverBudget
  <2>4. TimerBudget'
    BY <1>5, <1>8 DEF Fire
  <2> QED BY <1>0, <1>1, <1>2, <1>8, <2>3, <2>4 DEF Fire
<1>9. ASSUME NEW t \in leaked, FireLeaked(t) PROVE Budgets'
  <2>1. t.inst \in Instance /\ t.inst.id \in Cmd /\ Within(t.inst, Slack)
    BY <1>0, <1>9 DEF AllPartsOK, LeakedOK, LeakedBudget, Timer, Instance
  <2>2. Deliver(t.inst)
    BY <1>9 DEF FireLeaked
  <2>3. SendBudget'
    BY <1>0, <1>1, <2>1, <2>2, DeliverBudget
  <2>4. TimerBudget'
    BY <1>5, <1>9, <2>1 DEF FireLeaked
  <2>5. LeakedBudget'
    BY <1>0, <1>1, <1>9, <2>1 DEF FireLeaked, LeakedBudget, TimerBudget
  <2> QED BY <1>0, <1>1, <1>2, <1>9, <2>3, <2>4, <2>5 DEF FireLeaked
<1> QED BY <1>6, <1>7, <1>8, <1>9

LEMMA CallKeepsBudget ==
    ASSUME BudgetInv, NEW k \in Client, Call(k) \/ Return(k)
    PROVE  Budgets'
<1> USE DEF Budgets
<1>0. AllPartsOK /\ Budgets /\ phase # "down" /\ UNCHANGED <<phase, uncharged>> /\ now \in Nat
  BY DEF BudgetInv, AllPartsOK, RestOK, Call, Return, Add, Lookup, Cancel, ReplayFromDLQ, PurgeDLQ,
     CanCall
<1>1. /\ Slack' = Slack /\ Grows /\ PhaseBudget'
      /\ Slack' \in Nat /\ Slack' + 1 \in Nat /\ Retries \in Nat
      /\ Retries <= Slack' /\ Retries <= Slack' + 1
  BY <1>0, SlackKept, PhaseKept DEF Grows
<1>2. client[k].op # "none" =>
        client[k].inst \in Instance /\ Within(client[k].inst, Slack' + 1)
  BY <1>0, <1>1 DEF AllPartsOK, ClientsOK, ClientBudget
<1> USE BudgetKept
<1>3. ASSUME NEW c \in Cmd, NEW d \in Delays, NEW e \in Deadlines \cup {NoDeadline}, Add(k, c, d, e)
      PROVE  Budgets'
  <2> DEFINE new == NewInstance(c, Retries, now + d, now + e)
  <2>1. now + d \in Nat /\ now + e \in Nat
    BY <1>0, ExecutorAssumption DEF NoDeadline
  <2>2. new \in Instance /\ Within(new, Slack') /\ Within(new, Slack' + 1)
    BY <1>1, <2>1, NewInstanceType, NewCost
  <2>3. Put(new) /\ Schedule(k, new)
    BY <1>3 DEF Add
  <2> HIDE DEF new
  <2>4. RowBudget' /\ TimerBudget' /\ SendBudget'
    BY <1>0, <1>1, <2>2, <2>3, PutBudget, ScheduleBudget, ActorTypes
  <2> QED BY <1>0, <1>1, <1>3, <2>4 DEF Add
<1>4. ASSUME NEW op \in {"cancel", "replay", "purge"}, NEW c \in Cmd, Lookup(k, op, c)
      PROVE  Budgets'
  <2>1. client' = [client EXCEPT ![k] = [op |-> op, inst |-> rows[c]]]
    BY <1>4 DEF Lookup
  <2>2. Within(rows[c], Slack' + 1)
    BY <1>0, <1>1 DEF RowBudget
  <2>3. ClientBudget'
    BY <1>0, <1>1, <2>1, <2>2 DEF AllPartsOK, ClientsOK, ClientBudget
  <2> QED BY <1>0, <1>1, <1>4, <2>3 DEF Lookup
<1>5. CASE Cancel(k)
  <2>1. Cancelled(client[k].inst) \in Instance /\ Within(Cancelled(client[k].inst), Slack' + 1)
    <3>1. client[k].inst \in Instance /\ Within(client[k].inst, Slack' + 1)
      BY <1>2, <1>5 DEF Cancel
    <3> QED BY <1>0, <1>1, <3>1, TransitionTypes, Costs, ExecutorAssumption
  <2>2. Put(Cancelled(client[k].inst)) \/ UNCHANGED rows
    BY <1>5 DEF Cancel
  <2>3. RowBudget'
    BY <1>0, <1>1, <2>1, <2>2, PutBudget
  <2>4. ClientBudget'
    BY <1>0, <1>1, <1>5, FreesBudget DEF Cancel
  <2> QED BY <1>0, <1>1, <1>5, <2>3, <2>4 DEF Cancel
<1>6. CASE ReplayFromDLQ(k)
  <2> DEFINE j == Replayed(client[k].inst, now)
  <2>1. j \in Instance /\ Within(j, Slack') /\ Within(j, Slack' + 1)
    <3>1. client[k].inst \in Instance /\ client[k].inst.retries <= Retries
      BY <1>2, <1>6 DEF ReplayFromDLQ, Within
    <3> QED BY <1>0, <1>1, <3>1, TransitionTypes, Costs, ExecutorAssumption
  <2>2. \/ Put(j) /\ Schedule(k, j)
        \/ UNCHANGED <<rows, sending, delayedTimers>>
    BY <1>6 DEF ReplayFromDLQ
  <2> HIDE DEF j
  <2>3. RowBudget' /\ TimerBudget' /\ SendBudget'
    <3>1. CASE Put(j) /\ Schedule(k, j)
      BY <1>0, <1>1, <2>1, <3>1, PutBudget, ScheduleBudget, ActorTypes
    <3>2. CASE UNCHANGED <<rows, sending, delayedTimers>>
      BY <1>0, <1>1, <3>2
    <3> QED BY <2>2, <3>1, <3>2
  <2>4. ClientBudget'
    BY <1>0, <1>1, <1>6, FreesBudget DEF ReplayFromDLQ
  <2> QED BY <1>0, <1>1, <1>6, <2>3, <2>4 DEF ReplayFromDLQ
<1>7. CASE PurgeDLQ(k)
  <2>1. client[k].inst.id \in Cmd
    BY <1>2, <1>7 DEF PurgeDLQ, Instance
  <2>2. RowBudget'
    BY <1>0, <1>1, <1>7, <2>1, DeleteBudget DEF PurgeDLQ
  <2>3. ClientBudget'
    BY <1>0, <1>1, <1>7, FreesBudget DEF PurgeDLQ
  <2> QED BY <1>0, <1>1, <1>7, <2>2, <2>3 DEF PurgeDLQ
<1> QED BY <1>3, <1>4, <1>5, <1>6, <1>7 DEF Call, Return

LEMMA MaintenanceKeepsBudget ==
    ASSUME BudgetInv,
           \/ \E c \in Cmd : Cleanup(c)
           \/ \E S \in SUBSET Cmd : FindStuck(S)
           \/ \E i \in recovering : RecoverStuck(i)
    PROVE  Budgets'
<1> USE DEF Budgets
<1>0. AllPartsOK /\ Budgets
  BY DEF BudgetInv
<1> USE BudgetKept
<1>1. ASSUME NEW c \in Cmd, Cleanup(c) PROVE Budgets'
  <2>0. phase # "down" /\ UNCHANGED <<phase, uncharged>>
    BY <1>1 DEF Cleanup, LoopsUp
  <2>1. Slack' = Slack /\ Grows /\ PhaseBudget'
    BY <2>0, SlackKept, PhaseKept
  <2>2. RowBudget'
    BY <1>0, <1>1, <2>0, <2>1, DeleteBudget DEF Cleanup
  <2> QED BY <1>0, <1>1, <2>1, <2>2 DEF Cleanup
<1>2. ASSUME NEW S \in SUBSET Cmd, FindStuck(S) PROVE Budgets'
  <2>0. phase # "down" /\ UNCHANGED <<phase, uncharged>>
    BY <1>2 DEF FindStuck, LoopsUp
  <2>1. Slack' = Slack /\ Grows /\ PhaseBudget'
    BY <2>0, SlackKept, PhaseKept
  <2>2. LoopBudget'
    BY <1>0, <1>2, <2>1 DEF FindStuck, LoopBudget, RowBudget
  <2> QED BY <1>0, <1>2, <2>1, <2>2 DEF FindStuck
<1>3. ASSUME NEW i \in recovering, RecoverStuck(i) PROVE Budgets'
  <2>0. phase # "down" /\ UNCHANGED phase /\ uncharged' = uncharged + 1
    BY <1>0, <1>3 DEF RecoverStuck, PhaseBudget
  <2>1. Slack' = Slack + 1 /\ Grows /\ PhaseBudget' /\ Slack' \in Nat /\ Slack' + 1 \in Nat /\ Retries \in Nat
    BY <2>0, SlackCharged, PhaseKept DEF Grows
  <2>2. i \in Instance /\ Within(i, Slack') /\ Within(i, Slack' + 1)
    BY <1>0, <2>1, RowTypes, WithinGrows DEF AllPartsOK, LoopsOK, LoopBudget
  <2>3. Recovered(i) \in Instance /\ Within(Recovered(i), Slack') /\ Within(Recovered(i), Slack' + 1)
    BY <1>0, <2>1, <2>2, TransitionTypes, Costs, ExecutorAssumption
  <2>4. \/ Put(Recovered(i)) /\ Schedule("recovery", Recovered(i))
        \/ UNCHANGED <<rows, sending, delayedTimers>>
    BY <1>3 DEF RecoverStuck
  <2>5. RowBudget' /\ TimerBudget' /\ SendBudget'
    <3>1. CASE Put(Recovered(i)) /\ Schedule("recovery", Recovered(i))
      BY <1>0, <2>0, <2>1, <2>3, <3>1, PutBudget, ScheduleBudget, ActorTypes
    <3>2. CASE UNCHANGED <<rows, sending, delayedTimers>>
      BY <1>0, <2>0, <2>1, <3>2
    <3> QED BY <2>4, <3>1, <3>2
  <2>6. LoopBudget'
    <3>1. recovering' \subseteq recovering /\ UNCHANGED replaying
      BY <1>3 DEF RecoverStuck
    <3>2. \A j \in recovering \cup replaying : j \in Row
      BY <1>0, RowTypes DEF AllPartsOK, LoopsOK
    <3> QED BY <1>0, <2>1, <3>1, <3>2, WithinGrows DEF LoopBudget
  <2> QED BY <1>0, <1>3, <2>1, <2>5, <2>6 DEF RecoverStuck
<1> QED BY <1>1, <1>2, <1>3

LEMMA LifeCycleKeepsBudget ==
    ASSUME BudgetInv,
           \/ Start \/ StartDone \/ Stop \/ StopCancel \/ StopDone \/ Crash \/ Tick
           \/ \E i \in replaying : Replay(i)
    PROVE  Budgets'
<1> USE DEF Budgets
<1>0. AllPartsOK /\ Budgets
  BY DEF BudgetInv
<1>1. Slack \in Nat /\ Retries \in Nat /\ Retries <= Slack /\ uncharged \in Nat
  BY <1>0, SlackType DEF AllPartsOK, PhaseBudget, RestOK
<1>2. \A c \in Cmd : rows[c] \in Row
  BY <1>0 DEF AllPartsOK, RowsOK
<1> USE BudgetKept
<1>3. CASE Start
  <2>1. Slack' \in Nat /\ Slack' = (IF phase = "down" THEN Slack ELSE Slack + 1) /\ phase' # "down"
    BY <1>0, <1>1, <1>3 DEF Start, Slack, Stopping, PhaseBudget
  <2>2. Grows
    BY <1>1, <2>1 DEF Grows
  <2>3. PhaseBudget' /\ SendBudget' /\ TimerBudget' /\ QueueBudget'
    BY <1>3 DEF Start, PhaseBudget, Stopping, SendBudget, TimerBudget, QueueBudget, NoTimers
  <2>4. RowBudget' /\ WorkerBudget' /\ ClientBudget'
    BY <1>0, <1>3, <2>1, <2>2 DEF Start
  <2>5. LeakedBudget'
    <3>1. \A t \in leaked : t.inst \in Row /\ Within(t.inst, Slack)
      BY <1>0, RowTypes DEF AllPartsOK, LeakedOK, LeakedBudget, Timer
    <3>2. \A c \in Cmd : delayedTimers[c] # NoInst =>
             delayedTimers[c].inst \in Row /\ Within(delayedTimers[c].inst, Slack)
      BY <1>0, RowTypes DEF AllPartsOK, TimersOK, TimerBudget, Timer
    <3>3. \A t \in leaked' : t.inst \in Row /\ Within(t.inst, Slack)
      BY <1>3, <3>1, <3>2 DEF Start
    <3> QED BY <2>2, <3>3, WithinGrows DEF LeakedBudget
  <2>6. \A c \in Cmd : Within(rows[c], Slack')
    <3>1. CASE phase = "down"
      BY <1>0, <2>1, <3>1 DEF RowBudget
    <3>2. CASE phase # "down"
      BY <1>0, <2>1, <3>2 DEF RowBudget
    <3> QED BY <3>1, <3>2
  <2>7. LoopBudget'
    <3>1. \A i \in recovering : i \in Row
      BY <1>0, RowTypes DEF AllPartsOK, LoopsOK
    <3>2. \A i \in recovering : Within(i, Slack' + 1)
      BY <1>0, <2>2, <3>1, WithinGrows DEF LoopBudget
    <3>3. recovering' = recovering /\ replaying' = {rows[c] : c \in Due}
      BY <1>3 DEF Start
    <3> QED BY <2>6, <3>2, <3>3 DEF LoopBudget, Due
  <2> QED BY <2>3, <2>4, <2>5, <2>7
<1>4. CASE Stop
  <2>1. Slack' = Slack /\ Grows /\ PhaseBudget'
    BY <1>1, <1>4 DEF Stop, Slack, Stopping, Grows, PhaseBudget
  <2> QED BY <1>0, <1>4, <2>1 DEF Stop
<1>5. CASE Crash
  <2>1. Slack' \in Nat /\ Slack < Slack' /\ phase' = "down"
    BY <1>1, <1>5 DEF Crash, Slack, Stopping
  <2>2. Grows
    BY <1>1, <2>1 DEF Grows
  <2>3. PhaseBudget' /\ SendBudget' /\ TimerBudget' /\ QueueBudget' /\ LeakedBudget'
        /\ WorkerBudget' /\ ClientBudget' /\ LoopBudget'
    BY <1>5 DEF Crash, PhaseBudget, Stopping, SendBudget, TimerBudget, QueueBudget, LeakedBudget,
       WorkerBudget, ClientBudget, LoopBudget, NoTimers, Idle, NoCall
  <2>4. \A c \in Cmd : Within(rows[c], Slack') /\ Within(rows[c], Slack' + 1)
    BY <1>0, <1>2, <2>1, <2>2, WithinGrows DEF RowBudget
  <2>5. RowBudget'
    BY <1>5, <2>4 DEF Crash, RowBudget
  <2> QED BY <2>3, <2>5
<1>6. CASE StartDone
  <2>1. Slack' = Slack /\ Grows /\ PhaseBudget'
    BY <1>1, <1>6 DEF StartDone, Slack, Stopping, Grows, PhaseBudget
  <2> QED BY <1>0, <1>6, <2>1 DEF StartDone
<1>7. CASE StopCancel
  <2>1. Slack' = Slack /\ Grows /\ PhaseBudget'
    BY <1>0, <1>1, <1>7 DEF StopCancel, Slack, Stopping, Grows, PhaseBudget
  <2>2. TimerBudget'
    BY <1>7 DEF StopCancel, TimerBudget, NoTimers
  <2> QED BY <1>0, <1>7, <2>1, <2>2 DEF StopCancel
<1>8. CASE StopDone
  <2>1. Slack' = Slack /\ Grows /\ PhaseBudget'
    BY <1>0, <1>1, <1>8 DEF StopDone, Slack, Stopping, Grows, PhaseBudget
  <2> QED BY <1>0, <1>8, <2>1 DEF StopDone
<1>9. CASE Tick
  <2>1. Slack' = Slack /\ Grows
    BY <1>9, SlackKept DEF Tick
  <2>2. PhaseBudget'
    BY <1>0, <1>9 DEF Tick, PhaseBudget, Stopping
  <2> QED BY <1>0, <1>9, <2>1, <2>2 DEF Tick
<1>10. ASSUME NEW i \in replaying, Replay(i) PROVE Budgets'
  <2>0. phase # "down" /\ UNCHANGED <<phase, uncharged>>
    BY <1>10 DEF Replay
  <2>1. Slack' = Slack /\ Grows /\ PhaseBudget'
    BY <2>0, SlackKept, PhaseKept
  <2>2. i \in Instance /\ Within(i, Slack')
    BY <1>0, <2>1 DEF AllPartsOK, LoopsOK, LoopBudget
  <2>3. TimerBudget' /\ SendBudget'
    BY <1>0, <1>10, <2>1, <2>2, ScheduleBudget, ActorTypes DEF Replay
  <2>4. LoopBudget'
    BY <1>0, <1>10, <2>1 DEF Replay, LoopBudget
  <2> QED BY <1>0, <1>10, <2>0, <2>1, <2>3, <2>4 DEF Replay
<1> QED BY <1>3, <1>4, <1>5, <1>6, <1>7, <1>8, <1>9, <1>10
-----------------------------------------------------------------------------
LEMMA InitBudget ==
    ASSUME Init
    PROVE  Budgets
<1>1. Slack = Retries /\ Retries \in Nat
  BY ExecutorAssumption DEF Init, Slack, Stopping
<1>2. \A c \in Cmd : rows[c] = Blank(c, "NONE")
  BY DEF Init
<1>3. \A c \in Cmd : Within(Blank(c, "NONE"), Slack) /\ Within(Blank(c, "NONE"), Slack + 1)
  BY <1>1 DEF Within, Blank
<1>4. RowBudget
  BY <1>2, <1>3 DEF RowBudget
<1> QED BY <1>4 DEF Budgets, Init, PhaseBudget, Stopping, QueueBudget, TimerBudget, LeakedBudget,
        WorkerBudget, SendBudget, ClientBudget, LoopBudget, Idle, NoCall

LEMMA NextBudget ==
    ASSUME BudgetInv, [Next]_vars
    PROVE  Budgets'
<1>1. CASE UNCHANGED vars
  BY <1>1 DEF vars, BudgetInv, Budgets, PhaseBudget, RowBudget, QueueBudget, TimerBudget, LeakedBudget,
     WorkerBudget, SendBudget, ClientBudget, LoopBudget, Slack, Stopping, Within
<1>2. CASE Next
  BY <1>2, TakeKeepsBudget, ProceedKeepsBudget, ChannelKeepsBudget, CallKeepsBudget,
     MaintenanceKeepsBudget, LifeCycleKeepsBudget DEF Next
<1> QED BY <1>1, <1>2

\* Whatever workers, timers, callers, the recovery loop, stops and crashes do to the
\* copies of a command, the attempts its row records and the retries it has left
\* stay within its budget and the re-runs that the code does not charge.
THEOREM BudgetKeptForever == Spec => []RetryBudget
<1>1. Init => Budgets
  BY InitBudget
<1>2. TypeOK /\ Budgets /\ [Next]_vars => Budgets'
  BY NextBudget, TypeParts DEF BudgetInv, Budgets
<1>3. TypeOK /\ Budgets => RetryBudget
  <2> SUFFICES ASSUME TypeOK, Budgets, NEW c \in Cmd
               PROVE  rows[c].attempt + rows[c].retries <= 1 + Retries + uncharged
    BY DEF RetryBudget
  <2>1. rows[c].attempt \in Nat /\ rows[c].retries \in Nat /\ uncharged \in Nat /\ Retries \in Nat
    BY ExecutorAssumption DEF TypeOK, Row
  <2>2. rows[c].attempt + rows[c].retries <= Slack + 1
    BY DEF Budgets, RowBudget, Within
  <2> QED BY <2>1, <2>2 DEF Slack
<1> QED BY <1>1, <1>2, <1>3, TypeCorrect, PTL DEF Spec
=============================================================================
