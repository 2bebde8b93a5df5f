----------------------------- MODULE FanInProofs -----------------------------
(* Theorems about FanIn, for any number of tasks, children, barriers and faults. *)
EXTENDS FanIn, FiniteSetTheorems, TLAPS

ChildStep == \E c \in Child : ChildRuns(c) \/ ChildDisturbed(c)

\* What a step of a child's row may change.
LEMMA ChildFrame ==
    ASSUME TypeOK, ChildStep
    PROVE  /\ child' \in [Child -> ChildStatus] /\ stray' \subseteq Child
           /\ succeeded \subseteq succeeded' /\ succeeded' \subseteq Child
           /\ faults' \in Nat
           /\ UNCHANGED <<coordVars, rowVars, runVars, spawned, skipped, reruns>>
<1>0. PICK c \in Child : ChildRuns(c) \/ ChildDisturbed(c)
  BY DEF ChildStep
<1>1. CASE ChildSucceeds(c)
  BY <1>1 DEF ChildSucceeds, TypeOK, ChildStatus
<1>2. ASSUME NEW s \in ChildStatus, ChildFails(c, s) PROVE child' \in [Child -> ChildStatus]
  BY <1>2 DEF ChildFails, TypeOK
<1>3. ASSUME NEW s \in ChildStatus, ChildFails(c, s)
      PROVE  UNCHANGED <<coordVars, stray, rowVars, runVars, spawned, succeeded, skipped, reruns, faults>>
  BY <1>3 DEF ChildFails
<1>4. CASE CancelChild(c) \/ Reopen(c) \/ CleanupChild(c)
  <2>1. \E s \in ChildStatus : child' = [child EXCEPT ![c] = s]
    BY <1>4 DEF CancelChild, Reopen, CleanupChild, ChildStatus
  <2>2. /\ faults' = faults + 1 /\ stray' \in {stray, stray \ {c}}
        /\ UNCHANGED <<coordVars, rowVars, runVars, spawned, succeeded, skipped, reruns>>
    BY <1>4 DEF CancelChild, Reopen, CleanupChild, Fault
  <2> QED BY <2>1, <2>2 DEF TypeOK
<1>5. CASE ChildUnsaved(c) \/ RecoverChild(c)
  <2>1. /\ faults' \in {faults, faults + 1} /\ stray' \in {stray \cup {c}, stray \ {c}}
        /\ succeeded' \in {succeeded, succeeded \cup {c}}
        /\ UNCHANGED <<coordVars, child, rowVars, runVars, spawned, skipped, reruns>>
    BY <1>5 DEF ChildUnsaved, RecoverChild, Fault
  <2> QED BY <2>1 DEF TypeOK
<1> QED BY <1>0, <1>1, <1>2, <1>3, <1>4, <1>5 DEF ChildRuns, ChildDisturbed, TypeOK

LEMMA TypeInductive == TypeOK /\ [Next]_vars => TypeOK'
<1> SUFFICES ASSUME TypeOK, [Next]_vars PROVE TypeOK'
  OBVIOUS
<1> USE DEF coordVars, rowVars, runVars
<1>0. Tasks \in Nat /\ BarrierRetries \in Nat
  BY FanInAssumption
<1>1. CASE Coordinator
  <2>1. ASSUME NEW c \in Child, SpawnTask(c) PROVE TypeOK'
    BY <1>0, <2>1 DEF TypeOK, SpawnTask, ChildStatus
  <2>2. CASE SkipTask
    BY <1>0, <2>2 DEF TypeOK, SkipTask, Fault
  <2>3. ASSUME NEW b \in Barrier, SpawnBarrier(b) PROVE TypeOK'
    BY <2>3 DEF TypeOK, SpawnBarrier, BarrierStatus, ActiveStatus
  <2>4. CASE NoBarrier
    <3>1. faults' \in {faults, faults + 1}
      BY <2>4 DEF NoBarrier, Fault
    <3> QED BY <2>4, <3>1 DEF TypeOK, NoBarrier
  <2>5. CASE CoordinatorDone
    BY <2>5 DEF TypeOK, CoordinatorDone
  <2> QED BY <1>1, <2>1, <2>2, <2>3, <2>4, <2>5 DEF Coordinator
<1>2. CASE ChildStep
  BY <1>2, ChildFrame DEF TypeOK
<1>3. ASSUME NEW b \in Barrier, BarrierRuns(b) PROVE TypeOK'
  <2>1. CASE StartBarrier(b)
    BY <2>1 DEF TypeOK, StartBarrier, BarrierStatus, ActiveStatus
  <2>8. CASE ReadFails(b)
    BY <2>8 DEF TypeOK, ReadFails, Fault, ChildStatus
  <2>2. CASE ReadChild(b)
    <3>1. Len(seen[b]) + 1 \in 1..Len(kids[b])
      BY <2>2 DEF TypeOK, ReadChild, Reading
    <3>2. child[kids[b][Len(seen[b]) + 1]] \in ChildStatus
      BY <3>1 DEF TypeOK
    <3> QED BY <2>2, <3>2 DEF TypeOK, ReadChild, Reading
  <2>3. CASE BarrierRepeats(b)
    BY <2>3 DEF TypeOK, BarrierRepeats, Rest, ChecksAfter, BarrierStatus, ActiveStatus
  <2>4. CASE BarrierErrs(b)
    <3>1. checks' \in [Barrier -> Nat]
      BY <2>4 DEF TypeOK, BarrierErrs, ChecksAfter
    <3>2. status' \in [Barrier -> BarrierStatus] /\ retries' \in [Barrier -> 0..BarrierRetries]
      <4>1. CASE retries[b] > 0
        <5>1. retries' = [retries EXCEPT ![b] = @ - 1] /\ status' = [status EXCEPT ![b] = "PENDING"]
          BY <2>4, <4>1 DEF BarrierErrs, Charge
        <5>2. retries[b] - 1 \in 0..BarrierRetries
          BY <1>0, <4>1 DEF TypeOK
        <5> QED BY <5>1, <5>2 DEF TypeOK, BarrierStatus, ActiveStatus
      <4>2. CASE ~(retries[b] > 0)
        <5>1. \E s \in BarrierStatus : status' = [status EXCEPT ![b] = s]
          BY <2>4, <4>2 DEF BarrierErrs, Charge, BarrierStatus
        <5> QED BY <2>4, <4>2, <5>1 DEF TypeOK, BarrierErrs, Charge
      <4> QED BY <4>1, <4>2
    <3> QED BY <2>4, <3>1, <3>2 DEF TypeOK, BarrierErrs, Rest
  <2>5. CASE SpawnContinuation(b)
    BY <2>5 DEF TypeOK, SpawnContinuation
  <2>6. CASE LoseContinuation(b)
    BY <2>6 DEF TypeOK, LoseContinuation, Fault
  <2>7. CASE BarrierDone(b)
    BY <2>7 DEF TypeOK, BarrierDone, Rest, BarrierStatus
  <2> QED BY <1>3, <2>1, <2>2, <2>3, <2>4, <2>5, <2>6, <2>7, <2>8 DEF BarrierRuns
<1>4. CASE Restart
  <2>1. pc' \in {"spawn", "complete", "lost", "done"} /\ todo' \in 0..Tasks /\ made' \in Seq(Child)
    <3>1. CASE pc = "done"
      BY <1>4, <3>1 DEF TypeOK, Restart
    <3>2. CASE pc # "done"
      BY <1>0, <1>4, <3>2 DEF Restart, RunAgain
    <3> QED BY <3>1, <3>2
  <2>2. at' \in [Barrier -> {"idle", "reading", "complete", "lost"}] /\ seen' \in [Barrier -> Seq(ChildStatus)]
    BY <1>4, <<>> \in Seq(ChildStatus) DEF Restart
  <2>3. stray' \subseteq Child
    BY <1>4 DEF Restart
  <2> QED BY <1>4, <2>1, <2>2, <2>3 DEF TypeOK, Restart, Fault
<1>6. CASE CoordinatorUnsaved \/ RecoverCoordinator
  <2>1. CASE CoordinatorUnsaved
    BY <2>1 DEF TypeOK, CoordinatorUnsaved, Fault
  <2>2. CASE RecoverCoordinator
    <3>1. todo' \in 0..Tasks /\ made' \in Seq(Child) /\ pc' = "spawn"
      BY <1>0, <2>2 DEF RecoverCoordinator, RunAgain
    <3> QED BY <2>2, <3>1 DEF TypeOK, RecoverCoordinator, Fault
  <2> QED BY <1>6, <2>1, <2>2
<1>7. ASSUME NEW b \in Barrier, BarrierUnsaved(b) \/ RecoverBarrier(b) PROVE TypeOK'
  <2>1. CASE BarrierUnsaved(b)
    BY <2>1, <<>> \in Seq(ChildStatus) DEF TypeOK, BarrierUnsaved, Fault
  <2>2. CASE RecoverBarrier(b)
    <3>1. status' \in [Barrier -> BarrierStatus]
      BY <2>2 DEF TypeOK, RecoverBarrier, BarrierStatus, ActiveStatus
    <3> QED BY <2>2, <3>1 DEF TypeOK, RecoverBarrier, Fault
  <2> QED BY <1>7, <2>1, <2>2
<1>5. CASE UNCHANGED vars
  BY <1>5 DEF TypeOK, vars
<1> QED BY <1>1, <1>2, <1>3, <1>4, <1>5, <1>6, <1>7 DEF Next, ChildStep

\* Type correctness of the fan-in protocol of handleResult and barrier.go.
THEOREM TypeCorrect == Spec => []TypeOK
<1>1. Init => TypeOK
  BY FanInAssumption DEF Init, TypeOK, ChildStatus, BarrierStatus
<1> QED BY <1>1, TypeInductive, PTL DEF Spec
-----------------------------------------------------------------------------
(* The continuation waits for success.  A status that a barrier has read may be *)
(* out of date when it decides; what stays true is that a child once read as    *)
(* COMPLETED has succeeded.                                                     *)
RowsHonest ==
    \A c \in Child : /\ child[c] = "COMPLETED" => c \in succeeded
                     /\ child[c] # "DEAD_LETTER"

\* Only children that were created are waited for.
KidsCreated ==
    /\ \A i \in DOMAIN made : child[made[i]] # "NONE"
    /\ \A b \in Barrier : \A i \in DOMAIN kids[b] : child[kids[b][i]] # "NONE"

ReadsHonest ==
    \A b \in Barrier :
        /\ Len(seen[b]) <= Len(kids[b])
        /\ \A i \in DOMAIN seen[b] :
              /\ seen[b][i] = "COMPLETED" => kids[b][i] \in succeeded
              /\ seen[b][i] \notin {"NONE", "DEAD_LETTER"}

\* A barrier that does not exist has read nothing and spawned nothing.
Unborn ==
    \A b \in Barrier : status[b] = "NONE" => at[b] = "idle" /\ seen[b] = <<>> /\ spawned[b] = 0

\* Every Command of the Result becomes a child, is still to, or could not be created.
AllMade ==
    /\ pc = "spawn" => Len(made) + todo + skipped >= Tasks
    /\ \A b \in Barrier : status[b] # "NONE" => Len(kids[b]) + skipped >= Tasks

SuccessInv ==
    /\ TypeOK /\ RowsHonest /\ KidsCreated /\ ReadsHonest /\ Unborn /\ AllMade
    /\ ContinuationAfterSuccess

LEMMA SuccessInductive ==
    ASSUME ~DeadLetter, SuccessInv, [Next]_vars
    PROVE  SuccessInv'
<1> USE DEF coordVars, rowVars, runVars
<1>0. TypeOK /\ TypeOK'
  BY TypeInductive DEF SuccessInv
\* Steps of the coordinator and of the stuck loop that leave rows and barriers alone.
<1>c. ASSUME UNCHANGED <<child, rowVars, runVars, spawned, succeeded>>,
             skipped' \in {skipped, skipped + 1},
             pc' = "spawn" => Len(made') + todo' + skipped' >= Tasks,
             made' = made \/ made' = <<>>
      PROVE  SuccessInv'
  <2>1. RowsHonest' /\ ReadsHonest' /\ Unborn'
    BY <1>c DEF SuccessInv, RowsHonest, ReadsHonest, Unborn
  <2>3. Tasks \in Nat /\ skipped \in Nat /\ \A b \in Barrier : Len(kids[b]) \in Nat
    BY <1>0, FanInAssumption DEF TypeOK
  <2>4. AllMade'
    BY <1>c, <2>3 DEF SuccessInv, AllMade
  <2>5. ContinuationAfterSuccess'
    <3>1. \A b \in Barrier : Kids(b)' = Kids(b)
      BY <1>c DEF Kids
    <3> QED BY <1>c, <2>3, <3>1 DEF SuccessInv, ContinuationAfterSuccess
  <2>2. KidsCreated'
    BY <1>c DEF SuccessInv, KidsCreated
  <2> QED BY <1>0, <2>1, <2>2, <2>4, <2>5 DEF SuccessInv
<1>1. CASE ChildStep
  <2>0. PICK c \in Child : ChildRuns(c) \/ ChildDisturbed(c)
    BY <1>1 DEF ChildStep
  <2>1. UNCHANGED <<coordVars, rowVars, runVars, spawned, skipped>> /\ succeeded \subseteq succeeded'
    BY <1>0, <1>1, ChildFrame
  <2>2. RowsHonest' /\ \A d \in Child : child[d] # "NONE" => child'[d] # "NONE"
    <3>1. CASE ChildUnsaved(c) \/ RecoverChild(c)
      BY <2>1, <3>1 DEF ChildUnsaved, RecoverChild, SuccessInv, RowsHonest
    <3>2. CASE ChildRuns(c) \/ CancelChild(c) \/ Reopen(c) \/ CleanupChild(c)
      BY <1>0, <3>2 DEF SuccessInv, TypeOK, RowsHonest, ChildRuns,
          ChildSucceeds, ChildFails, CancelChild, Reopen, CleanupChild
    <3> QED BY <2>0, <3>1, <3>2 DEF ChildDisturbed
  <2>3. KidsCreated'
    BY <1>0, <2>1, <2>2 DEF SuccessInv, KidsCreated, TypeOK
  <2>4. ReadsHonest' /\ Unborn' /\ AllMade' /\ ContinuationAfterSuccess'
    BY <2>1 DEF SuccessInv, ReadsHonest, Unborn, AllMade, ContinuationAfterSuccess, Kids
  <2> QED BY <1>0, <2>2, <2>3, <2>4 DEF SuccessInv
<1>2. ASSUME NEW c \in Child, SpawnTask(c) PROVE SuccessInv'
  <2>1. RowsHonest' /\ \A d \in Child : child[d] # "NONE" => child'[d] # "NONE"
    BY <1>0, <1>2 DEF SuccessInv, TypeOK, RowsHonest, SpawnTask
  <2>2. KidsCreated'
    <3>1. ASSUME NEW i \in DOMAIN made' PROVE child'[made'[i]] # "NONE"
      BY <1>0, <1>2, <2>1 DEF SuccessInv, TypeOK, KidsCreated, SpawnTask
    <3> QED BY <1>0, <1>2, <2>1, <3>1 DEF SuccessInv, TypeOK, KidsCreated, SpawnTask
  <2>3. ReadsHonest' /\ Unborn' /\ ContinuationAfterSuccess'
    BY <1>2 DEF SuccessInv, SpawnTask, ReadsHonest, Unborn, ContinuationAfterSuccess, Kids
  <2>4. AllMade'
    <3>1. /\ Len(made') = Len(made) + 1 /\ todo' = todo - 1 /\ skipped' = skipped
          /\ Len(made) \in Nat /\ todo \in Nat /\ skipped \in Nat /\ Tasks \in Nat
      BY <1>0, <1>2, FanInAssumption DEF SpawnTask, TypeOK
    <3>2. pc = "spawn" /\ pc' = "spawn" /\ UNCHANGED <<status, kids>>
      BY <1>2 DEF SpawnTask
    <3> QED BY <3>1, <3>2 DEF SuccessInv, AllMade
  <2> QED BY <1>0, <2>1, <2>2, <2>3, <2>4 DEF SuccessInv
<1>3. CASE SkipTask \/ NoBarrier \/ CoordinatorDone \/ CoordinatorUnsaved \/ RecoverCoordinator
  <2>1. CASE RecoverCoordinator
    <3>1. made' = <<>> /\ Len(made') + todo' + skipped' >= Tasks
      BY <1>0, <2>1, FanInAssumption DEF TypeOK, RecoverCoordinator, RunAgain
    <3> QED BY <1>c, <2>1, <3>1 DEF RecoverCoordinator
  <2>3. CASE SkipTask
    <3>1. todo' = todo - 1 /\ skipped' = skipped + 1 /\ made' = made /\ pc = "spawn"
      BY <2>3 DEF SkipTask
    <3>2. Len(made) \in Nat /\ todo \in Nat /\ skipped \in Nat /\ Tasks \in Nat
      BY <1>0, FanInAssumption DEF TypeOK
    <3>3. Len(made') + todo' + skipped' >= Tasks
      BY <3>1, <3>2 DEF SuccessInv, AllMade
    <3> QED BY <1>c, <2>3, <3>1, <3>3 DEF SkipTask
  <2>2. CASE NoBarrier \/ CoordinatorDone \/ CoordinatorUnsaved
    BY <1>c, <2>2 DEF NoBarrier, CoordinatorDone, CoordinatorUnsaved
  <2> QED BY <1>3, <2>1, <2>2, <2>3
<1>4. ASSUME NEW b \in Barrier, SpawnBarrier(b) PROVE SuccessInv'
  <2>1. RowsHonest' /\ KidsCreated'
    BY <1>0, <1>4 DEF SuccessInv, SpawnBarrier, RowsHonest, KidsCreated, TypeOK
  <2>2. ReadsHonest' /\ Unborn' /\ ContinuationAfterSuccess'
    BY <1>0, <1>4 DEF SuccessInv, SpawnBarrier, ReadsHonest, Unborn, TypeOK,
       ContinuationAfterSuccess, Kids
  <2>3. AllMade'
    <3>1. Len(made) + skipped >= Tasks
      BY <1>0, <1>4, FanInAssumption DEF SuccessInv, AllMade, SpawnBarrier, TypeOK
    <3> QED BY <1>0, <1>4, <3>1 DEF SuccessInv, AllMade, SpawnBarrier, TypeOK
  <2> QED BY <1>0, <2>1, <2>2, <2>3 DEF SuccessInv
\* The barrier puts its execution down, or starts a new one, having read nothing.
<1>r. ASSUME NEW b \in Barrier, seen' = [seen EXCEPT ![b] = <<>>],
             UNCHANGED <<coordVars, child, kids, spawned, succeeded, skipped>>,
             \A d \in Barrier \ {b} : at'[d] = at[d],
             \A d \in Barrier : status'[d] = "NONE" => at'[d] = "idle",
             \A d \in Barrier : (status'[d] = "NONE") <=> (status[d] = "NONE")
      PROVE  SuccessInv'
  <2>0. RowsHonest' /\ KidsCreated'
    BY <1>r DEF SuccessInv, RowsHonest, KidsCreated
  <2>4. AllMade'
    BY <1>r DEF SuccessInv, AllMade
  <2>5. ContinuationAfterSuccess'
    <3>1. \A d \in Barrier : Kids(d)' = Kids(d)
      BY <1>r DEF Kids
    <3> QED BY <1>r, <3>1 DEF SuccessInv, ContinuationAfterSuccess
  <2>2. ReadsHonest'
    BY <1>0, <1>r, SMTT(30) DEF SuccessInv, TypeOK, ReadsHonest
  <2>3. Unborn'
    BY <1>0, <1>r DEF SuccessInv, TypeOK, Unborn
  <2> QED BY <1>0, <2>0, <2>2, <2>3, <2>4, <2>5 DEF SuccessInv
\* Only a barrier that exists is run.
<1>e. \A b \in Barrier : at[b] # "idle" \/ Active(b) => status[b] # "NONE"
  BY DEF SuccessInv, Unborn, Active, ActiveStatus
<1>5. ASSUME NEW b \in Barrier, BarrierRuns(b) PROVE SuccessInv'
  <2>1. CASE StartBarrier(b)
    <3>0. status[b] # "NONE"
      BY <1>e, <2>1 DEF StartBarrier
    <3>1. \A d \in Barrier : status'[d] = IF d = b THEN "STARTED" ELSE status[d]
      BY <1>0, <2>1 DEF StartBarrier, TypeOK
    <3>2. \A d \in Barrier \ {b} : at'[d] = at[d]
      BY <1>0, <2>1 DEF StartBarrier, TypeOK
    <3>3. \A d \in Barrier : status'[d] = "NONE" => at'[d] = "idle"
      BY <3>1, <3>2 DEF SuccessInv, Unborn
    <3>4. \A d \in Barrier : (status'[d] = "NONE") <=> (status[d] = "NONE")
      BY <3>0, <3>1
    <3> QED BY <1>r, <2>1, <3>2, <3>3, <3>4 DEF StartBarrier
  <2>2. CASE ReadChild(b) \/ ReadFails(b)
    <3>0. RowsHonest' /\ KidsCreated' /\ AllMade'
      BY <2>2 DEF ReadChild, ReadFails, SuccessInv, RowsHonest, KidsCreated, AllMade
    <3>1. Len(seen[b]) + 1 \in DOMAIN kids[b] /\ kids[b][Len(seen[b]) + 1] \in Child
      BY <1>0, <2>2 DEF TypeOK, ReadChild, ReadFails, Reading
    <3>2. PICK s \in ChildStatus :
             /\ seen' = [seen EXCEPT ![b] = Append(seen[b], s)]
             /\ s = "COMPLETED" => kids[b][Len(seen[b]) + 1] \in succeeded
             /\ s \notin {"NONE", "DEAD_LETTER"}
      <4>1. CASE ReadChild(b)
        <5> DEFINE k == kids[b][Len(seen[b]) + 1]
        <5>1. seen' = [seen EXCEPT ![b] = Append(seen[b], child[k])]
          BY <1>0, <4>1 DEF ReadChild, TypeOK
        <5>2. child[k] \in ChildStatus /\ child[k] # "NONE"
          BY <1>0, <3>1 DEF SuccessInv, KidsCreated, TypeOK
        <5>3. child[k] # "DEAD_LETTER" /\ (child[k] = "COMPLETED" => k \in succeeded)
          BY <3>1 DEF SuccessInv, RowsHonest
        <5> QED BY <5>1, <5>2, <5>3
      <4>2. CASE ReadFails(b)
        BY <1>0, <4>2 DEF ReadFails, ChildStatus
      <4> QED BY <2>2, <4>1, <4>2
    <3>3. UNCHANGED <<kids, succeeded>>
      BY <2>2 DEF ReadChild, ReadFails
    <3>4. ReadsHonest'
      <4>1. \A d \in Barrier \ {b} : seen'[d] = seen[d]
        BY <1>0, <3>2 DEF TypeOK
      <4>2. seen'[b] = Append(seen[b], s) /\ seen[b] \in Seq(ChildStatus)
        BY <1>0, <3>2 DEF TypeOK
      <4>3. /\ Len(seen'[b]) <= Len(kids[b])
            /\ \A i \in DOMAIN seen'[b] :
                  /\ seen'[b][i] = "COMPLETED" => kids[b][i] \in succeeded
                  /\ seen'[b][i] \notin {"NONE", "DEAD_LETTER"}
        <5> DEFINE n == Len(seen[b])
        <5>1. n \in Nat /\ Len(seen'[b]) = n + 1 /\ seen'[b][n + 1] = s /\ DOMAIN seen'[b] = 1..(n + 1)
          BY <4>2
        <5>2. \A i \in 1..n : seen'[b][i] = seen[b][i] /\ i \in DOMAIN seen[b]
          BY <4>2
        <5>3. n + 1 <= Len(kids[b])
          BY <1>0, <2>2 DEF TypeOK, ReadChild, ReadFails, Reading
        <5>4. \A i \in DOMAIN seen[b] :
                  /\ seen[b][i] = "COMPLETED" => kids[b][i] \in succeeded
                  /\ seen[b][i] \notin {"NONE", "DEAD_LETTER"}
          BY DEF SuccessInv, ReadsHonest
        <5> HIDE DEF n
        <5>5. \A i \in 1..(n + 1) : i = n + 1 \/ i \in 1..n
          BY <5>1
        <5>6. s = "COMPLETED" => kids[b][n + 1] \in succeeded
          BY <3>2 DEF n
        <5> QED BY <3>2, <5>1, <5>2, <5>3, <5>4, <5>5, <5>6
      <4> QED BY <3>3, <4>1, <4>3 DEF SuccessInv, ReadsHonest
    <3>5. Unborn'
      BY <1>0, <1>e, <2>2 DEF ReadChild, ReadFails, Reading, SuccessInv, TypeOK, Unborn
    <3>6. ContinuationAfterSuccess'
      BY <2>2 DEF ReadChild, ReadFails, SuccessInv, ContinuationAfterSuccess, Kids
    <3> QED BY <1>0, <3>0, <3>4, <3>5, <3>6 DEF SuccessInv
  <2>3. CASE SpawnContinuation(b)
    <3>0. RowsHonest' /\ KidsCreated' /\ AllMade'
      BY <2>3 DEF SpawnContinuation, SuccessInv, RowsHonest, KidsCreated, AllMade
    <3>1. \A i \in DOMAIN seen[b] : seen[b][i] = "COMPLETED"
      BY <1>0, <2>3 DEF SpawnContinuation, AllDone, AnyFailed, Saw, SuccessInv, ReadsHonest,
         TypeOK, ChildStatus
    <3>2. DOMAIN seen[b] = DOMAIN kids[b]
      BY <1>0, <2>3 DEF SpawnContinuation, AllDone, HasRead, TypeOK
    <3>3. Kids(b) \subseteq succeeded
      BY <3>1, <3>2 DEF Kids, SuccessInv, ReadsHonest
    <3>4. Len(kids[b]) + skipped >= Tasks
      BY <1>e, <2>3 DEF SpawnContinuation, AllDone, HasRead, SuccessInv, AllMade
    <3>5. ContinuationAfterSuccess'
      <4>1. \A d \in Barrier : Kids(d)' = Kids(d) /\ Len(kids'[d]) = Len(kids[d])
        BY <2>3 DEF SpawnContinuation, Kids
      <4>2. UNCHANGED <<succeeded, skipped>> /\ \A d \in Barrier \ {b} : spawned'[d] = spawned[d]
        BY <1>0, <2>3 DEF SpawnContinuation, TypeOK
      <4> QED BY <3>3, <3>4, <4>1, <4>2 DEF SuccessInv, ContinuationAfterSuccess
    <3>6. ReadsHonest' /\ Unborn'
      BY <1>0, <2>3 DEF SpawnContinuation, AllDone, HasRead, SuccessInv, TypeOK, ReadsHonest, Unborn
    <3> QED BY <1>0, <3>0, <3>5, <3>6 DEF SuccessInv
  <2>5. CASE BarrierRepeats(b) \/ BarrierErrs(b) \/ BarrierDone(b)
    <3>1. Rest(b) /\ \E s \in BarrierStatus \ {"NONE"} : status' = [status EXCEPT ![b] = s]
      BY <2>5 DEF BarrierRepeats, BarrierErrs, Charge, BarrierDone, BarrierStatus, ActiveStatus
    <3>0. status[b] # "NONE"
      BY <1>e, <2>5 DEF BarrierRepeats, BarrierErrs, BarrierDone, HasRead
    <3>2. \A d \in Barrier \ {b} : at'[d] = at[d] /\ status'[d] = status[d]
      BY <1>0, <3>1 DEF Rest, TypeOK
    <3>3. status'[b] # "NONE"
      BY <1>0, <3>1 DEF TypeOK
    <3>4. \A d \in Barrier : status'[d] = "NONE" => at'[d] = "idle"
      BY <3>2, <3>3 DEF SuccessInv, Unborn
    <3> QED BY <1>r, <3>0, <3>1, <3>2, <3>3, <3>4 DEF Rest
  <2>6. CASE LoseContinuation(b)
    <3>1. RowsHonest' /\ KidsCreated' /\ AllMade' /\ ReadsHonest'
      BY <2>6 DEF LoseContinuation, SuccessInv, RowsHonest, KidsCreated, AllMade, ReadsHonest
    <3>2. ContinuationAfterSuccess'
      BY <2>6 DEF LoseContinuation, SuccessInv, ContinuationAfterSuccess, Kids
    <3>3. Unborn'
      BY <1>0, <1>e, <2>6 DEF LoseContinuation, AllDone, HasRead, SuccessInv, TypeOK, Unborn
    <3> QED BY <1>0, <3>1, <3>2, <3>3 DEF SuccessInv
  <2> QED BY <1>5, <2>1, <2>2, <2>3, <2>5, <2>6 DEF BarrierRuns
<1>6. ASSUME NEW b \in Barrier, BarrierUnsaved(b) \/ RecoverBarrier(b) PROVE SuccessInv'
  <2>0. status[b] # "NONE"
    BY <1>e, <1>6 DEF BarrierUnsaved, RecoverBarrier, HasRead
  <2>1. CASE BarrierUnsaved(b)
    BY <1>0, <1>r, <2>0, <2>1 DEF BarrierUnsaved, TypeOK, SuccessInv, Unborn
  <2>2. CASE RecoverBarrier(b)
    <3>1. RowsHonest' /\ KidsCreated' /\ ReadsHonest' /\ ContinuationAfterSuccess'
      BY <2>2 DEF RecoverBarrier, SuccessInv, RowsHonest, KidsCreated, ReadsHonest,
         ContinuationAfterSuccess, Kids
    <3>2. Unborn' /\ AllMade'
      BY <1>0, <2>0, <2>2 DEF RecoverBarrier, SuccessInv, TypeOK, Unborn, AllMade
    <3> QED BY <1>0, <3>1, <3>2 DEF SuccessInv
  <2> QED BY <1>6, <2>1, <2>2
<1>8. CASE Restart
  <2>1. RowsHonest' /\ ContinuationAfterSuccess'
    BY <1>8 DEF Restart, SuccessInv, RowsHonest, ContinuationAfterSuccess, Kids
  <2>2. KidsCreated' /\ AllMade'
    <3>1. CASE pc = "done"
      BY <1>8, <3>1 DEF Restart, SuccessInv, KidsCreated, AllMade
    <3>2. CASE pc # "done"
      <4>1. made' = <<>> /\ Len(made') + todo' + skipped' >= Tasks
        BY <1>0, <1>8, <3>2, FanInAssumption DEF TypeOK, Restart, RunAgain
      <4> QED BY <1>8, <4>1 DEF Restart, SuccessInv, KidsCreated, AllMade
    <3> QED BY <3>1, <3>2
  <2>3. ReadsHonest'
    BY <1>0, <1>8 DEF Restart, TypeOK, ReadsHonest
  <2>4. Unborn'
    BY <1>8 DEF Restart, SuccessInv, Unborn
  <2> QED BY <1>0, <2>1, <2>2, <2>3, <2>4 DEF SuccessInv
<1>7. CASE UNCHANGED vars
  BY <1>0, <1>c, <1>7 DEF vars, SuccessInv, AllMade
<1> QED
  BY <1>1, <1>2, <1>3, <1>4, <1>5, <1>6, <1>7, <1>8 DEF Next, Coordinator, ChildStep

\* With the dead letter queue off a barrier spawns its continuation only after every
\* child it waits for has succeeded, and it waits for every Command of the Result but
\* those whose Create failed, whatever is cancelled, replayed, cleaned up, left
\* unsaved or run again between its reads of the rows.
THEOREM SuccessFirst ==
    ASSUME ~DeadLetter
    PROVE  Spec => []ContinuationAfterSuccess
<1>1. Init => SuccessInv
  <2> SUFFICES ASSUME Init PROVE SuccessInv
    OBVIOUS
  <2>1. TypeOK
    BY FanInAssumption DEF Init, TypeOK, ChildStatus, BarrierStatus
  <2>2. RowsHonest /\ KidsCreated /\ ReadsHonest /\ Unborn /\ ContinuationAfterSuccess
    BY DEF Init, RowsHonest, KidsCreated, ReadsHonest, Unborn, ContinuationAfterSuccess
  <2>3. AllMade
    BY FanInAssumption DEF Init, AllMade
  <2> QED BY <2>1, <2>2, <2>3 DEF SuccessInv
<1>2. SuccessInv /\ [Next]_vars => SuccessInv'
  BY SuccessInductive
<1>3. SuccessInv => ContinuationAfterSuccess
  BY DEF SuccessInv
<1> QED BY <1>1, <1>2, <1>3, PTL DEF Spec
-----------------------------------------------------------------------------
(* Duplicates.  A barrier that may still spawn has spawned at most once per rerun;  *)
(* a coordinator that may still make a barrier has made one per rerun.  A lost row  *)
(* counts as spent: only a rerun brings it back.                                    *)
Born == {b \in Barrier : status[b] # "NONE"}
Spent(b) == at[b] \in {"complete", "lost"} \/ status[b] \in {"COMPLETED", "FAILED", "DEAD_LETTER"}

BarriersBounded ==
    /\ IsFiniteSet(Born)
    /\ Cardinality(Born) <= IF pc = "spawn" THEN reruns ELSE reruns + 1

Bounded(b) ==
    /\ at[b] # "idle" => Active(b)
    /\ spawned[b] <= IF Spent(b) THEN reruns + 1 ELSE reruns

SpawnsBounded == \A b \in Barrier : Bounded(b)

DuplicatesInv == TypeOK /\ BarriersBounded /\ SpawnsBounded

BarrierStep(b) == BarrierRuns(b) \/ BarrierUnsaved(b) \/ RecoverBarrier(b)

\* An execution, failed Update or recovery leaves other barriers alone, and does not
\* make or unmake the barrier itself.
LEMMA StatusKept ==
    ASSUME TypeOK, SpawnsBounded, NEW b \in Barrier, BarrierStep(b)
    PROVE  /\ \A d \in Barrier : status'[d] = "NONE" <=> status[d] = "NONE"
           /\ \A d \in Barrier \ {b} : status'[d] = status[d] /\ at'[d] = at[d]
<1> USE DEF coordVars, rowVars, runVars
<1>1. status[b] # "NONE"
  BY DEF BarrierStep, BarrierRuns, StartBarrier, ReadChild, ReadFails, Reading, BarrierRepeats,
     BarrierErrs, HasRead, SpawnContinuation, LoseContinuation, AllDone, BarrierDone, BarrierUnsaved,
     RecoverBarrier, SpawnsBounded, Bounded, Active, ActiveStatus
<1>2. \/ status' = status
      \/ \E s \in BarrierStatus \ {"NONE"} : status' = [status EXCEPT ![b] = s]
  BY DEF BarrierStep, BarrierRuns, StartBarrier, ReadChild, ReadFails, BarrierRepeats,
     BarrierErrs, Charge, SpawnContinuation, LoseContinuation, BarrierDone, BarrierUnsaved,
     RecoverBarrier, BarrierStatus, ActiveStatus
<1>3. at' = at \/ \E a : at' = [at EXCEPT ![b] = a]
  BY DEF BarrierStep, BarrierRuns, StartBarrier, ReadChild, ReadFails, BarrierRepeats,
     BarrierErrs, Rest, SpawnContinuation, LoseContinuation, BarrierDone, BarrierUnsaved,
     RecoverBarrier
<1> QED BY <1>1, <1>2, <1>3 DEF TypeOK

LEMMA BarriersInductive ==
    ASSUME TypeOK, BarriersBounded, SpawnsBounded, [Next]_vars
    PROVE  BarriersBounded'
<1> USE DEF coordVars, rowVars, runVars
<1>0. reruns \in Nat /\ Cardinality(Born) \in Nat
  BY FS_CardinalityType DEF TypeOK, BarriersBounded
<1>1. ASSUME NEW b \in Barrier, SpawnBarrier(b) PROVE BarriersBounded'
  <2>1. Born' = Born \cup {b} /\ b \notin Born
    BY <1>1 DEF SpawnBarrier, Born, TypeOK
  <2>2. IsFiniteSet(Born') /\ Cardinality(Born') = Cardinality(Born) + 1
    BY <2>1, FS_AddElement DEF BarriersBounded
  <2> QED BY <1>0, <1>1, <2>2 DEF SpawnBarrier, BarriersBounded
<1>2. CASE Restart \/ RecoverCoordinator
  <2>1. Born' = Born /\ reruns' = reruns + 1
    BY <1>2 DEF Restart, RecoverCoordinator, Born
  <2> QED BY <1>0, <2>1 DEF BarriersBounded
<1>3. CASE ChildStep
  <2>1. Born' = Born /\ pc' = pc /\ reruns' = reruns
    BY <1>3, ChildFrame DEF Born
  <2> QED BY <2>1 DEF BarriersBounded
<1>4. CASE \/ \E c \in Child : SpawnTask(c)
           \/ SkipTask \/ NoBarrier \/ CoordinatorDone \/ CoordinatorUnsaved \/ UNCHANGED vars
  <2>1. Born' = Born /\ reruns' = reruns /\ (pc' = pc \/ (pc' # "spawn"))
    BY <1>4 DEF SpawnTask, SkipTask, NoBarrier, CoordinatorDone, CoordinatorUnsaved, vars, Born
  <2> QED BY <1>0, <2>1 DEF BarriersBounded
<1>5. ASSUME NEW b \in Barrier, BarrierStep(b) PROVE BarriersBounded'
  <2>1. pc' = pc /\ reruns' \in {reruns, reruns + 1}
    BY <1>5 DEF BarrierStep, BarrierRuns, StartBarrier, ReadChild, ReadFails, BarrierRepeats, BarrierErrs,
       Rest, SpawnContinuation, LoseContinuation, BarrierDone, BarrierUnsaved, RecoverBarrier
  <2>2. Born' = Born
    BY <1>5, StatusKept DEF Born
  <2> QED BY <1>0, <2>1, <2>2 DEF BarriersBounded
<1> QED BY <1>1, <1>2, <1>3, <1>4, <1>5 DEF Next, Coordinator, ChildStep, BarrierStep

LEMMA SpawnsInductive ==
    ASSUME TypeOK, SpawnsBounded, [Next]_vars
    PROVE  SpawnsBounded'
<1> USE DEF coordVars, rowVars, runVars
<1>0. reruns \in Nat /\ spawned \in [Barrier -> Nat]
  BY DEF TypeOK
<1>1. ASSUME NEW b \in Barrier, SpawnBarrier(b) PROVE SpawnsBounded'
  <2>1. \A d \in Barrier : status[d] = "NONE" => at[d] = "idle"
    BY DEF SpawnsBounded, Bounded, Active, ActiveStatus
  <2>2. \A d \in Barrier : status'[d] = IF d = b THEN "PENDING" ELSE status[d]
    BY <1>1 DEF SpawnBarrier, TypeOK
  <2> QED BY <1>0, <1>1, <2>1, <2>2 DEF SpawnBarrier, SpawnsBounded, Bounded, Spent, Active, ActiveStatus
<1>2. CASE Restart
  <2>1. \A b \in Barrier : at'[b] # "idle" => Active(b)'
    BY <1>2 DEF Restart, Active, ActiveStatus
  <2>2. \A b \in Barrier : spawned'[b] <= reruns'
    BY <1>0, <1>2 DEF Restart, SpawnsBounded, Bounded
  <2>3. reruns' \in Nat /\ spawned' = spawned
    BY <1>0, <1>2 DEF Restart
  <2> QED BY <1>0, <2>1, <2>2, <2>3 DEF SpawnsBounded, Bounded
<1>3. CASE ChildStep
  BY <1>3, ChildFrame DEF SpawnsBounded, Bounded, Spent, Active
<1>4. CASE \/ \E c \in Child : SpawnTask(c)
           \/ SkipTask \/ NoBarrier \/ CoordinatorDone \/ CoordinatorUnsaved \/ RecoverCoordinator
           \/ UNCHANGED vars
  <2>1. UNCHANGED <<status, at, spawned>> /\ reruns' \in {reruns, reruns + 1}
    BY <1>4 DEF SpawnTask, SkipTask, NoBarrier, CoordinatorDone, CoordinatorUnsaved,
       RecoverCoordinator, vars
  <2> QED BY <1>0, <2>1 DEF SpawnsBounded, Bounded, Spent, Active
<1>5. ASSUME NEW b \in Barrier, BarrierStep(b) PROVE SpawnsBounded'
  <2>1. reruns' \in {reruns, reruns + 1} /\ \A d \in Barrier \ {b} : spawned'[d] = spawned[d]
    BY <1>0, <1>5 DEF BarrierStep, BarrierRuns, StartBarrier, ReadChild, ReadFails, BarrierRepeats,
       BarrierErrs, Rest, SpawnContinuation, LoseContinuation, BarrierDone, BarrierUnsaved, RecoverBarrier
  <2>2. \A d \in Barrier \ {b} : status'[d] = status[d] /\ at'[d] = at[d]
    BY <1>5, StatusKept
  <2>3. \A d \in Barrier \ {b} : Bounded(d)'
    BY <1>0, <2>1, <2>2 DEF SpawnsBounded, Bounded, Spent, Active
  <2>4. Bounded(b)'
    <3>0. Bounded(b)
      BY DEF SpawnsBounded
    <3>1. CASE StartBarrier(b)
      <4>1. at[b] = "idle" /\ at'[b] = "reading" /\ status'[b] = "STARTED" /\ Active(b)
        BY <3>1 DEF StartBarrier, TypeOK
      <4>2. spawned' = spawned /\ reruns' = reruns
        BY <3>1 DEF StartBarrier
      <4> QED BY <1>0, <3>0, <4>1, <4>2 DEF Bounded, Spent, Active, ActiveStatus
    <3>2. CASE SpawnContinuation(b)
      <4>1. at[b] = "reading" /\ at'[b] = "complete" /\ status' = status
        BY <3>2 DEF SpawnContinuation, AllDone, HasRead, TypeOK
      <4>2. spawned'[b] = spawned[b] + 1 /\ reruns' = reruns
        BY <1>0, <3>2 DEF SpawnContinuation
      <4>3. Active(b) /\ spawned[b] <= reruns
        BY <3>0, <4>1 DEF Bounded, Spent, Active, ActiveStatus
      <4> QED BY <1>0, <4>1, <4>2, <4>3 DEF Bounded, Spent, Active
    <3>3. CASE BarrierRepeats(b) \/ BarrierErrs(b) \/ BarrierDone(b)
      <4>1. at'[b] = "idle" /\ spawned' = spawned /\ reruns' = reruns
        BY <3>3 DEF BarrierRepeats, BarrierErrs, BarrierDone, Rest, TypeOK
      <4>2. at[b] \in {"reading", "complete"} /\ (at[b] = "complete" => status'[b] = "COMPLETED")
        BY <3>3 DEF BarrierRepeats, BarrierErrs, BarrierDone, HasRead, TypeOK
      <4>3. Spent(b) => Spent(b)'
        BY <3>0, <4>2 DEF Bounded, Spent, Active, ActiveStatus
      <4> QED BY <1>0, <3>0, <4>1, <4>3 DEF Bounded
    <3>4. CASE ReadChild(b) \/ ReadFails(b)
      <4>1. UNCHANGED <<status, at, spawned, reruns>>
        BY <3>4 DEF ReadChild, ReadFails
      <4> QED BY <3>0, <4>1 DEF Bounded, Spent, Active
    <3>5. CASE LoseContinuation(b) \/ BarrierUnsaved(b)
      <4>1. UNCHANGED <<status, spawned, reruns>> /\ at'[b] \in {"complete", "lost"}
        BY <3>5 DEF LoseContinuation, BarrierUnsaved, TypeOK
      <4>2. Active(b)
        BY <3>0, <3>5 DEF LoseContinuation, AllDone, BarrierUnsaved, HasRead, Bounded
      <4> QED BY <1>0, <3>0, <4>1, <4>2 DEF Bounded, Spent, Active
    <3>6. CASE RecoverBarrier(b)
      <4>1. spawned' = spawned /\ reruns' = reruns + 1 /\ at'[b] = "idle"
        BY <3>6 DEF RecoverBarrier, TypeOK
      <4> QED BY <1>0, <3>0, <4>1 DEF Bounded
    <3> QED BY <1>5, <3>1, <3>2, <3>3, <3>4, <3>5, <3>6 DEF BarrierStep, BarrierRuns
  <2> QED BY <2>3, <2>4 DEF SpawnsBounded
<1> QED BY <1>1, <1>2, <1>3, <1>4, <1>5 DEF Next, Coordinator, ChildStep, BarrierStep

\* As long as no command is run again there is one barrier and one continuation at
\* most, through failed Updates and failed Creates; each restart and each row the
\* stuck loop puts back adds at most one barrier, and one continuation per barrier.
THEOREM DuplicatesBounded == Spec => []DuplicatesFromReruns
<1>1. Init => DuplicatesInv
  <2>1. ASSUME Init PROVE TypeOK /\ SpawnsBounded
    BY <2>1, FanInAssumption DEF Init, TypeOK, ChildStatus, BarrierStatus, SpawnsBounded, Bounded, Spent
  <2>2. ASSUME Init PROVE Born = {}
    BY <2>2 DEF Init, Born
  <2>3. ASSUME Init PROVE BarriersBounded
    <3>1. IsFiniteSet(Born) /\ Cardinality(Born) = 0
      BY <2>2, <2>3, FS_EmptySet
    <3> QED BY <2>3, <3>1 DEF Init, BarriersBounded
  <2> QED BY <2>1, <2>3 DEF DuplicatesInv
<1>2. DuplicatesInv /\ [Next]_vars => DuplicatesInv'
  BY TypeInductive, BarriersInductive, SpawnsInductive DEF DuplicatesInv
<1>3. DuplicatesInv => DuplicatesFromReruns
  <2> SUFFICES ASSUME DuplicatesInv PROVE DuplicatesFromReruns
    OBVIOUS
  <2>1. reruns \in Nat /\ spawned \in [Barrier -> Nat] /\ Cardinality(Born) \in Nat
    BY FS_CardinalityType DEF DuplicatesInv, TypeOK, BarriersBounded
  <2>2. Cardinality(Born) <= 1 + reruns
    BY <2>1 DEF DuplicatesInv, BarriersBounded
  <2>3. \A b \in Barrier : spawned[b] <= 1 + reruns
    BY <2>1 DEF DuplicatesInv, SpawnsBounded, Bounded
  <2> QED BY <2>2, <2>3 DEF DuplicatesFromReruns, Born
<1> QED BY <1>1, <1>2, <1>3, PTL DEF Spec
=============================================================================
