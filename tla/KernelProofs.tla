---- MODULE KernelProofs ----
(***************************************************************************)
(* Theorems about the runtime kernel, for every size of the arenas.        *)
(***************************************************************************)
EXTENDS KernelInvariants, TLAPS


----------------------------------------------------------------------------
(* Types of the operators *)

\* Every cancel kind has one of the six severities.
LEMMA SeverityType == \A k \in CancelKinds : Severity[k] \in 0 .. 5
BY DEF Severity, CancelKinds

\* The quota of a kind is a number of polls.
LEMMA QuotaType == \A k \in CancelKinds : Quota(k) \in Nat
BY SeverityType, CancellationAssumption DEF Quota

\* A task record stays one under each operation of the cancel protocol.
LEMMA CancelledType ==
  ASSUME NEW t \in Task, NEW k \in CancelKinds
  PROVE  Cancelled(t, k) \in Task
<1>1. FirstCancel(t, k) \in Task
  <2>1. 1 \in 0 .. EpochCap /\ Quota(k) \in Nat /\ "CancelRequested" \in TaskStates
    BY LifecycleAssumption, QuotaType DEF TaskStates
  <2> QED BY <2>1, Zenon DEF FirstCancel, Task
<1>2. Strengthened(t, k) \in Task
  <2> DEFINE polls == IF Quota(k) < t.polls THEN Quota(k) ELSE t.polls
             epoch == IF t.epoch < EpochCap THEN t.epoch + 1 ELSE t.epoch
  <2>1. polls \in Nat /\ epoch \in 0 .. EpochCap
    BY QuotaType, LifecycleAssumption DEF Task
  <2>2. \/ Strengthened(t, k) = [t EXCEPT !.epoch = epoch]
        \/ Strengthened(t, k) = [t EXCEPT !.kind = k, !.polls = polls, !.epoch = epoch]
    BY DEF Strengthened, Task
  <2> HIDE DEF polls, epoch
  <2> QED BY <2>1, <2>2, Zenon DEF Task
<1> QED BY <1>1, <1>2 DEF Cancelled

LEMMA CancelledFromType ==
  ASSUME NEW t \in Task, NEW k \in CancelKinds, NEW origin \in RegionHandles \cup {InvalidId}
  PROVE  CancelledFrom(t, k, origin) \in Task
BY CancelledType DEF CancelledFrom, Task

\* So does the whole arena under a propagation.
LEMMA PropagatedType ==
  ASSUME NEW ts \in [TaskSlots -> Task], NEW h \in RegionHandles, NEW k \in CancelKinds
  PROVE  Propagated(ts, h, k) \in [TaskSlots -> Task]
BY CancelledFromType DEF Propagated

LEMMA CompleteType ==
  ASSUME NEW t \in Task, NEW o \in {"Ok", "Err"}
  PROVE  Complete(t, o) \in Task /\ ForcedCompletion(t) \in Task
<1>1. NoCapture \in Capture
  BY LifecycleAssumption DEF NoCapture, Capture
<1>2. "Completed" \in TaskStates /\ "Completed" \in CancelPhases
      /\ "Cancelled" \in Outcomes /\ o \in Outcomes
  BY DEF TaskStates, CancelPhases, Outcomes
<1>3. ForcedCompletion(t) \in Task
  BY <1>1, <1>2, Zenon DEF ForcedCompletion, Task
<1>4. [t EXCEPT !.state = "Completed", !.outcome = o, !.capture = NoCapture] \in Task
  BY <1>1, <1>2, Zenon DEF Task
<1> QED BY <1>3, <1>4 DEF Complete

LEMMA SpentType ==
  ASSUME NEW t \in Task
  PROVE  Spent(t) \in Task
BY DEF Spent, Task

\* Aligning never moves an offset back.
LEMMA AlignUpType ==
  ASSUME NEW v \in Nat
  PROVE  AlignUp(v) \in Nat /\ v <= AlignUp(v)
BY DEF AlignUp

LEMMA NewTaskType ==
  ASSUME NEW h \in RegionHandles \cup {InvalidId}, NEW c \in Capture
  PROVE  NewTask(h, c) \in Task
BY LifecycleAssumption DEF NewTask, Task, TaskStates, Outcomes, CancelPhases, CancelKinds

LEMMA NextGenType ==
  ASSUME NEW g \in 0 .. GenMod - 1
  PROVE  NextGen(g) \in 0 .. GenMod - 1
BY LifecycleAssumption DEF NextGen

LEMMA NewRegionType ==
  ASSUME NEW g \in 0 .. GenMod - 1
  PROVE  NewRegion(g) \in Region /\ [NewRegion(g) EXCEPT !.alive = FALSE] \in Region
<1>1. NewRegion(g) \in Region
  BY LifecycleAssumption DEF NewRegion, Region, RegionStates
<1>2. [NewRegion(g) EXCEPT !.alive = FALSE] \in Region
  BY <1>1, Zenon DEF Region
<1> QED BY <1>1, <1>2

----------------------------------------------------------------------------
(* Type correctness *)

LEMMA TypeInit == Init => TypeInv
<1> SUFFICES ASSUME Init PROVE TypeInv
  OBVIOUS
<1> USE DEF Init, LifecycleInit, SchedulerInit
<1>1. NoCapture \in Capture
  BY LifecycleAssumption DEF NoCapture, Capture
<1>2. regions \in [RegionSlots -> Region]
  BY NewRegionType, LifecycleAssumption
<1>3. tasks \in [TaskSlots -> Task]
  BY <1>1, NewTaskType
<1>4. obligations \in [ObligationSlots -> Obligation]
  BY DEF Obligation, ObligationStates
<1>5. frames \in [1 .. MaxDepth -> Frame]
  BY SchedulerAssumption, LifecycleAssumption DEF NoFrame, Frame, PCs, Statuses
<1>6. \A s \in RegionSlots : regions[s].taskCount <= taskCount
  BY DEF NewRegion
<1>7. taskCount \in 0 .. MaxTasks /\ obligationCount \in 0 .. MaxObligations
      /\ depth \in 0 .. MaxDepth /\ 1 .. depth = {}
  BY LifecycleAssumption, SchedulerAssumption
<1> QED BY <1>2, <1>3, <1>4, <1>5, <1>6, <1>7
        DEF TypeInv, TypeOK, LifecycleTypeOK, SchedulerTypeOK

\* An operation that leaves the calls in progress alone keeps their shape.
LEMMA FramesKept ==
  ASSUME TypeInv, UNCHANGED schedulerVars, taskCount' \in Nat, taskCount' >= taskCount
  PROVE  (\A d \in 1 .. depth : FrameShape(frames[d]))' /\ SchedulerTypeOK'
<1>1. SchedulerTypeOK'
  BY DEF TypeInv, TypeOK, SchedulerTypeOK, schedulerVars
<1>2. ASSUME NEW d \in 1 .. depth PROVE FrameShape(frames[d])'
  <2>1. frames[d] \in Frame /\ FrameShape(frames[d])
    BY SchedulerAssumption DEF TypeInv, TypeOK, SchedulerTypeOK
  <2> QED BY <2>1 DEF FrameShape, schedulerVars, Frame, TypeInv, TypeOK, LifecycleTypeOK
<1> QED BY <1>1, <1>2 DEF schedulerVars

\* What the operations that change only the region arena have to show.
LEMMA RegionsOnly ==
  ASSUME TypeInv, UNCHANGED <<tasks, taskCount, obligations, obligationCount>>,
         UNCHANGED schedulerVars, NEW s \in RegionSlots, NEW r \in Region,
         regions' = [regions EXCEPT ![s] = r], r.taskCount <= taskCount
  PROVE  TypeInv'
<1> USE DEF TypeInv, TypeOK, LifecycleTypeOK
<1>1. taskCount' \in Nat /\ taskCount' = taskCount
  OBVIOUS
<1>2. LifecycleTypeOK'
  OBVIOUS
<1>3. (\A z \in RegionSlots : regions[z].taskCount <= taskCount)'
  OBVIOUS
<1> QED BY <1>1, <1>2, <1>3, FramesKept

\* And those that change only the task arena.
LEMMA TasksOnly ==
  ASSUME TypeInv, UNCHANGED <<regions, taskCount, obligations, obligationCount>>,
         UNCHANGED schedulerVars, tasks' \in [TaskSlots -> Task]
  PROVE  TypeInv'
<1> USE DEF TypeInv, TypeOK, LifecycleTypeOK
<1>1. taskCount' \in Nat /\ taskCount' = taskCount
  OBVIOUS
<1>2. LifecycleTypeOK'
  OBVIOUS
<1> QED BY <1>1, <1>2, FramesKept

\* A region that gains a task it has room for counts at most MaxTasks of them.
LEMMA CountStep ==
  ASSUME TypeInv, NEW s \in RegionSlots, taskCount < MaxTasks
  PROVE  regions[s] \in Region /\ regions[s].taskCount + 1 \in 0 .. MaxTasks
         /\ regions[s].taskCount + 1 <= taskCount + 1
<1>1. regions[s] \in Region /\ regions[s].taskCount <= taskCount /\ taskCount \in 0 .. MaxTasks
  BY DEF TypeInv, TypeOK, LifecycleTypeOK
<1>2. regions[s].taskCount \in Nat
  BY <1>1 DEF Region
<1> QED BY <1>1, <1>2, LifecycleAssumption

\* Allocating a task that its region counts.
LEMMA SpawnType ==
  ASSUME TypeInv, UNCHANGED schedulerVars, taskCount < MaxTasks,
         NEW h \in RegionHandles, NEW c \in Capture, Allocate(h, c), NEW r \in Region,
         regions' = [regions EXCEPT ![h.slot] = r],
         r.taskCount = regions[h.slot].taskCount + 1
  PROVE  TypeInv'
<1> taskCount \in 0 .. MaxTasks /\ taskCount' = taskCount + 1
  BY DEF TypeInv, TypeOK, LifecycleTypeOK, Allocate
<1>1. h.slot \in RegionSlots /\ taskCount \in TaskSlots /\ taskCount' \in 0 .. MaxTasks
  BY LifecycleAssumption DEF RegionHandles, TaskSlots
<1>2. NewTask(h, c) \in Task
  BY NewTaskType
<1>3. tasks' \in [TaskSlots -> Task]
  BY <1>1, <1>2 DEF Allocate, TypeInv, TypeOK, LifecycleTypeOK
<1>4. regions' \in [RegionSlots -> Region]
  BY <1>1 DEF TypeInv, TypeOK, LifecycleTypeOK
<1>5. LifecycleTypeOK'
  BY <1>1, <1>3, <1>4 DEF TypeInv, TypeOK, LifecycleTypeOK, Allocate
<1>6. \A s \in RegionSlots : regions'[s].taskCount <= taskCount'
  <2> SUFFICES ASSUME NEW s \in RegionSlots PROVE regions'[s].taskCount <= taskCount'
    OBVIOUS
  <2>1. regions[s] \in Region /\ regions[s].taskCount \in Nat /\ regions[s].taskCount <= taskCount
    BY DEF TypeInv, TypeOK, LifecycleTypeOK, Region
  <2>2. CASE s = h.slot
    BY <1>1, <2>1, <2>2, CountStep DEF TypeInv, TypeOK, LifecycleTypeOK
  <2>3. CASE s # h.slot
    BY <1>1, <2>1, <2>3 DEF TypeInv, TypeOK, LifecycleTypeOK
  <2> QED BY <2>2, <2>3
<1>7. taskCount' \in Nat /\ taskCount' >= taskCount
  BY <1>1
<1>8. (\A d \in 1 .. depth : FrameShape(frames[d]))' /\ SchedulerTypeOK'
  BY <1>7, FramesKept
<1> QED BY <1>5, <1>6, <1>8 DEF TypeInv, TypeOK

\* And those that change only the obligation arena.
LEMMA ObligationsOnly ==
  ASSUME TypeInv, UNCHANGED <<regions, tasks, taskCount>>, UNCHANGED schedulerVars,
         obligations' \in [ObligationSlots -> Obligation],
         obligationCount' \in 0 .. MaxObligations
  PROVE  TypeInv'
<1> USE DEF TypeInv, TypeOK, LifecycleTypeOK
<1>1. taskCount' \in Nat /\ taskCount' = taskCount
  OBVIOUS
<1>2. LifecycleTypeOK'
  OBVIOUS
<1> QED BY <1>1, <1>2, FramesKept

LEMMA OperationType ==
  ASSUME TypeInv, Operation
  PROVE  TypeInv'
<1> USE DEF TypeInv, TypeOK, LifecycleTypeOK
<1> UNCHANGED schedulerVars
  BY DEF Operation
<1>1. CASE RegionOpen
  <2>1. PICK s \in RegionSlots :
          /\ regions' = [regions EXCEPT ![s] =
                           NewRegion(IF @.alive THEN NextGen(@.gen) ELSE @.gen)]
          /\ UNCHANGED <<tasks, taskCount, obligations, obligationCount>>
    BY <1>1 DEF RegionOpen
  <2> DEFINE g == IF regions[s].alive THEN NextGen(regions[s].gen) ELSE regions[s].gen
  <2>2. g \in 0 .. GenMod - 1
    BY NextGenType DEF Region
  <2> HIDE DEF g
  <2>3. NewRegion(g) \in Region
    BY <2>2, NewRegionType
  <2>4. NewRegion(g).taskCount <= taskCount
    BY DEF NewRegion
  <2>5. regions' = [regions EXCEPT ![s] = NewRegion(g)]
    BY <2>1 DEF g
  <2> QED BY <2>1, <2>3, <2>4, <2>5, RegionsOnly
<1>2. ASSUME NEW h \in RegionHandles, RegionClose(h)
      PROVE  TypeInv'
  <2>1. h.slot \in RegionSlots /\ "Closing" \in RegionStates
    BY DEF RegionHandles, RegionStates
  <2> DEFINE r == [regions[h.slot] EXCEPT !.state = "Closing"]
  <2>2. r \in Region /\ r.taskCount <= taskCount
    BY <2>1 DEF Region
  <2>3. regions' = [regions EXCEPT ![h.slot] = r]
    BY <1>2 DEF RegionClose
  <2> QED BY <1>2, <2>1, <2>2, <2>3, RegionsOnly DEF RegionClose
<1>3. ASSUME NEW h \in RegionHandles, RegionPoison(h)
      PROVE  TypeInv'
  <2>1. h.slot \in RegionSlots
    BY DEF RegionHandles
  <2> DEFINE r == [regions[h.slot] EXCEPT !.poisoned = TRUE]
  <2>2. r \in Region /\ r.taskCount <= taskCount
    BY <2>1 DEF Region
  <2>3. regions' = [regions EXCEPT ![h.slot] = r]
    BY <1>3 DEF RegionPoison
  <2> QED BY <1>3, <2>1, <2>2, <2>3, RegionsOnly DEF RegionPoison
<1>4. ASSUME NEW h \in RegionHandles, TaskSpawn(h)
      PROVE  TypeInv'
  <2> DEFINE n == regions[h.slot].taskCount + 1
             r == [regions[h.slot] EXCEPT !.taskCount = n]
  <2>1. h.slot \in RegionSlots /\ NoCapture \in Capture /\ taskCount < MaxTasks
    BY <1>4, LifecycleAssumption
       DEF RegionHandles, NoCapture, Capture, TaskSpawn, MaySpawn
  <2>2. n \in 0 .. MaxTasks /\ regions[h.slot] \in Region
    BY <2>1, CountStep
  <2>3. r \in Region /\ r.taskCount = n
    <3> HIDE DEF n
    <3> QED BY <2>2, Zenon DEF Region
  <2>4. regions' = [regions EXCEPT ![h.slot] = r]
    BY <1>4 DEF TaskSpawn
  <2> HIDE DEF r
  <2> QED BY <1>4, <2>1, <2>3, <2>4, SpawnType DEF TaskSpawn
<1>5. ASSUME NEW h \in RegionHandles, NEW size \in CaptureSizes, TaskSpawnCaptured(h, size)
      PROVE  TypeInv'
  <2> DEFINE used == regions[h.slot].captureUsed
             n == regions[h.slot].taskCount + 1
             end == CaptureEnd(used, size)
             r == [regions[h.slot] EXCEPT !.taskCount = n, !.captureUsed = end]
  <2>1. h.slot \in RegionSlots /\ taskCount < MaxTasks
    BY <1>5 DEF RegionHandles, TaskSpawnCaptured, MaySpawn
  <2>2. n \in 0 .. MaxTasks /\ regions[h.slot] \in Region
    BY <2>1, CountStep
  <2>3. used \in Nat /\ size \in Nat
    BY <2>2, LifecycleAssumption DEF Region
  <2>4. end <= ArenaBytes /\ size <= ArenaBytes
    BY <1>5 DEF TaskSpawnCaptured
  <2>5. AlignUp(used) \in Nat /\ AlignUp(size) \in Nat
    BY <2>3, AlignUpType
  <2>6. AlignUp(used) \in 0 .. ArenaBytes /\ end \in 0 .. ArenaBytes
        /\ size \in 0 .. ArenaBytes
    <3> HIDE DEF used
    <3> QED BY <2>3, <2>4, <2>5, LifecycleAssumption DEF CaptureEnd
  <2>7. [start |-> AlignUp(used), size |-> size] \in Capture
    BY <2>6, Zenon DEF Capture
  <2>8. r \in Region /\ r.taskCount = n
    <3> HIDE DEF n, end
    <3> QED BY <2>2, <2>6, Zenon DEF Region
  <2>9. regions' = [regions EXCEPT ![h.slot] = r]
    <3>1. regions' = [regions EXCEPT ![h.slot].taskCount = n, ![h.slot].captureUsed = end]
      BY <1>5 DEF TaskSpawnCaptured
    <3> HIDE DEF n, end
    <3> QED BY <3>1
  <2>10. Allocate(h, [start |-> AlignUp(used), size |-> size])
    BY <1>5 DEF TaskSpawnCaptured
  <2> HIDE DEF r, n, end, used
  <2> QED BY <1>5, <2>1, <2>7, <2>8, <2>9, <2>10, SpawnType DEF n
<1>6. ASSUME NEW h \in RegionHandles, ObligationReserve(h)
      PROVE  TypeInv'
  <2>1. obligationCount \in ObligationSlots /\ obligationCount' \in 0 .. MaxObligations
    BY <1>6, LifecycleAssumption DEF ObligationReserve, ObligationSlots
  <2>2. [state |-> "Reserved", region |-> h] \in Obligation
    BY DEF Obligation, ObligationStates
  <2>3. obligations' \in [ObligationSlots -> Obligation]
    BY <1>6, <2>1, <2>2 DEF ObligationReserve
  <2> QED BY <1>6, <2>1, <2>3, ObligationsOnly DEF ObligationReserve
<1>7. ASSUME NEW o \in ObligationSlots, NEW target \in {"Committed", "Aborted"},
             ObligationResolve(o, target)
      PROVE  TypeInv'
  <2>1. [obligations[o] EXCEPT !.state = target] \in Obligation
    BY DEF Obligation, ObligationStates
  <2>2. obligations' = [obligations EXCEPT ![o] = [obligations[o] EXCEPT !.state = target]]
    BY <1>7 DEF ObligationResolve
  <2>3. obligations' \in [ObligationSlots -> Obligation]
    BY <2>1, <2>2
  <2> QED BY <1>7, <2>3, ObligationsOnly DEF ObligationResolve
<1>8. ASSUME NEW i \in TaskSlots, NEW t \in Task, tasks' = [tasks EXCEPT ![i] = t],
             UNCHANGED <<regions, taskCount, obligations, obligationCount>>
      PROVE  TypeInv'
  <2>1. tasks' \in [TaskSlots -> Task]
    BY <1>8
  <2> QED BY <1>8, <2>1, TasksOnly
<1>9. ASSUME NEW i \in TaskSlots, NEW kind \in Kinds,
             TaskCancel(i, kind) \/ \E origin \in Origins : TaskCancelWithOrigin(i, kind, origin)
      PROVE  TypeInv'
  <2>1. tasks[i] \in Task /\ kind \in CancelKinds /\ Origins \subseteq RegionHandles \cup {InvalidId}
    BY CancellationAssumption, RuntimeAssumption
  <2>2. CASE TaskCancel(i, kind)
    <3>1. Cancelled(tasks[i], kind) \in Task
      BY <2>1, CancelledType
    <3> QED BY <1>8, <2>2, <3>1 DEF TaskCancel
  <2>3. ASSUME NEW origin \in Origins, TaskCancelWithOrigin(i, kind, origin)
        PROVE  TypeInv'
    <3>1. CancelledFrom(tasks[i], kind, origin) \in Task
      BY <2>1, CancelledFromType
    <3> QED BY <1>8, <2>3, <3>1 DEF TaskCancelWithOrigin
  <2> QED BY <1>9, <2>2, <2>3
<1>10. ASSUME NEW h \in RegionHandles, NEW kind \in Kinds, CancelPropagate(h, kind)
       PROVE  TypeInv'
  <2>1. tasks' \in [TaskSlots -> Task]
    BY <1>10, PropagatedType, CancellationAssumption DEF CancelPropagate
  <2> QED BY <1>10, <2>1, TasksOnly DEF CancelPropagate
<1>11. ASSUME NEW i \in TaskSlots, NEW phase \in {"Cancelling", "Finalizing"},
              tasks' = [tasks EXCEPT ![i].state = phase, ![i].phase = phase],
              UNCHANGED <<regions, taskCount, obligations, obligationCount>>
       PROVE  TypeInv'
  <2> DEFINE t == [tasks[i] EXCEPT !.state = phase, !.phase = phase]
  <2>1. phase \in TaskStates /\ phase \in CancelPhases /\ tasks[i] \in Task
    BY DEF TaskStates, CancelPhases
  <2>2. t \in Task
    BY <2>1, Zenon DEF Task
  <2>3. tasks' = [tasks EXCEPT ![i] = t]
    BY <1>11
  <2> HIDE DEF t
  <2> QED BY <1>8, <1>11, <2>2, <2>3
<1>12. ASSUME NEW i \in TaskSlots, Checkpoint(i) \/ TaskFinalize(i)
       PROVE  TypeInv'
  BY <1>11, <1>12 DEF Checkpoint, TaskFinalize
<1>13. CASE RegionOperation
  BY <1>1, <1>2, <1>3, <1>13 DEF RegionOperation
<1>14. CASE TaskOperation
  BY <1>4, <1>5, <1>14 DEF TaskOperation
<1>15. CASE ObligationOperation
  BY <1>6, <1>7, <1>15 DEF ObligationOperation, ObligationCommit, ObligationAbort
<1>16. CASE CancelOperation
  BY <1>9, <1>10, <1>12, <1>16 DEF CancelOperation
<1> QED BY <1>13, <1>14, <1>15, <1>16 DEF Operation

\* The frame on top of the stack.
LEMMA TopType ==
  ASSUME TypeInv, depth > 0
  PROVE  Top \in Frame /\ FrameShape(Top) /\ depth \in 1 .. MaxDepth
         /\ Top.region.slot \in RegionSlots
<1>1. depth \in 1 .. MaxDepth
  BY SchedulerAssumption DEF TypeInv, TypeOK, SchedulerTypeOK
<1>2. Top \in Frame /\ FrameShape(Top)
  BY <1>1 DEF TypeInv, TypeOK, SchedulerTypeOK, Top
<1> QED BY <1>1, <1>2 DEF FrameShape, RegionHandles

\* Replacing the top frame by one of the right shape.
LEMMA GotoType ==
  ASSUME TypeInv, depth > 0, UNCHANGED taskCount,
         NEW f \in Frame, FrameShape(f), Goto(f)
  PROVE  SchedulerTypeOK' /\ (\A d \in 1 .. depth : FrameShape(frames[d]))'
<1>1. depth \in 1 .. MaxDepth /\ depth' = depth /\ frames \in [1 .. MaxDepth -> Frame]
  BY TopType DEF Goto, TypeInv, TypeOK, SchedulerTypeOK
<1>2. frames' = [frames EXCEPT ![depth] = f]
  BY DEF Goto
<1>3. SchedulerTypeOK'
  BY <1>1, <1>2 DEF SchedulerTypeOK
<1>4. ASSUME NEW d \in 1 .. depth PROVE FrameShape(frames[d])'
  <2>1. frames'[d] = f \/ frames'[d] = frames[d]
    BY <1>1, <1>2
  <2>2. FrameShape(frames[d])
    BY DEF TypeInv
  <2> QED BY <2>1, <2>2 DEF FrameShape
<1> QED BY <1>1, <1>3, <1>4

LEMMA FinishType ==
  ASSUME TypeInv, depth > 0, UNCHANGED taskCount,
         NEW f \in Frame, f.region \in RegionHandles, NEW st \in Statuses, Finish(f, st)
  PROVE  SchedulerTypeOK' /\ (\A d \in 1 .. depth : FrameShape(frames[d]))'
<1> DEFINE g == [f EXCEPT !.pc = "return", !.status = st]
<1>1. "return" \in PCs
  BY DEF PCs
<1>2. g \in Frame
  BY <1>1, Zenon DEF Frame
<1>3. g.pc = "return" /\ g.region = f.region
  BY Zenon DEF Frame
<1> HIDE DEF g
<1>4. FrameShape(g)
  BY <1>3 DEF FrameShape
<1>5. Goto(g)
  BY DEF Finish, g
<1> QED BY <1>2, <1>4, <1>5, GotoType

\* Entering a call on a region the runtime resolves.
LEMMA PushType ==
  ASSUME TypeInv, UNCHANGED taskCount, NEW h \in RegionHandles, MayEnter(h),
         NEW drain \in BOOLEAN, NEW pc \in {"round", "advance"}, NEW budget \in 0 .. MaxBudget,
         Push(h, drain, pc, budget)
  PROVE  SchedulerTypeOK' /\ (\A d \in 1 .. depth : FrameShape(frames[d]))'
<1> DEFINE f == [pc |-> pc, drain |-> drain, region |-> h, next |-> 0, active |-> 0,
                 budget |-> budget, status |-> "None"]
<1>1. pc \in PCs /\ 0 \in 0 .. MaxTasks /\ "None" \in Statuses
  BY LifecycleAssumption DEF PCs, Statuses
<1>2. f \in Frame
  BY <1>1, Zenon DEF Frame
<1>3. FrameShape(f)
  BY DEF FrameShape
<1>4. depth' = depth + 1 /\ frames' = [frames EXCEPT ![depth + 1] = f]
  BY DEF Push
<1>5. depth \in Nat /\ depth + 1 \in 1 .. MaxDepth /\ frames \in [1 .. MaxDepth -> Frame]
  BY SchedulerAssumption DEF MayEnter, TypeInv, TypeOK, SchedulerTypeOK
<1> HIDE DEF f
<1>6. SchedulerTypeOK'
  BY <1>2, <1>4, <1>5 DEF SchedulerTypeOK
<1>7. ASSUME NEW d \in 1 .. depth + 1 PROVE FrameShape(frames[d])'
  <2>1. frames'[d] = f \/ (d \in 1 .. depth /\ frames'[d] = frames[d])
    <3>1. depth \in Nat /\ MaxDepth \in Nat /\ depth + 1 <= MaxDepth
      BY <1>5, SchedulerAssumption
    <3>2. d = depth + 1 \/ (d \in 1 .. depth /\ d # depth + 1)
      BY <3>1
    <3>3. d \in 1 .. MaxDepth
      BY <3>1
    <3> QED BY <1>4, <1>5, <3>2, <3>3
  <2>2. d \in 1 .. depth => FrameShape(frames[d])
    BY DEF TypeInv
  <2> QED BY <1>3, <2>1, <2>2 DEF FrameShape
<1> QED BY <1>4, <1>6, <1>7

\* Arenas whose regions only lose tasks keep the counts within the tasks allocated.
LEMMA ArenasKept ==
  ASSUME TypeInv, UNCHANGED <<taskCount, obligations, obligationCount>>,
         tasks' \in [TaskSlots -> Task], regions' \in [RegionSlots -> Region],
         \A s \in RegionSlots : regions'[s].taskCount <= regions[s].taskCount
  PROVE  LifecycleTypeOK' /\ (\A s \in RegionSlots : regions[s].taskCount <= taskCount)'
<1>1. LifecycleTypeOK'
  BY DEF TypeInv, TypeOK, LifecycleTypeOK
<1>2. ASSUME NEW s \in RegionSlots PROVE regions'[s].taskCount <= taskCount'
  <2>1. regions[s].taskCount \in Nat /\ regions'[s].taskCount \in Nat /\ taskCount \in Nat
    BY LifecycleAssumption DEF TypeInv, TypeOK, LifecycleTypeOK, Region
  <2>2. regions[s].taskCount <= taskCount /\ regions'[s].taskCount <= regions[s].taskCount
    BY DEF TypeInv
  <2> QED BY <2>1, <2>2
<1> QED BY <1>1, <1>2

LEMMA UncountType ==
  ASSUME TypeInv, NEW s \in RegionSlots
  PROVE  /\ Uncount(s) \in [RegionSlots -> Region]
         /\ \A z \in RegionSlots : Uncount(s)[z].taskCount <= regions[z].taskCount
<1>1. \A z \in RegionSlots : regions[z] \in Region /\ regions[z].taskCount \in 0 .. MaxTasks
  BY DEF TypeInv, TypeOK, LifecycleTypeOK, Region
<1> DEFINE n == IF regions[s].taskCount > 0 THEN regions[s].taskCount - 1
                ELSE regions[s].taskCount
           r == [regions[s] EXCEPT !.taskCount = n]
<1>2. n \in 0 .. MaxTasks /\ n <= regions[s].taskCount
  BY <1>1, LifecycleAssumption
<1>3. r \in Region /\ r.taskCount = n
  <2> HIDE DEF n
  <2> QED BY <1>1, <1>2, Zenon DEF Region
<1>4. Uncount(s) = [regions EXCEPT ![s] = r]
  BY DEF Uncount
<1>5. regions \in [RegionSlots -> Region]
  BY DEF TypeInv, TypeOK, LifecycleTypeOK
<1> HIDE DEF n, r
<1>6. Uncount(s) \in [RegionSlots -> Region]
  BY <1>3, <1>4, <1>5
<1>7. ASSUME NEW z \in RegionSlots PROVE Uncount(s)[z].taskCount <= regions[z].taskCount
  BY <1>1, <1>2, <1>3, <1>4, <1>5, LifecycleAssumption
<1> QED BY <1>6, <1>7

LEMMA EnterType ==
  ASSUME TypeInv, Enter
  PROVE  TypeInv'
<1>1. PICK h \in RegionHandles, budget \in 0 .. MaxBudget :
        SchedulerRun(h, budget) \/ RegionDrain(h, budget)
  BY DEF Enter
<1>2. CASE SchedulerRun(h, budget)
  <2>1. UNCHANGED taskCount /\ MayEnter(h) /\ Push(h, FALSE, "round", budget)
    BY <1>2 DEF SchedulerRun, lifecycleVars
  <2>2. SchedulerTypeOK' /\ (\A d \in 1 .. depth : FrameShape(frames[d]))'
    BY <2>1, PushType
  <2> QED BY <1>2, <2>2 DEF SchedulerRun, lifecycleVars, TypeInv, TypeOK, LifecycleTypeOK
<1>3. CASE RegionDrain(h, budget)
  <2> DEFINE st == IF regions[h.slot].state = "Open" THEN "Closing" ELSE regions[h.slot].state
             r == [regions[h.slot] EXCEPT !.state = st]
  <2>1. h.slot \in RegionSlots /\ regions[h.slot] \in Region
        /\ regions \in [RegionSlots -> Region] /\ tasks \in [TaskSlots -> Task]
    BY DEF RegionHandles, TypeInv, TypeOK, LifecycleTypeOK
  <2>2. st \in RegionStates
    BY <2>1 DEF Region, RegionStates
  <2>3. r \in Region /\ r.taskCount = regions[h.slot].taskCount
    <3> HIDE DEF st
    <3> QED BY <2>1, <2>2, Zenon DEF Region
  <2>4. regions' = [regions EXCEPT ![h.slot] = r]
    BY <1>3 DEF RegionDrain
  <2>5. regions' \in [RegionSlots -> Region]
        /\ \A s \in RegionSlots : regions'[s].taskCount <= regions[s].taskCount
    <3>1. \A s \in RegionSlots : regions[s].taskCount \in Nat
      BY <2>1 DEF Region
    <3> HIDE DEF r
    <3> QED BY <2>1, <2>3, <2>4, <3>1
  <2>6. "Parent" \in CancelKinds
    BY DEF CancelKinds
  <2>7. tasks' \in [TaskSlots -> Task]
    <3> DEFINE opening == IF regions[h.slot].state = "Open"
                          THEN Propagated(tasks, h, "Parent") ELSE tasks
    <3>1. opening \in [TaskSlots -> Task]
      BY <2>1, <2>6, PropagatedType
    <3>2. tasks' = opening \/ tasks' = Propagated(opening, h, "Parent")
      BY <1>3 DEF RegionDrain, DrainCancels
    <3> HIDE DEF opening
    <3> QED BY <2>6, <3>1, <3>2, PropagatedType
  <2>8. UNCHANGED <<taskCount, obligations, obligationCount>> /\ MayEnter(h)
    BY <1>3 DEF RegionDrain
  <2>9. LifecycleTypeOK' /\ (\A s \in RegionSlots : regions[s].taskCount <= taskCount)'
    BY <2>5, <2>7, <2>8, ArenasKept
  <2>10. \E pc \in {"round", "advance"} : Push(h, TRUE, pc, budget)
    BY <1>3 DEF RegionDrain
  <2>11. SchedulerTypeOK' /\ (\A d \in 1 .. depth : FrameShape(frames[d]))'
    BY <2>8, <2>10, PushType
  <2> QED BY <2>9, <2>11 DEF TypeInv, TypeOK
<1> QED BY <1>1, <1>2, <1>3

LEMMA InternalType ==
  ASSUME TypeInv, Internal
  PROVE  TypeInv'
<1>1. CASE RoundBegin
  <2>1. depth > 0 /\ UNCHANGED lifecycleVars /\ UNCHANGED taskCount
    BY <1>1 DEF RoundBegin, At, lifecycleVars
  <2>2. Top \in Frame /\ FrameShape(Top) /\ Top.region \in RegionHandles
    BY <2>1, TopType DEF FrameShape
  <2> DEFINE f == [Top EXCEPT !.pc = "scan", !.next = 0, !.active = 0]
  <2>3. "scan" \in PCs /\ 0 \in 0 .. MaxTasks /\ "BudgetExhausted" \in Statuses
    BY LifecycleAssumption DEF PCs, Statuses
  <2>4. f \in Frame /\ f.pc = "scan" /\ f.next = 0 /\ f.active = 0 /\ f.region = Top.region
    BY <2>2, <2>3, Zenon DEF Frame
  <2>5. Finish(Top, "BudgetExhausted") \/ Goto(f)
    BY <1>1 DEF RoundBegin
  <2> HIDE DEF f
  <2>6. FrameShape(f)
    BY <2>2, <2>4 DEF FrameShape
  <2>7. SchedulerTypeOK' /\ (\A d \in 1 .. depth : FrameShape(frames[d]))'
    BY <2>1, <2>2, <2>3, <2>4, <2>5, <2>6, GotoType, FinishType
  <2> QED BY <2>1, <2>7 DEF lifecycleVars, TypeInv, TypeOK, LifecycleTypeOK
<1>2. ASSUME NEW i \in TaskSlots, ScanForce(i)
      PROVE  TypeInv'
  <2>1. depth > 0 /\ UNCHANGED <<taskCount, obligations, obligationCount>> /\ Top.pc = "scan"
    BY <1>2 DEF ScanForce, At
  <2>2. Top \in Frame /\ FrameShape(Top) /\ Top.region \in RegionHandles
        /\ Top.region.slot \in RegionSlots
    BY <2>1, TopType DEF FrameShape
  <2>3. tasks' \in [TaskSlots -> Task]
    BY <1>2, CompleteType DEF ScanForce, TypeInv, TypeOK, LifecycleTypeOK
  <2>4. regions' \in [RegionSlots -> Region]
        /\ \A s \in RegionSlots : regions'[s].taskCount <= regions[s].taskCount
    BY <1>2, <2>2, UncountType DEF ScanForce
  <2>5. LifecycleTypeOK' /\ (\A s \in RegionSlots : regions[s].taskCount <= taskCount)'
    BY <2>1, <2>3, <2>4, ArenasKept
  <2> DEFINE f == [Top EXCEPT !.next = i + 1]
  <2>6. i + 1 \in 0 .. MaxTasks /\ Top.active <= i + 1
    BY <1>2, <2>1, <2>2, LifecycleAssumption DEF TaskSlots, ScanForce, Scanned, FrameShape, Frame
  <2>7. f \in Frame /\ f.pc = "scan" /\ f.next = i + 1 /\ f.active = Top.active
        /\ f.region = Top.region
    BY <2>1, <2>2, <2>6, Zenon DEF Frame
  <2>8. Goto(f)
    BY <1>2 DEF ScanForce
  <2> HIDE DEF f
  <2>9. FrameShape(f)
    BY <2>2, <2>6, <2>7 DEF FrameShape
  <2> QED BY <2>1, <2>5, <2>7, <2>8, <2>9, GotoType DEF TypeInv, TypeOK
<1>3. ASSUME NEW i \in TaskSlots, ScanPoll(i)
      PROVE  TypeInv'
  <2>1. depth > 0 /\ UNCHANGED <<regions, taskCount, obligations, obligationCount>>
        /\ Top.pc = "scan"
    BY <1>3 DEF ScanPoll, At
  <2>2. Top \in Frame /\ FrameShape(Top) /\ Top.region \in RegionHandles
    BY <2>1, TopType DEF FrameShape
  <2>3. tasks' \in [TaskSlots -> Task]
    <3>1. ASSUME NEW st \in TaskStates PROVE [tasks[i] EXCEPT !.state = st] \in Task
      BY Zenon DEF Task, TypeInv, TypeOK, LifecycleTypeOK
    <3>2. tasks \in [TaskSlots -> Task] /\ tasks[i].state \in TaskStates
          /\ "Running" \in TaskStates
      BY DEF Task, TypeInv, TypeOK, LifecycleTypeOK, TaskStates
    <3>3. \/ tasks' = tasks
          \/ \E st \in TaskStates : tasks' = [tasks EXCEPT ![i] = [tasks[i] EXCEPT !.state = st]]
      BY <1>3, <3>2 DEF ScanPoll
    <3> QED BY <3>1, <3>2, <3>3
  <2>4. \A s \in RegionSlots : regions'[s].taskCount <= regions[s].taskCount
    BY <2>1 DEF TypeInv, TypeOK, LifecycleTypeOK, Region
  <2>5. LifecycleTypeOK' /\ (\A s \in RegionSlots : regions[s].taskCount <= taskCount)'
    BY <2>1, <2>3, <2>4, ArenasKept DEF TypeInv, TypeOK, LifecycleTypeOK
  <2> DEFINE f == [Top EXCEPT !.pc = "poll", !.next = i, !.active = @ + 1,
                              !.budget = ConsumePoll(@)]
  <2>6. CASE Top.budget = 0 /\ Finish(Top, "BudgetExhausted")
    <3>1. "BudgetExhausted" \in Statuses
      BY DEF Statuses
    <3> QED BY <2>1, <2>2, <2>5, <2>6, <3>1, FinishType DEF TypeInv, TypeOK
  <2>7. CASE Top.budget # 0 /\ Goto(f)
    <3> DEFINE n == Top.active + 1
               b == ConsumePoll(Top.budget)
    <3>1. i \in 0 .. MaxTasks /\ i < taskCount
      BY <1>3, LifecycleAssumption DEF TaskSlots, ScanPoll, Scanned, LiveTasks
    <3>2. Top.active \in Nat /\ Top.active <= Top.next /\ Top.next \in Nat /\ Top.next <= i
      BY <1>3, <2>1, <2>2, LifecycleAssumption DEF FrameShape, Frame, ScanPoll, Scanned
    <3>3. n \in 1 .. i + 1 /\ n \in 0 .. MaxTasks
      BY <3>1, <3>2, LifecycleAssumption DEF TaskSlots
    <3>4. b \in 0 .. MaxBudget
      BY <2>2, <2>7, SchedulerAssumption DEF Frame, ConsumePoll
    <3>5. "poll" \in PCs
      BY DEF PCs
    <3>6. f = [Top EXCEPT !.pc = "poll", !.next = i, !.active = n, !.budget = b]
      OBVIOUS
    <3> HIDE DEF n, b, f
    <3>7. f \in Frame /\ f.pc = "poll" /\ f.next = i /\ f.active = n /\ f.region = Top.region
      BY <2>2, <3>1, <3>3, <3>4, <3>5, <3>6, Zenon DEF Frame
    <3>8. FrameShape(f)
      BY <2>2, <3>1, <3>3, <3>7 DEF FrameShape
    <3> QED BY <2>1, <2>5, <2>7, <3>7, <3>8, GotoType DEF TypeInv, TypeOK
  <2> QED BY <1>3, <2>6, <2>7 DEF ScanPoll
<1>4. CASE ScanEnd
  <2>1. depth > 0 /\ UNCHANGED lifecycleVars /\ UNCHANGED taskCount
    BY <1>4 DEF ScanEnd, At, lifecycleVars
  <2>2. Top \in Frame /\ FrameShape(Top) /\ Top.region \in RegionHandles
    BY <2>1, TopType DEF FrameShape
  <2>3. ASSUME NEW pc \in {"round", "advance"}, Goto([Top EXCEPT !.pc = pc])
        PROVE  SchedulerTypeOK' /\ (\A d \in 1 .. depth : FrameShape(frames[d]))'
    <3> DEFINE f == [Top EXCEPT !.pc = pc]
    <3>1. pc \in PCs /\ pc # "scan" /\ pc # "poll"
      BY DEF PCs
    <3>2. f \in Frame /\ f.pc = pc /\ f.region = Top.region
      BY <2>2, <3>1, Zenon DEF Frame
    <3> HIDE DEF f
    <3>3. FrameShape(f)
      BY <2>2, <3>1, <3>2 DEF FrameShape
    <3> QED BY <2>1, <2>3, <3>2, <3>3, GotoType DEF f
  <2>4. "Ok" \in Statuses
    BY DEF Statuses
  <2>5. \/ \E pc \in {"round", "advance"} : Goto([Top EXCEPT !.pc = pc])
        \/ Finish(Top, "Ok")
    BY <1>4 DEF ScanEnd
  <2>6. SchedulerTypeOK' /\ (\A d \in 1 .. depth : FrameShape(frames[d]))'
    BY <2>1, <2>2, <2>3, <2>4, <2>5, FinishType
  <2> QED BY <2>1, <2>6 DEF lifecycleVars, TypeInv, TypeOK, LifecycleTypeOK
<1>5. CASE DrainAdvance
  <2> DEFINE s == Top.region.slot
  <2>1. depth > 0 /\ UNCHANGED <<tasks, taskCount, obligations, obligationCount>>
    BY <1>5 DEF DrainAdvance, At
  <2>2. Top \in Frame /\ FrameShape(Top) /\ Top.region \in RegionHandles /\ s \in RegionSlots
    BY <2>1, TopType DEF FrameShape
  <2>3. regions \in [RegionSlots -> Region] /\ tasks \in [TaskSlots -> Task]
        /\ regions[s].state \in RegionStates
    BY <2>2 DEF TypeInv, TypeOK, LifecycleTypeOK, Region
  <2>4. PICK st \in RegionStates : regions' = regions \/ regions' = [regions EXCEPT ![s].state = st]
    BY <1>5, <2>3 DEF DrainAdvance, RegionStates
  <2>5. regions' \in [RegionSlots -> Region]
        /\ \A z \in RegionSlots : regions'[z].taskCount <= regions[z].taskCount
    <3> DEFINE r == [regions[s] EXCEPT !.state = st]
    <3>1. r \in Region /\ r.taskCount = regions[s].taskCount
      BY <2>2, <2>3, Zenon DEF Region
    <3>2. regions' = regions \/ regions' = [regions EXCEPT ![s] = r]
      BY <2>4
    <3>3. \A z \in RegionSlots : regions[z].taskCount \in Nat
      BY <2>3 DEF Region
    <3> HIDE DEF r, s
    <3> QED BY <2>2, <2>3, <3>1, <3>2, <3>3
  <2>6. LifecycleTypeOK' /\ (\A z \in RegionSlots : regions[z].taskCount <= taskCount)'
    BY <2>1, <2>3, <2>5, ArenasKept
  <2>7. \E st2 \in Statuses : Finish(Top, st2)
    BY <1>5 DEF DrainAdvance, Statuses
  <2> QED BY <2>1, <2>2, <2>6, <2>7, FinishType DEF TypeInv, TypeOK
<1>6. CASE Return
  <2>1. depth > 0 /\ UNCHANGED lifecycleVars /\ depth' = depth - 1
        /\ frames' = [frames EXCEPT ![depth] = NoFrame]
    BY <1>6 DEF Return, At
  <2>2. depth \in 1 .. MaxDepth /\ frames \in [1 .. MaxDepth -> Frame] /\ MaxDepth \in Nat
    BY <2>1, TopType, SchedulerAssumption DEF TypeInv, TypeOK, SchedulerTypeOK
  <2>3. NoFrame \in Frame
    BY LifecycleAssumption, SchedulerAssumption DEF NoFrame, Frame, PCs, Statuses
  <2>4. SchedulerTypeOK'
    BY <2>1, <2>2, <2>3 DEF SchedulerTypeOK
  <2>5. ASSUME NEW d \in 1 .. depth' PROVE FrameShape(frames[d])'
    <3>1. d \in 1 .. depth /\ d \in 1 .. MaxDepth /\ d # depth
      BY <2>1, <2>2
    <3>2. frames'[d] = frames[d]
      BY <2>1, <2>2, <3>1
    <3>3. FrameShape(frames[d])
      BY <3>1 DEF TypeInv
    <3> QED BY <2>1, <3>2, <3>3 DEF FrameShape, lifecycleVars
  <2> QED BY <2>1, <2>4, <2>5 DEF lifecycleVars, TypeInv, TypeOK, LifecycleTypeOK
<1> QED BY <1>1, <1>2, <1>3, <1>4, <1>5, <1>6 DEF Internal, Scan

\* The frame of a callback that returned goes on with the next task of its scan.
LEMMA AfterType ==
  ASSUME TypeInv, At("poll")
  PROVE  /\ AfterPoll \in Frame /\ FrameShape(AfterPoll)
         /\ AfterCompletion \in Frame /\ FrameShape(AfterCompletion)
         /\ AfterCompletion.region = Top.region
<1> DEFINE n == Top.next + 1
           m == Top.active - 1
<1>1. Top \in Frame /\ FrameShape(Top) /\ Top.pc = "poll" /\ Top.region \in RegionHandles
  BY TopType DEF At, FrameShape
<1>2. Top.next \in Nat /\ Top.next < taskCount /\ taskCount <= MaxTasks
      /\ taskCount \in Nat /\ Top.active \in 1 .. Top.next + 1
  BY <1>1, LifecycleAssumption DEF Frame, FrameShape, TypeInv, TypeOK, LifecycleTypeOK
<1>3. n \in 0 .. MaxTasks /\ Top.active \in 0 .. MaxTasks /\ Top.active <= n
      /\ m \in 0 .. MaxTasks /\ m <= n
  BY <1>2, LifecycleAssumption
<1>4. "scan" \in PCs
  BY DEF PCs
<1>5. AfterPoll = [Top EXCEPT !.pc = "scan", !.next = n]
      /\ AfterCompletion = [Top EXCEPT !.pc = "scan", !.next = n, !.active = m]
  BY DEF AfterPoll, AfterCompletion
<1> HIDE DEF n, m
<1>6. AfterPoll \in Frame /\ AfterPoll.pc = "scan" /\ AfterPoll.next = n
      /\ AfterPoll.active = Top.active /\ AfterPoll.region = Top.region
  BY <1>1, <1>3, <1>4, <1>5, Zenon DEF Frame
<1>7. AfterCompletion \in Frame /\ AfterCompletion.pc = "scan" /\ AfterCompletion.next = n
      /\ AfterCompletion.active = m /\ AfterCompletion.region = Top.region
  BY <1>1, <1>3, <1>4, <1>5, Zenon DEF Frame
<1> QED BY <1>1, <1>3, <1>6, <1>7 DEF FrameShape

LEMMA CallbackReturnType ==
  ASSUME TypeInv, CallbackReturn
  PROVE  TypeInv'
<1> DEFINE completed(o) == [tasks EXCEPT ![Top.next] = Complete(@, o)]
           s == Top.region.slot
           counted == Uncount(s)
<1>1. At("poll") /\ depth > 0 /\ UNCHANGED <<taskCount, obligations, obligationCount>>
  BY DEF CallbackReturn, PollOk, PollError, PollPending, At
<1>2. /\ Top.region \in RegionHandles /\ s \in RegionSlots
      /\ Top.next \in TaskSlots
      /\ tasks \in [TaskSlots -> Task]
  <2>1. Top \in Frame /\ FrameShape(Top) /\ Top.pc = "poll" /\ s \in RegionSlots
    BY <1>1, TopType DEF At
  <2>2. Top.next \in Nat /\ Top.next < taskCount /\ taskCount \in 0 .. MaxTasks
    BY <2>1, LifecycleAssumption DEF FrameShape, Frame, TypeInv, TypeOK, LifecycleTypeOK
  <2> QED BY <2>1, <2>2, LifecycleAssumption
          DEF FrameShape, TaskSlots, TypeInv, TypeOK, LifecycleTypeOK
<1>3. \A o \in {"Ok", "Err"} : completed(o) \in [TaskSlots -> Task]
  BY <1>2, CompleteType
<1>4. /\ counted \in [RegionSlots -> Region]
      /\ \A z \in RegionSlots : counted[z].taskCount <= regions[z].taskCount
  BY <1>2, UncountType
<1>5. ASSUME tasks' \in [TaskSlots -> Task], regions' \in [RegionSlots -> Region],
             \A z \in RegionSlots : regions'[z].taskCount <= regions[z].taskCount,
             \/ Goto(AfterPoll) \/ Goto(AfterCompletion) \/ Finish(AfterCompletion, "Fault")
      PROVE  TypeInv'
  <2>1. LifecycleTypeOK' /\ (\A z \in RegionSlots : regions[z].taskCount <= taskCount)'
    BY <1>1, <1>5, ArenasKept
  <2>2. "Fault" \in Statuses /\ AfterCompletion.region \in RegionHandles
    BY <1>1, <1>2, AfterType DEF Statuses
  <2>3. SchedulerTypeOK' /\ (\A d \in 1 .. depth : FrameShape(frames[d]))'
    BY <1>1, <1>5, <2>2, AfterType, GotoType, FinishType
  <2> QED BY <2>1, <2>3 DEF TypeInv, TypeOK
<1> HIDE DEF counted, s
<1>6. CASE PollOk
  BY <1>3, <1>4, <1>5, <1>6 DEF PollOk, counted, s
<1>7. CASE PollError /\ Policy = "PoisonRegion"
  <2>1. tasks' = Propagated(completed("Err"), Top.region, "Resource")
    BY <1>7 DEF PollError
  <2>2. "Resource" \in CancelKinds
    BY DEF CancelKinds
  <2>3. tasks' \in [TaskSlots -> Task]
    BY <1>2, <1>3, <2>1, <2>2, PropagatedType
  <2>4. regions' = counted \/ regions' = [counted EXCEPT ![s].poisoned = TRUE]
    BY <1>7 DEF PollError, counted, s
  <2> DEFINE r == [counted[s] EXCEPT !.poisoned = TRUE]
  <2>5. r \in Region /\ r.taskCount = counted[s].taskCount
    BY <1>2, <1>4, Zenon DEF Region
  <2>6. regions' = counted \/ regions' = [counted EXCEPT ![s] = r]
    BY <2>4
  <2> HIDE DEF r
  <2>7. regions' \in [RegionSlots -> Region]
        /\ \A z \in RegionSlots : regions'[z].taskCount <= regions[z].taskCount
    BY <1>2, <1>4, <2>5, <2>6
  <2>8. Goto(AfterCompletion)
    BY <1>7 DEF PollError
  <2> QED BY <1>5, <2>3, <2>7, <2>8
<1>8. CASE PollError /\ Policy # "PoisonRegion"
  BY <1>3, <1>4, <1>5, <1>8 DEF PollError, counted, s
<1>9. CASE PollPending
  <2>1. tasks' \in [TaskSlots -> Task]
    BY <1>2, <1>9, SpentType DEF PollPending
  <2>2. regions' \in [RegionSlots -> Region]
        /\ \A z \in RegionSlots : regions'[z].taskCount <= regions[z].taskCount
    BY <1>9 DEF PollPending, TypeInv, TypeOK, LifecycleTypeOK, Region
  <2> QED BY <1>5, <1>9, <2>1, <2>2 DEF PollPending
<1> QED BY <1>6, <1>7, <1>8, <1>9 DEF CallbackReturn

\* TypeInv is inductive.
LEMMA TypeStep == TypeInv /\ [Next]_vars => TypeInv'
<1> SUFFICES ASSUME TypeInv, [Next]_vars PROVE TypeInv'
  OBVIOUS
<1>1. CASE Next
  BY <1>1, OperationType, EnterType, InternalType, CallbackReturnType DEF Next
<1>2. CASE UNCHANGED vars
  BY <1>2 DEF vars, lifecycleVars, schedulerVars, TypeInv, TypeOK, LifecycleTypeOK,
              SchedulerTypeOK, FrameShape
<1> QED BY <1>1, <1>2

\* In every behaviour of the kernel the arenas and the calls in progress keep their
\* shape: counts within the arenas, budgets never below zero, cursors within the tasks.
THEOREM TypeCorrect == Spec => []TypeOK
<1>1. Spec => []TypeInv
  BY TypeInit, TypeStep, PTL DEF Spec
<1>2. TypeInv => TypeOK
  BY DEF TypeInv
<1> QED BY <1>1, <1>2, PTL

----------------------------------------------------------------------------
(* The cancel protocol, for every number of tasks, every quota that does not grow with  *)
(* severity, every mix of signals, and callbacks that run whatever they like, the       *)
(* regions already running included.                                                    *)

----------------------------------------------------------------------------
(* One task under one operation *)

LEMMA SeverityNat == \A k \in CancelKinds : Severity[k] \in Nat /\ Severity[k] <= 5
BY SeverityType

\* A stronger kind grants no more cleanup polls.
LEMMA QuotaFalls ==
  ASSUME NEW j \in CancelKinds, NEW k \in CancelKinds, Severity[j] <= Severity[k]
  PROVE  Quota(k) <= Quota(j)
BY SeverityType, CancellationAssumption DEF Quota

\* What changes in a task under a cancel that reaches it.
LEMMA CancelledFields ==
  ASSUME NEW t \in Task, NEW k \in CancelKinds, ~IsTerminal(t.state)
  PROVE  LET u == Cancelled(t, k)
         IN  /\ u.pending = TRUE
             /\ u.outcome = t.outcome /\ u.phase = t.phase
             /\ u.region = t.region /\ u.capture = t.capture
             /\ t.pending => /\ u.state = t.state
                             /\ u.origin = t.origin
                             /\ IF Stronger(k, t)
                                THEN /\ u.kind = k
                                     /\ u.polls = (IF Quota(k) < t.polls THEN Quota(k)
                                                   ELSE t.polls)
                                ELSE u.kind = t.kind /\ u.polls = t.polls
             /\ ~t.pending => /\ u.state = "CancelRequested"
                              /\ u.kind = k /\ u.polls = Quota(k)
<1>1. CASE t.pending
  <2>1. Cancelled(t, k) = Strengthened(t, k)
    BY <1>1 DEF Cancelled
  <2>2. t.pending = TRUE
    BY <1>1 DEF Task
  <2> QED BY <1>1, <2>1, <2>2 DEF Strengthened, Task
<1>2. CASE ~t.pending
  <2>1. Cancelled(t, k) = FirstCancel(t, k)
    BY <1>2 DEF Cancelled
  <2> QED BY <1>2, <2>1 DEF FirstCancel, Task
<1> QED BY <1>1, <1>2

\* A step that changes nothing the properties look at is a legal step.
LEMMA SameStep ==
  ASSUME NEW t \in Task, TaskInv(t)
  PROVE  TaskStep(t, t)
BY SeverityNat DEF TaskStep, Task

LEMMA CancelledStep ==
  ASSUME NEW t \in Task, TaskInv(t), Cancellable(t), NEW k \in CancelKinds
  PROVE  /\ TaskStep(t, Cancelled(t, k))
         /\ IsTerminal(t.state) <=> IsTerminal(Cancelled(t, k).state)
<1> DEFINE u == Cancelled(t, k)
<1>1. CASE IsTerminal(t.state)
  BY <1>1, SameStep DEF Cancelled
<1>2. CASE ~IsTerminal(t.state) /\ t.pending
  <2>1. u \in Task
    BY CancelledType
  <2>2. ~IsTerminal(u.state) /\ u.state = t.state
    BY <1>2, CancelledFields
  <2>3. Severity[u.kind] >= Severity[t.kind] /\ u.polls <= t.polls
        /\ (Severity[u.kind] = Severity[t.kind] => u.kind = t.kind)
        /\ u.polls <= Quota(u.kind)
    <3>1. t.polls <= Quota(t.kind) /\ t.polls \in Nat /\ t.kind \in CancelKinds
      BY <1>2 DEF TaskInv, Task
    <3>2. Quota(k) \in Nat /\ Quota(t.kind) \in Nat
      BY <3>1, QuotaType
    <3>3. CASE Stronger(k, t)
      <4>1. u.kind = k /\ u.polls = (IF Quota(k) < t.polls THEN Quota(k) ELSE t.polls)
        BY <1>2, <3>3, CancelledFields
      <4> QED BY <3>1, <3>2, <3>3, <4>1, SeverityNat DEF Stronger
    <3>4. CASE ~Stronger(k, t)
      <4>1. u.kind = t.kind /\ u.polls = t.polls
        BY <1>2, <3>4, CancelledFields
      <4> QED BY <3>1, <3>2, <4>1, SeverityNat
    <3> QED BY <3>3, <3>4
  <2>4. u.pending /\ u.phase = t.phase /\ u.origin = t.origin
    BY <1>2, CancelledFields
  <2> HIDE DEF u
  <2>5. TaskInv(u)
    BY <1>2, <2>2, <2>3, <2>4 DEF TaskInv
  <2> QED BY <1>2, <2>2, <2>3, <2>4, <2>5 DEF TaskStep, u
<1>3. CASE ~IsTerminal(t.state) /\ ~t.pending
  <2>1. u.pending /\ u.phase = t.phase /\ u.state = "CancelRequested"
        /\ u.kind = k /\ u.polls = Quota(k)
    BY <1>3, CancelledFields
  <2>2. t.phase = "Requested"
    BY <1>3 DEF TaskInv
  <2>3. t.state \in {"Created", "Running"}
    BY <1>3 DEF Cancellable
  <2> HIDE DEF u
  <2>4. Quota(k) \in Nat
    BY QuotaType
  <2>5. TaskInv(u)
    BY <2>1, <2>2, <2>4 DEF TaskInv, IsTerminal
  <2>6. <<t.state, u.state>> \in TaskEdges
    BY <2>1, <2>3 DEF TaskEdges
  <2> QED BY <1>3, <2>1, <2>5, <2>6 DEF TaskStep, IsTerminal, u
<1> QED BY <1>1, <1>2, <1>3

\* Attributing the cancel to an origin moves the origin only with the kind.
LEMMA CancelledFromStep ==
  ASSUME NEW t \in Task, TaskInv(t), Cancellable(t), NEW k \in CancelKinds,
         NEW origin \in RegionHandles \cup {InvalidId}
  PROVE  /\ TaskStep(t, CancelledFrom(t, k, origin))
         /\ IsTerminal(t.state) <=> IsTerminal(CancelledFrom(t, k, origin).state)
<1> DEFINE u == Cancelled(t, k)
           v == CancelledFrom(t, k, origin)
<1>1. TaskStep(t, u) /\ (IsTerminal(t.state) <=> IsTerminal(u.state)) /\ u \in Task
  BY CancelledStep, CancelledType
<1>2. v = [u EXCEPT !.origin = IF ~t.pending \/ Stronger(k, t) THEN origin ELSE u.origin]
  BY DEF CancelledFrom
<1>3. /\ v.state = u.state /\ v.pending = u.pending /\ v.phase = u.phase /\ v.kind = u.kind
      /\ v.polls = u.polls /\ v.outcome = u.outcome
      /\ t.pending /\ ~Stronger(k, t) => v.origin = u.origin
  <2> HIDE DEF u, v
  <2> QED BY <1>1, <1>2 DEF Task
<1>4. ~IsTerminal(t.state) /\ t.pending /\ Stronger(k, t) => Severity[u.kind] # Severity[t.kind]
  <2> SUFFICES ASSUME ~IsTerminal(t.state), t.pending, Stronger(k, t)
               PROVE  Severity[u.kind] # Severity[t.kind]
    OBVIOUS
  <2>1. u.kind = k
    BY CancelledFields
  <2>2. t.kind \in CancelKinds
    BY DEF Task
  <2> QED BY <2>1, <2>2, SeverityNat DEF Stronger
<1> HIDE DEF u, v
<1>5. TaskInv(v)
  BY <1>1, <1>3 DEF TaskStep, TaskInv
<1> QED BY <1>1, <1>3, <1>4, <1>5 DEF TaskStep, v

\* A propagation takes every task allocated one legal step, and completes none.
LEMMA PropagatedStep ==
  ASSUME NEW ts \in [TaskSlots -> Task], NEW h \in RegionHandles, NEW k \in CancelKinds,
         NEW i \in TaskSlots, TaskInv(ts[i])
  PROVE  LET t == ts[i]
             u == Propagated(ts, h, k)[i]
         IN  /\ TaskStep(t, u)
             /\ IsTerminal(t.state) <=> IsTerminal(u.state)
             /\ t.pending => u.state = t.state
             /\ u = t \/ (~IsTerminal(t.state) /\ u.pending)
<1>1. CASE i < taskCount /\ Reaches(ts[i], h)
  <2>1. Propagated(ts, h, k)[i] = CancelledFrom(ts[i], k, h)
    BY <1>1 DEF Propagated
  <2>2. Cancelled(ts[i], k).pending
        /\ (ts[i].pending => Cancelled(ts[i], k).state = ts[i].state)
    BY <1>1, CancelledFields DEF Reaches
  <2>3. CancelledFrom(ts[i], k, h).pending = Cancelled(ts[i], k).pending
        /\ CancelledFrom(ts[i], k, h).state = Cancelled(ts[i], k).state
    BY CancelledType DEF CancelledFrom, Task
  <2> QED BY <1>1, <2>1, <2>2, <2>3, CancelledFromStep DEF Reaches
<1>2. CASE ~(i < taskCount /\ Reaches(ts[i], h))
  BY <1>2, SameStep DEF Propagated
<1> QED BY <1>1, <1>2

\* Two legal steps are one when the second leaves the state of an unfinished task alone.
LEMMA StepsCompose ==
  ASSUME NEW t \in Task, NEW u \in Task, NEW v \in Task, TaskStep(t, u), TaskStep(u, v),
         v.state = u.state, IsTerminal(t.state) <=> IsTerminal(u.state)
  PROVE  TaskStep(t, v)
BY SeverityNat DEF TaskStep, Task

\* A completion is legal: a pending cancel decides the outcome.
LEMMA CompleteStep ==
  ASSUME NEW t \in Task, TaskInv(t), NEW o \in {"Ok", "Err"}
  PROVE  /\ TaskStep(t, Complete(t, o))
         /\ IsTerminal(Complete(t, o).state)
         /\ t.pending => TaskStep(t, ForcedCompletion(t))
BY SeverityNat DEF TaskStep, TaskInv, Complete, ForcedCompletion, Task, IsTerminal,
                   TaskEdges, TaskStates

\* So is the observation of a requested cancel and the end of its cleanup.
LEMMA PhaseStep ==
  ASSUME NEW t \in Task, TaskInv(t),
         NEW p \in {"Cancelling", "Finalizing"},
         t.state = (IF p = "Cancelling" THEN "CancelRequested" ELSE "Cancelling")
  PROVE  TaskStep(t, [t EXCEPT !.state = p, !.phase = p])
BY SeverityNat DEF TaskStep, TaskInv, Task, IsTerminal, TaskEdges, TaskStates, CancelPhases

LEMMA PolledStep ==
  ASSUME NEW t \in Task, TaskInv(t)
  PROVE  /\ TaskStep(t, Spent(t))
         /\ TaskStep(t, [t EXCEPT !.state = IF t.state = "Created" THEN "Running" ELSE t.state])
<1>1. TaskStep(t, Spent(t))
  <2>1. CASE t.pending /\ t.polls > 0
    <3> DEFINE u == [t EXCEPT !.polls = t.polls - 1]
    <3>1. t.polls \in Nat /\ t.kind \in CancelKinds /\ Quota(t.kind) \in Nat
      BY QuotaType DEF Task
    <3>2. Spent(t) = u
      BY <2>1 DEF Spent
    <3>3. /\ u.polls = t.polls - 1 /\ u.state = t.state /\ u.pending = t.pending
          /\ u.phase = t.phase /\ u.kind = t.kind /\ u.outcome = t.outcome
          /\ u.origin = t.origin
      BY DEF Task
    <3> HIDE DEF u
    <3> QED BY <2>1, <3>1, <3>2, <3>3, SeverityNat DEF TaskStep, TaskInv
  <2>2. CASE ~(t.pending /\ t.polls > 0)
    BY <2>2, SameStep DEF Spent
  <2> QED BY <2>1, <2>2
<1>2. ASSUME t.state = "Created" PROVE TaskStep(t, [t EXCEPT !.state = "Running"])
  BY <1>2, SeverityNat DEF TaskStep, TaskInv, Task, IsTerminal, TaskEdges, TaskStates
<1>3. [t EXCEPT !.state = t.state] = t
  BY DEF Task
<1>4. TaskStep(t, [t EXCEPT !.state = t.state])
  BY <1>3, SameStep
<1> QED BY <1>1, <1>2, <1>4

----------------------------------------------------------------------------
(* The arena under a step *)

\* Every task allocated takes a legal step; the rest of the arena stays unused, and the
\* task allocated by the step, if there is one, was never cancelled.
ArenaStep ==
  \A i \in TaskSlots :
    /\ i < taskCount => i < taskCount' /\ TaskStep(tasks[i], tasks'[i])
    /\ i >= taskCount =>
         IF i < taskCount' THEN TaskInv(tasks'[i]) /\ ~tasks[i].pending ELSE ~tasks'[i].pending

\* What TypeInv and CancelInv say of the tasks, in the form the steps below use.
LEMMA ArenaFacts ==
  ASSUME TypeInv, CancelInv
  PROVE  /\ tasks \in [TaskSlots -> Task] /\ taskCount \in Nat
         /\ \A i \in TaskSlots : i < taskCount => TaskInv(tasks[i]) /\ TaskStep(tasks[i], tasks[i])
         /\ \A i \in TaskSlots : i >= taskCount => ~tasks[i].pending
         /\ TaskSlots \subseteq Nat
<1>1. tasks \in [TaskSlots -> Task] /\ taskCount \in Nat /\ TaskSlots \subseteq Nat
  BY DEF TypeInv, TypeOK, LifecycleTypeOK, TaskSlots
<1>2. \A i \in TaskSlots : i < taskCount => TaskInv(tasks[i])
  BY DEF CancelInv
<1>3. \A i \in TaskSlots : i >= taskCount => ~tasks[i].pending
  BY <1>1 DEF CancelInv
<1> QED BY <1>1, <1>2, <1>3, SameStep

\* A step that replaces one allocated task by a legal successor.
LEMMA OneTaskStep ==
  ASSUME TypeInv, CancelInv, UNCHANGED taskCount, NEW i \in TaskSlots,
         NEW u, tasks' = [tasks EXCEPT ![i] = u],
         i < taskCount, TaskStep(tasks[i], u)
  PROVE  ArenaStep
BY ArenaFacts DEF ArenaStep

LEMMA NoTaskStep ==
  ASSUME TypeInv, CancelInv, UNCHANGED <<tasks, taskCount>>
  PROVE  ArenaStep
BY ArenaFacts DEF ArenaStep

\* A step that allocates a task.
LEMMA SpawnStep ==
  ASSUME TypeInv, CancelInv, NEW h \in RegionHandles, NEW c \in Capture, Allocate(h, c),
         taskCount < MaxTasks
  PROVE  ArenaStep
<1>1. TaskInv(NewTask(h, c)) /\ ~NewTask(h, c).pending
  BY DEF TaskInv, NewTask, IsTerminal
<1>2. taskCount' = taskCount + 1 /\ tasks' = [tasks EXCEPT ![taskCount] = NewTask(h, c)]
  BY DEF Allocate
<1> QED BY <1>1, <1>2, ArenaFacts DEF ArenaStep

\* A step that propagates a cancel.
LEMMA PropagateStep ==
  ASSUME TypeInv, CancelInv, UNCHANGED taskCount, NEW h \in RegionHandles,
         NEW k \in CancelKinds, tasks' = Propagated(tasks, h, k)
  PROVE  ArenaStep
<1>1. ASSUME NEW i \in TaskSlots, i < taskCount PROVE TaskStep(tasks[i], tasks'[i])
  BY <1>1, ArenaFacts, PropagatedStep
<1>2. ASSUME NEW i \in TaskSlots, i >= taskCount PROVE tasks'[i] = tasks[i]
  BY <1>2, ArenaFacts DEF Propagated
<1> QED BY <1>1, <1>2, ArenaFacts DEF ArenaStep

LEMMA OperationArena ==
  ASSUME TypeInv, CancelInv, Operation
  PROVE  ArenaStep
<1>1. CASE RegionOperation
  BY <1>1, NoTaskStep DEF RegionOperation, RegionOpen, RegionClose, RegionPoison
<1>2. CASE TaskOperation
  <2>1. ASSUME NEW h \in RegionHandles, TaskSpawn(h) PROVE ArenaStep
    <3>1. NoCapture \in Capture
      BY LifecycleAssumption DEF NoCapture, Capture
    <3> QED BY <2>1, <3>1, SpawnStep DEF TaskSpawn, MaySpawn
  <2>2. ASSUME NEW h \in RegionHandles, NEW size \in CaptureSizes, TaskSpawnCaptured(h, size)
        PROVE  ArenaStep
    <3> DEFINE used == regions[h.slot].captureUsed
    <3>1. used \in Nat /\ size \in Nat
      BY LifecycleAssumption
         DEF RegionHandles, TypeInv, TypeOK, LifecycleTypeOK, Region
    <3>2. AlignUp(used) \in Nat /\ AlignUp(size) \in Nat
      BY <3>1, AlignUpType
    <3>3. AlignUp(used) <= ArenaBytes /\ size <= ArenaBytes
      <4>1. AlignUp(used) + AlignUp(size) <= ArenaBytes /\ size <= ArenaBytes
        BY <2>2 DEF TaskSpawnCaptured, CaptureEnd
      <4> HIDE DEF used
      <4> QED BY <3>2, <4>1, LifecycleAssumption
    <3>4. [start |-> AlignUp(used), size |-> size] \in Capture
      <4> HIDE DEF used
      <4> QED BY <3>1, <3>2, <3>3, LifecycleAssumption DEF Capture
    <3> QED BY <2>2, <3>4, SpawnStep DEF TaskSpawnCaptured, MaySpawn
  <2> QED BY <1>2, <2>1, <2>2 DEF TaskOperation
<1>3. CASE ObligationOperation
  BY <1>3, NoTaskStep
     DEF ObligationOperation, ObligationReserve, ObligationCommit, ObligationAbort,
         ObligationResolve
<1>4. CASE CancelOperation
  <2>1. Kinds \subseteq CancelKinds /\ Origins \subseteq RegionHandles \cup {InvalidId}
    BY CancellationAssumption, RuntimeAssumption
  <2>2. ASSUME NEW i \in TaskSlots, NEW kind \in Kinds, TaskCancel(i, kind) PROVE ArenaStep
    BY <2>1, <2>2, ArenaFacts, CancelledStep, OneTaskStep DEF TaskCancel
  <2>3. ASSUME NEW i \in TaskSlots, NEW kind \in Kinds, NEW origin \in Origins,
               TaskCancelWithOrigin(i, kind, origin)
        PROVE  ArenaStep
    BY <2>1, <2>3, ArenaFacts, CancelledFromStep, OneTaskStep DEF TaskCancelWithOrigin
  <2>4. ASSUME NEW h \in RegionHandles, NEW kind \in Kinds, CancelPropagate(h, kind)
        PROVE  ArenaStep
    BY <2>1, <2>4, PropagateStep DEF CancelPropagate
  <2>5. ASSUME NEW i \in TaskSlots, NEW p \in {"Cancelling", "Finalizing"}, i < taskCount,
               UNCHANGED taskCount,
               tasks[i].state = (IF p = "Cancelling" THEN "CancelRequested" ELSE "Cancelling"),
               tasks' = [tasks EXCEPT ![i].state = p, ![i].phase = p]
        PROVE  ArenaStep
    <3> DEFINE u == [tasks[i] EXCEPT !.state = p, !.phase = p]
    <3>1. TaskStep(tasks[i], u)
      BY <2>5, ArenaFacts, PhaseStep
    <3>2. tasks' = [tasks EXCEPT ![i] = u]
      BY <2>5
    <3> HIDE DEF u
    <3> QED BY <2>5, <3>1, <3>2, OneTaskStep
  <2>6. ASSUME NEW i \in TaskSlots, Checkpoint(i) PROVE ArenaStep
    <3>1. tasks[i].state = (IF "Cancelling" = "Cancelling" THEN "CancelRequested" ELSE "Cancelling")
      BY <2>6 DEF Checkpoint
    <3> QED BY <2>5, <2>6, <3>1 DEF Checkpoint
  <2>7. ASSUME NEW i \in TaskSlots, TaskFinalize(i) PROVE ArenaStep
    <3>1. tasks[i].state = (IF "Finalizing" = "Cancelling" THEN "CancelRequested" ELSE "Cancelling")
      BY <2>7 DEF TaskFinalize
    <3> QED BY <2>5, <2>7, <3>1 DEF TaskFinalize
  <2> QED BY <1>4, <2>2, <2>3, <2>4, <2>6, <2>7 DEF CancelOperation
<1> QED BY <1>1, <1>2, <1>3, <1>4 DEF Operation

\* A drain propagates once or twice before it runs.
LEMMA EnterArena ==
  ASSUME TypeInv, CancelInv, Enter
  PROVE  ArenaStep
<1>1. PICK h \in RegionHandles, budget \in 0 .. MaxBudget :
        SchedulerRun(h, budget) \/ RegionDrain(h, budget)
  BY DEF Enter
<1>2. CASE SchedulerRun(h, budget)
  BY <1>2, NoTaskStep DEF SchedulerRun, lifecycleVars
<1>3. CASE RegionDrain(h, budget)
  <2> DEFINE opening == IF regions[h.slot].state = "Open"
                        THEN Propagated(tasks, h, "Parent") ELSE tasks
  <2>1. taskCount' = taskCount /\ "Parent" \in CancelKinds
    BY <1>3 DEF RegionDrain, CancelKinds
  <2>2. tasks' = opening \/ tasks' = Propagated(opening, h, "Parent")
    BY <1>3 DEF RegionDrain, DrainCancels
  <2>3. opening \in [TaskSlots -> Task]
    BY <2>1, ArenaFacts, PropagatedType
  <2>4. ASSUME NEW i \in TaskSlots, i < taskCount
        PROVE  TaskStep(tasks[i], opening[i])
               /\ (IsTerminal(tasks[i].state) <=> IsTerminal(opening[i].state))
               /\ ((~IsTerminal(tasks[i].state) /\ opening[i].pending) \/ opening[i] = tasks[i])
    BY <2>1, <2>4, ArenaFacts, PropagatedStep
  <2>5. ASSUME NEW i \in TaskSlots, i >= taskCount
        PROVE  opening[i] = tasks[i] /\ Propagated(opening, h, "Parent")[i] = opening[i]
    BY <2>5, ArenaFacts DEF Propagated
  <2> HIDE DEF opening
  <2>6. ASSUME NEW i \in TaskSlots, i < taskCount
        PROVE  TaskStep(tasks[i], Propagated(opening, h, "Parent")[i])
    <3> DEFINE u == opening[i]
               v == Propagated(opening, h, "Parent")[i]
    <3>1. TaskStep(tasks[i], u) /\ TaskInv(u)
      BY <2>4, <2>6 DEF TaskStep
    <3>2. TaskStep(u, v) /\ (u.pending => v.state = u.state)
      BY <2>1, <2>3, <3>1, PropagatedStep
    <3>3. tasks[i] \in Task /\ u \in Task /\ v \in Task
      BY <2>1, <2>3, ArenaFacts, PropagatedType
    <3>4. CASE u = tasks[i]
      BY <3>2, <3>4
    <3>5. CASE u.pending
      <4>1. v.state = u.state
        BY <3>2, <3>5
      <4>2. IsTerminal(tasks[i].state) <=> IsTerminal(u.state)
        BY <2>4, <2>6
      <4> QED BY <3>1, <3>2, <3>3, <4>1, <4>2, StepsCompose
    <3> QED BY <2>4, <2>6, <3>4, <3>5
  <2> QED BY <2>1, <2>2, <2>4, <2>5, <2>6, ArenaFacts DEF ArenaStep
<1> QED BY <1>1, <1>2, <1>3

\* The scheduler completes, starts and polls tasks.
LEMMA InternalArena ==
  ASSUME TypeInv, CancelInv, Internal
  PROVE  ArenaStep
<1>1. ASSUME NEW i \in TaskSlots, ScanForce(i) PROVE ArenaStep
  <2>1. i < taskCount /\ ~IsTerminal(tasks[i].state)
    BY <1>1 DEF ScanForce, Scanned, LiveTasks
  <2>2. tasks[i].pending
    BY <1>1, <2>1, ArenaFacts DEF ScanForce, OutOfCleanup, TaskInv
  <2>3. TaskStep(tasks[i], ForcedCompletion(tasks[i]))
    BY <2>1, <2>2, ArenaFacts, CompleteStep
  <2> QED BY <1>1, <2>1, <2>3, OneTaskStep DEF ScanForce
<1>2. ASSUME NEW i \in TaskSlots, ScanPoll(i) PROVE ArenaStep
  <2>1. i < taskCount
    BY <1>2 DEF ScanPoll, Scanned, LiveTasks
  <2> DEFINE u == [tasks[i] EXCEPT !.state =
                     IF tasks[i].state = "Created" THEN "Running" ELSE tasks[i].state]
  <2>2. TaskStep(tasks[i], u)
    BY <2>1, ArenaFacts, PolledStep
  <2>3. UNCHANGED taskCount /\ (UNCHANGED tasks \/ tasks' = [tasks EXCEPT ![i] = u])
    BY <1>2 DEF ScanPoll
  <2> HIDE DEF u
  <2> QED BY <2>1, <2>2, <2>3, OneTaskStep, NoTaskStep
<1>3. CASE RoundBegin \/ ScanEnd \/ DrainAdvance \/ Return
  BY <1>3, NoTaskStep DEF RoundBegin, ScanEnd, DrainAdvance, Return, lifecycleVars
<1> QED BY <1>1, <1>2, <1>3 DEF Internal, Scan

\* The task whose callback returns is completed or spends a cleanup poll, and a fault
\* cancels the others of its region.
LEMMA CallbackReturnArena ==
  ASSUME TypeInv, CancelInv, CallbackReturn
  PROVE  ArenaStep
<1> DEFINE i == Top.next
<1>1. i \in TaskSlots /\ i < taskCount /\ UNCHANGED taskCount
  <2>1. At("poll") /\ UNCHANGED taskCount
    BY DEF CallbackReturn, PollOk, PollError, PollPending
  <2>2. FrameShape(Top) /\ Top \in Frame /\ depth \in 1 .. MaxDepth
    BY <2>1, TopType DEF At
  <2>3. Top.next < taskCount /\ Top.next \in 0 .. MaxTasks /\ taskCount \in 0 .. MaxTasks
    BY <2>1, <2>2 DEF At, FrameShape, Frame, TypeInv, TypeOK, LifecycleTypeOK
  <2> QED BY <2>1, <2>3, LifecycleAssumption DEF TaskSlots
<1> HIDE DEF i
<1>2. CASE PollOk
  <2>1. TaskStep(tasks[i], Complete(tasks[i], "Ok"))
    BY <1>1, ArenaFacts, CompleteStep
  <2> QED BY <1>1, <1>2, <2>1, OneTaskStep DEF PollOk, i
<1>3. CASE PollError
  <2> DEFINE completed == [tasks EXCEPT ![i] = Complete(tasks[i], "Err")]
  <2>1. /\ TaskStep(tasks[i], Complete(tasks[i], "Err"))
        /\ IsTerminal(Complete(tasks[i], "Err").state)
        /\ Complete(tasks[i], "Err") \in Task
    BY <1>1, ArenaFacts, CompleteStep, CompleteType
  <2>2. CASE Policy = "PoisonRegion"
    <3>1. tasks' = Propagated(completed, Top.region, "Resource")
      BY <1>3, <2>2 DEF PollError, i
    <3>2. completed \in [TaskSlots -> Task] /\ "Resource" \in CancelKinds
      BY <2>1, ArenaFacts DEF CancelKinds
    <3>3. Top.region \in RegionHandles
      BY <1>3, TopType DEF PollError, At, FrameShape
    <3>4. tasks'[i] = Complete(tasks[i], "Err")
      BY <1>1, <2>1, <3>1, ArenaFacts DEF Propagated, Reaches
    <3>5. ASSUME NEW j \in TaskSlots, j # i, j < taskCount PROVE TaskStep(tasks[j], tasks'[j])
      <4>1. completed[j] = tasks[j] /\ TaskInv(completed[j])
        BY <3>5, ArenaFacts
      <4> HIDE DEF completed
      <4> QED BY <3>1, <3>2, <3>3, <4>1, PropagatedStep
    <3>6. ASSUME NEW j \in TaskSlots, j >= taskCount PROVE tasks'[j] = tasks[j]
      BY <1>1, <3>1, <3>6, ArenaFacts DEF Propagated
    <3> QED BY <1>1, <2>1, <3>4, <3>5, <3>6, ArenaFacts DEF ArenaStep
  <2>3. CASE Policy # "PoisonRegion"
    BY <1>1, <1>3, <2>1, <2>3, OneTaskStep DEF PollError, i
  <2> QED BY <2>2, <2>3
<1>4. CASE PollPending
  <2>1. TaskStep(tasks[i], Spent(tasks[i]))
    BY <1>1, ArenaFacts, PolledStep
  <2> QED BY <1>1, <1>4, <2>1, OneTaskStep DEF PollPending, i
<1> QED BY <1>2, <1>3, <1>4 DEF CallbackReturn

LEMMA StepArena == TypeInv /\ CancelInv /\ [Next]_vars => ArenaStep
<1> SUFFICES ASSUME TypeInv, CancelInv, [Next]_vars PROVE ArenaStep
  OBVIOUS
<1>1. CASE UNCHANGED vars
  BY <1>1, NoTaskStep DEF vars, lifecycleVars
<1> QED BY <1>1, OperationArena, EnterArena, InternalArena, CallbackReturnArena DEF Next

----------------------------------------------------------------------------
(* The theorems *)

LEMMA CancelInit == Init => CancelInv
BY LifecycleAssumption DEF Init, LifecycleInit, CancelInv, NewTask, TaskSlots

LEMMA CancelNext == TypeInv /\ CancelInv /\ [Next]_vars => CancelInv'
<1> SUFFICES ASSUME TypeInv, CancelInv, [Next]_vars PROVE CancelInv'
  OBVIOUS
<1>1. ArenaStep
  BY StepArena
<1>2. taskCount' \in Nat
  BY TypeStep DEF TypeInv, TypeOK, LifecycleTypeOK
<1>3. ASSUME NEW i \in TaskSlots
      PROVE  IF i < taskCount' THEN TaskInv(tasks'[i]) ELSE ~tasks'[i].pending
  <2>1. i \in Nat /\ taskCount \in Nat
    BY ArenaFacts
  <2>2. CASE i < taskCount
    BY <1>1, <2>2 DEF ArenaStep, TaskStep
  <2>3. CASE i >= taskCount
    BY <1>1, <2>3 DEF ArenaStep
  <2> QED BY <2>1, <2>2, <2>3
<1> QED BY <1>3 DEF CancelInv, TaskInv, Quota

LEMMA CancelInvariant == Spec => [](TypeInv /\ CancelInv)
BY TypeInit, TypeStep, CancelInit, CancelNext, PTL DEF Spec

\* Whatever the order of signals, checkpoints, polls and completions, the cancel fields
\* of every task agree with its state and its outcome (cancellation.c, scheduler.c).
THEOREM CancelCorrect == Spec => []CancelConsistent
<1>1. TypeInv /\ CancelInv => CancelConsistent
  BY ArenaFacts DEF CancelConsistent, TaskInv
<1> QED BY <1>1, CancelInvariant, PTL

\* A task never holds more cleanup polls than the kind in force grants, although a
\* stronger signal only takes the minimum with what is left (cancellation.c).
THEOREM CleanupBounded == Spec => []CleanupWithinQuota
<1>1. TypeInv /\ CancelInv => CleanupWithinQuota
  <2> SUFFICES ASSUME TypeInv, CancelInv, NEW i \in TaskSlots, tasks[i].pending
               PROVE  tasks[i].polls <= Quota(tasks[i].kind)
    BY DEF CleanupWithinQuota
  <2>1. i < taskCount
    BY ArenaFacts
  <2> QED BY <2>1, ArenaFacts DEF TaskInv
<1> QED BY <1>1, CancelInvariant, PTL

\* Cancellation only ever narrows: no step withdraws a signal, weakens it, gives cleanup
\* polls back or lets an equal signal replace the kind and the origin.
THEOREM CancelNarrows == Spec => CleanupNarrows
<1> DEFINE Narrows ==
      \A i \in TaskSlots : tasks[i].pending =>
        LET t == tasks[i]
            u == tasks'[i]
        IN  /\ u.pending
            /\ Severity[u.kind] >= Severity[t.kind]
            /\ u.polls <= t.polls
            /\ ~IsTerminal(t.state) /\ Severity[u.kind] = Severity[t.kind] =>
                 u.kind = t.kind /\ u.origin = t.origin
<1>1. TypeInv /\ CancelInv /\ [Next]_vars => [Narrows]_vars
  <2> SUFFICES ASSUME TypeInv, CancelInv, [Next]_vars, NEW i \in TaskSlots, tasks[i].pending
               PROVE  TaskStep(tasks[i], tasks'[i])
    BY DEF TaskStep
  <2>1. i < taskCount
    BY ArenaFacts
  <2> QED BY <2>1, StepArena DEF ArenaStep
<1> QED BY <1>1, CancelInvariant, PTL DEF Spec, CleanupNarrows

\* The states the code assigns follow the authority table nothing consults.
THEOREM TransitionsLegal == Spec => TaskTransitionsLegal
<1> DEFINE Legal ==
      \A i \in TaskSlots : i < taskCount /\ tasks'[i].state # tasks[i].state =>
        <<tasks[i].state, tasks'[i].state>> \in TaskEdges
<1>1. TypeInv /\ CancelInv /\ [Next]_vars => [Legal]_vars
  BY StepArena DEF ArenaStep, TaskStep
<1> QED BY <1>1, CancelInvariant, PTL DEF Spec, TaskTransitionsLegal

====
