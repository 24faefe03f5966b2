---- MODULE Lifecycle ----
(***************************************************************************)
(* src/runtime/lifecycle.c: the region, task and obligation arenas and the *)
(* operations on them.  Regions are recycled under a generation counter;   *)
(* tasks and obligations are allocated in index order and never recycled,  *)
(* so a slot is allocated exactly when its index is below the count.       *)
(*                                                                         *)
(* A call the code rejects changes nothing: its status is left out and the *)
(* rejection shows as the action not being enabled.                        *)
(***************************************************************************)
EXTENDS Transitions, FiniteSets

CONSTANTS
  MaxRegions,      \* ASX_MAX_REGIONS
  MaxTasks,        \* ASX_MAX_TASKS
  MaxObligations,  \* ASX_MAX_OBLIGATIONS
  GenMod,          \* 2^16: region generations are uint16_t
  Quarantine,      \* ASX_DEBUG_QUARANTINE: closed slots are never recycled
  ArenaBytes,      \* ASX_REGION_CAPTURE_ARENA_BYTES
  CaptureSizes,    \* the state sizes callers of asx_task_spawn_captured ask for
  EpochCap,        \* bound at which the model stops counting cancel_epoch
  InvalidId        \* ASX_INVALID_ID

RegionSlots == 0 .. MaxRegions - 1
TaskSlots == 0 .. MaxTasks - 1
ObligationSlots == 0 .. MaxObligations - 1
RegionHandles == [slot : RegionSlots, gen : 0 .. GenMod - 1]

ASSUME LifecycleAssumption ==
  /\ MaxRegions \in Nat /\ MaxTasks \in Nat /\ MaxObligations \in Nat
  /\ GenMod \in Nat \ {0} /\ EpochCap \in Nat \ {0} /\ ArenaBytes \in Nat
  /\ Quarantine \in BOOLEAN
  /\ CaptureSizes \subseteq Nat \ {0}
  /\ InvalidId \notin RegionHandles

VARIABLES regions, tasks, taskCount, obligations, obligationCount
lifecycleVars == <<regions, tasks, taskCount, obligations, obligationCount>>

Region == [state : RegionStates, taskCount : 0 .. MaxTasks, gen : 0 .. GenMod - 1,
           alive : BOOLEAN, poisoned : BOOLEAN, captureUsed : 0 .. ArenaBytes]

\* captured_state and captured_size, as an interval of the region's arena.
Capture == [start : 0 .. ArenaBytes, size : 0 .. ArenaBytes]
NoCapture == [start |-> 0, size |-> 0]

Task == [state : TaskStates, region : RegionHandles \cup {InvalidId}, outcome : Outcomes,
         pending : BOOLEAN, phase : CancelPhases, kind : CancelKinds,
         origin : RegionHandles \cup {InvalidId}, epoch : 0 .. EpochCap, polls : Nat,
         capture : Capture]

Obligation == [state : ObligationStates, region : RegionHandles \cup {InvalidId}]

LifecycleTypeOK ==
  /\ regions \in [RegionSlots -> Region]
  /\ tasks \in [TaskSlots -> Task]
  /\ taskCount \in 0 .. MaxTasks
  /\ obligations \in [ObligationSlots -> Obligation]
  /\ obligationCount \in 0 .. MaxObligations

----------------------------------------------------------------------------
NewTask(h, capture) ==
  [state |-> "Created", region |-> h, outcome |-> "Ok", pending |-> FALSE,
   phase |-> "Requested", kind |-> "User", origin |-> InvalidId, epoch |-> 0,
   polls |-> 0, capture |-> capture]

NewRegion(gen) ==
  [state |-> "Open", taskCount |-> 0, gen |-> gen, alive |-> TRUE,
   poisoned |-> FALSE, captureUsed |-> 0]

\* asx_runtime_reset, the state every program and every test starts from.
LifecycleInit ==
  /\ regions = [s \in RegionSlots |-> [NewRegion(0) EXCEPT !.alive = FALSE]]
  /\ tasks = [i \in TaskSlots |-> NewTask(InvalidId, NoCapture)]
  /\ taskCount = 0
  /\ obligations = [o \in ObligationSlots |-> [state |-> "Reserved", region |-> InvalidId]]
  /\ obligationCount = 0

\* asx_region_slot_lookup: the slot is in use by the generation the handle names.
Resolves(h) == regions[h.slot].alive /\ regions[h.slot].gen = h.gen

HandleOf(s) == [slot |-> s, gen |-> regions[s].gen]

\* The tasks of a region that have not completed.
LiveTasks(h) ==
  {i \in TaskSlots : i < taskCount /\ tasks[i].region = h /\ ~IsTerminal(tasks[i].state)}

\* The obligations of a region that are neither committed nor aborted.
Owed(h) ==
  {o \in ObligationSlots :
     o < obligationCount /\ obligations[o].region = h /\ obligations[o].state = "Reserved"}

----------------------------------------------------------------------------
(* Regions *)

Recyclable_AnyState(s) == ~regions[s].alive \/ regions[s].taskCount = 0

Recyclable(s) ==
  \/ ~regions[s].alive
  \/ ~Quarantine /\ regions[s].state = "Closed" /\ regions[s].taskCount = 0

NextGen_NoWrap(g) == g + 1
\* generation++ on a uint16_t
NextGen(g) == IF g + 1 = GenMod THEN 0 ELSE g + 1

\* asx_region_open takes the first recyclable slot.
RegionOpen ==
  \E s \in RegionSlots :
    /\ Recyclable(s)
    /\ \A r \in RegionSlots : r < s => ~Recyclable(r)
    /\ regions' = [regions EXCEPT ![s] =
                     NewRegion(IF @.alive THEN NextGen(@.gen) ELSE @.gen)]
    /\ UNCHANGED <<tasks, taskCount, obligations, obligationCount>>

\* asx_region_close moves the region and nothing else.
RegionClose(h) ==
  /\ Resolves(h)
  /\ ~regions[h.slot].poisoned
  /\ <<regions[h.slot].state, "Closing">> \in RegionEdges
  /\ regions' = [regions EXCEPT ![h.slot].state = "Closing"]
  /\ UNCHANGED <<tasks, taskCount, obligations, obligationCount>>

RegionPoison(h) ==
  /\ Resolves(h)
  /\ regions' = [regions EXCEPT ![h.slot].poisoned = TRUE]
  /\ UNCHANGED <<tasks, taskCount, obligations, obligationCount>>

----------------------------------------------------------------------------
(* Tasks *)

MaySpawn_Poisoned(h) ==
  Resolves(h) /\ CanSpawn(regions[h.slot].state) /\ taskCount < MaxTasks

MaySpawn(h) ==
  /\ Resolves(h)
  /\ ~regions[h.slot].poisoned
  /\ CanSpawn(regions[h.slot].state)
  /\ taskCount < MaxTasks

Allocate(h, capture) ==
  /\ tasks' = [tasks EXCEPT ![taskCount] = NewTask(h, capture)]
  /\ taskCount' = taskCount + 1
  /\ UNCHANGED <<obligations, obligationCount>>

TaskSpawn(h) ==
  /\ MaySpawn(h)
  /\ Allocate(h, NoCapture)
  /\ regions' = [regions EXCEPT ![h.slot].taskCount = @ + 1]

AlignUp_NextMultiple(v) == v + (8 - (v % 8))
\* asx_align_up_u32(v, 8)
AlignUp(v) == IF v % 8 = 0 THEN v ELSE v + (8 - (v % 8))

CaptureEnd_NoPadding(used, size) == used + size
\* The new capture_used of asx_region_capture_alloc, a bump allocator.
CaptureEnd(used, size) == AlignUp(used) + AlignUp(size)

\* asx_task_spawn_captured; a spawn refused after the allocation puts
\* capture_used back, so a refused call changes nothing.
TaskSpawnCaptured(h, size) ==
  /\ MaySpawn(h)
  /\ size <= ArenaBytes
  /\ CaptureEnd(regions[h.slot].captureUsed, size) <= ArenaBytes
  /\ Allocate(h, [start |-> AlignUp(regions[h.slot].captureUsed), size |-> size])
  /\ regions' = [regions EXCEPT
                   ![h.slot].taskCount = @ + 1,
                   ![h.slot].captureUsed = CaptureEnd(@, size)]

----------------------------------------------------------------------------
(* Obligations *)

ObligationReserve(h) ==
  /\ Resolves(h)
  /\ ~regions[h.slot].poisoned
  /\ CanSpawn(regions[h.slot].state)
  /\ obligationCount < MaxObligations
  /\ obligations' = [obligations EXCEPT ![obligationCount] =
                       [state |-> "Reserved", region |-> h]]
  /\ obligationCount' = obligationCount + 1
  /\ UNCHANGED <<regions, tasks, taskCount>>

\* asx_obligation_commit and asx_obligation_abort
ObligationResolve(o, target) ==
  /\ o < obligationCount
  /\ <<obligations[o].state, target>> \in ObligationEdges
  /\ obligations' = [obligations EXCEPT ![o].state = target]
  /\ UNCHANGED <<regions, tasks, taskCount, obligationCount>>

\* asx_obligation_commit
ObligationCommit(o) == ObligationResolve(o, "Committed")

\* asx_obligation_abort
ObligationAbort(o) == ObligationResolve(o, "Aborted")

====
