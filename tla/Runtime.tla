---- MODULE Runtime ----
(***************************************************************************)
(* The runtime kernel: every public operation of lifecycle.c,              *)
(* cancellation.c, scheduler.c and quiescence.c that changes state, called *)
(* by the program between runs or by a poll callback during one; the       *)
(* properties of it, the abstract specification it implements and what it  *)
(* gets done.                                                              *)
(***************************************************************************)
EXTENDS Scheduler

CONSTANT Origins   \* the origins callers pass to asx_task_cancel_with_origin

ASSUME RuntimeAssumption ==
  Origins \subseteq RegionHandles \cup {InvalidId} /\ Kinds # {}

Init == LifecycleInit /\ SchedulerInit

RegionOperation ==
  \/ RegionOpen
  \/ \E h \in RegionHandles : RegionClose(h) \/ RegionPoison(h)

TaskOperation ==
  \E h \in RegionHandles :
    TaskSpawn(h) \/ \E size \in CaptureSizes : TaskSpawnCaptured(h, size)

ObligationOperation ==
  \/ \E h \in RegionHandles : ObligationReserve(h)
  \/ \E o \in ObligationSlots : ObligationCommit(o) \/ ObligationAbort(o)

CancelOperation ==
  \/ \E i \in TaskSlots, kind \in Kinds :
       TaskCancel(i, kind) \/ \E origin \in Origins : TaskCancelWithOrigin(i, kind, origin)
  \/ \E h \in RegionHandles, kind \in Kinds : CancelPropagate(h, kind)
  \/ \E i \in TaskSlots : Checkpoint(i) \/ TaskFinalize(i)

\* A call that runs to its end without calling back.
Operation ==
  /\ Callable
  /\ RegionOperation \/ TaskOperation \/ ObligationOperation \/ CancelOperation
  /\ UNCHANGED schedulerVars

Enter ==
  \E h \in RegionHandles, budget \in 0 .. MaxBudget :
    SchedulerRun(h, budget) \/ RegionDrain(h, budget)

Scan == (\E i \in TaskSlots : ScanForce(i) \/ ScanPoll(i)) \/ ScanEnd

CallbackReturn == PollOk \/ PollError \/ PollPending

\* What the runtime does by itself once a run or a drain has been called.
Internal == RoundBegin \/ Scan \/ DrainAdvance \/ Return

Next == Operation \/ Enter \/ Internal \/ CallbackReturn

Spec == Init /\ [][Next]_vars

----------------------------------------------------------------------------
(* Invariants *)

\* Every variable keeps the shape of the C arenas and locals it stands for.
TypeOK == LifecycleTypeOK /\ SchedulerTypeOK

\* The task_count of a region (lifecycle.c, scheduler.c) is the number of its tasks
\* that have not completed, and no such task belongs to a region that is gone:
\* asx_region_drain and asx_region_open trust it to decide that nothing is left.
TaskCountExact ==
  /\ \A s \in RegionSlots : regions[s].taskCount = Cardinality(LiveTasks(HandleOf(s)))
  /\ \A i \in TaskSlots :
       i < taskCount /\ ~IsTerminal(tasks[i].state) => Resolves(tasks[i].region)

\* Quiescence (quiescence.c): once a region is finalizing none of its tasks is left
\* to run, and once it is closed none of its obligations is left reserved.
ClosedQuiescent ==
  \A s \in RegionSlots : regions[s].alive =>
    /\ regions[s].state \in {"Finalizing", "Closed"} => LiveTasks(HandleOf(s)) = {}
    /\ regions[s].state = "Closed" => Owed(HandleOf(s)) = {}

\* The cancel fields of a task (cancellation.c) agree with its state whatever the
\* order of signals, checkpoints and polls: the phase a checkpoint reports is that of
\* the state, and a cancelled task that completed has the outcome Cancelled.
CancelConsistent ==
  \A i \in TaskSlots : i < taskCount =>
    LET t == tasks[i]
    IN  /\ ~IsTerminal(t.state) =>
             (t.pending <=> t.state \in {"CancelRequested", "Cancelling", "Finalizing"})
        /\ t.pending => t.phase = (IF t.state = "CancelRequested" THEN "Requested" ELSE t.state)
        /\ IsTerminal(t.state) => (t.pending <=> t.outcome = "Cancelled")

\* A task never holds more cleanup polls than the strongest cancel it received
\* grants (cancellation.c), whichever signals came first: strengthening is the
\* minimum over all of them even though it only compares with a stronger kind.
CleanupWithinQuota ==
  \A i \in TaskSlots : tasks[i].pending => tasks[i].polls <= Quota(tasks[i].kind)

\* asx_scheduler_run and asx_region_drain (runtime.h) report success only when it
\* is so: the run's region has no live task, the drained region is closed with its
\* obligations resolved, though callbacks spawned and reserved all along.
HonestReturn ==
  At("return") /\ Top.status = "Ok" =>
    /\ LiveTasks(Top.region) = {}
    /\ Top.drain => /\ Resolves(Top.region)
                    /\ regions[Top.region.slot].state = "Closed"
                    /\ Owed(Top.region) = {}

\* A callback on the stack runs for a live task of a region that still exists, and
\* the state captured for it has not been released (scheduler.c, lifecycle.c).
PolledTaskAlive ==
  \A d \in 1 .. depth : frames[d].pc = "poll" =>
    /\ frames[d].next \in LiveTasks(frames[d].region)
    /\ Resolves(frames[d].region)

\* The captured states of live tasks of a region never overlap and stay within its
\* arena, across sizes that are not multiples of the alignment (lifecycle.c).
CapturesDisjoint ==
  \A i \in TaskSlots : i < taskCount /\ ~IsTerminal(tasks[i].state) =>
    /\ tasks[i].capture.start + tasks[i].capture.size <= ArenaBytes
    /\ \A j \in LiveTasks(tasks[i].region) \ {i} :
         LET a == tasks[i].capture
             b == tasks[j].capture
         IN  a.size = 0 \/ b.size = 0
             \/ a.start + a.size <= b.start \/ b.start + b.size <= a.start

\* A drain never finds a task alive after its run went quiescent: quiescence.c
\* returns ASX_E_QUIESCENCE_TASKS_LIVE for it, and the count would have to be wrong.
DrainNeverTasksLive == ~(At("return") /\ Top.status = "TasksLive")

----------------------------------------------------------------------------
(* Action properties *)

\* The states the code assigns to a task follow the authority table of
\* transition_tables.c, though nothing consults it: asx_task_transition_check is called
\* by the ghost monitor only.
TaskTransitionsLegal ==
  [][\A i \in TaskSlots : i < taskCount /\ tasks'[i].state # tasks[i].state =>
       <<tasks[i].state, tasks'[i].state>> \in TaskEdges]_vars

\* A task that completed keeps its outcome, and its state, for good.
OutcomeStable ==
  [][\A i \in TaskSlots : i < taskCount /\ IsTerminal(tasks[i].state) =>
       /\ tasks'[i].state = tasks[i].state
       /\ tasks'[i].outcome = tasks[i].outcome]_vars

\* Cancellation only ever narrows (cancellation.c): a signal is never withdrawn, its
\* severity never falls, the cleanup polls left never grow, and only a stronger
\* signal replaces the kind and the origin, over any mix of direct, attributed and
\* propagated cancels, checkpoints and polls.
CleanupNarrows ==
  [][\A i \in TaskSlots : tasks[i].pending =>
       LET t == tasks[i]
           u == tasks'[i]
       IN  /\ u.pending
           /\ Severity[u.kind] >= Severity[t.kind]
           /\ u.polls <= t.polls
           /\ ~IsTerminal(t.state) /\ Severity[u.kind] = Severity[t.kind] =>
                u.kind = t.kind /\ u.origin = t.origin]_vars

\* A poisoned region takes no new task and no new obligation, and stays poisoned
\* until its slot is recycled (runtime.h): asx_task_spawn_captured, which does not
\* test the flag itself, included.
PoisonSeals ==
  [][\A s \in RegionSlots :
       regions[s].alive /\ regions[s].poisoned /\ regions'[s].gen = regions[s].gen =>
         /\ regions'[s].poisoned
         /\ LiveTasks(HandleOf(s))' \subseteq LiveTasks(HandleOf(s))
         /\ Owed(HandleOf(s))' \subseteq Owed(HandleOf(s))]_vars

\* A fault is contained in its region (asx_region_contain_fault): the step that
\* fails a task cancels, completes or poisons nothing outside the region.
FaultContained ==
  [][PollError =>
       /\ \A i \in TaskSlots : tasks[i].region # Top.region => tasks'[i] = tasks[i]
       /\ \A s \in RegionSlots \ {Top.region.slot} : regions'[s] = regions[s]]_vars

----------------------------------------------------------------------------
(* The runtime implements StructuredRegions: a region owns its live tasks and owes its *)
(* reserved obligations.  Cancellation, polling and budgets disappear; generations     *)
(* become the reuse of a slot.                                                         *)

Abstract == INSTANCE StructuredRegions WITH
  Slots <- RegionSlots,
  TaskIds <- TaskSlots,
  ObligationIds <- ObligationSlots,
  phase <- [s \in RegionSlots |->
              IF regions[s].alive THEN regions[s].state ELSE "Free"],
  owns <- [s \in RegionSlots |-> LiveTasks(HandleOf(s))],
  owes <- [s \in RegionSlots |-> Owed(HandleOf(s))],
  fresh <- [tasks |-> {i \in TaskSlots : i >= taskCount},
            obligations |-> {o \in ObligationSlots : o >= obligationCount}]

\* Every behaviour of the runtime is one of StructuredRegions: nothing enters a
\* region that stopped being open, nothing moves between regions, every task and
\* obligation ends once, and a region closes owning and owing nothing.
ImplementsStructuredRegions == Abstract!Spec

----------------------------------------------------------------------------
(* What the runtime gets done, under three assumptions:                                *)
(*   - the C code runs: a step of a call in progress is taken (Internal), and a poll   *)
(*     callback, which must not block, returns;                                        *)
(*   - the program retries: asx_region_drain returns ASX_E_POLL_BUDGET_EXHAUSTED or    *)
(*     ASX_E_OBLIGATIONS_UNRESOLVED to be called again, and the program does call it   *)
(*     again between runs;                                                             *)
(*   - whoever reserved an obligation commits or aborts it in the end.                 *)
(* The program is busy with other regions meanwhile, hence strong fairness for the two *)
(* last.  No task is assumed to cooperate: its callback may return ASX_E_PENDING for   *)
(* ever and never reach a checkpoint.                                                  *)

CodeRuns == WF_vars(Internal) /\ WF_vars(CallbackReturn)

DrainSlot(s) ==
  depth = 0 /\ \E h \in RegionHandles, budget \in 1 .. MaxBudget :
                 h.slot = s /\ RegionDrain(h, budget)

ResolveDebt(o) ==
  depth = 0 /\ (ObligationCommit(o) \/ ObligationAbort(o)) /\ UNCHANGED schedulerVars

FairSpec ==
  /\ Spec
  /\ CodeRuns
  /\ \A s \in RegionSlots : SF_vars(DrainSlot(s))
  /\ \A o \in ObligationSlots : SF_vars(ResolveDebt(o))

\* A region that began to close is closed in the end (quiescence.c), whatever its
\* tasks do: each one is cancelled, its cleanup polls run out and it is forced.
ClosingCloses ==
  \A s \in RegionSlots : regions[s].state = "Closing" ~> regions[s].state = "Closed"

\* Every call of asx_scheduler_run and asx_region_drain returns: the budget bounds
\* the polls although callbacks spawn tasks and cancel each other during the run.
CallsReturn == depth > 0 ~> depth = 0

----------------------------------------------------------------------------
(* Bounded cleanup without a drain *)

RunSlot(s, budget) ==
  depth = 0 /\ \E h \in RegionHandles : h.slot = s /\ SchedulerRun(h, budget)

\* The program runs each region again and again, with a poll for every task it may hold: a
\* run scans from index 0, so with fewer polls the tasks behind may never be reached.
AmpleRuns ==
  /\ Spec
  /\ CodeRuns
  /\ \A s \in RegionSlots : SF_vars(\E b \in MaxTasks .. MaxBudget : RunSlot(s, b))

\* A cancelled task completes in the end (scheduler.c:130-131, "This ensures bounded
\* cleanup"), observed or not, while other tasks stay pending for ever.
CancelledCompletes ==
  \A i \in TaskSlots :
    tasks[i].state = "CancelRequested" ~> tasks[i].state = "Completed"

====
