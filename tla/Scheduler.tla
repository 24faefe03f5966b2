---- MODULE Scheduler ----
(***************************************************************************)
(* src/runtime/scheduler.c, asx_scheduler_run, and the part of             *)
(* src/runtime/quiescence.c, asx_region_drain, that surrounds it.          *)
(*                                                                         *)
(* The runtime is single-threaded: what interleaves is the code of the     *)
(* poll callbacks, which may call any operation of the runtime before they *)
(* return.  A call of asx_scheduler_run or asx_region_drain in progress is *)
(* a frame, with the locals the C function keeps; a callback that runs a   *)
(* region itself pushes another frame on top.                              *)
(*                                                                         *)
(* The event log, the trace and the ghost monitors observe these steps and *)
(* change nothing in them; they are left out here.                         *)
(***************************************************************************)
EXTENDS Cancellation

CONSTANTS
  MaxDepth,        \* bound on scheduler and drain calls nested on the C stack
  Reentrant,       \* may a callback run or drain a region that is already running?
  MaxBudget,       \* bound on the poll budgets callers pass
  Policy           \* asx_containment_policy_active(), fixed by the build profile

Policies == {"FailFast", "PoisonRegion", "ErrorOnly"}

ASSUME SchedulerAssumption ==
  /\ MaxDepth \in Nat \ {0} /\ MaxBudget \in Nat
  /\ Reentrant \in BOOLEAN /\ Policy \in Policies

VARIABLES frames, depth
schedulerVars == <<frames, depth>>
vars == <<lifecycleVars, schedulerVars>>

\* Where a frame is: about to start a round, scanning the arena at "next", inside
\* the callback of task "next", after the scheduler in a drain, or about to return.
PCs == {"round", "scan", "poll", "advance", "return"}

Statuses == {"None", "Ok", "BudgetExhausted", "Fault", "TasksLive", "ObligationsUnresolved"}

Frame == [pc : PCs, drain : BOOLEAN, region : RegionHandles \cup {InvalidId},
          next : 0 .. MaxTasks, active : 0 .. MaxTasks, budget : 0 .. MaxBudget,
          status : Statuses]

NoFrame == [pc |-> "return", drain |-> FALSE, region |-> InvalidId, next |-> 0,
            active |-> 0, budget |-> 0, status |-> "None"]

SchedulerTypeOK ==
  /\ frames \in [1 .. MaxDepth -> Frame]
  /\ depth \in 0 .. MaxDepth

SchedulerInit ==
  /\ frames = [d \in 1 .. MaxDepth |-> NoFrame]
  /\ depth = 0

Top == frames[depth]
At(pc) == depth > 0 /\ Top.pc = pc

\* The runtime is callable when nothing runs or the code running is a callback.
Callable == depth > 0 => Top.pc = "poll"

\* asx_scheduler_run and asx_region_drain do not look at the calls below them.
MayEnter(h) ==
  /\ Callable
  /\ depth < MaxDepth
  /\ Resolves(h)
  /\ Reentrant \/ \A d \in 1 .. depth : frames[d].region # h

Push(h, drain, pc, budget) ==
  /\ depth' = depth + 1
  /\ frames' = [frames EXCEPT ![depth + 1] =
                  [pc |-> pc, drain |-> drain, region |-> h, next |-> 0, active |-> 0,
                   budget |-> budget, status |-> "None"]]

Goto(f) == frames' = [frames EXCEPT ![depth] = f] /\ UNCHANGED depth

Finish(f, status) == Goto([f EXCEPT !.pc = "return", !.status = status])

Return ==
  /\ At("return")
  /\ frames' = [frames EXCEPT ![depth] = NoFrame]
  /\ depth' = depth - 1
  /\ UNCHANGED lifecycleVars

----------------------------------------------------------------------------
(* Entering *)

SchedulerRun(h, budget) ==
  /\ MayEnter(h)
  /\ Push(h, FALSE, "round", budget)
  /\ UNCHANGED lifecycleVars

HasUncancelled(ts, h) ==
  \E i \in TaskSlots : i < taskCount /\ ts[i].region = h
                       /\ ~IsTerminal(ts[i].state) /\ ~ts[i].pending

\* The arena after the two propagations asx_region_drain starts with.
DrainCancels(h) ==
  LET r == regions[h.slot]
      opening == IF r.state = "Open" THEN Propagated(tasks, h, "Parent") ELSE tasks
  IN  IF r.state \in {"Open", "Closing"} /\ r.taskCount > 0 /\ HasUncancelled(opening, h)
      THEN Propagated(opening, h, "Parent") ELSE opening

RegionDrain(h, budget) ==
  /\ MayEnter(h)
  /\ regions' = [regions EXCEPT ![h.slot].state = IF @ = "Open" THEN "Closing" ELSE @]
  /\ tasks' = DrainCancels(h)
  /\ Push(h, TRUE, IF regions[h.slot].taskCount > 0 THEN "round" ELSE "advance", budget)
  /\ UNCHANGED <<taskCount, obligations, obligationCount>>

----------------------------------------------------------------------------
(* The rounds of asx_scheduler_run *)

RoundBegin ==
  /\ At("round")
  /\ IF Top.budget = 0 THEN Finish(Top, "BudgetExhausted")
     ELSE Goto([Top EXCEPT !.pc = "scan", !.next = 0, !.active = 0])
  /\ UNCHANGED lifecycleVars

Scanned_AnyRegion(i) ==
  /\ i \in Top.next .. taskCount - 1
  /\ ~IsTerminal(tasks[i].state)
  /\ \A j \in Top.next .. taskCount - 1 : ~IsTerminal(tasks[j].state) => i <= j

\* The inner loop stops next at task i: the skipped ones are other regions' or completed.
Scanned(i) ==
  /\ i \in LiveTasks(Top.region)
  /\ i >= Top.next
  /\ \A j \in LiveTasks(Top.region) : j >= Top.next => i <= j

ForcedCompletion(t) == [t EXCEPT !.state = "Completed", !.phase = "Completed",
                      !.outcome = "Cancelled", !.capture = NoCapture]

Complete_IgnoresCancel(t, outcome) ==
  [t EXCEPT !.state = "Completed", !.outcome = outcome, !.capture = NoCapture]

\* A callback that returned OK or an error: a pending cancel decides the outcome.
Complete(t, outcome) ==
  IF t.pending THEN ForcedCompletion(t)
  ELSE [t EXCEPT !.state = "Completed", !.outcome = outcome, !.capture = NoCapture]

\* rslot, the slot looked up on entry, loses one task.
Uncount_Never(s) == regions
Uncount(s) == [regions EXCEPT ![s].taskCount = IF @ > 0 THEN @ - 1 ELSE @]

OutOfCleanup_AckedOnly(t) == t.pending /\ t.state = "Cancelling" /\ t.polls = 0

OutOfCleanup(t) ==
  t.pending /\ t.state \in {"CancelRequested", "Cancelling"} /\ t.polls = 0

\* A finalizing task, or one that used up its cleanup polls, completes unpolled.
ScanForce(i) ==
  /\ At("scan")
  /\ Scanned(i)
  /\ tasks[i].state = "Finalizing" \/ OutOfCleanup(tasks[i])
  /\ tasks' = [tasks EXCEPT ![i] = ForcedCompletion(@)]
  /\ regions' = Uncount(Top.region.slot)
  /\ Goto([Top EXCEPT !.next = i + 1])
  /\ UNCHANGED <<taskCount, obligations, obligationCount>>

ConsumePoll_Free(budget) == budget
\* asx_budget_consume_poll
ConsumePoll(budget) == budget - 1

\* Any other live task costs a poll: without budget the run ends, else the callback starts.
ScanPoll(i) ==
  /\ At("scan")
  /\ Scanned(i)
  /\ tasks[i].state # "Finalizing" /\ ~OutOfCleanup(tasks[i])
  /\ IF Top.budget = 0
     THEN Finish(Top, "BudgetExhausted") /\ UNCHANGED tasks
     ELSE /\ Goto([Top EXCEPT !.pc = "poll", !.next = i, !.active = @ + 1,
                              !.budget = ConsumePoll(@)])
          /\ tasks' = [tasks EXCEPT ![i].state = IF @ = "Created" THEN "Running" ELSE @]
  /\ UNCHANGED <<regions, taskCount, obligations, obligationCount>>

\* A round without active tasks is quiescence; a drain goes on to the close protocol.
ScanEnd ==
  /\ At("scan")
  /\ \A i \in LiveTasks(Top.region) : i < Top.next
  /\ IF Top.active > 0 THEN Goto([Top EXCEPT !.pc = "round"])
     ELSE IF Top.drain THEN Goto([Top EXCEPT !.pc = "advance"])
     ELSE Finish(Top, "Ok")
  /\ UNCHANGED lifecycleVars

----------------------------------------------------------------------------
(* The callback returns *)

AfterCompletion == [Top EXCEPT !.pc = "scan", !.next = @ + 1, !.active = @ - 1]

AfterPoll_Inactive == AfterCompletion
AfterPoll == [Top EXCEPT !.pc = "scan", !.next = @ + 1]

PollOk ==
  /\ At("poll")
  /\ tasks' = [tasks EXCEPT ![Top.next] = Complete(@, "Ok")]
  /\ regions' = Uncount(Top.region.slot)
  /\ Goto(AfterCompletion)
  /\ UNCHANGED <<taskCount, obligations, obligationCount>>

\* An error completes the task and goes to asx_region_contain_fault, which under
\* ASX_CONTAIN_POISON_REGION poisons the region and cancels it, and the run goes on.
PollError ==
  /\ At("poll")
  /\ LET completed == [tasks EXCEPT ![Top.next] = Complete(@, "Err")]
         counted == Uncount(Top.region.slot)
     IN  IF Policy = "PoisonRegion"
         THEN /\ tasks' = Propagated(completed, Top.region, "Resource")
              /\ regions' = IF Resolves(Top.region)
                            THEN [counted EXCEPT ![Top.region.slot].poisoned = TRUE]
                            ELSE counted
              /\ Goto(AfterCompletion)
         ELSE /\ tasks' = completed
              /\ regions' = counted
              /\ Finish(AfterCompletion, "Fault")
  /\ UNCHANGED <<taskCount, obligations, obligationCount>>

Spent_Free(t) == t
\* ASX_E_PENDING with a cancel pending uses up one cleanup poll.
Spent(t) == IF t.pending /\ t.polls > 0 THEN [t EXCEPT !.polls = @ - 1] ELSE t

PollPending ==
  /\ At("poll")
  /\ tasks' = [tasks EXCEPT ![Top.next] = Spent(@)]
  /\ Goto(AfterPoll)
  /\ UNCHANGED <<regions, taskCount, obligations, obligationCount>>

----------------------------------------------------------------------------
(* The close protocol of asx_region_drain *)

Unresolved_OffByOne(h) ==
  \E o \in ObligationSlots : o + 1 < obligationCount /\ obligations[o].region = h
                             /\ obligations[o].state = "Reserved"

Unresolved(h) ==
  \E o \in ObligationSlots : o < obligationCount /\ obligations[o].region = h
                             /\ obligations[o].state = "Reserved"

\* Closing and Draining lead to Finalizing, which closes once the obligations are
\* resolved.  r is the slot looked up on entry, whatever holds it by now.
DrainAdvance ==
  /\ At("advance")
  /\ LET s == Top.region.slot
         state == IF regions[s].state \in {"Closing", "Draining"} THEN "Finalizing"
                  ELSE regions[s].state
         blocked == state = "Finalizing" /\ Unresolved(Top.region)
     IN  IF regions[s].taskCount > 0
         THEN Finish(Top, "TasksLive") /\ UNCHANGED regions
         ELSE /\ regions' = [regions EXCEPT ![s].state =
                   IF state = "Finalizing" /\ ~blocked THEN "Closed" ELSE state]
              /\ Finish(Top, IF blocked THEN "ObligationsUnresolved" ELSE "Ok")
  /\ UNCHANGED <<tasks, taskCount, obligations, obligationCount>>

====
