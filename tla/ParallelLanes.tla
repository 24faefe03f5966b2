---- MODULE ParallelLanes ----
(***************************************************************************)
(* src/runtime/parallel.c: the second scheduler over the task arena of the *)
(* kernel.  It sorts the tasks of a region into lanes once, when a run     *)
(* begins, and shares the budget of each round between the lanes.  Poll    *)
(* callbacks may call the operations of the kernel and of the lanes before *)
(* they return; runs and drains are not nested in a parallel run here.     *)
(* The worker records only count polls and completions and are left out.   *)
(***************************************************************************)
EXTENDS Runtime, SequencesExt

CONSTANTS
  LaneCapacity,   \* ASX_LANE_TASK_CAPACITY
  Configs,        \* configurations passed to asx_parallel_init
  NoConfig,       \* what asx_parallel_reset leaves
  MaxHandles,     \* bound on the handles in all lanes together
  ForeignTasks,   \* may a callback assign a task of a region that is not being run?
  StarvationCap   \* bound at which the model stops counting starved rounds

Lanes == {"Ready", "Cancel", "Timed"}
LaneOrder == <<"Cancel", "Ready", "Timed">>
Fairness == {"RoundRobin", "Weighted", "Priority"}

ASSUME LaneAssumption ==
  /\ LaneCapacity \in Nat /\ MaxTasks \in 1 .. LaneCapacity
  /\ MaxHandles \in Nat /\ StarvationCap \in Nat
  /\ Configs \subseteq [fairness : Fairness, weights : [Lanes -> Nat]]
  /\ NoConfig \notin Configs /\ ForeignTasks \in BOOLEAN

\* A lane holds task handles; a handle carries the state its task had when it was made,
\* so the same task can appear under handles that compare as different.
Entry == [task : TaskSlots, mask : TaskStates]

VARIABLES
  config,     \* g_config, NoConfig when not initialized
  lanes,      \* task handles of each lane, in order
  starved,    \* starvation_count of each lane
  run         \* locals of an asx_parallel_run in progress
laneVars == <<config, lanes, starved, run>>
parallelVars == <<vars, laneVars>>

\* What is fixed on entry and counted during a run.  Two fields are no
\* variables of the code: "entered", the tasks sorted into lanes on entry and not taken out
\* by a callback since, and "busy", the lanes that had tasks when the round began and
\* still when their turn came.
Run == [pc : {"idle", "round", "pick", "lane", "poll", "roundEnd", "return"},
        region : RegionHandles \cup {InvalidId}, budget : 0 .. MaxBudget,
        quotas : [Lanes -> 0 .. MaxBudget], at : 1 .. 4, next : Nat, polls : Nat,
        tid : Entry, anyPolled : BOOLEAN, status : Statuses, entered : SUBSET TaskSlots,
        busy : SUBSET Lanes]

Idle == [pc |-> "idle", region |-> InvalidId, budget |-> 0, quotas |-> [l \in Lanes |-> 0],
         at |-> 1, next |-> 1, polls |-> 0, tid |-> [task |-> 0, mask |-> "Created"],
         anyPolled |-> FALSE, status |-> "None", entered |-> {}, busy |-> {}]

LanesTypeOK ==
  /\ config \in Configs \cup {NoConfig}
  /\ lanes \in [Lanes -> Seq(Entry)] /\ \A l \in Lanes : Len(lanes[l]) <= LaneCapacity
  /\ starved \in [Lanes -> 0 .. StarvationCap]
  /\ run \in Run

Empty == [l \in Lanes |-> <<>>]
AllEntries(ls) == UNION {ToSet(ls[l]) : l \in Lanes}
EntryOf(i) == [task |-> i, mask |-> tasks[i].state]

ParallelInit ==
  /\ Init /\ run = Idle /\ lanes = Empty /\ starved = [l \in Lanes |-> 0] /\ config = NoConfig

\* asx_parallel_init and asx_parallel_reset
Configure(c) ==
  /\ run.pc = "idle"
  /\ config' = c /\ lanes' = Empty /\ starved' = [l \in Lanes |-> 0]
  /\ UNCHANGED <<vars, run>>

----------------------------------------------------------------------------
(* Lanes *)

Removed_CutsTail(ls, e) ==
  [l \in Lanes |-> IF Contains(ls[l], e) THEN SubSeq(ls[l], 1, SelectInSeq(ls[l], LAMBDA x : x = e) - 1)
                   ELSE ls[l]]
\* asx_lane_remove: the first occurrence in the first lane that has the handle.
Removed(ls, e) ==
  LET order == <<"Ready", "Cancel", "Timed">>
      having == {k \in 1 .. 3 : Contains(ls[order[k]], e)}
  IN  IF having = {} THEN ls
      ELSE [ls EXCEPT ![order[CHOOSE k \in having : \A j \in having : k <= j]] =
              RemoveFirst(@, e)]

\* asx_lane_assign: a callback adds a task under the handle its spawn returned.  Nothing
\* asks whether a lane holds it already.
LaneAssign(i, l) ==
  /\ run.pc = "poll" /\ i < taskCount /\ Len(lanes[l]) < LaneCapacity
  /\ Len(lanes["Ready"]) + Len(lanes["Cancel"]) + Len(lanes["Timed"]) < MaxHandles
  /\ ForeignTasks \/ tasks[i].region = run.region
  /\ lanes' = [lanes EXCEPT ![l] = Append(@, [task |-> i, mask |-> "Created"])]
  /\ UNCHANGED <<vars, config, starved, run>>

LaneRemove(e) ==
  /\ run.pc = "poll" /\ e \in AllEntries(lanes)
  /\ lanes' = Removed(lanes, e)
  /\ run' = [run EXCEPT !.entered = @ \ {e.task}]
  /\ UNCHANGED <<vars, config, starved>>

LaneOf(t) == IF t.pending THEN "Cancel" ELSE "Ready"

Ascending(S) ==
  CHOOSE q \in SetToSeqs(S) : \A m, n \in DOMAIN q : m < n => q[m] < q[n]

\* The lanes a run starts with: live tasks of the region in the order of the arena, which
\* has no more slots than a lane.
Classified(h) ==
  [l \in Lanes |->
     LET order == Ascending({i \in LiveTasks(h) : LaneOf(tasks[i]) = l})
     IN  [n \in DOMAIN order |-> EntryOf(order[n])]]

----------------------------------------------------------------------------
(* Quotas *)

Active == {l \in Lanes : lanes[l] # <<>>}

Share(total) ==
  [l \in Lanes |-> IF l \in Active THEN total \div Cardinality(Active) ELSE 0]

WeightedShare(total) ==
  LET weight == [l \in Lanes |-> IF l \in Active THEN config.weights[l] ELSE 0]
      sum == weight["Ready"] + weight["Cancel"] + weight["Timed"]
  IN  [l \in Lanes |-> IF sum > 0 THEN (total * weight[l]) \div sum ELSE 0]

Quotas_AlwaysWeighted(total) ==
  IF config.fairness = "Priority" THEN [l \in Lanes |-> total] ELSE WeightedShare(total)
Quotas(total) ==
  CASE config.fairness = "RoundRobin" -> Share(total)
    [] config.fairness = "Weighted" -> WeightedShare(total)
    [] config.fairness = "Priority" -> [l \in Lanes |-> total]

----------------------------------------------------------------------------
(* A run *)

ParallelRun(h, budget) ==
  /\ run.pc = "idle" /\ config # NoConfig /\ Resolves(h)
  /\ lanes' = Classified(h)
  /\ run' = [Idle EXCEPT !.pc = "round", !.region = h, !.budget = budget,
                         !.entered = LiveTasks(h)]
  /\ UNCHANGED <<vars, config, starved>>

Stop(status) == run' = [run EXCEPT !.pc = "return", !.status = status]

ParallelReturn ==
  /\ run.pc = "return"
  /\ run' = Idle
  /\ UNCHANGED <<vars, config, lanes, starved>>

ParallelRound ==
  /\ run.pc = "round"
  /\ IF run.budget = 0 THEN Stop("BudgetExhausted")
     ELSE IF Active = {} THEN Stop("Ok")
     ELSE run' = [run EXCEPT !.pc = "pick", !.quotas = Quotas(run.budget), !.at = 1,
                             !.next = 1, !.polls = 0, !.anyPolled = FALSE, !.busy = Active]
  /\ UNCHANGED <<vars, config, lanes, starved>>

CurrentLane == LaneOrder[run.at]
Current == lanes[CurrentLane][run.next]

NextLane == [run EXCEPT !.pc = IF run.at = 3 THEN "roundEnd" ELSE "pick",
                        !.at = @ + 1, !.next = 1, !.polls = 0]

\* An empty lane is passed over and keeps its starvation count.
LanePick ==
  /\ run.pc = "pick"
  /\ run' = IF lanes[CurrentLane] = <<>> THEN [NextLane EXCEPT !.busy = @ \ {CurrentLane}]
            ELSE [run EXCEPT !.pc = "lane"]
  /\ UNCHANGED <<vars, config, lanes, starved>>

\* A lane with tasks left that was not polled has starved for one more round.
StarvedAfter(n) ==
  IF run.polls = 0 /\ lanes[CurrentLane] # <<>>
  THEN IF n < StarvationCap THEN n + 1 ELSE n
  ELSE 0

LaneDone ==
  /\ run.pc = "lane"
  /\ run.next > Len(lanes[CurrentLane]) \/ run.polls >= run.quotas[CurrentLane]
  /\ run' = NextLane
  /\ starved' = [starved EXCEPT ![CurrentLane] = StarvedAfter(@)]
  /\ UNCHANGED <<vars, config, lanes>>

InLane ==
  /\ run.pc = "lane"
  /\ run.next <= Len(lanes[CurrentLane]) /\ run.polls < run.quotas[CurrentLane]

LaneBudgetOut ==
  /\ InLane /\ run.budget = 0
  /\ Stop("BudgetExhausted")
  /\ UNCHANGED <<vars, config, lanes, starved>>

\* A task that completed in the meantime leaves its lane.
LanePrune ==
  /\ InLane /\ run.budget > 0
  /\ IsTerminal(tasks[Current.task].state)
  /\ lanes' = Removed(lanes, Current)
  /\ UNCHANGED <<vars, config, starved, run>>

\* The lanes with the handle at the cursor made anew from the task's state.
Refreshed == [lanes EXCEPT ![CurrentLane][run.next] = EntryOf(Current.task)]

LaneForce ==
  /\ InLane /\ run.budget > 0
  /\ LET i == Current.task
     IN  /\ tasks[i].state = "Finalizing" \/ OutOfCleanup(tasks[i])
         /\ tasks' = [tasks EXCEPT ![i] = ForcedCompletion(@)]
         /\ regions' = Uncount(run.region.slot)
         /\ lanes' = Removed(Refreshed, EntryOf(i))
  /\ UNCHANGED <<taskCount, obligations, obligationCount, schedulerVars, config, starved, run>>

LanePoll ==
  /\ InLane /\ run.budget > 0
  /\ LET i == Current.task
     IN  /\ ~IsTerminal(tasks[i].state) /\ tasks[i].state # "Finalizing"
         /\ ~OutOfCleanup(tasks[i])
         /\ tasks' = [tasks EXCEPT ![i].state = IF @ = "Created" THEN "Running" ELSE @]
  /\ lanes' = Refreshed
  /\ run' = [run EXCEPT !.pc = "poll", !.budget = ConsumePoll(@), !.polls = @ + 1,
                        !.tid = EntryOf(Current.task), !.anyPolled = TRUE]
  /\ UNCHANGED <<regions, taskCount, obligations, obligationCount, schedulerVars, config, starved>>

\* The callback returns.  run.tid is the handle it was polled under, a local of the C
\* function that the callback cannot change; the cursor moves only when it is pending.
Answered(taskArena, regionArena, lanesNow) ==
  /\ run.pc = "poll"
  /\ tasks' = taskArena /\ regions' = regionArena /\ lanes' = lanesNow
  /\ UNCHANGED <<taskCount, obligations, obligationCount, schedulerVars, config, starved>>

\* Back in the lane, the cursor moved on by n.
Answer(n) == run' = [run EXCEPT !.pc = "lane", !.next = @ + n, !.tid = Idle.tid]

ParallelOk ==
  /\ Answered([tasks EXCEPT ![run.tid.task] = Complete(@, "Ok")], Uncount(run.region.slot),
              Removed(lanes, run.tid))
  /\ Answer(0)

Poisoned(rs) ==
  IF Resolves(run.region) THEN [rs EXCEPT ![run.region.slot].poisoned = TRUE] ELSE rs

ParallelError ==
  LET completed == [tasks EXCEPT ![run.tid.task] = Complete(@, "Err")]
      counted == Uncount(run.region.slot)
  IN  IF Policy = "PoisonRegion"
      THEN /\ Answered(Propagated(completed, run.region, "Resource"), Poisoned(counted),
                       Removed(lanes, run.tid))
           /\ Answer(0)
      ELSE Answered(completed, counted, Removed(lanes, run.tid)) /\ Stop("Fault")

ParallelPending ==
  /\ Answered([tasks EXCEPT ![run.tid.task] = Spent(@)], regions, lanes)
  /\ Answer(1)

RoundEnd ==
  /\ run.pc = "roundEnd"
  /\ IF Active = {} THEN Stop("Ok")
     ELSE IF ~run.anyPolled THEN Stop("BudgetExhausted")
     ELSE run' = [run EXCEPT !.pc = "round"]
  /\ UNCHANGED <<vars, config, lanes, starved>>

----------------------------------------------------------------------------
\* An operation of the kernel on tasks, called by the program or by a callback.  Closing
\* and poisoning a region by hand, and obligations, say nothing to the lanes.
KernelOperation ==
  /\ run.pc \in {"idle", "poll"}
  /\ RegionOpen \/ TaskOperation \/ CancelOperation
  /\ UNCHANGED <<schedulerVars, laneVars>>

ParallelInternal ==
  \/ ParallelRound \/ LanePick \/ LaneDone \/ LaneBudgetOut \/ LanePrune \/ LaneForce
  \/ LanePoll \/ RoundEnd \/ ParallelReturn

ParallelNext ==
  \/ KernelOperation
  \/ \E c \in Configs \cup {NoConfig} : Configure(c)
  \/ \E h \in RegionHandles, budget \in 0 .. MaxBudget : ParallelRun(h, budget)
  \/ \E i \in TaskSlots, l \in Lanes : LaneAssign(i, l)
  \/ \E e \in AllEntries(lanes) : LaneRemove(e)
  \/ ParallelInternal
  \/ ParallelOk \/ ParallelError \/ ParallelPending

ParallelSpec == ParallelInit /\ [][ParallelNext]_parallelVars

----------------------------------------------------------------------------
(* Properties *)

\* A parallel run loses no task: what it sorted into lanes on entry stays there until it
\* completes, over removals at the cursor, handles made anew, tasks cancelled or completed
\* by callbacks and faults.  A run that reports OK has completed all of it.
LanesKeepTasks ==
  /\ run.pc # "idle" =>
       \A i \in run.entered : ~IsTerminal(tasks[i].state) =>
         \E e \in AllEntries(lanes) : e.task = i
  /\ run.status = "Ok" => \A i \in run.entered : IsTerminal(tasks[i].state)

\* Round robin starves no lane while the run goes on (parallel.h, "fairness guarantee"):
\* when a round follows another, every lane that had tasks in the one before, at its
\* beginning and at the lane's turn, and still has some was polled.  Weighted shares do
\* not have this; a lane that gets its first task in the middle of a round has to wait
\* for the next one, and so does one that a callback of an earlier lane emptied and one
\* of a later lane filled again.
RoundRobinServesAll ==
  config # NoConfig /\ config.fairness = "RoundRobin" /\ run.pc = "round" =>
    \A l \in run.busy : lanes[l] # <<>> => starved[l] = 0
====
