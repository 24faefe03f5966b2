---- MODULE Cancellation ----
(***************************************************************************)
(* src/runtime/cancellation.c with the cleanup quotas of src/core/cancel.c: *)
(* how a cancel signal reaches a task, is strengthened, observed at a      *)
(* checkpoint and finalized.                                               *)
(***************************************************************************)
EXTENDS Lifecycle

CONSTANTS
  CleanupQuota,    \* quota_by_severity[], the cleanup polls of each severity
  Kinds            \* the cancel kinds the callers use

ASSUME CancellationAssumption ==
  /\ CleanupQuota \in [0 .. 5 -> Nat]
  /\ \A s, t \in 0 .. 5 : s <= t => CleanupQuota[s] >= CleanupQuota[t]
  /\ Kinds \subseteq CancelKinds

Quota(kind) == CleanupQuota[Severity[kind]]

Stronger(kind, t) == Severity[kind] > Severity[t.kind]

----------------------------------------------------------------------------
FirstCancel(t, kind) ==
  [t EXCEPT !.state = "CancelRequested", !.pending = TRUE, !.kind = kind,
            !.origin = InvalidId, !.epoch = 1, !.polls = Quota(kind)]

\* A stronger kind replaces the old one and can only tighten the budget.
Strengthened_Refills(t, kind) ==
  IF Stronger(kind, t) THEN [t EXCEPT !.kind = kind, !.polls = Quota(kind)] ELSE t

Strengthened_KeepsPolls(t, kind) == IF Stronger(kind, t) THEN [t EXCEPT !.kind = kind] ELSE t

Strengthened(t, kind) ==
  LET u == IF Stronger(kind, t)
           THEN [t EXCEPT !.kind = kind,
                          !.polls = IF Quota(kind) < @ THEN Quota(kind) ELSE @]
           ELSE t
  IN  [u EXCEPT !.epoch = IF @ < EpochCap THEN @ + 1 ELSE @]

\* The states asx_task_cancel does not refuse with ASX_E_INVALID_STATE.
Cancellable(t) ==
  IsTerminal(t.state) \/ t.pending \/ t.state \in {"Created", "Running"}

Cancelled_Revives(t, kind) == IF t.pending THEN Strengthened(t, kind) ELSE FirstCancel(t, kind)

Cancelled(t, kind) ==
  IF IsTerminal(t.state) THEN t
  ELSE IF t.pending THEN Strengthened(t, kind) ELSE FirstCancel(t, kind)

\* asx_task_cancel_with_origin: the origin follows the cancel that set the kind.
\* The test reads the task as it was before the call and does not ask whether
\* asx_task_cancel did anything, so it also passes for a completed task.
CancelledFrom(t, kind, origin) ==
  [Cancelled(t, kind) EXCEPT
     !.origin = IF ~t.pending \/ Stronger(kind, t) THEN origin ELSE @]

TaskCancel(i, kind) ==
  /\ i < taskCount
  /\ Cancellable(tasks[i])
  /\ tasks' = [tasks EXCEPT ![i] = Cancelled(@, kind)]
  /\ UNCHANGED <<regions, taskCount, obligations, obligationCount>>

TaskCancelWithOrigin(i, kind, origin) ==
  /\ i < taskCount
  /\ Cancellable(tasks[i])
  /\ tasks' = [tasks EXCEPT ![i] = CancelledFrom(@, kind, origin)]
  /\ UNCHANGED <<regions, taskCount, obligations, obligationCount>>

----------------------------------------------------------------------------
Reaches_AnyRegion(t, h) == ~IsTerminal(t.state) /\ Cancellable(t)

Reaches(t, h) == t.region = h /\ ~IsTerminal(t.state) /\ Cancellable(t)

\* The task arena after asx_cancel_propagate(h, kind).
Propagated(ts, h, kind) ==
  [i \in TaskSlots |-> IF i < taskCount /\ Reaches(ts[i], h)
                       THEN CancelledFrom(ts[i], kind, h) ELSE ts[i]]

\* Public too, and it does not look the region up.
CancelPropagate(h, kind) ==
  /\ tasks' = Propagated(tasks, h, kind)
  /\ UNCHANGED <<regions, taskCount, obligations, obligationCount>>

----------------------------------------------------------------------------
\* asx_checkpoint acknowledges a requested cancel; otherwise it only reports.
Checkpoint(i) ==
  /\ i < taskCount
  /\ tasks[i].pending
  /\ tasks[i].state = "CancelRequested"
  /\ tasks' = [tasks EXCEPT ![i].state = "Cancelling", ![i].phase = "Cancelling"]
  /\ UNCHANGED <<regions, taskCount, obligations, obligationCount>>

TaskFinalize_AnyState(i) ==
  /\ i < taskCount
  /\ tasks[i].state \in {"Running", "CancelRequested", "Cancelling"}
  /\ tasks' = [tasks EXCEPT ![i].state = "Finalizing", ![i].phase = "Finalizing"]
  /\ UNCHANGED <<regions, taskCount, obligations, obligationCount>>

TaskFinalize(i) ==
  /\ i < taskCount
  /\ tasks[i].state = "Cancelling"
  /\ tasks' = [tasks EXCEPT ![i].state = "Finalizing", ![i].phase = "Finalizing"]
  /\ UNCHANGED <<regions, taskCount, obligations, obligationCount>>

====
