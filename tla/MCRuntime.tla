---- MODULE MCRuntime ----
(***************************************************************************)
(* The kernel's modules for the model checker, and the values of their     *)
(* constants.  Quotas keep the order of quota_by_severity[] and end at 0,  *)
(* so that a strengthened task can be out of cleanup polls at once.        *)
(***************************************************************************)
EXTENDS ResourceAdmission, KernelInvariants

MCCleanupQuota == [s \in 0 .. 5 |-> IF s < 3 THEN 2 ELSE IF s < 5 THEN 1 ELSE 0]
OnePoll == [s \in 0 .. 5 |-> 1]
\* Strong cancels leave no cleanup poll: the scheduler completes their tasks unpolled.
WeakOnly == [s \in 0 .. 5 |-> IF s < 4 THEN 1 ELSE 0]
MCOrigins == {[slot |-> 0, gen |-> 0]}
NoOrigins == {}

----------------------------------------------------------------------------
(* Statements the repository makes about the runtime kernel that the code does *)
(* not keep.  Each is checked alone, and each fails.                          *)

\* runtime.h:118-119: on a poisoned region "all mutating operations (spawn, close,
\* schedule) return ASX_E_REGION_POISONED".  asx_scheduler_run does not look.
PoisonBlocksSchedule ==
  [][depth' > depth /\ ~frames'[depth'].drain =>
       ~regions[frames'[depth'].region.slot].poisoned]_vars

\* runtime.h:450-451: after a successful drain the "region reaches CLOSED state; all
\* tasks completed".
DrainPostcondition ==
  At("return") /\ Top.drain /\ Top.status = "Ok" =>
    /\ regions[Top.region.slot].state = "Closed"
    /\ LiveTasks(Top.region) = {}

\* resource.h:70-72: asx_resource_admit tells "whether `count` more of `kind` can be
\* allocated".  The slot of a closed region can, and it is counted as used.
AdmissionTellsTruth ==
  Admits("Region", 1) <=> \E s \in RegionSlots : Recyclable(s)
====
