---- MODULE ResourceAdmission ----
(***************************************************************************)
(* src/runtime/resource.c: what a caller is told of the arenas before it   *)
(* allocates.  Pure readings of the kernel's state.                        *)
(***************************************************************************)
EXTENDS Runtime

Capacity(kind) ==
  CASE kind = "Region" -> MaxRegions
    [] kind = "Task" -> MaxTasks
    [] kind = "Obligation" -> MaxObligations

\* g_region_count counts the slots ever used: closing a region does not lower it.
Used(kind) ==
  CASE kind = "Region" -> Cardinality({s \in RegionSlots : regions[s].alive})
    [] kind = "Task" -> taskCount
    [] kind = "Obligation" -> obligationCount

Remaining(kind) == IF Used(kind) >= Capacity(kind) THEN 0 ELSE Capacity(kind) - Used(kind)

\* asx_resource_admit
Admits(kind, count) == count > 0 /\ count <= Remaining(kind)

\* asx_resource_region_capture_remaining
CaptureRemaining(h) == IF regions[h.slot].captureUsed >= ArenaBytes THEN 0
                       ELSE ArenaBytes - regions[h.slot].captureUsed

----------------------------------------------------------------------------
(* Properties *)

\* A caller that was admitted is served: with a task admitted and the bytes reported as
\* remaining, spawning with a captured state is not refused for want of room, whatever
\* sizes the states before it had.
AdmittedIsServed ==
  \A h \in RegionHandles : \A size \in CaptureSizes :
    Resolves(h) /\ Admits("Task", 1) /\ size <= CaptureRemaining(h) =>
      taskCount < MaxTasks /\ CaptureEnd(regions[h.slot].captureUsed, size) <= ArenaBytes
====
