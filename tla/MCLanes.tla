---- MODULE MCLanes ----
(***************************************************************************)
(* ParallelLanes for the model checker: a configuration of each policy, the *)
(* weighted one with shares that integer division brings to 0.             *)
(***************************************************************************)
EXTENDS ParallelLanes

NoQuota == [s \in 0 .. 5 |-> IF s < 3 THEN 1 ELSE 0]
NoOrigins == {}
ReadyWeights == [l \in Lanes |-> IF l = "Ready" THEN 5 ELSE 1]
OneOfEach ==
  {[fairness |-> "RoundRobin", weights |-> ReadyWeights],
   [fairness |-> "Weighted", weights |-> ReadyWeights],
   [fairness |-> "Priority", weights |-> ReadyWeights]}

\* The lanes keep their ranges, and the count of a region's live tasks stays exact under
\* this second scheduler, which completes tasks on paths of its own.
LanesConsistent == LanesTypeOK /\ TaskCountExact
====
