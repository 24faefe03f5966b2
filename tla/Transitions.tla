---- MODULE Transitions ----
(***************************************************************************)
(* The authority tables of src/core/transition_tables.c and the cancel     *)
(* kinds of include/asx/asx_ids.h.  Everything here is constant: a table   *)
(* is the set of its legal (from, to) edges.                               *)
(***************************************************************************)
EXTENDS Naturals

RegionStates == {"Open", "Closing", "Draining", "Finalizing", "Closed"}

RegionEdges ==
  { <<"Open", "Closing">>, <<"Closing", "Draining">>, <<"Closing", "Finalizing">>,
    <<"Draining", "Finalizing">>, <<"Finalizing", "Closed">> }

\* asx_region_can_spawn
CanSpawn(s) == s = "Open"

TaskStates == {"Created", "Running", "CancelRequested", "Cancelling",
               "Finalizing", "Completed"}

TaskEdges ==
  { <<"Created", "Running">>, <<"Created", "CancelRequested">>, <<"Created", "Completed">>,
    <<"Running", "CancelRequested">>, <<"Running", "Completed">>,
    <<"CancelRequested", "CancelRequested">>, <<"CancelRequested", "Cancelling">>,
    <<"CancelRequested", "Completed">>,
    <<"Cancelling", "Cancelling">>, <<"Cancelling", "Finalizing">>,
    <<"Cancelling", "Completed">>,
    <<"Finalizing", "Finalizing">>, <<"Finalizing", "Completed">> }

\* asx_task_is_terminal
IsTerminal(s) == s = "Completed"

ObligationStates == {"Reserved", "Committed", "Aborted", "Leaked"}

ObligationEdges == {"Reserved"} \X {"Committed", "Aborted", "Leaked"}

CancelKinds == {"User", "Timeout", "Deadline", "PollQuota", "CostBudget", "FailFast",
                "RaceLost", "LinkedExit", "Parent", "Resource", "Shutdown"}

\* asx_cancel_severity: the groups of the severity[] array.
Severity ==
  [k \in CancelKinds |->
     CASE k = "User" -> 0
       [] k \in {"Timeout", "Deadline"} -> 1
       [] k \in {"PollQuota", "CostBudget"} -> 2
       [] k \in {"FailFast", "RaceLost", "LinkedExit"} -> 3
       [] k \in {"Parent", "Resource"} -> 4
       [] k = "Shutdown" -> 5]

CancelPhases == {"Requested", "Cancelling", "Finalizing", "Completed"}

Outcomes == {"Ok", "Err", "Cancelled"}

====
