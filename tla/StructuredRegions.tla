---- MODULE StructuredRegions ----
(***************************************************************************)
(* What structured concurrency promises of regions, with no scheduler, no  *)
(* cancel protocol and no arena: work enters a region only while it is     *)
(* open, and a region closes only when nothing it owns is outstanding.     *)
(***************************************************************************)
CONSTANTS Slots, TaskIds, ObligationIds

VARIABLES
  phase,     \* phase[s]: the life of the region in slot s
  owns,      \* owns[s]: its unfinished tasks
  owes,      \* owes[s]: its unresolved obligations
  fresh      \* the task and obligation names not handed out yet
vars == <<phase, owns, owes, fresh>>

Init ==
  /\ phase = [s \in Slots |-> "Free"]
  /\ owns = [s \in Slots |-> {}]
  /\ owes = [s \in Slots |-> {}]
  /\ fresh = [tasks |-> TaskIds, obligations |-> ObligationIds]

Open(s) ==
  /\ phase[s] \in {"Free", "Closed"}
  /\ phase' = [phase EXCEPT ![s] = "Open"]
  /\ UNCHANGED <<owns, owes, fresh>>

Close(s) ==
  /\ phase[s] = "Open"
  /\ phase' = [phase EXCEPT ![s] = "Closing"]
  /\ UNCHANGED <<owns, owes, fresh>>

Spawn(s, i) ==
  /\ phase[s] = "Open"
  /\ i \in fresh.tasks
  /\ fresh' = [fresh EXCEPT !.tasks = @ \ {i}]
  /\ owns' = [owns EXCEPT ![s] = @ \cup {i}]
  /\ UNCHANGED <<phase, owes>>

Complete(s, i) ==
  /\ i \in owns[s]
  /\ owns' = [owns EXCEPT ![s] = @ \ {i}]
  /\ UNCHANGED <<phase, owes, fresh>>

Reserve(s, o) ==
  /\ phase[s] = "Open"
  /\ o \in fresh.obligations
  /\ fresh' = [fresh EXCEPT !.obligations = @ \ {o}]
  /\ owes' = [owes EXCEPT ![s] = @ \cup {o}]
  /\ UNCHANGED <<phase, owns>>

Resolve(s, o) ==
  /\ o \in owes[s]
  /\ owes' = [owes EXCEPT ![s] = @ \ {o}]
  /\ UNCHANGED <<phase, owns, fresh>>

\* With its tasks gone a closing region settles, and closes once it owes nothing.
Settle(s) ==
  /\ phase[s] \in {"Closing", "Finalizing"}
  /\ owns[s] = {}
  /\ phase' = [phase EXCEPT ![s] = IF owes[s] = {} THEN "Closed" ELSE "Finalizing"]
  /\ UNCHANGED <<owns, owes, fresh>>

Next ==
  \E s \in Slots :
    \/ Open(s) \/ Close(s) \/ Settle(s)
    \/ \E i \in TaskIds : Spawn(s, i) \/ Complete(s, i)
    \/ \E o \in ObligationIds : Reserve(s, o) \/ Resolve(s, o)

Spec == Init /\ [][Next]_vars

====
