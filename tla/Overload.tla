---- MODULE Overload ----
(***************************************************************************)
(* The overload decisions: asx_overload_evaluate of hft_instrument.c, the  *)
(* catalogue of policies, one for each profile (overload_catalog.c), the   *)
(* adapters' own thresholds with their CORE fallback (adapter.c), and the  *)
(* adapters over the catalogue with the router's streak of rejections      *)
(* (vertical_adapter.c).  A digest of a decision is the decision.          *)
(***************************************************************************)
EXTENDS AutomotiveInstrument

CONSTANTS
  LoadMax,        \* UINT32_MAX
  Loads,          \* the used counts decided on
  Capacities,     \* the capacities decided on
  StreakMax,      \* UINT32_MAX, where the streak stops
  ScenarioLists   \* the lists of <<used, capacity>> passed to asx_adapter_isomorphism_check

ASSUME OverloadAssumption ==
  LoadMax \in Nat /\ Loads \subseteq 0 .. LoadMax /\ Capacities \subseteq 0 .. LoadMax /\ StreakMax \in Nat

VARIABLE streak   \* g_router_reject_streak
overloadVars == <<automotiveVars, streak>>

PercentLoad(used, capacity) ==
  IF capacity = 0 THEN 100 ELSE Min({(used * 100) \div capacity, LoadMax})

----------------------------------------------------------------------------
(* Policies: hft_instrument.c and overload_catalog.c *)

Statuses == {"OK", "ADMISSION_CLOSED", "WOULD_BLOCK", "RESOURCE_EXHAUSTED"}
Entry(mode, threshold, shed, degrade) ==
  [mode |-> mode, threshold |-> threshold, shedMax |-> shed, degrade |-> degrade]

\* g_catalog
Catalog ==
  [p \in {"CORE", "POSIX", "WIN32", "FREESTANDING", "EMBEDDED_ROUTER", "HFT", "AUTOMOTIVE", "PARALLEL"} |->
     CASE p = "FREESTANDING"    -> Entry("REJECT", 80, 0, "NONE")
       [] p = "EMBEDDED_ROUTER" -> Entry("REJECT", 75, 0, "NONE")
       [] p = "HFT"             -> Entry("SHED_OLDEST", 85, 2, "SHED_TAIL")
       [] p = "AUTOMOTIVE"      -> Entry("BACKPRESSURE", 90, 0, "WATCHDOG_TRIP")
       [] OTHER                 -> Entry("REJECT", 90, 0, "NONE")]

EntryValid(entry) ==
  /\ entry.threshold <= 100
  /\ \/ entry.mode = "REJECT" /\ entry.shedMax = 0 /\ entry.degrade = "NONE"
     \/ entry.mode = "SHED_OLDEST" /\ entry.shedMax > 0 /\ entry.degrade = "SHED_TAIL"
     \/ entry.mode = "BACKPRESSURE" /\ entry.shedMax = 0
          /\ entry.degrade \in {"BACKPRESSURE", "WATCHDOG_TRIP"}

Decision(mode, triggered, load, shed, admit) ==
  [mode |-> mode, triggered |-> triggered, load |-> load, shed |-> shed, admit |-> admit]

\* What a policy does once it is triggered.
Admission(mode) ==
  CASE mode = "REJECT" -> "ADMISSION_CLOSED"
    [] mode = "SHED_OLDEST" -> "OK"
    [] mode = "BACKPRESSURE" -> "WOULD_BLOCK"

\* asx_overload_evaluate
Evaluated(policy, used, capacity) ==
  LET load == PercentLoad(used, capacity)
      triggered == load >= policy.threshold
      shed == IF policy.mode = "SHED_OLDEST" THEN Min({policy.shedMax, used}) ELSE 0
  IN  IF capacity = 0 THEN Decision(policy.mode, TRUE, 100, 0, "RESOURCE_EXHAUSTED")
      ELSE IF triggered THEN Decision(policy.mode, TRUE, load, shed, Admission(policy.mode))
      ELSE Decision(policy.mode, FALSE, load, 0, "OK")

\* asx_overload_catalog_decision_consistent
Consistent(entry, d) ==
  /\ d.mode = entry.mode
  /\ IF ~d.triggered THEN d.admit = "OK"
     ELSE /\ d.admit = Admission(entry.mode)
          /\ entry.mode = "SHED_OLDEST" => d.shed \in 1 .. entry.shedMax

----------------------------------------------------------------------------
(* The adapters of adapter.c *)

AdapterDomains == {"HFT", "AUTOMOTIVE", "ROUTER"}
ResourceClasses == {"R1", "R2", "R3"}

ScaledCapacity(capacity, class) ==
  CASE class = "R1" -> IF capacity > 1 THEN capacity \div 2 ELSE capacity
    [] class = "R2" -> capacity
    [] class = "R3" -> IF capacity > LoadMax \div 2 THEN LoadMax ELSE capacity * 2

\* The decision of one threshold; a capacity of 0 is a load of 100.
Threshold(mode, used, capacity, threshold, shed) ==
  LET load == PercentLoad(used, capacity)
  IN  IF capacity = 0
      THEN Decision(mode, TRUE, 100, 0,
                    IF mode = "BACKPRESSURE" THEN "WOULD_BLOCK" ELSE "ADMISSION_CLOSED")
      ELSE IF load >= threshold THEN Decision(mode, TRUE, load, shed, Admission(mode))
      ELSE Decision(mode, FALSE, load, 0, "OK")

CoreFallback(used, capacity) == Threshold("REJECT", used, capacity, 90, 0)
HftDecide(used, capacity) == Threshold("SHED_OLDEST", used, capacity, 85, Min({used, 2}))

\* Deadlines missed at a rate above 5 % tighten the threshold to 80 %.
AutoDecide(used, capacity) ==
  LET d == Threshold("BACKPRESSURE", used, capacity, 90, 0)
  IN  IF ~d.triggered /\ MissRate(deadlines) * 20 > RateScale /\ d.load >= 80
      THEN [d EXCEPT !.triggered = TRUE, !.admit = "WOULD_BLOCK"] ELSE d

RouterDecide_NoFallback(used, capacity, class) ==
  Threshold("REJECT", used, ScaledCapacity(capacity, class), 75, 0)
\* What CORE rejects at the unscaled capacity stays rejected.
RouterDecide(used, capacity, class) ==
  LET d == Threshold("REJECT", used, ScaledCapacity(capacity, class), 75, 0)
      core == PercentLoad(used, capacity)
  IN  IF ~d.triggered /\ capacity > 0 /\ core >= 90
      THEN [d EXCEPT !.triggered = TRUE, !.load = core, !.admit = "ADMISSION_CLOSED"] ELSE d

Dispatch(domain, used, capacity, class) ==
  CASE domain = "HFT" -> HftDecide(used, capacity)
    [] domain = "AUTOMOTIVE" -> AutoDecide(used, capacity)
    [] domain = "ROUTER" -> RouterDecide(used, capacity, class)

\* asx_adapter_prove_isomorphism compares whether the two paths see an overload, not what
\* they answer.
Isomorphic(domain, used, capacity, class) ==
  CoreFallback(used, capacity).triggered => Dispatch(domain, used, capacity, class).triggered

----------------------------------------------------------------------------
(* The adapters of vertical_adapter.c *)

OverloadInit == AutomotiveInit /\ streak = 0

\* g_descriptors and evaluate_via_catalog
ProfileOf(domain) == IF domain = "ROUTER" THEN "EMBEDDED_ROUTER" ELSE domain
ViaCatalog(domain, used, capacity) == Evaluated(Catalog[ProfileOf(domain)], used, capacity)

\* populate_router_annotations
NextStreak(triggered) == IF triggered THEN Min({streak + 1, StreakMax}) ELSE 0

\* asx_adapter_evaluate: only the accelerated router keeps something of it.
AdapterEvaluate(domain, accelerated, used, capacity) ==
  /\ streak' = IF domain = "ROUTER" /\ accelerated
               THEN NextStreak(ViaCatalog(domain, used, capacity).triggered) ELSE streak
  /\ UNCHANGED automotiveVars

\* asx_adapter_isomorphism_builtin
BuiltinScenarios == [k \in 1 .. 101 |-> <<k - 1, 100>>]

\* asx_adapter_isomorphism_check of one scenario after another: each leaves the streak its
\* accelerated evaluation left.
IsomorphismCheck(domain, scenarios) ==
  /\ streak' = IF domain # "ROUTER" THEN streak
               ELSE FoldLeft(LAMBDA n, s :
                               IF ViaCatalog(domain, s[1], s[2]).triggered
                               THEN Min({n + 1, StreakMax}) ELSE 0,
                             streak, scenarios)
  /\ UNCHANGED automotiveVars

\* asx_adapter_reset_all
ResetAll == AutomotiveReset /\ streak' = 0

OverloadNext ==
  \/ AutomotiveNext /\ UNCHANGED streak
  \/ \E domain \in AdapterDomains, accelerated \in BOOLEAN, u \in Loads, c \in Capacities :
       AdapterEvaluate(domain, accelerated, u, c)
  \/ \E domain \in AdapterDomains, list \in ScenarioLists \cup {BuiltinScenarios} :
       IsomorphismCheck(domain, list)
  \/ ResetAll

OverloadSpec == OverloadInit /\ [][OverloadNext]_overloadVars

----------------------------------------------------------------------------
(* Properties *)

\* The path that sheds answers ASX_OK at every load of a capacity, where CORE answers
\* ADMISSION_CLOSED ("never admits what CORE would reject", adapter.c:336): it admits by
\* evicting one or two of the tasks there, and so the load is no higher than before.
AdmitsByEviction(d, used) ==
  d.mode = "SHED_OLDEST" /\ d.shed \in 1 .. 2 /\ d.shed <= used

\* Over every load, capacity (0 and the top of the range too), resource class and history
\* of deadlines: where the CORE fallback rejects, an adapter sees the overload too, and it
\* rejects or makes the caller wait unless it evicts for what it admits; a catalogued policy
\* decides what the catalogue's own check accepts, for a capacity and work to shed.
OverloadAnswered ==
  /\ \A u \in Loads, c \in Capacities, class \in ResourceClasses, domain \in AdapterDomains :
       LET d == Dispatch(domain, u, c, class)
       IN  /\ Isomorphic(domain, u, c, class)
           /\ CoreFallback(u, c).admit # "OK" => d.admit # "OK" \/ AdmitsByEviction(d, u)
  /\ \A p \in DOMAIN Catalog, u \in Loads \ {0}, c \in Capacities \ {0} :
       EntryValid(Catalog[p]) /\ Consistent(Catalog[p], Evaluated(Catalog[p], u, c))
====
