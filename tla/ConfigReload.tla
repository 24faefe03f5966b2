---- MODULE ConfigReload ----
(***************************************************************************)
(* src/runtime/config_reload.c: a configuration is loaded once and then    *)
(* replaced while the program runs, if only reloadable fields change.      *)
(***************************************************************************)
EXTENDS Naturals, SequencesExt

CONSTANTS
  FieldValues     \* the values a field takes

VARIABLES
  config,         \* asx_config_state: the active configuration, once loaded
  firstLoad       \* the configuration last given to asx_config_load
configVars == <<config, firstLoad>>

\* g_field_table, in its order.
FieldTable == <<"size", "wait_policy", "leak_response", "leak_escalation",
  "finalizer_poll_budget", "finalizer_time_budget_ns", "finalizer_escalation",
  "max_cancel_chain_depth", "max_cancel_chain_memory">>
ConfigFields == Range(FieldTable)

\* asx_config_field_class; a name that is in no row is frozen too.
FieldClass(name) ==
  CASE name \notin ConfigFields -> "FrozenCompile"
    [] name = "size" -> "FrozenInit"
    [] name \in {"max_cancel_chain_depth", "max_cancel_chain_memory"} -> "RestartRequired"
    [] OTHER -> "Reloadable"

NotLoaded == [loaded |-> FALSE]

ConfigInit == config = NotLoaded /\ firstLoad = NotLoaded

\* asx_config_load, which also takes a second configuration and compares nothing.
ConfigLoad(c) ==
  /\ config' = [loaded |-> TRUE, active |-> c]
  /\ firstLoad' = config'

Refusal(class) ==
  CASE class \in {"FrozenCompile", "FrozenInit"} -> "ConfigFrozen"
    [] class = "RestartRequired" -> "ConfigRestartReq"
    [] class = "Reloadable" -> "Ok"

\* asx_config_validate_reload: the first field of the table that may not change decides.
ValidateReload(c) ==
  IF ~config.loaded THEN "InvalidState"
  ELSE LET offending == {n \in DOMAIN FieldTable :
                           /\ config.active[FieldTable[n]] # c[FieldTable[n]]
                           /\ Refusal(FieldClass(FieldTable[n])) # "Ok"}
       IN  IF offending = {} THEN "Ok" ELSE Refusal(FieldClass(FieldTable[Min(offending)]))

\* asx_config_reload: all of the new configuration or nothing.
ReloadConfig(c) ==
  /\ ValidateReload(c) = "Ok"
  /\ config' = [config EXCEPT !.active = c]
  /\ UNCHANGED firstLoad

\* A caller loads a configuration that is uniform but for one field, and reloads such a
\* one, or the active one with one field edited.
Configurations ==
  {[[k \in ConfigFields |-> v] EXCEPT ![f] = w] : v \in FieldValues, w \in FieldValues, f \in ConfigFields}
Edited(c) == {[c EXCEPT ![f] = v] : f \in ConfigFields, v \in FieldValues}

ConfigNext ==
  \/ \E c \in Configurations : ConfigLoad(c) \/ ReloadConfig(c)
  \/ config.loaded /\ \E c \in Edited(config.active) : ReloadConfig(c)

ConfigSpec == ConfigInit /\ [][ConfigNext]_configVars

----------------------------------------------------------------------------
(* Properties *)

\* No series of reloads moves a frozen field, or one that needs a restart, away from what
\* was loaded, although each reload is compared with the one before it only.
FrozenSinceLoad ==
  config.loaded =>
    \A k \in ConfigFields :
      FieldClass(k) # "Reloadable" => config.active[k] = firstLoad.active[k]
====
