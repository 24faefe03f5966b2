---- MODULE CircuitBreaker ----
(***************************************************************************)
(* The circuit breaker of src/runtime/regression_localize.c.  It keeps no  *)
(* configuration: every call brings its own, here always the same one.     *)
(***************************************************************************)
EXTENDS Naturals, Sequences, FiniteSets

CONSTANTS
  FailureThreshold, RecoveryProbes, CooldownEvents,
  MaxSignals      \* bound on the signals recorded

ASSUME BreakerAssumption == {FailureThreshold, RecoveryProbes, CooldownEvents, MaxSignals} \subseteq Nat \ {0}

VARIABLES
  breaker,        \* asx_cb_context
  signals         \* the signals it was given, in order
breakerVars == <<breaker, signals>>

\* asx_cb_init
ClosedBreaker == [state |-> "Closed", failures |-> 0, successes |-> 0, sinceTrip |-> 0,
                  trips |-> 0, recoveries |-> 0]

BreakerInit == breaker = ClosedBreaker /\ signals = <<>>

Signal(kind) == Len(signals) < MaxSignals /\ signals' = Append(signals, kind)

Tripped(b) == [b EXCEPT !.state = "Open", !.sinceTrip = 0, !.trips = @ + 1]

\* A success an open breaker is told of, a late answer, counts for nothing.
RecordSuccess ==
  /\ Signal("success")
  /\ LET probed == [breaker EXCEPT !.successes = @ + 1]
     IN  breaker' =
           CASE breaker.state = "Closed" -> [breaker EXCEPT !.failures = 0]
             [] breaker.state = "Open" -> breaker
             [] breaker.state = "HalfOpen" ->
                  IF probed.successes >= RecoveryProbes
                  THEN [probed EXCEPT !.state = "Closed", !.failures = 0, !.successes = 0,
                                      !.recoveries = @ + 1]
                  ELSE probed

RecordFailure ==
  /\ Signal("failure")
  /\ LET failed == [breaker EXCEPT !.failures = @ + 1]
     IN  breaker' =
           CASE breaker.state = "Closed" ->
                  IF failed.failures >= FailureThreshold THEN Tripped(failed) ELSE failed
             [] breaker.state = "Open" -> breaker
             [] breaker.state = "HalfOpen" -> [Tripped(breaker) EXCEPT !.successes = 0]

BreakerTick ==
  /\ Signal("tick")
  /\ LET cooled == [breaker EXCEPT !.sinceTrip = @ + 1]
     IN  breaker' =
           IF breaker.state # "Open" THEN breaker
           ELSE IF cooled.sinceTrip >= CooldownEvents
                THEN [cooled EXCEPT !.state = "HalfOpen", !.successes = 0]
                ELSE cooled

BreakerAllows == breaker.state # "Open"

BreakerNext == RecordSuccess \/ RecordFailure \/ BreakerTick

BreakerSpec == BreakerInit /\ [][BreakerNext]_breakerVars

----------------------------------------------------------------------------
(* Properties *)

CountIn(log, m, n, kind) == Cardinality({k \in m .. n : log[k] = kind})
NoneIn(log, m, n, kind) == \A k \in m .. n : log[k] # kind

\* Why a breaker may leave a state, told from the signals up to now: it opens only on
\* FailureThreshold failures in a row, lets traffic through again only after CooldownEvents
\* ticks since a failure opened it, and closes only on RecoveryProbes successes in a row
\* since then, whatever answers arrived late.
OpensOn(log) ==
  \E n \in DOMAIN log :
    /\ NoneIn(log, n, Len(log), "success")
    /\ CountIn(log, n, Len(log), "failure") >= FailureThreshold
CloseOn(log) ==
  \E n \in DOMAIN log :
    /\ NoneIn(log, n, Len(log), "failure")
    /\ CountIn(log, n, Len(log), "success") >= RecoveryProbes
    /\ \E m \in 1 .. n - 1 :
         log[m] = "failure" /\ CountIn(log, m, n - 1, "tick") >= CooldownEvents

BreakerJustified ==
  [][/\ breaker.state = "Closed" /\ breaker'.state = "Open" => OpensOn(signals')
     /\ breaker.state # "Closed" /\ breaker'.state = "Closed" => CloseOn(signals')
     /\ ~BreakerAllows /\ BreakerAllows' => signals'[Len(signals')] = "tick"]_breakerVars
====
