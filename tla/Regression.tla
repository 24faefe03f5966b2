---- MODULE Regression ----
(***************************************************************************)
(* Regression localisation in src/runtime/regression_localize.c: a         *)
(* snapshot counts the events of a trace per subsystem, and the report on  *)
(* two snapshots ranks the subsystems that changed.                        *)
(***************************************************************************)
EXTENDS Integers, Sequences, FiniteSets

CONSTANTS
  MaxSuspects,    \* ASX_MAX_SUSPECTS
  TracedKinds,    \* the kinds of events that occur
  AuxValues,      \* the payloads summed per subsystem
  TraceLength     \* bound on the events of a run

ASSUME RegressionAssumption ==
  /\ MaxSuspects \in Nat \ {0} /\ TraceLength \in Nat
  /\ TracedKinds \subseteq Nat /\ AuxValues \subseteq Nat

VARIABLES
  traced,         \* the events of the current run
  baseline        \* the events of the run the baseline snapshot was built from
regressionVars == <<traced, baseline>>

SubsystemNames ==
  <<"scheduler", "lifecycle", "obligation", "channel", "timer", "cancel", "unknown">>
Subsystems == DOMAIN SubsystemNames

\* asx_trace_event_subsystem: sixteen kinds to a subsystem, in their order.
SubsystemOf(kind) == IF kind <= 79 THEN (kind \div 16) + 1 ELSE Len(SubsystemNames)

\* The terms added up one by one.
Added(terms) ==
  LET sum[n \in 0 .. Len(terms)] == IF n = 0 THEN 0 ELSE sum[n - 1] + terms[n]
  IN  sum[Len(terms)]

\* asx_perf_snapshot_build; the digest is the trace it is computed from.
Snapshot(run) ==
  [count |-> [s \in Subsystems |-> Cardinality({n \in DOMAIN run : SubsystemOf(run[n].kind) = s})],
   aux |-> [s \in Subsystems |->
              Added([n \in DOMAIN run |-> IF SubsystemOf(run[n].kind) = s THEN run[n].aux ELSE 0])],
   digest |-> run]

CountDelta(a, b, s) == b.count[s] - a.count[s]
AuxDelta(a, b, s) == b.aux[s] - a.aux[s]
Changed(a, b) == {s \in Subsystems : CountDelta(a, b, s) # 0 \/ AuxDelta(a, b, s) # 0}

Magnitude(n) == IF n < 0 THEN -n ELSE n
TotalDelta(a, b) == Added([s \in Subsystems |-> Magnitude(CountDelta(a, b, s))])

\* A share of all the events gained or lost, in percent.
Blame(a, b, s) ==
  (Magnitude(CountDelta(a, b, s)) * 100) \div (IF TotalDelta(a, b) > 0 THEN TotalDelta(a, b) ELSE 1)

\* The subsystems that changed in the order of their declaration, as far as there is room.
Suspects(a, b) ==
  LET list[s \in 0 .. Len(SubsystemNames)] ==
        IF s = 0 THEN <<>>
        ELSE IF s \in Changed(a, b) /\ Len(list[s - 1]) < MaxSuspects
             THEN Append(list[s - 1], [id |-> s, blame |-> Blame(a, b, s)])
             ELSE list[s - 1]
  IN  list[Len(SubsystemNames)]

\* One pass of the selection sort puts the most blamed of the suspects from n on at n; the
\* first of several.
Selected(list, n) ==
  LET best == CHOOSE k \in n .. Len(list) :
                /\ \A j \in n .. Len(list) : list[k].blame >= list[j].blame
                /\ \A j \in n .. k - 1 : list[j].blame < list[k].blame
  IN  [list EXCEPT ![n] = list[best], ![best] = list[n]]
Ranked(list) ==
  LET pass[n \in 0 .. Len(list)] == IF n = 0 THEN list ELSE Selected(pass[n - 1], n)
  IN  pass[Len(list)]

\* asx_regression_localize: the list is cut at MaxSuspects, and only then ranked.
Localize(a, b) ==
  IF a.digest = b.digest THEN [regressed |-> FALSE, suspects |-> <<>>]
  ELSE [regressed |-> TRUE, suspects |-> Ranked(Suspects(a, b))]

RegressionInit == traced = <<>> /\ baseline = <<>>

TraceOne(kind, aux) ==
  /\ Len(traced) < TraceLength
  /\ traced' = Append(traced, [kind |-> kind, aux |-> aux])
  /\ UNCHANGED baseline

TakeBaseline == baseline' = traced /\ traced' = <<>>

RegressionNext ==
  \/ \E kind \in TracedKinds, aux \in AuxValues : TraceOne(kind, aux)
  \/ TakeBaseline

RegressionSpec == RegressionInit /\ [][RegressionNext]_regressionVars

----------------------------------------------------------------------------
(* Properties *)

Report == Localize(Snapshot(baseline), Snapshot(traced))
Suspected == {Report.suspects[n].id : n \in DOMAIN Report.suspects}

\* As long as there is room for them, the report names every subsystem that changed, once,
\* and in front the one that gained or lost most.  (Beyond that the one that changed most
\* may be missing: the list is cut before it is ranked.  And shares are rounded down to a
\* percent, so that among more than a hundred events two that differ may rank alike.)
ReportRanksChanges ==
  LET a == Snapshot(baseline)
      b == Snapshot(traced)
  IN  Cardinality(Changed(a, b)) <= MaxSuspects =>
        /\ Suspected = Changed(a, b) /\ Len(Report.suspects) = Cardinality(Suspected)
        /\ Suspected # {} /\ TotalDelta(a, b) <= 100 =>
             \A s \in Suspected : Magnitude(CountDelta(a, b, s))
                                    <= Magnitude(CountDelta(a, b, Report.suspects[1].id))
====
