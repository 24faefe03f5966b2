----------------------------- MODULE VirtualClock -----------------------------
(* The virtual clock of runtime/virtual_time.c: a clock that ticks once per query
   and plays a schedule of anomalies.  It stands in for the logical clock when a
   run is replayed. *)
EXTENDS Integers, SequencesExt

CONSTANTS
  ClockMax,       \* UINT64_MAX, the latest time
  QueryMax,       \* UINT32_MAX, where the query count stops
  MaxAnomalies,   \* ASX_VTIME_MAX_ANOMALIES
  Base, Tick,     \* arguments of asx_vtime_init
  Offsets,        \* offsets of jitter anomalies, negative ones included
  Leaps,          \* lengths of jumps
  Holds           \* lengths of stalls

ASSUME ClockAssumption ==
  /\ ClockMax \in Nat /\ QueryMax \in Nat /\ MaxAnomalies \in Nat
  /\ Base \in 0 .. ClockMax /\ Tick \in 0 .. ClockMax
  /\ Offsets \subseteq Int /\ Leaps \subseteq 0 .. ClockMax /\ Holds \subseteq Nat

Anomaly ==
  [kind : {"jitter"}, trigger : 0 .. QueryMax, param : Offsets]
    \cup [kind : {"stall"}, trigger : 0 .. QueryMax, param : Holds]
    \cup [kind : {"jump"}, trigger : 0 .. QueryMax, param : Leaps]

VARIABLES
  anomalies,      \* the schedule, in the order it was written
  clockTime,      \* vt->current_time
  queries,        \* vt->query_count
  stall,          \* vt->stall_remaining
  readings,       \* readings of the run so far, or of the run to be replayed
  recording       \* the schedule has not changed since the run began
clockVars == <<anomalies, clockTime, queries, stall, readings, recording>>

ClockInit ==
  /\ anomalies = <<>> /\ clockTime = Base /\ queries = 0 /\ stall = 0
  /\ readings = <<>> /\ recording = TRUE

ClockReset_KeepsStall ==
  /\ clockTime' = Base /\ queries' = 0 /\ recording' = TRUE
  /\ UNCHANGED <<anomalies, readings, stall>>
\* asx_vtime_reset keeps the schedule.
ClockReset ==
  /\ clockTime' = Base /\ queries' = 0 /\ stall' = 0 /\ recording' = TRUE
  /\ UNCHANGED <<anomalies, readings>>

AddAnomaly(a) ==
  /\ Len(anomalies) < MaxAnomalies
  /\ anomalies' = Append(anomalies, a)
  /\ readings' = <<>> /\ recording' = (queries = 0)
  /\ UNCHANGED <<clockTime, queries, stall>>

\* Additions stop at the latest time, subtractions at 0.
SaturatingAdd(t, d) == IF t <= ClockMax - d THEN t + d ELSE ClockMax
SaturatingSub(t, d) == IF t >= d THEN t - d ELSE 0

\* What one anomaly makes of the time and the stall of a query.
Apply(state, a) ==
  CASE a.kind = "jitter" /\ a.param >= 0 -> [state EXCEPT !.time = SaturatingAdd(@, a.param)]
    [] a.kind = "jitter" /\ a.param < 0 -> [state EXCEPT !.time = SaturatingSub(@, -a.param)]
    [] a.kind = "stall" -> [state EXCEPT !.stall = a.param]
    [] a.kind = "jump" -> [state EXCEPT !.time = SaturatingAdd(@, a.param)]

\* Time and stall of the next query after the first n anomalies of the schedule.
Played[n \in 0 .. Len(anomalies)] ==
  IF n = 0 THEN [time |-> IF queries > 0 THEN SaturatingAdd(clockTime, Tick) ELSE clockTime, stall |-> 0]
  ELSE IF anomalies[n].trigger = queries THEN Apply(Played[n - 1], anomalies[n])
  ELSE Played[n - 1]

\* The reading of the next query and the stall it leaves.  A query inside a stall
\* looks at no anomaly: one that was to trigger there is skipped.
Reading ==
  IF stall > 0 THEN [time |-> clockTime, stall |-> stall - 1] ELSE Played[Len(anomalies)]

NowNs ==
  /\ clockTime' = Reading.time
  /\ stall' = Reading.stall
  /\ queries' = IF queries < QueryMax THEN queries + 1 ELSE queries
  /\ readings' = IF recording /\ queries = Len(readings) /\ queries < QueryMax
                   THEN Append(readings, Reading.time) ELSE readings
  /\ UNCHANGED <<anomalies, recording>>

ClockNext ==
  \/ ClockReset
  \/ \E a \in Anomaly : AddAnomaly(a)
  \/ NowNs

ClockSpec == ClockInit /\ [][ClockNext]_clockVars

-------------------------------------------------------------------------------
(* Properties *)

\* A replay reads what was read before: after a reset the clock gives the readings of
\* the earlier run again, whatever stall or jump that run was in when it was reset.
ReplayReadsTheSame ==
  [][(queries' # queries /\ queries' > 0 /\ recording /\ queries < Len(readings))
       => clockTime' = readings[queries + 1]]_clockVars

\* Time runs backwards only where a negative jitter says so, and not by wrapping.
BackwardsOnlyByJitter ==
  [][clockTime' < clockTime =>
       \/ queries' = 0
       \/ \E n \in DOMAIN anomalies :
            anomalies[n].kind = "jitter" /\ anomalies[n].param < 0
              /\ anomalies[n].trigger = queries]_clockVars
===============================================================================
