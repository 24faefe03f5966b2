---- MODULE AutomotiveInstrument ----
(***************************************************************************)
(* src/runtime/automotive_instrument.c: deadlines met and missed, the      *)
(* watchdog's checkpoints, the audit ring both write their violations to,  *)
(* and the compliance gate over them.                                      *)
(***************************************************************************)
EXTENDS Integers, FiniteSetsExt, SequencesExt

CONSTANTS
  AuditRing,      \* ASX_AUTO_AUDIT_RING_SIZE
  WatchdogPeriod, \* the default of 10 ms
  RateScale,      \* 10000: a rate in hundredths of a percent
  RateMod,        \* 2^32, where misses * 10000u wraps
  DeadlineTimes,  \* the deadlines, completions and checkpoints recorded
  MaxRecords      \* bound on the records between two resets

ASSUME AutomotiveAssumption ==
  /\ AuditRing \in Nat \ {0} /\ WatchdogPeriod \in Nat /\ RateScale \in Nat \ {0}
  /\ RateMod \in Nat \ {0} /\ DeadlineTimes \subseteq Nat /\ MaxRecords \in Nat

VARIABLES
  deadlines,      \* g_deadline: hits, misses, the margins' extremes
  watchdog,       \* g_watchdog
  audit,          \* g_audit
  observed        \* the margins and violations recorded, in order: what the three stand for
automotiveVars == <<deadlines, watchdog, audit, observed>>

AuditSlots == 0 .. AuditRing - 1
NoAudit == [kind |-> "None", detail |-> 0]
NoDeadlines == [total |-> 0, hits |-> 0, misses |-> 0, worst |-> 0, best |-> 0, margins |-> 0]
NewWatchdog == [last |-> 0, worst |-> 0, checkpoints |-> 0, violations |-> 0, armed |-> FALSE]
EmptyAudit == [entries |-> [k \in AuditSlots |-> NoAudit], head |-> 0, count |-> 0]

\* asx_auto_instrument_reset, and what the first access through ensure_auto_init finds.
AutomotiveInit ==
  deadlines = NoDeadlines /\ watchdog = NewWatchdog /\ audit = EmptyAudit /\ observed = <<>>
AutomotiveReset ==
  deadlines' = NoDeadlines /\ watchdog' = NewWatchdog /\ audit' = EmptyAudit /\ observed' = <<>>

\* asx_auto_deadline_record
DeadlineRecorded(dt, margin) ==
  [total |-> dt.total + 1,
   hits |-> IF margin >= 0 THEN dt.hits + 1 ELSE dt.hits,
   misses |-> IF margin >= 0 THEN dt.misses ELSE dt.misses + 1,
   worst |-> IF margin < dt.worst \/ dt.total = 0 THEN margin ELSE dt.worst,
   best |-> IF margin > dt.best \/ dt.total = 0 THEN margin ELSE dt.best,
   margins |-> dt.margins + (IF margin >= 0 THEN margin ELSE -margin)]

MissRate(dt) == IF dt.total = 0 THEN 0 ELSE ((dt.misses * RateScale) % RateMod) \div dt.total

\* asx_auto_audit_record; sequence numbers and time stamps are left out
Audited(kind, detail) ==
  [entries |-> [audit.entries EXCEPT ![audit.head] = [kind |-> kind, detail |-> detail]],
   head |-> (audit.head + 1) % AuditRing, count |-> audit.count + 1]

AuditCount == Min({audit.count, AuditRing})

\* asx_auto_audit_get of an index below AuditCount
AuditGet(index) ==
  audit.entries[((IF audit.count <= AuditRing THEN 0 ELSE audit.head) + index) % AuditRing]

RecordDeadline(deadline, actual) ==
  /\ Len(observed) < MaxRecords
  /\ deadlines' = DeadlineRecorded(deadlines, deadline - actual)
  /\ audit' = IF actual > deadline THEN Audited("DeadlineMiss", deadline - actual) ELSE audit
  /\ observed' = Append(observed, [kind |-> IF actual > deadline THEN "DeadlineMiss" ELSE "Hit",
                                   detail |-> deadline - actual])
  /\ UNCHANGED watchdog

WouldTrigger(now) ==
  watchdog.armed /\ WatchdogPeriod > 0 /\ now - watchdog.last > WatchdogPeriod

\* asx_auto_watchdog_checkpoint
CheckpointRecorded(now) ==
  LET interval == now - watchdog.last
  IN  [last |-> now, armed |-> TRUE, checkpoints |-> watchdog.checkpoints + 1,
       worst |-> IF watchdog.armed /\ interval > watchdog.worst THEN interval ELSE watchdog.worst,
       violations |-> IF WouldTrigger(now) THEN watchdog.violations + 1 ELSE watchdog.violations]

\* Checkpoints are taken in the order of the clock.
RecordCheckpoint(now) ==
  LET interval == now - watchdog.last
  IN  /\ Len(observed) < MaxRecords /\ now >= watchdog.last
      /\ watchdog' = CheckpointRecorded(now)
      /\ audit' = IF WouldTrigger(now) THEN Audited("WatchdogViolation", interval) ELSE audit
      /\ observed' = Append(observed, [kind |-> IF WouldTrigger(now) THEN "WatchdogViolation"
                                                ELSE "Checkpoint",
                                       detail |-> IF watchdog.armed THEN interval ELSE 0])
      /\ UNCHANGED deadlines

AutomotiveNext ==
  \/ AutomotiveReset
  \/ \E d, a \in DeadlineTimes : RecordDeadline(d, a)
  \/ \E t \in DeadlineTimes : RecordCheckpoint(t)

AutomotiveSpec == AutomotiveInit /\ [][AutomotiveNext]_automotiveVars

\* asx_auto_compliance_evaluate
ComplianceViolations(maxRate, maxViolations, minCheckpoints) ==
  (IF MissRate(deadlines) > maxRate THEN {"DeadlineRate"} ELSE {})
    \cup (IF watchdog.violations > maxViolations THEN {"Watchdog"} ELSE {})
    \cup (IF watchdog.checkpoints < minCheckpoints THEN {"CheckpointMin"} ELSE {})

----------------------------------------------------------------------------
(* Properties *)

Positions(kinds) == {n \in DOMAIN observed : observed[n].kind \in kinds}
Details(kinds) == {observed[n].detail : n \in Positions(kinds)}
Late == Positions({"DeadlineMiss", "WatchdogViolation"})
LaterThan(n) == {m \in Late : m > n}

\* What the instruments say agrees with what they saw, in whatever order deadlines and
\* checkpoints come: every miss and every late checkpoint is audited and the ring keeps the
\* latest, in order; the margins' extremes are those of the margins, none is the 0 of a
\* fresh tracker; and a gate of no violations passes exactly when nothing late was seen, as
\* long as the rate neither rounds to 0 nor wraps.
AuditComplete ==
  /\ audit.count = Cardinality(Late)
  /\ \A n \in Late :
       LET later == Cardinality(LaterThan(n))
       IN  later < AuditCount => AuditGet(AuditCount - 1 - later) = observed[n]
ExtremesSeen ==
  LET margins == Details({"Hit", "DeadlineMiss"})
  IN  /\ margins # {} => deadlines.worst = Min(margins) /\ deadlines.best = Max(margins)
      /\ watchdog.worst = Max({0} \cup Details({"Checkpoint", "WatchdogViolation"}))
GateExact ==
  deadlines.total <= RateScale /\ deadlines.misses * RateScale < RateMod =>
    (ComplianceViolations(0, 0, 0) = {} <=> Late = {})
AuditFaithful == AuditComplete /\ ExtremesSeen /\ GateExact
====
