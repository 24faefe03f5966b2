---- MODULE ReplayTrace ----
(***************************************************************************)
(* src/runtime/trace.c and telemetry.c: events pass a retention tier into  *)
(* a trace that keeps the first ones; a trace is exported to a file and    *)
(* imported, by a later run, as the reference that run is verified         *)
(* against.  A digest stands for the events it is computed from, that is,  *)
(* hashes do not collide here; entity and aux are one payload.             *)
(***************************************************************************)
EXTENDS Naturals, Sequences

CONSTANTS
  TraceMax,      \* ASX_TRACE_CAPACITY
  EmitMax,       \* bound on the events of a run: their count does not wrap here
  LifecycleKinds,\* kinds of events OPS_LIGHT retains
  DetailKinds,   \* the other kinds
  Subjects       \* what an event is about

ASSUME TraceAssumption == TraceMax \in Nat /\ EmitMax \in Nat

TraceKinds == LifecycleKinds \cup DetailKinds

VARIABLES
  trace,         \* g_trace_ring and g_trace_count
  reference,     \* g_replay_ref, when loaded
  tier,          \* g_tier
  file,          \* the binary trace in storage
  runLog         \* every event that reached asx_trace_emit since the trace was reset
traceVars == <<trace, reference, tier, file, runLog>>

NoReference == [loaded |-> FALSE, events |-> <<>>, origin |-> <<>>]
NoFile == [header |-> FALSE, count |-> 0, events |-> <<>>, digest |-> <<>>, origin |-> <<>>]
Tiers == {"Forensic", "OpsLight", "UltraMin"}

TraceInit ==
  /\ trace = [events |-> <<>>, count |-> 0] /\ runLog = <<>>
  /\ reference = NoReference /\ tier = "Forensic" /\ file = NoFile

----------------------------------------------------------------------------
(* Emitting *)

\* asx_trace_emit: events beyond the capacity are only counted.
Emitted(kind, subject) ==
  [events |-> IF trace.count < TraceMax
              THEN Append(trace.events, [seq |-> trace.count, kind |-> kind, subject |-> subject])
              ELSE trace.events,
   count |-> trace.count + 1]

TraceEmit(kind, subject) ==
  /\ trace.count < EmitMax
  /\ trace' = Emitted(kind, subject)
  /\ runLog' = Append(runLog, <<kind, subject>>)
  /\ UNCHANGED <<reference, tier, file>>

\* asx_telemetry_retains
Retains(t, kind) == t = "Forensic" \/ (t = "OpsLight" /\ kind \in LifecycleKinds)

\* asx_telemetry_emit; an event the tier does not retain goes into the rolling digest and
\* the counts only.
TelemetryEmit(kind, subject) == Retains(tier, kind) /\ TraceEmit(kind, subject)

\* asx_telemetry_set_tier; asx_telemetry_reset sets the forensic one.
SetTier(t) ==
  /\ tier' = t
  /\ UNCHANGED <<trace, reference, file, runLog>>

\* A new run: the reference and the file stay.
TraceReset ==
  /\ trace' = [events |-> <<>>, count |-> 0] /\ runLog' = <<>>
  /\ UNCHANGED <<reference, tier, file>>

----------------------------------------------------------------------------
(* Replay *)

\* The caller hands over the events it read from the trace.
LoadReference ==
  /\ reference' = [loaded |-> TRUE, events |-> trace.events, origin |-> runLog]
  /\ UNCHANGED <<trace, tier, file, runLog>>

ClearReference ==
  /\ reference' = NoReference
  /\ UNCHANGED <<trace, tier, file, runLog>>

SameEvent(a, b) == a.kind = b.kind /\ a.subject = b.subject

Verdict_RetainedOnly(ref) ==
  IF ~ref.loaded THEN "Match"
  ELSE IF Len(trace.events) # Len(ref.events) THEN "LengthMismatch"
  ELSE IF trace.events # ref.events THEN "EventMismatch" ELSE "Match"
\* asx_replay_verify: the count of all events emitted, then event by event, then digests.
Verdict(ref) ==
  IF ~ref.loaded THEN "Match"
  ELSE IF trace.count # Len(ref.events) THEN "LengthMismatch"
  ELSE IF \E n \in DOMAIN trace.events : ~SameEvent(trace.events[n], ref.events[n])
       THEN "EventMismatch"
  ELSE IF trace.events # ref.events THEN "DigestMismatch"
  ELSE "Match"

----------------------------------------------------------------------------
(* Storage *)

ExportBinary ==
  /\ file' = [header |-> TRUE, count |-> Len(trace.events), events |-> trace.events,
              digest |-> trace.events, origin |-> runLog]
  /\ UNCHANGED <<trace, reference, tier, runLog>>

\* What storage may do to a file, once: cut it short, lose its header, change one event
\* or the number of events.
Intact == file.header /\ file.count = Len(file.events) /\ file.events = file.digest

FileCut ==
  /\ Intact /\ file.events # <<>>
  /\ file' = [file EXCEPT !.events = SubSeq(@, 1, Len(@) - 1)]
  /\ UNCHANGED <<trace, reference, tier, runLog>>

HeaderLost ==
  /\ Intact
  /\ file' = [file EXCEPT !.header = FALSE]
  /\ UNCHANGED <<trace, reference, tier, runLog>>

CountChanged ==
  /\ Intact
  /\ \E n \in 0 .. TraceMax : file' = [file EXCEPT !.count = n]
  /\ UNCHANGED <<trace, reference, tier, runLog>>

EventChanged ==
  /\ Intact
  /\ \E n \in DOMAIN file.events, k \in TraceKinds, x \in Subjects :
       file' = [file EXCEPT !.events[n].kind = k, !.events[n].subject = x]
  /\ UNCHANGED <<trace, reference, tier, runLog>>

DigestOf(events) == events

\* A file with a known header, all its events, and the digest of those.
Importable(f) ==
  /\ f.header /\ f.count <= TraceMax
  /\ f.count <= Len(f.events)
  /\ DigestOf(SubSeq(f.events, 1, f.count)) = f.digest

\* asx_trace_import_binary: a file it refuses leaves no reference.
Imported(f) ==
  IF Importable(f)
  THEN [loaded |-> TRUE, events |-> SubSeq(f.events, 1, f.count), origin |-> f.origin]
  ELSE NoReference

ImportBinary ==
  /\ reference' = Imported(file)
  /\ UNCHANGED <<trace, tier, file, runLog>>

\* asx_trace_continuity_check; its answer is Continuity.
ContinuityCheck ==
  /\ reference' = NoReference
  /\ UNCHANGED <<trace, tier, file, runLog>>

Continuity == Importable(file) /\ Verdict(Imported(file)) = "Match"

TraceNext ==
  \/ \E k \in TraceKinds, x \in Subjects : TraceEmit(k, x) \/ TelemetryEmit(k, x)
  \/ \E t \in Tiers : SetTier(t)
  \/ TraceReset
  \/ LoadReference \/ ClearReference
  \/ ExportBinary \/ FileCut \/ HeaderLost \/ CountChanged \/ EventChanged
  \/ ImportBinary \/ ContinuityCheck

TraceSpec == TraceInit /\ [][TraceNext]_traceVars

----------------------------------------------------------------------------
(* Properties *)

Fits(run) == Len(run) <= TraceMax

\* A run matches a reference exactly when it emitted what the run behind the reference
\* emitted, whether the reference was loaded, or exported, damaged in storage and still
\* accepted; and a continuity check accepts the same.  The run behind the reference fits
\* the trace: one that does not fails against itself, and matches a run that stops where
\* the trace was full.
ReplayVerdictExact ==
  /\ reference.loaded /\ Fits(reference.origin) =>
       (Verdict(reference) = "Match" <=> runLog = reference.origin)
  /\ Continuity /\ Fits(file.origin) => runLog = file.origin
====
