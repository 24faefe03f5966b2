---- MODULE Hindsight ----
(***************************************************************************)
(* src/runtime/hindsight.c: the ring of nondeterministic readings (clock,  *)
(* entropy, readiness), flushed to a buffer when a run diverges.  The text *)
(* of a flush and the digest are left out.                                 *)
(***************************************************************************)
EXTENDS Naturals, Sequences

CONSTANTS
  HindsightRing,    \* ASX_HINDSIGHT_CAPACITY
  CounterMax,       \* UINT32_MAX, where the count of logged events stops
  IndexMod,         \* 2^32: the write index wraps
  FlushRoom,        \* number of events the flush buffer has room for
  Readings,         \* observed values
  NoReading         \* the 0 of a memset

ASSUME HindsightAssumption ==
  /\ HindsightRing \in Nat \ {0} /\ IndexMod \in Nat \ {0} /\ IndexMod % HindsightRing = 0
  /\ CounterMax \in Nat /\ CounterMax > HindsightRing /\ FlushRoom \in Nat

VARIABLES
  hindsight,     \* g_ring, g_write_index, g_total_count
  policy,        \* g_policy
  flushed,       \* the events in the caller's flush buffer
  logged         \* the latest readings logged, oldest first
hindsightVars == <<hindsight, policy, flushed, logged>>

EmptyHindsight ==
  [ring |-> [k \in 0 .. HindsightRing - 1 |-> NoReading], write |-> 0, total |-> 0]

HindsightInit ==
  /\ hindsight = EmptyHindsight /\ policy = [invariant |-> TRUE, divergence |-> TRUE]
  /\ flushed = <<>> /\ logged = <<>>

\* The count stops at its maximum, the write index wraps.
HindsightLog(reading) ==
  /\ hindsight' = [ring |-> [hindsight.ring EXCEPT ![hindsight.write % HindsightRing] = reading],
                   write |-> (hindsight.write + 1) % IndexMod,
                   total |-> IF hindsight.total < CounterMax THEN hindsight.total + 1
                             ELSE hindsight.total]
  /\ logged' = IF Len(logged) = HindsightRing THEN Append(Tail(logged), reading)
               ELSE Append(logged, reading)
  /\ UNCHANGED <<policy, flushed>>

HindsightReset ==
  /\ hindsight' = EmptyHindsight /\ logged' = <<>>
  /\ UNCHANGED <<policy, flushed>>

Readable == IF hindsight.total <= HindsightRing THEN hindsight.total ELSE HindsightRing

HindsightGet(index) ==
  hindsight.ring[IF hindsight.total <= HindsightRing THEN index
                 ELSE ((hindsight.write % HindsightRing) + index) % HindsightRing]

SetPolicy(p) ==
  /\ policy' = p
  /\ UNCHANGED <<hindsight, flushed, logged>>

\* asx_hindsight_flush_json: the text is cut where the buffer ends, and the status is OK.
Flush ==
  /\ flushed' = [n \in 1 .. (IF Readable < FlushRoom THEN Readable ELSE FlushRoom) |->
                   HindsightGet(n - 1)]
  /\ UNCHANGED <<hindsight, policy, logged>>

FlushOnDivergence == hindsight.total > 0 /\ policy.divergence /\ Flush

\* The ghost monitors have recorded a violation.
FlushOnInvariant == policy.invariant /\ Flush

HindsightNext ==
  \/ \E r \in Readings : HindsightLog(r)
  \/ HindsightReset \/ FlushOnDivergence \/ FlushOnInvariant \/ Flush
  \/ \E i, d \in BOOLEAN : SetPolicy([invariant |-> i, divergence |-> d])

HindsightSpec == HindsightInit /\ [][HindsightNext]_hindsightVars

----------------------------------------------------------------------------
(* Properties *)

\* Reading the ring from index 0 gives the latest readings, oldest first, when it wraps
\* and also when the count has stopped and the write index goes on and wraps.
HindsightReadsLatest == [n \in 1 .. Readable |-> HindsightGet(n - 1)] = logged
====
