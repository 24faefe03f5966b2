---- MODULE HftInstrument ----
(***************************************************************************)
(* src/runtime/hft_instrument.c: poll latencies counted in bins of powers  *)
(* of two, percentiles read back from the bins, the mean deviation kept    *)
(* by a tracker that recomputes now and then, and the gate over them.      *)
(***************************************************************************)
EXTENDS Integers, FiniteSetsExt, SequencesExt

CONSTANTS
  HistBins,       \* ASX_HFT_HISTOGRAM_BINS
  HistMax,        \* ASX_HFT_HISTOGRAM_MAX_NS
  JitterEvery,    \* the 64 samples between two recomputations
  Latencies,      \* the latencies recorded
  MaxSamples      \* bound on the samples between two resets

\* A one shifted by k.
Pow2(k) ==
  LET pow[n \in 0 .. k] == IF n = 0 THEN 1 ELSE 2 * pow[n - 1]
  IN  pow[k]

ASSUME HftAssumption ==
  /\ HistBins \in Nat \ {0} /\ HistMax = Pow2(HistBins - 1)
  /\ JitterEvery \in Nat /\ Latencies \subseteq Nat /\ MaxSamples \in Nat

VARIABLES
  schedHist,      \* g_sched_hist
  schedJitter,    \* g_sched_jitter
  latencies       \* the latencies schedHist stands for
hftVars == <<schedHist, schedJitter, latencies>>

Bins == 0 .. HistBins - 1
NoMinimum == -1   \* UINT64_MAX in min_ns of an empty histogram
EmptyHistogram ==
  [bins |-> [b \in Bins |-> 0], overflow |-> 0, total |-> 0, sum |-> 0, min |-> NoMinimum, max |-> 0]
EmptyJitter == [hist |-> EmptyHistogram, mad |-> 0, since |-> 0]

\* asx_hft_instrument_reset, and what the first access through ensure_init finds.
HftInit == schedHist = EmptyHistogram /\ schedJitter = EmptyJitter /\ latencies = <<>>
HftReset == schedHist' = EmptyHistogram /\ schedJitter' = EmptyJitter /\ latencies' = <<>>

Log2(x) == CHOOSE k \in 0 .. x : Pow2(k) <= x /\ x < Pow2(k + 1)
BinLower(b) == IF b = 0 THEN 0 ELSE Pow2(b - 1)
BinMid(b) == IF b = 0 THEN 0 ELSE IF b = 1 THEN 1 ELSE Pow2(b - 1) + Pow2(b - 2)
Clamped(b) == IF b >= HistBins THEN HistBins - 1 ELSE b

\* asx_hft_histogram_record
RecordedIn(h, ns) ==
  [bins |-> IF ns >= HistMax THEN h.bins ELSE [h.bins EXCEPT ![Clamped(Log2(ns + 1))] = @ + 1],
   overflow |-> IF ns >= HistMax THEN h.overflow + 1 ELSE h.overflow,
   total |-> h.total + 1, sum |-> h.sum + ns,
   min |-> IF h.min = NoMinimum \/ ns < h.min THEN ns ELSE h.min,
   max |-> IF ns > h.max THEN ns ELSE h.max]

Cumulative(h, b) ==
  LET sum[k \in 0 .. b] == IF k = 0 THEN h.bins[0] ELSE sum[k - 1] + h.bins[k]
  IN  sum[b]

\* The lower bound of the first bin up to which "target" samples are counted.
LowerOfRank(h, target) ==
  LET reached == {b \in Bins : Cumulative(h, b) >= target}
  IN  IF reached = {} THEN HistMax ELSE BinLower(Min(reached))

Rank_MayBeZero(h, num, den) == (h.total * num) \div den
\* The rank of a fraction num / den of the samples: at least one once there are any.
Rank(h, num, den) ==
  LET target == (h.total * num) \div den
  IN  IF target = 0 /\ num > 0 /\ h.total > 0 THEN 1 ELSE target

\* asx_hft_histogram_percentile
Percentile(h, pct) ==
  IF h.total = 0 THEN 0 ELSE LowerOfRank(h, Rank(h, IF pct > 100 THEN 100 ELSE pct, 100))

Mean(h) == IF h.total = 0 THEN 0 ELSE h.sum \div h.total

\* The mean of the distances of the bins' midpoints, and of the overflow's, to the mean.
MeanDeviation(h) ==
  LET Distance(x) == IF x > Mean(h) THEN x - Mean(h) ELSE Mean(h) - x
      sum == MapThenSumSet(LAMBDA b : Distance(BinMid(b)) * h.bins[b], Bins)
               + Distance(HistMax) * h.overflow
  IN  IF h.total = 0 THEN 0 ELSE sum \div h.total

\* asx_hft_jitter_record
JitterRecorded(j, ns) ==
  LET h == RecordedIn(j.hist, ns)
      due == JitterEvery = 0 \/ j.since + 1 >= JitterEvery
  IN  [hist |-> h, mad |-> IF due THEN MeanDeviation(h) ELSE j.mad,
       since |-> IF due THEN 0 ELSE j.since + 1]

RecordPollLatency(ns) ==
  /\ Len(latencies) < MaxSamples
  /\ schedHist' = RecordedIn(schedHist, ns)
  /\ schedJitter' = JitterRecorded(schedJitter, ns)
  /\ latencies' = Append(latencies, ns)

\* asx_hft_jitter_recompute leaves the count of samples since the last one.
JitterRecompute ==
  /\ schedJitter' = [schedJitter EXCEPT !.mad = MeanDeviation(schedJitter.hist)]
  /\ UNCHANGED <<schedHist, latencies>>

HftNext ==
  \/ HftReset
  \/ \E ns \in Latencies : RecordPollLatency(ns)
  \/ JitterRecompute

HftSpec == HftInit /\ [][HftNext]_hftVars

\* asx_hft_gate_evaluate: the limits that are set (not 0) and exceeded.
GateFractions == [p99 |-> <<99, 100>>, p99_9 |-> <<999, 1000>>, p99_99 |-> <<9999, 10000>>]
GateActual(kind, h) ==
  IF kind = "p99" THEN Percentile(h, 99)
  ELSE LowerOfRank(h, Rank(h, GateFractions[kind][1], GateFractions[kind][2]))
GateViolations(limits, h, j) ==
  {k \in DOMAIN GateFractions : limits[k] > 0 /\ GateActual(k, h) > limits[k]}
    \cup (IF limits.jitter > 0 /\ j.mad > limits.jitter THEN {"jitter"} ELSE {})

----------------------------------------------------------------------------
(* Properties *)

\* The latency that "target" of the recorded ones do not exceed.
RankedLatency(target) ==
  Min({ns \in ToSet(latencies) :
         Cardinality({n \in DOMAIN latencies : latencies[n] <= ns}) >= target})

\* A percentile read from the bins never exceeds the latency it stands for and is at most
\* four times below it, whatever was recorded; so a gate with a limit inside the bins' range
\* fails only when the limit is exceeded and passes only below four times the limit.
PercentilesHonest ==
  latencies # <<>> =>
    \A k \in DOMAIN GateFractions :
      LET actual == RankedLatency(Rank(schedHist, GateFractions[k][1], GateFractions[k][2]))
          read == GateActual(k, schedHist)
      IN  /\ read <= actual
          /\ actual < HistMax => actual <= 4 * read
          /\ \A limit \in 1 .. HistMax - 1 :
               LET limits == [p99 |-> limit, p99_9 |-> limit, p99_99 |-> limit, jitter |-> 0]
               IN  IF k \in GateViolations(limits, schedHist, schedJitter)
                   THEN actual > limit ELSE actual <= 4 * limit
====
