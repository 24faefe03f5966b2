---- MODULE MCSupport ----
(***************************************************************************)
(* The supporting components for the model checker.  They share no state   *)
(* in the code, so one run checks them side by side: "subject" names the   *)
(* one that moves, all the others stay as they were initialized.  The      *)
(* hindsight ring moves with the hooks and by itself; the borrow table,    *)
(* which shares only the ring of violations with the other monitors, moves *)
(* apart from them.                                                        *)
(***************************************************************************)
EXTENDS TimerWheel, VirtualClock, Ghost, CleanupStack, ErrorLedger, ReplayTrace, Affinity,
        HftInstrument, Overload, AdaptiveDecision, RuntimeHooks, FixtureCodec,
        CircuitBreaker, ConfigReload, Budget, Regression

VARIABLE subject

\* What moves with the subject s, all the rest standing still.
Rest(s) ==
  /\ UNCHANGED subject
  /\ IF s = "timers" THEN TRUE ELSE UNCHANGED wheelVars
  /\ IF s = "clock" THEN TRUE ELSE UNCHANGED clockVars
  /\ IF s \in {"ghost", "borrows"} THEN TRUE ELSE UNCHANGED ghostVars
  /\ IF s = "cleanup" THEN TRUE ELSE UNCHANGED cleanupVars
  /\ IF s = "ledger" THEN TRUE ELSE UNCHANGED ledgerVars
  /\ IF s = "trace" THEN TRUE ELSE UNCHANGED traceVars
  /\ IF s = "affinity" THEN TRUE ELSE UNCHANGED affinityVars
  /\ IF s = "hft" THEN TRUE ELSE UNCHANGED hftVars
  /\ IF s = "overload" THEN TRUE ELSE UNCHANGED overloadVars
  /\ IF s = "adaptive" THEN TRUE ELSE UNCHANGED adaptiveVars
  /\ IF s \in {"hooks", "hindsight"} THEN TRUE ELSE UNCHANGED hooksVars
  /\ IF s = "codec" THEN TRUE ELSE UNCHANGED codecVars
  /\ IF s = "breaker" THEN TRUE ELSE UNCHANGED breakerVars
  /\ IF s = "config" THEN TRUE ELSE UNCHANGED configVars
  /\ IF s = "budget" THEN TRUE ELSE UNCHANGED budgetVars
  /\ IF s = "regression" THEN TRUE ELSE UNCHANGED regressionVars

SupportInit ==
  /\ WheelInit /\ ClockInit /\ GhostInit /\ CleanupInit /\ LedgerInit /\ TraceInit
  /\ AffinityInit /\ HftInit /\ OverloadInit /\ AdaptiveInit /\ HooksInit /\ CodecInit
  /\ BreakerInit /\ ConfigInit /\ RegressionInit
  /\ subject \in {"timers", "clock", "ghost", "borrows", "cleanup", "ledger", "trace", "affinity",
                  "hft", "overload", "adaptive", "hooks", "hindsight", "codec", "breaker",
                  "config", "budget", "regression"}
  /\ BudgetInit /\ (subject # "budget" => grants = <<InfiniteBudget, InfiniteBudget>>)

SupportNext ==
  \/ subject = "timers" /\ WheelNext /\ Rest("timers")
  \/ subject = "clock" /\ ClockNext /\ Rest("clock")
  \/ subject = "ghost" /\ (GhostReset \/ MonitorNext) /\ Rest("ghost")
  \/ subject = "borrows" /\ (GhostReset \/ BorrowNext) /\ Rest("borrows")
  \/ subject = "cleanup" /\ CleanupNext /\ Rest("cleanup")
  \/ subject = "ledger" /\ LedgerNext /\ Rest("ledger")
  \/ subject = "trace" /\ TraceNext /\ Rest("trace")
  \/ subject = "affinity" /\ AffinityNext /\ Rest("affinity")
  \/ subject = "hft" /\ HftNext /\ Rest("hft")
  \/ subject = "overload" /\ OverloadNext /\ Rest("overload")
  \/ subject = "adaptive" /\ AdaptiveNext /\ Rest("adaptive")
  \/ subject = "hooks" /\ HooksNext /\ Rest("hooks")
  \/ /\ subject = "hindsight" /\ HindsightNext /\ Rest("hindsight")
     /\ UNCHANGED <<hooks, faults, calls, blocks, returned>>
  \/ subject = "codec" /\ CodecNext /\ Rest("codec")
  \/ subject = "breaker" /\ BreakerNext /\ Rest("breaker")
  \/ subject = "config" /\ ConfigNext /\ Rest("config")
  \/ subject = "budget" /\ BudgetNext /\ Rest("budget")
  \/ subject = "regression" /\ RegressionNext /\ Rest("regression")

SupportVars ==
  <<subject, wheelVars, clockVars, ghostVars, cleanupVars, ledgerVars, traceVars, affinityVars,
    hftVars, overloadVars, adaptiveVars, hooksVars, codecVars, breakerVars, configVars,
    budgetVars, regressionVars>>

SupportSpec == SupportInit /\ [][SupportNext]_SupportVars

----------------------------------------------------------------------------
(* Properties, by what they protect.  One that looks at a component alone is *)
(* only evaluated where that component moves.                                *)

\* ImplementsTimerQueue, asked only of the steps of the timers: the wheel with its slots,
\* generations and batches is a queue by deadline and order of registration.
TimersImplementQueue ==
  /\ Queue!QueueInit
  /\ [][subject # "timers" \/ [Queue!QueueNext]_Queue!queueVars]_SupportVars

\* A ring or a ledger keeps what was recorded last, and the timers what is registered: read
\* from its first index a ring gives its newest entries in order over wraps and stopped
\* counters, a task reads its own errors, and the wheel's count and high-water mark are
\* those of its live timers.
RingsKeepLatest ==
  /\ subject = "timers" => WheelTypeOK /\ WheelConsistent
  /\ subject \in {"ghost", "borrows"} => GhostRingRecent
  /\ subject = "hindsight" => HindsightReadsLatest
  /\ subject = "ledger" => ErrorsReadOwn

\* What a report tells is so: the automotive audit and the latency percentiles bound what
\* they stand for, and the suspects of a regression are ranked.
ReportsFaithful ==
  /\ RingsKeepLatest
  /\ subject = "overload" => AuditFaithful
  /\ subject = "hft" => PercentilesHonest
  /\ subject = "regression" => ReportRanksChanges

\* What a caller was granted stays as it was granted: borrows exclude each other, work
\* under two budgets exceeds neither, a frozen setting is as it was loaded.
GrantsKept ==
  /\ subject = "borrows" => BorrowsExclusive
  /\ subject = "budget" => BudgetWithinEach
  /\ subject = "config" => FrozenSinceLoad

\* Decisions keep to their rule: where CORE rejects an adapter rejects, waits or evicts, an
\* adaptive decision is what its surface, posterior and policy give, and the ledger says
\* so.  No decision reads the router's streak, so the first is evaluated where it is 0.
DecisionsExplained ==
  /\ subject = "overload" /\ streak = 0 => OverloadAnswered
  /\ subject = "adaptive" => AdaptiveExplained

\* A fixture survives its codecs, and a damaged payload is refused or decodes to it.
FixtureSurvives == subject = "codec" => RoundTripSettles /\ DamageRefused

\* Nondeterminism can be replayed: virtual time reads the same after a reset, and what
\* the hooks returned is what the hindsight ring gives back.
ReadingsReproduce ==
  /\ ReplayReadsTheSame
  /\ [](subject = "hooks" => ReadingsReplayable)

\* Steps no call may take: leaving an affinity domain, allocating under the seal, time
\* running backwards without a jitter, a breaker tripping without cause.
StepsGuarded ==
  /\ AffinityKept
  /\ SealedAllocatesNothing
  /\ BackwardsOnlyByJitter
  /\ BreakerJustified

----------------------------------------------------------------------------
(* Values of the constants *)

MCOffsets == {-2, 1}

MCScenarios == {<<<<18, 20>>>>, <<<<18, 20>>, <<1, 20>>>>}

\* A loss for each action (a row) and state; the last action or the first is the fallback.
LossSurface(rows) ==
  [actions |-> Len(rows), states |-> Len(rows[1]), fallback |-> 1,
   losses |-> [p \in (0 .. Len(rows) - 1) \X (1 .. Len(rows[1])) |-> rows[p[1] + 1][p[2]]]]
MCSurfaces ==
  {LossSurface(<<<<4, 1>>, <<1, 4>>, <<3, 3>>>>), LossSurface(<<<<8>>>>),
   LossSurface(<<<<2, 2>>, <<2, 2>>>>)}
MCPosteriors ==
  {[weights |-> <<1, 3>>, confidence |-> 1], [weights |-> <<3, 1>>, confidence |-> 2],
   [weights |-> <<4>>, confidence |-> 2]}
MCPolicies == {[threshold |-> t, budget |-> b] : t \in {0, 2}, b \in {0, 2}}

\* The last table has no seed for its entropy and is refused.
MCTables ==
  {[hooks |-> {"malloc", "free", "logical"}, seeded |-> FALSE, sealed |-> FALSE],
   [hooks |-> {"malloc", "free", "logical", "entropy"}, seeded |-> FALSE, sealed |-> FALSE]}
MCFaults ==
  {[kind |-> "ClockSkew", param |-> 1, after |-> 1, count |-> 0],
   [kind |-> "ClockReverse", param |-> 3, after |-> 0, count |-> 1],
   [kind |-> "EntropyConst", param |-> 0, after |-> 0, count |-> 0],
   [kind |-> "AllocFail", param |-> 0, after |-> 0, count |-> 1]}

\* Five fixtures that differ from what the tests write where the codecs differ; the plain
\* one is what JSON makes of the last.
Text(is, form) == [is |-> is, form |-> form]
PlainFixture ==
  [k \in Fields |->
     CASE k \in RawFields -> Text("a", "tight")
       [] k = "codec" -> Text("json", "kind")
       [] k = "seed" -> Text("s", "number")
       [] k = "scenario_id" -> Text("d", "plain")
       [] k = "semantic_digest" -> Text("a", "digest")
       [] k = "fixture_schema_version" -> SchemaV1
       [] OTHER -> Text("a", "plain")]
MCFixtures ==
  {[PlainFixture EXCEPT !["codec"] = Text("other", "kind")],
   [PlainFixture EXCEPT !["fixture_schema_version"] = Text("a", "plain"),
                        !["codec"] = Text("bin", "kind")],
   [PlainFixture EXCEPT !["semantic_digest"] = Text("a", "empty")],
   [PlainFixture EXCEPT !["expected_events"] = Text("a", "broken")],
   [PlainFixture EXCEPT !["input"] = Text("a", "padded"),
                        !["capture_run_id"] = Text("a", "control")]}
MCDamage == {Text("c", "nul")}
MCReadings ==
  {<<[tag |-> t, wire |-> "varint", value |-> Text("z", "number")]>> :
     t \in {"unknown", "outside"}}

MCGrants ==
  {[deadline |-> 2, polls |-> 2, cost |-> 2, priority |-> 3],
   [deadline |-> 0, polls |-> 1, cost |-> 3, priority |-> 1],
   [deadline |-> 1, polls |-> 3, cost |-> 4, priority |-> 1]}
====
