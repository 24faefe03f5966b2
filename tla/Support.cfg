CONSTANTS
  MaxTimers = 2
  MaxTime = 1
  MaxDuration = 1
  Limits = {0, 1}
  Wakers = {w1, w2}
  NoWaker = NoWaker
  GenMod = 3
  InsertionCap = 3
  MaxHeld = 2
  ClockMax = 5
  QueryMax = 3
  MaxAnomalies = 2
  Base = 1
  Tick = 2
  Holds = {2}
  Leaps = {3}
  Offsets <- MCOffsets
  GhostRing = 2
  GhostCountMax = 3
  Protocols = {"Region"}
  LinearityMax = 1
  BorrowMax = 2
  EventMax = 0
  EventCountMax = 1
  SharedMax = 2
  Entities = {e1, e2}
  NoEntity = NoEntity
  StackMax = 3
  CleanupGenMax = 3
  MaxPushes = 4
  HindsightRing = 2
  CounterMax = 3
  IndexMod = 4
  FlushRoom = 1
  Readings = {q1, q2}
  NoReading = NoReading
  LedgerDepth = 2
  LedgerSlots = {0}
  LedgerGens = {0, 1}
  Others = {NoOwner}
  NoOwner = NoOwner
  Fallback = Fallback
  Errors = {x1, x2}
  NoError = NoError
  TraceMax = 2
  EmitMax = 3
  LifecycleKinds = {k1}
  DetailKinds = {k2}
  Subjects = {s1}
  TableMax = 2
  Domains = {d1, d2}
  AnyDomain = AnyDomain
  Tracked = {t1, t2, t3}
  HistBins = 4
  HistMax = 8
  JitterEvery = 2
  Latencies = {0, 1, 2, 3, 6, 7, 9}
  MaxSamples = 3
  AuditRing = 2
  WatchdogPeriod = 1
  RateScale = 3
  RateMod = 8
  DeadlineTimes = {0, 2}
  MaxRecords = 3
  LoadMax = 250
  Loads = {0, 1, 16, 18, 125}
  Capacities = {0, 20, 250}
  StreakMax = 3
  ScenarioLists <- MCScenarios
  AdaptiveDepth = 2
  Unit = 4
  LossMod = 8
  Surfaces <- MCSurfaces
  Posteriors <- MCPosteriors
  Policies <- MCPolicies
  MaxDecisions = 3
  Deterministic = TRUE
  HookTables <- MCTables
  ClockValues = {2}
  EntropyValues = {1}
  ReadyCounts = {0}
  Faults <- MCFaults
  MaxFaults = 1
  MaxCalls = 2
  MaxBlocks = 1
  Fixtures <- MCFixtures
  Damageable = {"profile", "scenario_id"}
  Damage <- MCDamage
  Abridged = {"c"}
  FooterReadings <- MCReadings
  MaxFlaws = 2
  FailureThreshold = 2
  RecoveryProbes = 2
  CooldownEvents = 2
  MaxSignals = 8
  FieldValues = {u, v}
  Unlimited = 4
  PollMax = 4
  Grants <- MCGrants
  Costs = {1, 3}
  TimeMax = 2
  MaxSuspects = 2
  TracedKinds = {0, 17, 90}
  AuxValues = {1, 2}
  TraceLength = 2
SPECIFICATION SupportSpec
INVARIANTS
  ReplayVerdictExact
  DrainRunsEach
  ReportsFaithful
  GrantsKept
  DecisionsExplained
  FixtureSurvives
PROPERTIES
  TimersImplementQueue
  ReadingsReproduce
  StepsGuarded
CHECK_DEADLOCK FALSE
