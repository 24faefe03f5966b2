CONSTANTS
  MaxRegions = 1
  MaxTasks = 2
  MaxObligations = 0
  GenMod = 1
  Quarantine = FALSE
  ArenaBytes = 0
  CaptureSizes = {}
  EpochCap = 1
  InvalidId = InvalidId
  CleanupQuota <- NoQuota
  Kinds = {"Shutdown"}
  MaxDepth = 1
  Reentrant = FALSE
  MaxBudget = 2
  Policy = "PoisonRegion"
  Origins <- NoOrigins
  LaneCapacity = 2
  MaxHandles = 2
  Configs <- OneOfEach
  NoConfig = NoConfig
  ForeignTasks = FALSE
  StarvationCap = 1
SPECIFICATION ParallelSpec
INVARIANTS
  LanesConsistent
  LanesKeepTasks
  RoundRobinServesAll
