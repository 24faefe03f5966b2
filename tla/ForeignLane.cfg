CONSTANTS
  MaxRegions = 2
  MaxTasks = 2
  MaxObligations = 0
  GenMod = 1
  Quarantine = FALSE
  ArenaBytes = 0
  CaptureSizes = {}
  EpochCap = 1
  InvalidId = InvalidId
  CleanupQuota <- NoQuota
  Kinds = {"Shutdown"}
  MaxDepth = 1
  Reentrant = FALSE
  MaxBudget = 2
  Policy = "PoisonRegion"
  Origins <- NoOrigins
  LaneCapacity = 3
  MaxHandles = 3
  Configs <- OneOfEach
  NoConfig = NoConfig
  ForeignTasks = TRUE
  StarvationCap = 1
SPECIFICATION ParallelSpec
INVARIANT TaskCountExact
