CONSTANTS
  MaxRegions = 2
  MaxTasks = 2
  MaxObligations = 0
  GenMod = 2
  Quarantine = FALSE
  ArenaBytes = 0
  CaptureSizes = {}
  EpochCap = 1
  InvalidId = InvalidId
  CleanupQuota <- WeakOnly
  Kinds = {"Shutdown"}
  MaxDepth = 2
  Reentrant = FALSE
  MaxBudget = 1
  Policy = "PoisonRegion"
  Origins <- NoOrigins
SPECIFICATION Spec
INVARIANTS
  TaskCountExact
  DrainNeverTasksLive
  PolledTaskAlive
PROPERTIES
  FaultContained
