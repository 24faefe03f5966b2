CONSTANTS
  MaxRegions = 1
  MaxTasks = 2
  MaxObligations = 1
  GenMod = 2
  Quarantine = FALSE
  ArenaBytes = 0
  CaptureSizes = {}
  EpochCap = 1
  InvalidId = InvalidId
  CleanupQuota <- OnePoll
  Kinds = {"Parent"}
  MaxDepth = 1
  Reentrant = FALSE
  MaxBudget = 2
  Policy = "PoisonRegion"
  Origins <- NoOrigins
SPECIFICATION AmpleRuns
INVARIANTS
  TypeOK
  ClosedQuiescent
  HonestReturn
PROPERTIES
  TaskTransitionsLegal
  PoisonSeals
  ImplementsStructuredRegions
  CancelledCompletes
