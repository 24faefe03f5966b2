CONSTANTS
  MaxRegions = 1
  MaxTasks = 2
  MaxObligations = 0
  GenMod = 2
  Quarantine = FALSE
  ArenaBytes = 0
  CaptureSizes = {}
  EpochCap = 1
  InvalidId = InvalidId
  CleanupQuota <- OnePoll
  Kinds = {"User"}
  MaxDepth = 2
  Reentrant = TRUE
  MaxBudget = 1
  Policy = "ErrorOnly"
  Origins <- NoOrigins
SPECIFICATION Spec
INVARIANTS
  DrainPostcondition
