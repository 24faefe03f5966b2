CONSTANTS
  MaxRegions = 1
  MaxTasks = 2
  MaxObligations = 0
  GenMod = 2
  Quarantine = FALSE
  ArenaBytes = 0
  CaptureSizes = {}
  EpochCap = 1
  InvalidId = InvalidId
  CleanupQuota <- OnePoll
  Kinds = {"User"}
  MaxDepth = 1
  Reentrant = FALSE
  MaxBudget = 1
  Policy = "PoisonRegion"
  Origins <- NoOrigins
SPECIFICATION Spec
INVARIANTS
  AdmissionTellsTruth
