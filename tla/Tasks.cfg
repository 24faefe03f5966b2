CONSTANTS
  MaxRegions = 1
  MaxTasks = 2
  MaxObligations = 0
  GenMod = 2
  Quarantine = FALSE
  ArenaBytes = 16
  CaptureSizes = {1, 9}
  EpochCap = 1
  InvalidId = InvalidId
  CleanupQuota <- MCCleanupQuota
  Kinds = {"User", "Shutdown"}
  MaxDepth = 1
  Reentrant = FALSE
  MaxBudget = 1
  Policy = "PoisonRegion"
  Origins <- MCOrigins
SPECIFICATION Spec
INVARIANTS
  CancelConsistent
  CleanupWithinQuota
  CapturesDisjoint
  AdmittedIsServed
PROPERTIES
  CleanupNarrows
  OutcomeStable
