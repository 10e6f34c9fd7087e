SPECIFICATION Spec
CONSTANTS
  Rid = {r1, r2, r3}
  NULL = NULL
  Keys <- NearKeys
  Mix <- MCMix
  NearMatch = TRUE
  Bidir = TRUE
  Preemptive = FALSE
  TimeWindow = 1
  ActiveTimeout = 1
  Times <- NearTimes
  Exported <- SomeExport
INVARIANTS
  PointersSound
PROPERTIES
  WalkTerminates
