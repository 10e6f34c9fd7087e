SPECIFICATION Spec
CONSTANTS
  Rid = {r1, r2, r3}
  NULL = NULL
  Keys <- ExactKeys
  Mix <- MCMix
  NearMatch = FALSE
  Bidir = TRUE
  Preemptive = TRUE
  TimeWindow = 1
  ActiveTimeout = 1
  Times <- MCTimes
  Exported <- NoExport
INVARIANTS
  TypeOK
  KeysUnique
  DirectionsStitched
PROPERTIES
  WalkIsComplete
  ImplementsFlowStore
SYMMETRY Symmetry
