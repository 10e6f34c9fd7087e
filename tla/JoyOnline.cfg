SPECIFICATION Spec
CONSTANTS
  max_records = 1
  AutoName = TRUE
  retain_local = FALSE
  MaxFlows = 4
  MaxSeconds = 1
  MaxFeed = 2
INVARIANTS
  NothingLost
  OnlyClosedFilesSent
  TriesFreed
PROPERTIES
  RotationCompletes
  SignalServed
  LabelsUpToDate
CHECK_DEADLOCK FALSE
