SPECIFICATION Spec
CONSTANTS
  max_records = 1
  AutoName = FALSE
  retain_local = TRUE
  MaxFlows = 4
  MaxSeconds = 1
  MaxFeed = 1
INVARIANTS
  LocalCopyRetained
CHECK_DEADLOCK FALSE
