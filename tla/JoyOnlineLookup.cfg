SPECIFICATION Spec
CONSTANTS
  max_records = 1
  AutoName = TRUE
  retain_local = TRUE
  MaxFlows = 2
  MaxSeconds = 1
  MaxFeed = 1
INVARIANTS
  LookupsAreSafe
CHECK_DEADLOCK FALSE
