SPECIFICATION LibSpec
CONSTANTS
  Rid = {r1, r2}
  NULL = NULL
  Keys <- MCKeys
  Mix <- MCMix
  NearMatch = FALSE
  Bidir = TRUE
  Preemptive = FALSE
  TimeWindow = 1
  ActiveTimeout = 1
  Times <- MCTimes
  Exported <- SomeExport
  Features <- MCFeatures
  Threshold <- MCThreshold
  Cap <- MCCap
  Size <- MCSize
  Wrapping <- MCWrapping
  Overflowing <- MCOverflowing
  Amounts <- MCAmounts
  Collected <- MCCollected
  RecsMod = 3
  PacketTimes <- MCPacketTimes
  NewTimes <- MCNewTimes
  Bitmasks <- MCBitmasks
  Ages <- MCAges
  Mins <- MCMins
  MaxRecords = 0
INVARIANTS
  CountsExact
  DeliveredOnce
  LibNoDanglingPointer
PROPERTIES
  DeletedAfterDelivery
  FlowsReclaimed
CHECK_DEADLOCK FALSE
