SPECIFICATION ReportSpec
CONSTANTS
  Times <- MCTimes
  num_pkts = 2
  ReportPktLen = 3
  IptMod = 100
  MaxPackets = 4
INVARIANTS
  ExpireTypePrinted
CHECK_DEADLOCK FALSE
