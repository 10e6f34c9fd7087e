SPECIFICATION MCSpec
CONSTANTS
  Rid = {r1, r2, r3}
  NULL = NULL
  Keys <- MCKeys
  Mix <- MCMix
  NearMatch = FALSE
  Bidir = TRUE
  Preemptive = TRUE
  TimeWindow = 1
  ActiveTimeout = 1
  Times <- MCTimes
  Exported <- MCExported
  Packets <- MCPackets
  Messages <- MCMessages
  Counts <- MCCounts
  Layout <- MCLayout
  Behind <- MCBehind
  ZeroSize <- MCZeroSize
  MAX_TEMPLATES = 3
  SetHeader = 4
  LenMod = 16
  NpMod = 2
SYMMETRY Symmetry
INVARIANTS
  CarrierKept
  PacketsCounted
  DecodedAsAnnounced
  TemplatesKept

  
