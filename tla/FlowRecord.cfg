\* The parts of a flow record, see MCFlowRecord.
SPECIFICATION Spec
CONSTANTS
  Segments <- MCSegments
  SeqSpace = 16
  RetransBuffer = 2
  MaxPktLen = 5
  MinOctets = 3
  ObMod = 16
  include_zeroes = FALSE
  include_retrans = FALSE
  MaxSent = 6
  Times <- MCTimes
  num_pkts = 2
  ReportPktLen = 3
  IptMod = 100
  MaxPackets = 4
  TlsStreams <- MCTlsStreams
  TlsCuts <- MCTlsCuts
  TLS_HDR_LEN = 5
  TLS_HANDSHAKE_HDR_LEN = 4
  MAX_NUM_RCD_LEN = 4
  MAX_TLS_HANDSHAKES = 2
  MAX_HANDSHAKE_LENGTH = 50
  Misread <- MCTlsMisread
  SshPairs <- MCSshPairs
  SshCuts <- MCSshCuts
  Method <- MCMethod
  MAX_SSH_KEX_MESSAGES = 2
  NoAlgorithm = NoAlgorithm
  IkeMessageSet <- MCIkeMessages
  IkeForeign <- MCIkeForeign
  IkeMisread <- MCIkeMisread
  IKE_MAX_MESSAGES = 2
  SizeofIkeHeader = 32
  MaxDatagrams = 4
  NoSA = NoSA
  Bits = 2
  Bytes = 2
  Labels = {malware, internal}
  MaxSubnets = 3
  Ascii <- MCAscii
  Special = {"/"}
  NameLists <- MCNameLists
  MATCH_ARRAY_LEN = 4
  SizeMod = 64
  TmpLen = 4
  MaxUri = 6
INVARIANTS
  RetransmissionsDetected
  IdpIsInitialData
  EveryPacketOnce
  TimesReconstruct
  TlsListed
  SshReassembled
  SshKexGenuine
  IkeMessagesListed
  IkeComplaintTrue
  LabelsExact
  UserNamesHidden
PROPERTIES
  ReportCompletes
\* A connection ends, a report is complete.
CHECK_DEADLOCK FALSE
