SPECIFICATION MCSpec
CONSTANTS
  MessageHeader = 1
  SetHeader = 1
  TemplateLen = 2
  RecordLens <- MCRecordLens
  MinRecordLen <- MCMinRecordLen
  IPFIX_MTU = 7
  XTS_RESEND_TIME = 1
  XTS_EXPIRE_TIME = 2
  CTS_EXPIRE_TIME = 2
  MAX_IPFIX_TEMPLATES = 2
  MaxRecords = 4
  MaxProcesses = 2
  MaxTime = 4
  NULL = NULL
  Templates = {t1, t2, t3}
  TemplateKeys = {k1, k2, k3, k4}
INVARIANTS
  AllRecordsDecoded
CHECK_DEADLOCK FALSE
