-------------------------------- MODULE Ipfix --------------------------------
(***************************************************************************)
(* An IPFIX exporter and a collector (joy/src/ipfix.c), each a joy, with   *)
(* UDP between them: messages are lost, delayed and reordered.  Exporting  *)
(* processes follow one another in their own observation domains.          *)
(***************************************************************************)
EXTENDS Integers, SequencesExt, Sums

CONSTANTS
  MessageHeader, SetHeader, TemplateLen, RecordLens, IPFIX_MTU,
  XTS_RESEND_TIME, XTS_EXPIRE_TIME, MAX_IPFIX_TEMPLATES, CTS_EXPIRE_TIME,
  MinRecordLen,
  MaxRecords, MaxProcesses,
  MaxTime           \* bound: time

ASSUME SizesAssumption ==
  /\ {MessageHeader, SetHeader, TemplateLen} \subseteq Nat \ {0}
  /\ \A t \in DOMAIN RecordLens :
       /\ RecordLens[t] \subseteq Nat \ {0}
       /\ \A len \in RecordLens[t] : MinRecordLen[t] <= len
  /\ IPFIX_MTU \in Nat /\ MessageHeader <= IPFIX_MTU
ASSUME TimesAssumption ==
  /\ {XTS_RESEND_TIME, XTS_EXPIRE_TIME, CTS_EXPIRE_TIME} \subseteq Nat \ {0}
  /\ XTS_RESEND_TIME < XTS_EXPIRE_TIME
ASSUME StoreAssumption == MAX_IPFIX_TEMPLATES \in Nat \ {0}

VARIABLES
  now, domain, type, last_sent, export_message, onWire, undefined,
  exported, lostRecords, sentRecords, opened,
  message, cur_template, cts, decoded, skipped, dropped, refused,
  steady            \* history: so far nothing was lost, late or out of order,
                    \* every template found room, and every message was filled
                    \* soon enough for the next template to be sent in time

X == INSTANCE IpfixExporter
C == INSTANCE IpfixCollector

exporterVars == <<domain, type, last_sent, export_message, undefined, exported,
                  lostRecords, sentRecords, opened>>
collectorVars == <<message, cur_template, cts, decoded, skipped, dropped, refused>>
vars == <<exporterVars, collectorVars, now, onWire, steady>>

Init ==
  /\ now = 1 /\ steady = TRUE
  /\ X!ExporterInit
  /\ C!CollectorInit([domain |-> 0, type |-> CHOOSE t \in X!Types : TRUE,
                       length |-> MessageHeader, sets |-> <<>>])

\* A message that is full is sent in one step with the record that fills the next.
Export ==
  /\ X!ExporterNext
  /\ UNCHANGED <<collectorVars, steady>>

\* A message overtakes another when it is not of the oldest on the wire.
Oldest(m) ==
  \A other \in onWire \ {m} :
    Len(X!DataIds(m)) > 0 /\ X!DataIds(m)[1] < X!DataIds(other)[1]

Collect ==
  /\ C!CollectorNext
  /\ steady' = (steady /\ ~ refused' /\ \A m \in onWire \ onWire' : Oldest(m))
  /\ UNCHANGED exporterVars

Lose ==
  /\ \E m \in onWire : onWire' = onWire \ {m}
  /\ steady' = FALSE
  /\ UNCHANGED <<exporterVars, collectorVars, now>>

Tick ==
  /\ now < MaxTime
  /\ now' = now + 1
  /\ steady' = (/\ steady /\ onWire = {} /\ C!Idle
                /\ X!IsEmpty(export_message)
                     \/ now' - opened <= CTS_EXPIRE_TIME - XTS_RESEND_TIME)
  /\ UNCHANGED <<exporterVars, collectorVars, onWire>>

Next == Export \/ Collect \/ Lose \/ Tick

Spec == Init /\ [][Next]_vars

(***************************************************************************)
(* Properties.                                                             *)
(***************************************************************************)
\* A message never grows beyond IPFIX_MTU, the size of the buffer it is encoded
\* into, and the lengths in the headers of the message and of its sets, which are
\* added up in three places, are those of what is in them (ipfix_exp_message_add,
\* ipfix_exp_data_set_add, ipfix_exp_template_set_add).
LenOfRecords(set) == SumOf(SetHeader, [i \in DOMAIN set.records |-> set.records[i].len])

LenOfSets(m) == SumOf(MessageHeader, [i \in DOMAIN m.sets |-> m.sets[i].length])

MessageFits ==
  \A m \in onWire \cup {export_message} :
    /\ m.length <= IPFIX_MTU /\ m.length = LenOfSets(m)
    /\ \A i \in DOMAIN m.sets : m.sets[i].length = LenOfRecords(m.sets[i])

\* Across the change of messages and of processes every exported record is sent
\* once, in order, or is still in the message, or was in the message of a process
\* that was killed (ipfix_export_main, ipfix_export_flush_message).
ExportedOnce ==
  LET ids == sentRecords \o X!DataIds(export_message) IN
  /\ \A i, j \in DOMAIN ids : i < j => ids[i] < ids[j]
  /\ Range(ids) \cup lostRecords = 1..exported
  /\ Range(ids) \cap lostRecords = {}

\* A record is decoded with the template of the process that sent it, although
\* processes of both types use one template id, templates overtake one another
\* and expire, and the collector works on a copy (ipfix_cts_search).
DecodedAsSent == \A d \in decoded : d.sent = d.as

\* While messages arrive in order, no template is refused, and each message is
\* sent within CTS_EXPIRE_TIME - XTS_RESEND_TIME of its first set, the collector
\* has a template for every data set: templates are sent again early enough.
TemplateInTime == steady => dropped = {}

\* "Process all data records in set": none is left in a set that is decoded.
AllRecordsDecoded == skipped = {}
=============================================================================
