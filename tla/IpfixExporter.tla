---------------------------- MODULE IpfixExporter ----------------------------
(***************************************************************************)
(* The IPFIX exporter (joy/src/ipfix.c).  Flow records are packed into one *)
(* message at a time, after the template that describes them; a message    *)
(* goes out when the next record does not fit in it, and the last one when *)
(* the process ends.  A process exports one type of record, and draws its  *)
(* observation domain at random; both types have template id 256.          *)
(*                                                                         *)
(* A record is its number, and a length in units that keep the order of    *)
(* the real lengths.  Processes follow one another and are numbered.       *)
(***************************************************************************)
EXTENDS Integers, SequencesExt

CONSTANTS
  MessageHeader, SetHeader, TemplateLen,  \* lengths of headers and template
  RecordLens,       \* the lengths of the records of each type
  IPFIX_MTU,
  XTS_RESEND_TIME,
  XTS_EXPIRE_TIME,
  MaxRecords,       \* bound: records exported
  MaxProcesses      \* bound: processes

Types == DOMAIN RecordLens      \* IPFIX_SIMPLE_TEMPLATE, IPFIX_IDP_TEMPLATE

IPFIX_MAX_SET_LEN == IPFIX_MTU - MessageHeader

VARIABLES
  now,              \* time(NULL)
  domain,           \* exporter_obs_dom_id: the number of the process
  type,             \* export_template_type
  last_sent,        \* of the template in the export template store; 0: never
  export_message,   \* ctx->export_message
  onWire,           \* messages sent and not yet received
  undefined,        \* memory was freed twice
  exported,         \* history: number of records exported
  lostRecords,      \* history: records in the message of a process that died
  sentRecords,      \* history: record numbers in the order they were sent
  opened            \* history: when the message got its first set

(***************************************************************************)
(* Messages: sets in the order they were added, each with its records, and *)
(* the lengths that the headers of the message and of its sets will have.  *)
(***************************************************************************)
Template == [id |-> 0, len |-> TemplateLen]

NewMessage == [domain |-> domain, type |-> type, length |-> MessageHeader, sets |-> <<>>]

NewSet(kind, record) ==
  [kind |-> kind, length |-> SetHeader + record.len, records |-> <<record>>]

AddRecord(set, record) ==
  [set EXCEPT !.length = @ + record.len, !.records = Append(@, record)]

HasSet(m, kind) == \E i \in DOMAIN m.sets : m.sets[i].kind = kind

\* The header of a new set is left out of account.
FitsMtu(m, kind, record) == m.length + record.len <= IPFIX_MTU

Fits(m, kind, record) ==
  IF HasSet(m, kind)
  THEN record.len + m.length <= IPFIX_MAX_SET_LEN
  ELSE m.length + NewSet(kind, record).length <= IPFIX_MTU

\* When a new set does not fit its node is deleted with the record in it, and
\* then the record is deleted once more.
DeletedTwice(m, kind, record) == ~ Fits(m, kind, record) /\ ~ HasSet(m, kind)

\* A record that does not fit beside others is tried in a new message.
TriesDeleteTwice(m, kind, record) ==
  \/ DeletedTwice(m, kind, record)
  \/ ~ Fits(m, kind, record) /\ DeletedTwice(NewMessage, kind, record)

Attach(m, kind, record) ==
  IF HasSet(m, kind)
  THEN [m EXCEPT !.length = @ + record.len,
                 !.sets = [i \in DOMAIN m.sets |-> IF m.sets[i].kind = kind
                                                   THEN AddRecord(m.sets[i], record)
                                                   ELSE m.sets[i]]]
  ELSE [m EXCEPT !.length = @ + NewSet(kind, record).length,
                 !.sets = Append(@, NewSet(kind, record))]

\* The numbers of the data records, in their order; there is one data set.
DataIds(m) ==
  IF HasSet(m, "data")
  THEN LET i == CHOOSE i \in DOMAIN m.sets : m.sets[i].kind = "data"
           records == m.sets[i].records
       IN [n \in DOMAIN records |-> records[n].id]
  ELSE <<>>

\* Of a message that goes out for the template, and one for the record.
IdsSent(messages) ==
  CASE Len(messages) = 0 -> <<>>
    [] Len(messages) = 1 -> DataIds(messages[1])
    [] Len(messages) = 2 -> DataIds(messages[1]) \o DataIds(messages[2])

IsEmpty(m) == m.sets = <<>>

(***************************************************************************)
(* Exporting a record.                                                     *)
(***************************************************************************)
\* Attached, or attached to a new message once this one has been sent.
AttachOrSend(m, kind, record) ==
  Attach(IF Fits(m, kind, record) THEN m ELSE NewMessage, kind, record)

\* The full message is deleted and not sent.
SendNothing(m, kind, record) == <<>>

Sent(m, kind, record) == IF Fits(m, kind, record) THEN <<>> ELSE <<m>>

SentOnce == last_sent = 0

TemplateDue ==
  \/ last_sent = 0
  \/ XTS_RESEND_TIME <= now - last_sent /\ now - last_sent < XTS_EXPIRE_TIME

WithTemplate(m) == IF TemplateDue THEN AttachOrSend(m, "template", Template) ELSE m

SentForTemplate(m) == IF TemplateDue THEN Sent(m, "template", Template) ELSE <<>>

\* sendto; a message that cannot be sent is lost like one that does not arrive.
Send(messages) ==
  /\ onWire' = onWire \cup Range(messages)
  /\ sentRecords' = sentRecords \o IdsSent(messages)

ipfix_export_main ==
  /\ ~ undefined /\ exported < MaxRecords /\ domain <= MaxProcesses
  /\ \E len \in RecordLens[type] :
       LET record == [id |-> exported + 1, len |-> len]
           templated == WithTemplate(export_message)
           freedTwice ==
             \/ TemplateDue /\ TriesDeleteTwice(export_message, "template", Template)
             \/ TriesDeleteTwice(templated, "data", record)
           filled == AttachOrSend(templated, "data", record)
           messages == SentForTemplate(export_message) \o Sent(templated, "data", record)
       IN IF freedTwice
          THEN undefined' = TRUE /\ UNCHANGED <<last_sent, export_message, onWire, exported,
                                                sentRecords, opened>>
          ELSE /\ export_message' = filled
               /\ Send(messages)
               /\ last_sent' = IF TemplateDue THEN now ELSE last_sent
               /\ exported' = exported + 1
               /\ opened' = IF messages # <<>> \/ IsEmpty(export_message) THEN now ELSE opened
               /\ UNCHANGED undefined
  /\ UNCHANGED <<now, domain, type, lostRecords>>

\* The process that runs next exports in a domain and of a type of its own;
\* the one after the last does nothing.
NextProcess ==
  /\ domain <= MaxProcesses
  /\ domain' = domain + 1
  /\ type' \in Types
  /\ last_sent' = 0
  /\ export_message' = NewMessage'
  /\ opened' = 0
  /\ UNCHANGED <<now, undefined, exported>>

\* The end of joy: ipfix_export_flush_message, then ipfix_module_cleanup.
Exit ==
  /\ ~ undefined
  /\ Send(IF IsEmpty(export_message) THEN <<>> ELSE <<export_message>>)
  /\ NextProcess
  /\ UNCHANGED lostRecords

\* The process is killed, and its message is lost.
Crash ==
  /\ ~ undefined
  /\ lostRecords' = lostRecords \cup Range(DataIds(export_message))
  /\ NextProcess
  /\ UNCHANGED <<onWire, sentRecords>>

ExporterInit ==
  /\ domain = 1 /\ type \in Types
  /\ last_sent = 0 /\ export_message = NewMessage /\ onWire = {}
  /\ undefined = FALSE
  /\ exported = 0 /\ lostRecords = {} /\ sentRecords = <<>> /\ opened = 0

ExporterNext == ipfix_export_main \/ Exit \/ Crash
=============================================================================
