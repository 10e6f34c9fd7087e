--------------------------- MODULE IpfixCollector ---------------------------
(***************************************************************************)
(* The IPFIX collector (joy/src/ipfix.c, joy/src/pkt_proc.c).  The main    *)
(* thread takes one message after the other, and decodes the records of a  *)
(* data set with the template stored for its exporter, domain and id.      *)
(* Between two of its steps the monitor thread deletes templates that have *)
(* not been seen for long.  There is one exporter address, and one         *)
(* template id, so that the domain stands for the whole key.               *)
(***************************************************************************)
EXTENDS Integers, SequencesExt, FiniteSets

CONSTANTS
  MAX_IPFIX_TEMPLATES,
  CTS_EXPIRE_TIME,
  MinRecordLen      \* of each type: the fixed fields, and headers of the others

VARIABLES
  now,              \* time(NULL)
  onWire,
  message,          \* the message in process_ipfix: the sets still to be parsed
  cur_template,     \* the copy found for the data set: a sequence of 0 or 1
  cts,              \* the collector template store: at most one for a key
  decoded,          \* history: each record decoded, and with which template
  skipped,          \* history: records left in a data set that was decoded
  dropped,          \* history: records of data sets without a template
  refused           \* history: a template did not fit in the store

Idle == message.sets = <<>>

\* The set that is parsed next, and the message after it.
ThisSet == Head(message.sets)

AfterSet == [message EXCEPT !.sets = Tail(@)]

\* Exporters are told apart by address and template id only.
SameTemplateId(template, m) == TRUE

ipfix_template_key_cmp(template, m) == template.domain = m.domain

Matches(m) == {template \in cts : ipfix_template_key_cmp(template, m)}

ipfix_cts_search(m) == CHOOSE template \in Matches(m) : TRUE

Receive ==
  /\ Idle
  /\ \E m \in onWire : message' = m /\ onWire' = onWire \ {m}
  /\ UNCHANGED <<now, cur_template, cts, decoded, skipped, dropped, refused>>

Room == Cardinality(cts) < MAX_IPFIX_TEMPLATES - 1

\* Of a template seen before only the time is kept.
ipfix_parse_template_set ==
  /\ ~ Idle /\ ThisSet.kind = "template"
  /\ message' = AfterSet
  /\ IF Matches(message) # {}
     THEN /\ cts' = {IF template = ipfix_cts_search(message)
                     THEN [template EXCEPT !.last_seen = now] ELSE template : template \in cts}
          /\ UNCHANGED refused
     ELSE IF Room
     THEN /\ cts' = cts \cup {[domain |-> message.domain, type |-> message.type,
                               last_seen |-> now]}
          /\ UNCHANGED refused
     ELSE refused' = TRUE /\ UNCHANGED cts
  /\ UNCHANGED <<now, onWire, cur_template, decoded, skipped, dropped>>

IdsOf(records) == {records[i].id : i \in DOMAIN records}

\* ipfix_parse_data_set as far as the search, which copies the template.
FindTemplate ==
  /\ ~ Idle /\ ThisSet.kind = "data" /\ cur_template = <<>>
  /\ IF Matches(message) # {}
     THEN /\ cur_template' = <<ipfix_cts_search(message)>>
          /\ UNCHANGED <<message, dropped>>
     ELSE /\ message' = AfterSet
          /\ dropped' = dropped \cup IdsOf(ThisSet.records)
          /\ UNCHANGED cur_template
  /\ UNCHANGED <<now, onWire, cts, decoded, skipped, refused>>

\* The loop over the records goes on while more than the shortest record is
\* left; it does not know that length before the first record.
SkipsLast(records, template) ==
  Len(records) > 1 /\ Last(records).len <= MinRecordLen[template.type]

ipfix_parse_data_set ==
  /\ ~ Idle /\ cur_template # <<>>
  /\ LET records == ThisSet.records
         template == Head(cur_template)
         read == IF SkipsLast(records, template) THEN Front(records) ELSE records
     IN /\ decoded' = decoded \cup {[id |-> id, sent |-> message.type, as |-> template.type] :
                                      id \in IdsOf(read)}
        /\ skipped' = skipped \cup (IdsOf(records) \ IdsOf(read))
  /\ cur_template' = <<>>
  /\ message' = AfterSet
  /\ UNCHANGED <<now, onWire, cts, dropped, refused>>

Expired(template) == now - template.last_seen > CTS_EXPIRE_TIME

NotExpired == {template \in cts : ~ Expired(template)}

AnyExpired == \E template \in cts : Expired(template)

\* One pass of the monitor thread, under cts_lock.
ipfix_cts_scan_expired ==
  /\ AnyExpired
  /\ cts' = NotExpired
  /\ UNCHANGED <<now, onWire, message, cur_template, decoded, skipped, dropped, refused>>

CollectorInit(none) ==
  /\ message = none /\ cur_template = <<>> /\ cts = {}
  /\ decoded = {} /\ skipped = {} /\ dropped = {} /\ refused = FALSE

CollectorNext ==
  \/ Receive \/ ipfix_parse_template_set
  \/ FindTemplate \/ ipfix_parse_data_set \/ ipfix_cts_scan_expired
=============================================================================
