------------------------------ MODULE IpfixProofs ------------------------------
(***************************************************************************)
(* Proofs about Ipfix, for messages and records of any length and any      *)
(* sequence of processes, losses and delays.                               *)
(*                                                                         *)
(* Processes of both types use one template id.  A record is decoded right *)
(* because the observation domain stands for the process, wherever it is   *)
(* found: in the exporter's message, on the wire, in the message that is   *)
(* parsed, or in the template store.                                       *)
(***************************************************************************)
EXTENDS Ipfix, SumsProofs

IsMessage(m) ==
  m = [domain |-> m.domain, type |-> m.type, length |-> m.length, sets |-> m.sets]

IsTemplate(t) == t = [domain |-> t.domain, type |-> t.type, last_seen |-> t.last_seen]

Messages == onWire \cup {export_message, message}

Typed ==
  /\ domain \in Nat
  /\ \A m \in Messages : IsMessage(m)
  /\ \A t \in cts : IsTemplate(t)

\* Everything that names a domain names the type its process exports.
OneType ==
  /\ export_message.domain = domain /\ export_message.type = type
  /\ \A a \in Messages \cup cts :
       a.domain \in Nat /\ a.domain <= domain /\ (a.domain = domain => a.type = type)
  /\ \A a, b \in Messages \cup cts : a.domain = b.domain => a.type = b.type

\* The copy of a template is used for the message it was looked up for, even if
\* the monitor thread has deleted the template meanwhile.
CopyOfTemplate ==
  cur_template # <<>> =>
    /\ message.sets # <<>> /\ Head(message.sets).kind = "data"
    /\ Head(cur_template).type = message.type

DecodeInv == Typed /\ OneType /\ CopyOfTemplate /\ DecodedAsSent

-----------------------------------------------------------------------------

LEMMA MessageExcept ==
  ASSUME NEW m, IsMessage(m), NEW length, NEW sets
  PROVE  [m EXCEPT !.length = length, !.sets = sets] =
           [domain |-> m.domain, type |-> m.type, length |-> length, sets |-> sets]
<1>1. PICK e : e = [m EXCEPT !.length = length]
  OBVIOUS
<1>2. e = [domain |-> m.domain, type |-> m.type, length |-> length, sets |-> m.sets]
  BY <1>1 DEF IsMessage
<1>3. [e EXCEPT !.sets = sets] =
        [domain |-> m.domain, type |-> m.type, length |-> length, sets |-> sets]
  BY <1>2
<1>4. [m EXCEPT !.length = length, !.sets = sets] = [e EXCEPT !.sets = sets]
  BY <1>1
<1> QED BY <1>3, <1>4

LEMMA AttachKeeps ==
  ASSUME NEW m, IsMessage(m), NEW kind, NEW record
  PROVE  LET a == X!Attach(m, kind, record) IN
         IsMessage(a) /\ a.domain = m.domain /\ a.type = m.type
<1> DEFINE a == X!Attach(m, kind, record)
<1>1. \A length, sets : LET e == [domain |-> m.domain, type |-> m.type,
                                 length |-> length, sets |-> sets] IN
        IsMessage(e) /\ e.domain = m.domain /\ e.type = m.type
  BY DEF IsMessage
<1>2. PICK length, sets : a = [m EXCEPT !.length = length, !.sets = sets]
  BY DEF X!Attach
<1>3. a = [domain |-> m.domain, type |-> m.type, length |-> length, sets |-> sets]
  BY <1>2, MessageExcept
<1> QED BY <1>1, <1>3

LEMMA AttachOrSendKeeps ==
  ASSUME NEW m, IsMessage(m), m.domain = domain, m.type = type, NEW kind, NEW record
  PROVE  LET a == X!AttachOrSend(m, kind, record) IN
         IsMessage(a) /\ a.domain = domain /\ a.type = type
<1> DEFINE new == X!NewMessage
           from == IF X!Fits(m, kind, record) THEN m ELSE new
<1>1. IsMessage(new) /\ new.domain = domain /\ new.type = type
  BY DEF X!NewMessage, IsMessage
<1>2. IsMessage(from) /\ from.domain = domain /\ from.type = type
  BY <1>1
<1>3. X!AttachOrSend(m, kind, record) = X!Attach(from, kind, record)
  BY DEF X!AttachOrSend
<1> HIDE DEF from
<1> QED BY <1>2, <1>3, AttachKeeps

\* What goes out is the message before the template or the message before the
\* record was added.
LEMMA RangeOfSent ==
  ASSUME NEW a, NEW b, NEW s \in {<<>>, <<a>>}, NEW t \in {<<>>, <<b>>}
  PROVE  Range(s \o t) \subseteq {a, b}
<1>1. CASE s = <<>> /\ t = <<>>
  BY <1>1 DEF Range
<1>2. CASE s = <<a>> /\ t = <<>>
  BY <1>2 DEF Range
<1>3. CASE s = <<>> /\ t = <<b>>
  BY <1>3 DEF Range
<1>4. CASE s = <<a>> /\ t = <<b>>
  BY <1>4 DEF Range
<1> QED BY <1>1, <1>2, <1>3, <1>4

LEMMA DecodeInit == Init => DecodeInv
BY DEF Init, X!ExporterInit, X!NewMessage, C!CollectorInit, DecodeInv, Typed, OneType, IsMessage,
       Messages, CopyOfTemplate, DecodedAsSent

\* A step of the exporter puts messages of its own domain on the wire.
LEMMA ExportStep ==
  ASSUME DecodeInv, UNCHANGED <<message, cts, cur_template, decoded, domain, type>>,
         NEW sent, onWire' \subseteq onWire \cup sent,
         \A m \in sent \cup {export_message'} :
           IsMessage(m) /\ m.domain = domain /\ m.type = type
  PROVE  DecodeInv'
<1> USE DEF DecodeInv
<1>1. \A m \in Messages' : m \in Messages \/ (IsMessage(m) /\ m.domain = domain /\ m.type = type)
  BY DEF Messages
<1>2. Typed'
  BY <1>1 DEF Typed
<1>3. OneType'
  BY <1>1 DEF Typed, OneType
<1>4. CopyOfTemplate' /\ DecodedAsSent'
  BY DEF CopyOfTemplate, DecodedAsSent
<1> QED BY <1>2, <1>3, <1>4

LEMMA RecordStep ==
  ASSUME DecodeInv, X!ipfix_export_main, UNCHANGED collectorVars
  PROVE  DecodeInv'
<1> DEFINE templated == X!WithTemplate(export_message)
<1>1. IsMessage(export_message) /\ export_message.domain = domain /\ export_message.type = type
  BY DEF DecodeInv, Typed, OneType, Messages
<1>2. IsMessage(templated) /\ templated.domain = domain /\ templated.type = type
  BY <1>1, AttachOrSendKeeps DEF X!WithTemplate
<1> HIDE DEF templated
<1>3. UNCHANGED <<message, cts, cur_template, decoded, domain, type>>
  BY DEF X!ipfix_export_main, collectorVars
<1>4. CASE UNCHANGED <<export_message, onWire>>
  <2>1. onWire' \subseteq onWire \cup {export_message}
    BY <1>4
  <2>2. \A m \in {export_message} \cup {export_message'} :
          IsMessage(m) /\ m.domain = domain /\ m.type = type
    BY <1>1, <1>4
  <2> QED BY <1>3, <2>1, <2>2, ExportStep
<1>5. CASE \E record :
             /\ export_message' = X!AttachOrSend(templated, "data", record)
             /\ X!Send(X!SentForTemplate(export_message) \o X!Sent(templated, "data", record))
  <2>1. PICK record :
          /\ export_message' = X!AttachOrSend(templated, "data", record)
          /\ X!Send(X!SentForTemplate(export_message) \o X!Sent(templated, "data", record))
    BY <1>5
  <2>2. /\ X!SentForTemplate(export_message) \in {<<>>, <<export_message>>}
        /\ X!Sent(templated, "data", record) \in {<<>>, <<templated>>}
    BY DEF X!SentForTemplate, X!Sent
  <2>3. Range(X!SentForTemplate(export_message) \o X!Sent(templated, "data", record))
          \subseteq {export_message, templated}
    BY <2>2, RangeOfSent
  <2>4. onWire' \subseteq onWire \cup {export_message, templated}
    BY <2>1, <2>3 DEF X!Send, X!Range, Range
  <2>5. /\ IsMessage(export_message') /\ export_message'.domain = domain
        /\ export_message'.type = type
    BY <2>1, <1>2, AttachOrSendKeeps
  <2> QED BY <2>4, <2>5, <1>1, <1>2, <1>3, ExportStep
<1> QED BY <1>4, <1>5 DEF X!ipfix_export_main, templated

\* The next process has a domain that nothing names yet.
LEMMA ProcessStep ==
  ASSUME DecodeInv, X!NextProcess, UNCHANGED collectorVars,
         onWire' \subseteq onWire \cup {export_message}
  PROVE  DecodeInv'
<1>1. /\ domain' = domain + 1
      /\ export_message' = [domain |-> domain', type |-> type', length |-> MessageHeader, sets |-> <<>>]
      /\ UNCHANGED <<message, cts, cur_template, decoded>>
  BY DEF X!NextProcess, X!NewMessage, collectorVars
<1> USE DEF DecodeInv
<1>2. \A m \in Messages' : m \in Messages \/ m = export_message'
  BY <1>1 DEF Messages
<1>3. IsMessage(export_message') /\ export_message'.domain = domain + 1
      /\ export_message'.type = type'
  BY <1>1 DEF IsMessage
<1>4. Typed'
  BY <1>1, <1>2, <1>3 DEF Typed
<1>5. \A a \in Messages \cup cts : a.domain \in Nat /\ a.domain < domain + 1
  BY DEF Typed, OneType
<1>6. OneType'
  BY <1>1, <1>2, <1>3, <1>5 DEF Typed, OneType
<1>7. CopyOfTemplate' /\ DecodedAsSent'
  BY <1>1 DEF CopyOfTemplate, DecodedAsSent
<1> QED BY <1>4, <1>6, <1>7

-----------------------------------------------------------------------------

\* The collector names no domain that is not on the wire, in its message or in
\* its store already.
LEMMA CollectorKeeps ==
  ASSUME DecodeInv, UNCHANGED <<domain, type, export_message>>,
         onWire' \subseteq onWire, IsMessage(message'), \A t \in cts' : IsTemplate(t),
         \A a \in {message'} \cup cts' : \E b \in Messages \cup cts :
           a.domain = b.domain /\ a.type = b.type
  PROVE  Typed' /\ OneType'
<1> USE DEF DecodeInv
<1>1. Typed'
  BY DEF Typed, Messages
<1>2. \A a \in Messages' \cup cts' : \E b \in Messages \cup cts :
        a.domain = b.domain /\ a.type = b.type
  BY DEF Messages
<1>3. OneType'
  BY <1>2 DEF OneType
<1> QED BY <1>1, <1>3

LEMMA MessageFacts ==
  ASSUME DecodeInv
  PROVE  /\ IsMessage(message) /\ message \in Messages
         /\ IsMessage(C!AfterSet) /\ C!AfterSet.domain = message.domain
         /\ C!AfterSet.type = message.type
<1>1. IsMessage(message) /\ message \in Messages
  BY DEF DecodeInv, Typed, Messages
<1>2. \A sets : LET e == [message EXCEPT !.sets = sets] IN
        IsMessage(e) /\ e.domain = message.domain /\ e.type = message.type
  BY <1>1 DEF IsMessage
<1>3. C!AfterSet = [message EXCEPT !.sets = Tail(message.sets)]
  BY DEF C!AfterSet
<1> QED BY <1>1, <1>2, <1>3

LEMMA CollectStep ==
  ASSUME DecodeInv, C!CollectorNext, UNCHANGED exporterVars
  PROVE  DecodeInv'
<1>1. UNCHANGED <<domain, type, export_message>>
  BY DEF exporterVars
<1>2. \A t \in cts : IsTemplate(t)
  BY DEF DecodeInv, Typed
<1>3. \A d \in decoded : d.sent = d.as
  BY DEF DecodeInv, DecodedAsSent
<1>4. CASE C!Receive
  <2>1. /\ message' \in onWire /\ onWire' \subseteq onWire /\ message.sets = <<>>
        /\ cts' = cts /\ cur_template' = cur_template /\ decoded' = decoded
    BY <1>4 DEF C!Receive, C!Idle
  <2>2. message' \in Messages /\ IsMessage(message')
    BY <2>1 DEF DecodeInv, Typed, Messages
  <2>3. Typed' /\ OneType'
    BY <1>1, <1>2, <2>1, <2>2, CollectorKeeps
  <2>4. cur_template' = <<>>
    BY <2>1 DEF DecodeInv, CopyOfTemplate
  <2> QED BY <1>3, <2>1, <2>3, <2>4 DEF DecodeInv, CopyOfTemplate, DecodedAsSent
<1>5. CASE C!ipfix_parse_template_set
  <2>1. /\ message' = C!AfterSet /\ onWire' = onWire /\ Head(message.sets).kind = "template"
        /\ cur_template' = cur_template /\ decoded' = decoded
    BY <1>5 DEF C!ipfix_parse_template_set, C!ThisSet
  <2>2. \A t \in cts' : IsTemplate(t) /\
          (\/ t.domain = message.domain /\ t.type = message.type
           \/ \E b \in cts : t.domain = b.domain /\ t.type = b.type)
    <3>1. CASE cts' = cts
      BY <1>2, <3>1
    <3>2. CASE cts' = cts \cup {[domain |-> message.domain, type |-> message.type,
                                 last_seen |-> now]}
      BY <1>2, <3>2 DEF IsTemplate
    <3>3. CASE \E f : cts' = {IF t = f THEN [t EXCEPT !.last_seen = now] ELSE t : t \in cts}
      <4>1. \A t \in cts : LET e == [t EXCEPT !.last_seen = now] IN
              IsTemplate(e) /\ e.domain = t.domain /\ e.type = t.type
        BY <1>2 DEF IsTemplate
      <4> QED BY <1>2, <3>3, <4>1
    <3> QED BY <1>5, <3>1, <3>2, <3>3 DEF C!ipfix_parse_template_set
  <2>3. Typed' /\ OneType'
    BY <1>1, <2>1, <2>2, MessageFacts, CollectorKeeps
  <2>4. cur_template' = <<>>
    BY <2>1 DEF DecodeInv, CopyOfTemplate
  <2> QED BY <1>3, <2>1, <2>3, <2>4 DEF DecodeInv, CopyOfTemplate, DecodedAsSent
<1>6. CASE C!FindTemplate
  <2>1. /\ onWire' = onWire /\ cts' = cts /\ decoded' = decoded
        /\ message.sets # <<>> /\ Head(message.sets).kind = "data" /\ cur_template = <<>>
        /\ \/ /\ C!Matches(message) # {} /\ message' = message
              /\ cur_template' = <<C!ipfix_cts_search(message)>>
           \/ message' = C!AfterSet /\ cur_template' = cur_template
    BY <1>6 DEF C!FindTemplate, C!Idle, C!ThisSet
  <2>2. Typed' /\ OneType'
    BY <1>1, <1>2, <2>1, MessageFacts, CollectorKeeps
  <2>3. CopyOfTemplate'
    <3>1. CASE cur_template' = cur_template
      BY <2>1, <3>1 DEF CopyOfTemplate
    <3>2. CASE /\ C!Matches(message) # {} /\ message' = message
               /\ cur_template' = <<C!ipfix_cts_search(message)>>
      <4>1. PICK t : t = C!ipfix_cts_search(message)
        OBVIOUS
      <4>2. t \in cts /\ t.domain = message.domain
        BY <3>2, <4>1 DEF C!ipfix_cts_search, C!Matches, C!ipfix_template_key_cmp
      <4>3. t.type = message.type
        BY <4>2, MessageFacts DEF DecodeInv, OneType
      <4>4. Head(cur_template') = t
        BY <3>2, <4>1
      <4> QED BY <2>1, <3>2, <4>3, <4>4 DEF CopyOfTemplate
    <3> QED BY <2>1, <3>1, <3>2
  <2> QED BY <1>3, <2>1, <2>2, <2>3 DEF DecodeInv, DecodedAsSent
<1>7. CASE C!ipfix_parse_data_set
  <2>1. PICK ids :
          /\ decoded' = decoded \cup
               {[id |-> id, sent |-> message.type, as |-> Head(cur_template).type] : id \in ids}
          /\ cur_template # <<>> /\ cur_template' = <<>> /\ message' = C!AfterSet
          /\ onWire' = onWire /\ cts' = cts
    BY <1>7 DEF C!ipfix_parse_data_set
  <2>2. Typed' /\ OneType'
    BY <1>1, <1>2, <2>1, MessageFacts, CollectorKeeps
  <2>3. Head(cur_template).type = message.type
    BY <2>1 DEF DecodeInv, CopyOfTemplate
  <2>4. DecodedAsSent'
    BY <1>3, <2>1, <2>3 DEF DecodedAsSent
  <2> QED BY <2>1, <2>2, <2>4 DEF DecodeInv, CopyOfTemplate
<1>8. CASE C!ipfix_cts_scan_expired
  <2>1. /\ cts' \subseteq cts /\ onWire' = onWire /\ message' = message
        /\ cur_template' = cur_template /\ decoded' = decoded
    BY <1>8 DEF C!ipfix_cts_scan_expired, C!NotExpired
  <2>2. Typed' /\ OneType'
    BY <1>1, <1>2, <2>1, MessageFacts, CollectorKeeps
  <2> QED BY <2>1, <2>2 DEF DecodeInv, CopyOfTemplate, DecodedAsSent
<1> QED BY <1>4, <1>5, <1>6, <1>7, <1>8 DEF C!CollectorNext

LEMMA DecodeStep == DecodeInv /\ [Next]_vars => DecodeInv'
<1> SUFFICES ASSUME DecodeInv, [Next]_vars PROVE DecodeInv'
  OBVIOUS
<1>1. CASE UNCHANGED <<domain, type, export_message, message, cts, cur_template, decoded>>
           /\ onWire' \subseteq onWire
  BY <1>1 DEF DecodeInv, Typed, OneType, Messages, CopyOfTemplate, DecodedAsSent
<1>2. CASE Export
  <2>1. CASE X!ipfix_export_main
    BY <1>2, <2>1, RecordStep DEF Export
  <2>2. CASE X!Exit
    <3>1. PICK s \in {<<>>, <<export_message>>} : onWire' = onWire \cup Range(s)
      BY <2>2 DEF X!Exit, X!Send, X!Range, Range
    <3>2. Range(s) \subseteq {export_message}
      BY <3>1 DEF Range
    <3> QED BY <1>2, <2>2, <3>1, <3>2, ProcessStep DEF Export, X!Exit
  <2>3. CASE X!Crash
    BY <1>2, <2>3, ProcessStep DEF Export, X!Crash
  <2> QED BY <1>2, <2>1, <2>2, <2>3 DEF Export, X!ExporterNext
<1>3. CASE Collect
  BY <1>3, CollectStep DEF Collect
<1>4. CASE Lose \/ Tick \/ UNCHANGED vars
  BY <1>1, <1>4 DEF Lose, Tick, vars, exporterVars, collectorVars
<1> QED BY <1>2, <1>3, <1>4 DEF Next

\* A record is decoded with the template of the process that sent it, however
\* messages are lost or overtake one another, templates expire between a search
\* and its use, and processes of both types follow one another.
THEOREM RecordsDecodedRight == Spec => []DecodedAsSent
<1>1. DecodeInv => DecodedAsSent
  BY DEF DecodeInv
<1> QED BY <1>1, DecodeInit, DecodeStep, PTL DEF Spec

(***************************************************************************)
(* Packing.  A message has at most one set of each kind.                   *)
(***************************************************************************)
Records == [id: Nat, len: Nat]

Kinds == {"template", "data"}

Sets == [kind: Kinds, length: Nat, records: Seq(Records)]

OneSetPerKind(m) ==
  \A i, j \in DOMAIN m.sets : m.sets[i].kind = m.sets[j].kind => i = j

LengthsRight(m) ==
  /\ m.length = LenOfSets(m)
  /\ \A i \in DOMAIN m.sets : m.sets[i].length = LenOfRecords(m.sets[i])

Packed(m) ==
  /\ IsMessage(m) /\ m.length \in Nat /\ m.sets \in Seq(Sets)
  /\ m.length <= IPFIX_MTU /\ OneSetPerKind(m) /\ LengthsRight(m)

-----------------------------------------------------------------------------

LEMMA EmptyPacked ==
  ASSUME NEW d, NEW t
  PROVE  LET m == [domain |-> d, type |-> t, length |-> MessageHeader, sets |-> <<>>] IN
         Packed(m) /\ X!DataIds(m) = <<>>
<1> DEFINE m == [domain |-> d, type |-> t, length |-> MessageHeader, sets |-> <<>>]
<1>1. m.length = MessageHeader /\ m.sets = <<>> /\ IsMessage(m) /\ DOMAIN m.sets = {}
  BY DEF IsMessage
<1>2. LenOfSets(m) = MessageHeader
  <2>1. [i \in DOMAIN m.sets |-> m.sets[i].length] = <<>>
    BY <1>1
  <2> QED BY <2>1, SumOfEmpty DEF LenOfSets
<1>3. MessageHeader \in Nat /\ MessageHeader <= IPFIX_MTU
  BY SizesAssumption
<1> HIDE DEF m
<1>4. Packed(m)
  BY <1>1, <1>2, <1>3 DEF Packed, OneSetPerKind, LengthsRight
<1>5. X!DataIds(m) = <<>>
  BY <1>1 DEF X!DataIds, X!HasSet
<1> QED BY <1>4, <1>5 DEF m

LEMMA NewMessagePacked == Packed(X!NewMessage) /\ X!DataIds(X!NewMessage) = <<>>
BY EmptyPacked DEF X!NewMessage

LEMMA NewMessagePackedNext == Packed(X!NewMessage') /\ X!DataIds(X!NewMessage') = <<>>
BY EmptyPacked DEF X!NewMessage

LEMMA NewSetLengths ==
  ASSUME NEW kind \in Kinds, NEW record \in Records
  PROVE  LET set == X!NewSet(kind, record) IN
         /\ set \in Sets /\ set.kind = kind /\ set.records = <<record>>
         /\ set.length = SetHeader + record.len /\ set.length = LenOfRecords(set)
<1> DEFINE set == X!NewSet(kind, record)
<1>1. SetHeader \in Nat /\ record.len \in Nat
  BY SizesAssumption DEF Records
<1>2. /\ set \in Sets /\ set.kind = kind /\ set.records = <<record>>
      /\ set.length = SetHeader + record.len
  BY <1>1 DEF X!NewSet, Sets
<1>3. LenOfRecords(set) = SetHeader + record.len
  <2>1. [i \in DOMAIN set.records |-> set.records[i].len] = Append(<<>>, record.len)
    BY <1>2
  <2>2. SumOf(SetHeader, Append(<<>>, record.len)) = SumOf(SetHeader, <<>>) + record.len
    <3>1. <<>> \in Seq(Int) /\ record.len \in Int
      BY <1>1
    <3> QED BY <3>1, SumOfAppend
  <2>3. SumOf(SetHeader, <<>>) = SetHeader
    BY SumOfEmpty
  <2> QED BY <2>1, <2>2, <2>3 DEF LenOfRecords
<1> HIDE DEF set
<1> QED BY <1>2, <1>3 DEF set

LEMMA AddRecordLengths ==
  ASSUME NEW set \in Sets, NEW record \in Records, set.length = LenOfRecords(set)
  PROVE  LET added == X!AddRecord(set, record) IN
         /\ added \in Sets /\ added.kind = set.kind
         /\ added.records = Append(set.records, record)
         /\ added.length = set.length + record.len /\ added.length = LenOfRecords(added)
<1> DEFINE added == X!AddRecord(set, record)
           lens == [i \in DOMAIN set.records |-> set.records[i].len]
<1>1. SetHeader \in Nat /\ record.len \in Nat /\ set.length \in Nat /\ set.records \in Seq(Records)
  BY SizesAssumption DEF Records, Sets
<1>2. /\ added \in Sets /\ added.kind = set.kind
      /\ added.records = Append(set.records, record) /\ added.length = set.length + record.len
  <2>1. PICK e : e = [set EXCEPT !.length = set.length + record.len]
    OBVIOUS
  <2>2. /\ e \in Sets /\ e.kind = set.kind /\ e.records = set.records
        /\ e.length = set.length + record.len
    BY <1>1, <2>1 DEF Sets
  <2>3. added = [e EXCEPT !.records = Append(set.records, record)]
    BY <2>1 DEF X!AddRecord
  <2>4. Append(set.records, record) \in Seq(Records)
    BY <1>1
  <2> HIDE DEF added
  <2> QED BY <2>2, <2>3, <2>4 DEF Sets
<1>3. lens \in Seq(Int)
  <2>1. PICK s : s = set.records /\ s \in Seq(Records)
    BY <1>1
  <2>2. [i \in 1..Len(s) |-> s[i].len] \in [1..Len(s) -> Int] /\ Len(s) \in Nat
    <3>1. \A i \in 1..Len(s) : s[i] \in Records
      BY <2>1
    <3>2. \A i \in 1..Len(s) : s[i].len \in Int
      BY <3>1 DEF Records
    <3> QED BY <2>1, <3>2
  <2>3. lens = [i \in 1..Len(s) |-> s[i].len]
    BY <2>1
  <2> QED BY <2>2, <2>3, SeqDef
<1>4. [i \in DOMAIN added.records |-> added.records[i].len] = Append(lens, record.len)
  <2> HIDE DEF added
  <2>1. PICK s : s = set.records /\ s \in Seq(Records)
    BY <1>1
  <2>2. [i \in DOMAIN Append(s, record) |-> Append(s, record)[i].len]
          = Append([i \in DOMAIN s |-> s[i].len], record.len)
    BY <2>1
  <2> QED BY <1>2, <2>1, <2>2
<1>5. LenOfRecords(added) = LenOfRecords(set) + record.len
  <2>1. SumOf(SetHeader, Append(lens, record.len)) = SumOf(SetHeader, lens) + record.len
    BY <1>1, <1>3, SumOfAppend
  <2> QED BY <1>4, <2>1 DEF LenOfRecords
<1> HIDE DEF added
<1> QED BY <1>2, <1>5 DEF added

LEMMA OneMore ==
  ASSUME NEW n \in Nat
  PROVE  /\ \A l \in 1..(n + 1) : l \in 1..n \/ l = n + 1
         /\ n + 1 \notin 1..n /\ n + 1 \in 1..(n + 1) /\ \A l \in 1..n : l \in 1..(n + 1)
OBVIOUS

\* The numbers in a message are those of its data set.
LEMMA DataIdsAt ==
  ASSUME NEW m, NEW j \in DOMAIN m.sets, \A i \in DOMAIN m.sets : m.sets[i].kind = "data" <=> i = j
  PROVE  X!DataIds(m) = [n \in DOMAIN m.sets[j].records |-> m.sets[j].records[n].id]
<1>1. X!HasSet(m, "data")
  BY DEF X!HasSet
<1>2. (CHOOSE i \in DOMAIN m.sets : m.sets[i].kind = "data") = j
  OBVIOUS
<1>3. X!DataIds(m) = LET i == CHOOSE i \in DOMAIN m.sets : m.sets[i].kind = "data" IN
                     [n \in DOMAIN m.sets[i].records |-> m.sets[i].records[n].id]
  BY <1>1, Zenon DEF X!DataIds
<1> QED BY <1>2, <1>3, Zenon

LEMMA SameData ==
  ASSUME NEW m, NEW a, DOMAIN a.sets = DOMAIN m.sets, OneSetPerKind(m),
         \A i \in DOMAIN m.sets : m.sets[i].kind = "data" => a.sets[i] = m.sets[i],
         \A i \in DOMAIN m.sets : a.sets[i].kind = "data" <=> m.sets[i].kind = "data"
  PROVE  X!DataIds(a) = X!DataIds(m)
<1>1. CASE X!HasSet(m, "data")
  <2>1. PICK j \in DOMAIN m.sets : m.sets[j].kind = "data"
    BY <1>1 DEF X!HasSet
  <2>2. \A i \in DOMAIN m.sets : m.sets[i].kind = "data" <=> i = j
    BY <2>1 DEF OneSetPerKind
  <2>3. \A i \in DOMAIN a.sets : a.sets[i].kind = "data" <=> i = j
    BY <2>2
  <2>4. a.sets[j] = m.sets[j] /\ j \in DOMAIN a.sets
    BY <2>1
  <2>5. X!DataIds(m) = [n \in DOMAIN m.sets[j].records |-> m.sets[j].records[n].id]
    BY <2>2, DataIdsAt
  <2>6. X!DataIds(a) = [n \in DOMAIN a.sets[j].records |-> a.sets[j].records[n].id]
    BY <2>3, <2>4, DataIdsAt
  <2> QED BY <2>4, <2>5, <2>6
<1>2. CASE ~ X!HasSet(m, "data")
  BY <1>2 DEF X!DataIds, X!HasSet
<1> QED BY <1>1, <1>2

\* What Attach does to a message, whether the set is new or not.
LEMMA AttachPacked ==
  ASSUME NEW m, Packed(m), NEW kind \in Kinds, NEW record \in Records,
         X!Fits(m, kind, record)
  PROVE  LET a == X!Attach(m, kind, record) IN
         /\ Packed(a) /\ a.domain = m.domain /\ a.type = m.type
         /\ X!DataIds(a) = IF kind = "data" THEN Append(X!DataIds(m), record.id) ELSE X!DataIds(m)
<1> DEFINE a == X!Attach(m, kind, record)
           lens == [i \in DOMAIN m.sets |-> m.sets[i].length]
<1>1. /\ m.length \in Nat /\ m.sets \in Seq(Sets) /\ DOMAIN m.sets = 1..Len(m.sets)
      /\ Len(m.sets) \in Nat /\ m.length <= IPFIX_MTU
      /\ m.length = SumOf(MessageHeader, lens)
  BY DEF Packed, LengthsRight, LenOfSets
<1>2. MessageHeader \in Nat \ {0} /\ SetHeader \in Nat \ {0} /\ IPFIX_MTU \in Nat /\ record.len \in Nat
  BY SizesAssumption DEF Records
<1>3. \A i \in DOMAIN m.sets : /\ m.sets[i] \in Sets /\ m.sets[i].length \in Nat
                              /\ m.sets[i].length = LenOfRecords(m.sets[i])
  <2>1. \A i \in DOMAIN m.sets : m.sets[i] \in Sets
    BY <1>1
  <2>2. \A i \in DOMAIN m.sets : m.sets[i].length \in Nat
    BY <2>1 DEF Sets
  <2>3. \A i \in DOMAIN m.sets : m.sets[i].length = LenOfRecords(m.sets[i])
    BY DEF Packed, LengthsRight
  <2> QED BY <2>1, <2>2, <2>3
<1>4. lens \in Seq(Int)
  <2>1. lens = [i \in 1..Len(m.sets) |-> m.sets[i].length]
        /\ lens \in [1..Len(m.sets) -> Int]
    BY <1>1, <1>3
  <2> QED BY <1>1, <2>1, SeqDef
<1>5. CASE X!HasSet(m, kind)
  <2>1. PICK j \in DOMAIN m.sets : m.sets[j].kind = kind
    BY <1>5 DEF X!HasSet
  <2>2. \A i \in DOMAIN m.sets : m.sets[i].kind = kind <=> i = j
    BY <2>1 DEF Packed, OneSetPerKind
  <2>3. PICK new : new = [i \in DOMAIN m.sets |-> IF i = j THEN X!AddRecord(m.sets[i], record)
                                                ELSE m.sets[i]]
    OBVIOUS
  <2>4. new = [i \in DOMAIN m.sets |-> IF m.sets[i].kind = kind
                                       THEN X!AddRecord(m.sets[i], record) ELSE m.sets[i]]
    BY <2>2, <2>3
  <2>5. a = [m EXCEPT !.length = m.length + record.len, !.sets = new]
    BY <1>5, <2>4 DEF X!Attach
  <2>6. /\ a = [domain |-> m.domain, type |-> m.type, length |-> m.length + record.len, sets |-> new]
        /\ IsMessage(a)
    BY <2>5, MessageExcept DEF Packed, IsMessage
  <2> HIDE DEF a
  <2>7. LET s == X!AddRecord(m.sets[j], record) IN
        /\ s \in Sets /\ s.kind = kind /\ s.records = Append(m.sets[j].records, record)
        /\ s.length = m.sets[j].length + record.len /\ s.length = LenOfRecords(s)
    BY <1>3, <2>1, AddRecordLengths
  <2>8. /\ DOMAIN new = DOMAIN m.sets /\ new[j] = X!AddRecord(m.sets[j], record)
        /\ \A i \in DOMAIN m.sets \ {j} : new[i] = m.sets[i]
    BY <2>1, <2>3
  <2>9. new \in Seq(Sets)
    <3>1. \A i \in DOMAIN m.sets : new[i] \in Sets
      BY <1>3, <2>7, <2>8
    <3>2. new \in [1..Len(m.sets) -> Sets]
      BY <1>1, <2>3, <3>1
    <3> QED BY <1>1, <3>2, SeqDef
  <2>10. SumOf(MessageHeader, [i \in DOMAIN new |-> new[i].length])
           = SumOf(MessageHeader, lens) + record.len
    <3> DEFINE grown == [i \in DOMAIN new |-> new[i].length]
    <3>1. grown \in Seq(Int)
      <4>0. \A i \in 1..Len(m.sets) : new[i] \in Sets
        BY <1>1, <2>8, <2>9
      <4>1. /\ grown = [i \in 1..Len(m.sets) |-> new[i].length]
            /\ \A i \in 1..Len(m.sets) : new[i].length \in Int
        BY <1>1, <2>8, <4>0 DEF Sets
      <4>2. grown \in [1..Len(m.sets) -> Int]
        BY <4>1
      <4> QED BY <1>1, <4>2, SeqDef
    <3>2. /\ DOMAIN grown = DOMAIN lens /\ j \in DOMAIN lens
          /\ grown[j] = lens[j] + record.len
          /\ \A i \in DOMAIN lens \ {j} : grown[i] = lens[i]
      BY <2>1, <2>7, <2>8
    <3> HIDE DEF grown, lens
    <3>3. MessageHeader \in Int /\ record.len \in Int
      BY <1>2
    <3>4. SumOf(MessageHeader, grown) = SumOf(MessageHeader, lens) + record.len
      BY <1>4, <3>1, <3>2, <3>3, SumOfChange
    <3> QED BY <3>4 DEF grown
  <2>11. a.length \in Nat /\ a.length <= IPFIX_MTU
    <3>1. record.len + m.length <= IPFIX_MTU - MessageHeader
      BY <1>5 DEF X!Fits, X!IPFIX_MAX_SET_LEN
    <3> QED BY <1>1, <1>2, <2>6, <3>1
  <2>12. OneSetPerKind(a)
    <3>1. \A i \in DOMAIN m.sets : new[i].kind = m.sets[i].kind
      BY <2>1, <2>7, <2>8
    <3> QED BY <2>6, <2>8, <3>1 DEF Packed, OneSetPerKind
  <2>13. LengthsRight(a)
    <3>1. \A i \in DOMAIN new : new[i].length = LenOfRecords(new[i])
      BY <1>3, <2>7, <2>8
    <3> QED BY <1>1, <2>6, <2>10, <3>1 DEF LengthsRight, LenOfSets
  <2>14. X!DataIds(a) = IF kind = "data" THEN Append(X!DataIds(m), record.id) ELSE X!DataIds(m)
    <3>1. \A i \in DOMAIN m.sets : new[i].kind = m.sets[i].kind
      BY <2>1, <2>7, <2>8
    <3>2. DOMAIN a.sets = DOMAIN m.sets /\ \A i \in DOMAIN m.sets : a.sets[i] = new[i]
      BY <2>6, <2>8
    <3>3. CASE kind = "data"
      <4>5. PICK s : s = m.sets[j].records /\ s \in Seq(Records)
        BY <1>3, <2>1 DEF Sets
      <4>6. X!DataIds(m) = [n \in DOMAIN s |-> s[n].id]
        BY <2>2, <3>3, <4>5, DataIdsAt
      <4>7. a.sets[j].records = Append(s, record)
        BY <2>1, <2>7, <2>8, <3>2, <4>5
      <4>8. X!DataIds(a) = [n \in DOMAIN Append(s, record) |-> Append(s, record)[n].id]
        <5>1. j \in DOMAIN a.sets /\ \A i \in DOMAIN a.sets : a.sets[i].kind = "data" <=> i = j
          BY <2>2, <3>1, <3>2, <3>3
        <5> QED BY <4>7, <5>1, DataIdsAt
      <4>9. [n \in DOMAIN Append(s, record) |-> Append(s, record)[n].id]
              = Append([n \in DOMAIN s |-> s[n].id], record.id)
        <5>1. PICK n \in Nat : n = Len(s) /\ DOMAIN s = 1..n
          BY <4>5
        <5>2. PICK l, ids : l = Append(s, record) /\ ids = [i \in DOMAIN s |-> s[i].id]
          OBVIOUS
        <5>3. DOMAIN l = 1..(n + 1) /\ l[n + 1] = record /\ \A i \in 1..n : l[i] = s[i]
          BY <4>5, <5>1, <5>2
        <5>4. [i \in DOMAIN l |-> l[i].id] = [i \in 1..(n + 1) |-> IF i = n + 1 THEN record.id ELSE ids[i]]
          BY <5>1, <5>2, <5>3
        <5>5. Append(ids, record.id) = [i \in 1..(n + 1) |-> IF i = n + 1 THEN record.id ELSE ids[i]]
          BY <5>1, <5>2
        <5> QED BY <5>2, <5>4, <5>5
      <4> QED BY <3>3, <4>6, <4>8, <4>9
    <3>4. CASE kind # "data"
      <4>1. \A i \in DOMAIN m.sets : m.sets[i].kind = "data" => a.sets[i] = m.sets[i]
        BY <2>1, <2>8, <3>2, <3>4
      <4>2. \A i \in DOMAIN m.sets : a.sets[i].kind = "data" <=> m.sets[i].kind = "data"
        BY <3>1, <3>2
      <4>3. X!DataIds(a) = X!DataIds(m)
        BY <3>2, <4>1, <4>2, SameData DEF Packed
      <4> QED BY <3>4, <4>3
    <3> QED BY <3>3, <3>4
  <2> QED BY <2>6, <2>9, <2>11, <2>12, <2>13, <2>14 DEF Packed, a
<1>6. CASE ~ X!HasSet(m, kind)
  <2> DEFINE n == Len(m.sets)
  <2>1. PICK set : set = X!NewSet(kind, record)
    OBVIOUS
  <2>2. /\ set \in Sets /\ set.kind = kind /\ set.records = <<record>>
        /\ set.length = SetHeader + record.len /\ set.length = LenOfRecords(set)
    BY <2>1, NewSetLengths
  <2>3. a = [m EXCEPT !.length = m.length + set.length, !.sets = Append(m.sets, set)]
    BY <1>6, <2>1 DEF X!Attach
  <2>4. PICK new : new = Append(m.sets, set)
    OBVIOUS
  <2>5. /\ a = [domain |-> m.domain, type |-> m.type, length |-> m.length + set.length, sets |-> new]
        /\ IsMessage(a)
    BY <2>3, <2>4, MessageExcept DEF Packed, IsMessage
  <2> HIDE DEF a
  <2>6. /\ new \in Seq(Sets) /\ DOMAIN new = 1..(n + 1) /\ new[n + 1] = set
        /\ \A i \in 1..n : new[i] = m.sets[i]
    BY <1>1, <2>2, <2>4
  <2>7. SumOf(MessageHeader, [i \in DOMAIN new |-> new[i].length])
          = SumOf(MessageHeader, lens) + set.length
    <3>1. [i \in DOMAIN new |-> new[i].length] = Append(lens, set.length)
      BY <1>1, <2>4
    <3>2. set.length \in Int
      BY <2>2 DEF Sets
    <3> HIDE DEF lens
    <3> QED BY <1>4, <3>1, <3>2, SumOfAppend
  <2>8. a.length \in Nat /\ a.length <= IPFIX_MTU
    <3>1. m.length + set.length <= IPFIX_MTU
      BY <1>6, <2>1 DEF X!Fits
    <3>2. set.length \in Nat
      BY <2>2 DEF Sets
    <3> QED BY <1>1, <2>5, <3>1, <3>2
  <2>9. \A i \in 1..n : m.sets[i].kind # kind
    BY <1>1, <1>6 DEF X!HasSet
  <2>10. OneSetPerKind(a)
    <3>1. ASSUME NEW i \in 1..(n + 1), NEW k \in 1..(n + 1), new[i].kind = new[k].kind
          PROVE  i = k
      <4>1. CASE i \in 1..n /\ k \in 1..n
        BY <1>1, <2>6, <3>1, <4>1 DEF Packed, OneSetPerKind
      <4>2. CASE i \notin 1..n \/ k \notin 1..n
        <5>1. \A l \in 1..(n + 1) : l \in 1..n \/ l = n + 1
          BY <1>1, OneMore
        <5> QED BY <2>2, <2>6, <2>9, <3>1, <4>2, <5>1
      <4> QED BY <4>1, <4>2
    <3> QED BY <2>5, <2>6, <3>1 DEF OneSetPerKind
  <2>11. LengthsRight(a)
    <3>1. \A i \in DOMAIN new : new[i].length = LenOfRecords(new[i])
      <4>1. \A l \in 1..(n + 1) : l \in 1..n \/ l = n + 1
        BY <1>1, OneMore
      <4> QED BY <1>1, <1>3, <2>2, <2>6, <4>1
    <3> QED BY <1>1, <2>5, <2>7, <3>1 DEF LengthsRight, LenOfSets
  <2>12. X!DataIds(a) = IF kind = "data" THEN Append(X!DataIds(m), record.id) ELSE X!DataIds(m)
    <3>1. CASE kind = "data"
      <4>1. X!DataIds(m) = <<>>
        BY <1>6, <3>1 DEF X!DataIds
      <4>2. \A i \in 1..(n + 1) : new[i].kind = "data" <=> i = n + 1
        <5>1. \A l \in 1..(n + 1) : l \in 1..n \/ l = n + 1
          BY <1>1, OneMore
        <5>2. n + 1 \notin 1..n
          BY <1>1
        <5> QED BY <2>2, <2>6, <2>9, <3>1, <5>1, <5>2
      <4>3. n + 1 \in DOMAIN a.sets /\ DOMAIN a.sets = 1..(n + 1) /\ a.sets = new
        BY <1>1, <2>5, <2>6
      <4>5. a.sets[n + 1].records = <<record>>
        BY <2>2, <2>6, <4>3
      <4>6. X!DataIds(a) = [l \in DOMAIN <<record>> |-> <<record>>[l].id]
        <5>1. PICK k : k = n + 1
          OBVIOUS
        <5>2. k \in DOMAIN a.sets /\ \A i \in DOMAIN a.sets : a.sets[i].kind = "data" <=> i = k
          BY <4>2, <4>3, <5>1
        <5>3. X!DataIds(a) = [l \in DOMAIN a.sets[k].records |-> a.sets[k].records[l].id]
          BY <5>2, DataIdsAt
        <5> QED BY <4>5, <5>1, <5>3
      <4>7. [l \in DOMAIN <<record>> |-> <<record>>[l].id] = Append(<<>>, record.id)
        OBVIOUS
      <4> QED BY <3>1, <4>1, <4>6, <4>7
    <3>2. CASE kind # "data"
      <4>1. \A i \in 1..(n + 1) : new[i].kind = "data" => i \in 1..n
        <5>1. \A l \in 1..(n + 1) : l \in 1..n \/ l = n + 1
          BY <1>1, OneMore
        <5> QED BY <2>2, <2>6, <3>2, <5>1
      <4>2. X!HasSet(a, "data") <=> X!HasSet(m, "data")
        <5>1. \A i \in 1..n : i \in 1..(n + 1)
          BY <1>1
        <5> QED BY <1>1, <2>5, <2>6, <4>1, <5>1 DEF X!HasSet
      <4>3. CASE X!HasSet(m, "data")
        <5>1. PICK j \in 1..n : m.sets[j].kind = "data"
          BY <1>1, <4>3 DEF X!HasSet
        <5>2. \A i \in DOMAIN m.sets : m.sets[i].kind = "data" <=> i = j
          BY <1>1, <5>1 DEF Packed, OneSetPerKind
        <5>3. j \in DOMAIN a.sets /\ \A i \in DOMAIN a.sets : a.sets[i].kind = "data" <=> i = j
          <6>1. a.sets = new /\ DOMAIN a.sets = 1..(n + 1) /\ DOMAIN m.sets = 1..n
            BY <1>1, <2>5, <2>6
          <6>2. j \in 1..(n + 1) /\ \A i \in 1..n : i \in 1..(n + 1)
            BY <1>1
          <6>3. ASSUME NEW i \in 1..(n + 1) PROVE new[i].kind = "data" <=> i = j
            <7>1. CASE i \in 1..n
              BY <2>6, <5>2, <6>1, <7>1
            <7>2. CASE i \notin 1..n
              BY <4>1, <7>2
            <7> QED BY <7>1, <7>2
          <6> QED BY <6>1, <6>2, <6>3
        <5>5. a.sets[j] = m.sets[j]
          BY <2>5, <2>6, <5>1
        <5>6. X!DataIds(m) = [l \in DOMAIN m.sets[j].records |-> m.sets[j].records[l].id]
          <6>1. j \in DOMAIN m.sets
            BY <1>1, <5>1
          <6> QED BY <5>2, <6>1, DataIdsAt
        <5>7. X!DataIds(a) = [l \in DOMAIN a.sets[j].records |-> a.sets[j].records[l].id]
          BY <5>3, DataIdsAt
        <5> QED BY <3>2, <5>5, <5>6, <5>7
      <4> QED BY <3>2, <4>2, <4>3 DEF X!DataIds
    <3> QED BY <3>1, <3>2
  <2> QED BY <2>5, <2>6, <2>8, <2>10, <2>11, <2>12 DEF Packed, a
<1> QED BY <1>5, <1>6

-----------------------------------------------------------------------------

LEMMA DataIdsTyped ==
  ASSUME NEW m, Packed(m)
  PROVE  X!DataIds(m) \in Seq(Nat)
<1>1. m.sets \in Seq(Sets)
  BY DEF Packed
<1>2. CASE X!HasSet(m, "data")
  <2>1. PICK j \in DOMAIN m.sets : m.sets[j].kind = "data"
    BY <1>2 DEF X!HasSet
  <2>2. \A i \in DOMAIN m.sets : m.sets[i].kind = "data" <=> i = j
    BY <2>1 DEF Packed, OneSetPerKind
  <2>3. m.sets[j] \in Sets
    BY <1>1
  <2>4. PICK s : s = m.sets[j].records /\ s \in Seq(Records)
    BY <2>3 DEF Sets
  <2>5. X!DataIds(m) = [n \in 1..Len(s) |-> s[n].id]
    <3>1. X!DataIds(m) = [n \in DOMAIN s |-> s[n].id]
      BY <2>2, <2>4, DataIdsAt
    <3> QED BY <2>4, <3>1
  <2>6. X!DataIds(m) \in [1..Len(s) -> Nat]
    <3>1. \A n \in 1..Len(s) : s[n].id \in Nat
      <4>1. \A n \in 1..Len(s) : s[n] \in Records
        BY <2>4
      <4> QED BY <4>1 DEF Records
    <3> QED BY <2>5, <3>1
  <2> QED BY <2>4, <2>6, SeqDef
<1>3. CASE ~ X!HasSet(m, "data")
  BY <1>3 DEF X!DataIds
<1> QED BY <1>2, <1>3

\* A record that is not freed twice is in the message that is built, and what was
\* in the message before has been sent or is in it still.
LEMMA AttachOrSendPacked ==
  ASSUME NEW m, Packed(m), NEW kind \in Kinds, NEW record \in Records,
         ~ X!TriesDeleteTwice(m, kind, record)
  PROVE  LET a == X!AttachOrSend(m, kind, record) IN
         /\ Packed(a)
         /\ X!Sent(m, kind, record) \in {<<>>, <<m>>}
         /\ X!IdsSent(X!Sent(m, kind, record)) \in Seq(Nat)
         /\ X!IdsSent(X!Sent(m, kind, record)) \o X!DataIds(a)
              = IF kind = "data" THEN Append(X!DataIds(m), record.id) ELSE X!DataIds(m)
<1> DEFINE a == X!AttachOrSend(m, kind, record)
           ids == X!DataIds(m)
           new == IF kind = "data" THEN Append(ids, record.id) ELSE ids
<1>1. ids \in Seq(Nat) /\ record.id \in Nat
  BY DataIdsTyped DEF Records
<1>2. CASE X!Fits(m, kind, record)
  <2>1. a = X!Attach(m, kind, record) /\ X!Sent(m, kind, record) = <<>>
    BY <1>2 DEF X!AttachOrSend, X!Sent
  <2>2. Packed(a) /\ X!DataIds(a) = new
    BY <1>2, <2>1, AttachPacked
  <2>3. X!IdsSent(<<>>) = <<>>
    BY DEF X!IdsSent
  <2>4. new \in Seq(Nat)
    BY <1>1
  <2>5. <<>> \o new = new
    BY <2>4, ConcatEmptySeq
  <2>6. Packed(a)
    BY <2>2
  <2>7. X!Sent(m, kind, record) \in {<<>>, <<m>>}
    BY <2>1
  <2>8. X!IdsSent(X!Sent(m, kind, record)) = <<>>
    BY <2>1, <2>3
  <2>9. X!IdsSent(X!Sent(m, kind, record)) \in Seq(Nat)
    BY <2>8
  <2>10. X!IdsSent(X!Sent(m, kind, record)) \o X!DataIds(a) = new
    BY <2>2, <2>5, <2>8, Zenon
  <2> QED BY <2>6, <2>7, <2>9, <2>10, Zenon
<1>3. CASE ~ X!Fits(m, kind, record)
  <2> DEFINE from == X!NewMessage
  <2>1. a = X!Attach(from, kind, record) /\ X!Sent(m, kind, record) = <<m>>
    BY <1>3 DEF X!AttachOrSend, X!Sent
  <2>2. Packed(from) /\ X!DataIds(from) = <<>> /\ ~ X!HasSet(from, kind)
    BY NewMessagePacked DEF X!NewMessage, X!HasSet
  <2>3. X!Fits(from, kind, record)
    BY <1>3, <2>2 DEF X!TriesDeleteTwice, X!DeletedTwice
  <2>4. /\ Packed(a)
        /\ X!DataIds(a) = IF kind = "data" THEN Append(<<>>, record.id) ELSE <<>>
    BY <2>1, <2>2, <2>3, AttachPacked
  <2>5. X!IdsSent(<<m>>) = ids
    BY DEF X!IdsSent
  <2>6. ids \o (IF kind = "data" THEN Append(<<>>, record.id) ELSE <<>>) = new
    <3>1. Append(<<>>, record.id) = <<record.id>>
      OBVIOUS
    <3>2. Append(ids, record.id) = ids \o <<record.id>>
      BY <1>1, AppendIsConcat
    <3>3. ids \o <<>> = ids
      BY <1>1, ConcatEmptySeq
    <3> HIDE DEF ids
    <3> QED BY <3>1, <3>2, <3>3
  <2>7. X!IdsSent(X!Sent(m, kind, record)) = ids
    BY <2>1, <2>5
  <2>8. X!IdsSent(X!Sent(m, kind, record)) \o X!DataIds(a) = new
    BY <2>4, <2>6, <2>7
  <2>9. Packed(a)
    BY <2>4
  <2>10. X!Sent(m, kind, record) \in {<<>>, <<m>>}
    BY <2>1
  <2>11. X!IdsSent(X!Sent(m, kind, record)) \in Seq(Nat)
    BY <1>1, <2>7
  <2> QED BY <2>8, <2>9, <2>10, <2>11, Zenon
<1> QED BY <1>2, <1>3

PackInv == \A m \in onWire \cup {export_message} : Packed(m)

\* What was sent, and what the next message will add to it.
OnceInv == type \in X!Types /\ exported \in Nat /\ sentRecords \in Seq(Nat) /\ ExportedOnce

LEMMA PairIsConcat ==
  ASSUME NEW a, NEW b
  PROVE  <<a>> \o <<b>> = <<a, b>>
<1> DEFINE S == {a, b}
<1>0. a \in S /\ b \in S
  OBVIOUS
<1> HIDE DEF S
<1>2. PICK s : s = <<a>> \o <<b>>
  OBVIOUS
<1>3. PICK t : t = <<a, b>>
  OBVIOUS
<1>4. s \in Seq(S) /\ t \in Seq(S)
  BY <1>0, <1>2, <1>3
<1>5. Len(s) = 2 /\ Len(t) = 2 /\ s[1] = a /\ s[2] = b /\ t[1] = a /\ t[2] = b
  BY <1>0, <1>2, <1>3
<1>6. \A i \in 1..2 : i = 1 \/ i = 2
  OBVIOUS
<1>7. s = t
  BY <1>4, <1>5, <1>6, SeqEqual
<1> QED BY <1>2, <1>3, <1>7, Zenon

LEMMA IdsOfBoth ==
  ASSUME NEW a, NEW b, NEW s \in {<<>>, <<a>>}, NEW t \in {<<>>, <<b>>},
         X!IdsSent(s) \in Seq(Nat), X!IdsSent(t) \in Seq(Nat)
  PROVE  X!IdsSent(s \o t) = X!IdsSent(s) \o X!IdsSent(t)
<1>1. X!IdsSent(<<>>) = <<>> /\ X!IdsSent(<<a>>) = X!DataIds(a) /\ X!IdsSent(<<b>>) = X!DataIds(b)
  BY DEF X!IdsSent
<1>2. CASE s = <<>>
  <2>1. s \o t = t
    BY <1>2
  <2>2. <<>> \o X!IdsSent(t) = X!IdsSent(t)
    BY ConcatEmptySeq
  <2> QED BY <1>1, <1>2, <2>1, <2>2
<1>3. CASE s = <<a>> /\ t = <<>>
  <2>1. s \o t = s
    BY <1>3
  <2>2. X!IdsSent(s) \o <<>> = X!IdsSent(s)
    BY ConcatEmptySeq
  <2> QED BY <1>1, <1>3, <2>1, <2>2
<1>4. CASE s = <<a>> /\ t = <<b>>
  <2>1. s \o t = <<a, b>>
    <3>1. <<a>> \o <<b>> = <<a, b>>
      BY PairIsConcat
    <3> QED BY <1>4, <3>1, Zenon
  <2>2. X!IdsSent(<<a, b>>) = X!DataIds(a) \o X!DataIds(b)
    BY DEF X!IdsSent
  <2> QED BY <1>1, <1>4, <2>1, <2>2
<1> QED BY <1>2, <1>3, <1>4

LEMMA Regroup ==
  ASSUME NEW S, NEW s \in Seq(S), NEW t \in Seq(S), NEW u \in Seq(S)
  PROVE  s \o (t \o u) = (s \o t) \o u
OBVIOUS

\* In an ordered sequence nothing occurs both in a front part and in the rest.
LEMMA OrderedParts ==
  ASSUME NEW s \in Seq(Nat), NEW t \in Seq(Nat),
         \A i, j \in DOMAIN (s \o t) : i < j => (s \o t)[i] < (s \o t)[j]
  PROVE  /\ Range(s \o t) = Range(s) \cup Range(t) /\ Range(s) \cap Range(t) = {}
         /\ \A i, j \in DOMAIN s : i < j => s[i] < s[j]
<1> DEFINE k == Len(s)
           l == Len(t)
<1>1. PICK u : u = s \o t
  OBVIOUS
<1>2. /\ k \in Nat /\ l \in Nat /\ DOMAIN s = 1..k /\ DOMAIN t = 1..l /\ DOMAIN u = 1..(k + l)
      /\ \A i \in 1..k : u[i] = s[i]
      /\ \A i \in 1..l : u[k + i] = t[i]
  BY <1>1
<1>3. \A i, j \in 1..(k + l) : i < j => u[i] < u[j]
  BY <1>1, <1>2
<1>5. \A i \in 1..k : i \in 1..(k + l)
  BY <1>2
<1>6. \A i \in 1..l : k + i \in 1..(k + l)
  BY <1>2
<1> HIDE DEF k, l
<1>7. \A i \in 1..k, j \in 1..l : i < k + j
  BY <1>2
<1>8. Range(u) = Range(s) \cup Range(t)
  <2>1. Range(u) = Range(s \o t)
    BY <1>1
  <2>2. Range(s \o t) = Range(s) \cup Range(t)
    BY RangeConcatenation
  <2> QED BY <2>1, <2>2
<1>9. Range(s) \cap Range(t) = {}
  <2> SUFFICES ASSUME NEW i \in 1..k, NEW j \in 1..l, s[i] = t[j] PROVE FALSE
    BY <1>2 DEF Range
  <2>1. u[i] < u[k + j] /\ u[i] = s[i] /\ u[k + j] = t[j]
    BY <1>2, <1>3, <1>5, <1>6, <1>7
  <2>2. s[i] \in Nat
    BY <1>2
  <2> QED BY <2>1, <2>2
<1>10. \A i, j \in 1..k : i < j => s[i] < s[j]
  BY <1>2, <1>3, <1>5
<1> QED BY <1>1, <1>2, <1>8, <1>9, <1>10

LEMMA LengthsAreNat == \A t \in DOMAIN RecordLens : RecordLens[t] \subseteq Nat
BY SizesAssumption

\* The numbers 1..n in order, but for those that are lost.
Accounted(ids, lost, n) ==
  /\ \A i, j \in DOMAIN ids : i < j => ids[i] < ids[j]
  /\ Range(ids) \cup lost = 1..n
  /\ Range(ids) \cap lost = {}

\* The record that is numbered next comes after all that were exported.
LEMMA NextRecord ==
  ASSUME NEW ids \in Seq(Nat), NEW lost, NEW n \in Nat, Accounted(ids, lost, n),
         NEW more, more = Append(ids, n + 1)
  PROVE  Accounted(more, lost, n + 1)
<1> USE DEF Accounted
<1> DEFINE l == Len(ids)
<1>1. /\ l \in Nat /\ DOMAIN ids = 1..l /\ DOMAIN more = 1..(l + 1)
      /\ more[l + 1] = n + 1 /\ \A i \in 1..l : more[i] = ids[i]
  OBVIOUS
<1>2. \A i \in 1..l : ids[i] \in 1..n
  BY <1>1 DEF Range
<1>3. Range(more) = Range(ids) \cup {n + 1}
  <2>1. Range(more) = {more[i] : i \in 1..(l + 1)} /\ Range(ids) = {ids[i] : i \in 1..l}
    BY <1>1 DEF Range
  <2>2. ASSUME NEW x PROVE x \in Range(more) <=> x \in Range(ids) \/ x = n + 1
    <3>1. x \in Range(more) => x \in Range(ids) \/ x = n + 1
      BY <1>1, <2>1, OneMore
    <3>2. x \in Range(ids) => x \in Range(more)
      BY <1>1, <2>1, OneMore
    <3>3. x = n + 1 => x \in Range(more)
      BY <1>1, <2>1, OneMore
    <3> QED BY <3>1, <3>2, <3>3
  <2> QED BY <2>2
<1>4. ASSUME NEW i \in 1..(l + 1), NEW j \in 1..(l + 1), i < j PROVE more[i] < more[j]
  <2>1. i \in 1..l
    BY <1>1, <1>4
  <2>2. CASE j \in 1..l
    BY <1>1, <1>4, <2>1, <2>2
  <2>3. CASE j = l + 1
    BY <1>1, <1>2, <2>1, <2>3
  <2> QED BY <1>1, <2>2, <2>3, OneMore
<1>5. n + 1 \notin 1..n /\ 1..(n + 1) = (1..n) \cup {n + 1}
  OBVIOUS
<1> QED BY <1>1, <1>3, <1>4, <1>5

\* The exporter puts packed messages on the wire and keeps one.
LEMMA PackOnceRecord ==
  ASSUME PackInv, OnceInv, X!ipfix_export_main
  PROVE  PackInv' /\ OnceInv'
<1> DEFINE m == export_message
           due == X!TemplateDue
           templated == X!WithTemplate(m)
           sentT == X!SentForTemplate(m)
<1>1. PICK len \in RecordLens[type] :
        LET record == [id |-> exported + 1, len |-> len]
            twice == \/ due /\ X!TriesDeleteTwice(m, "template", X!Template)
                     \/ X!TriesDeleteTwice(templated, "data", record)
        IN IF twice
           THEN undefined' = TRUE /\ UNCHANGED <<last_sent, export_message, onWire, exported,
                                                 sentRecords, opened>>
           ELSE /\ export_message' = X!AttachOrSend(templated, "data", record)
                /\ X!Send(sentT \o X!Sent(templated, "data", record))
                /\ exported' = exported + 1
  BY DEF X!ipfix_export_main
<1>2. lostRecords' = lostRecords /\ type' = type
  BY DEF X!ipfix_export_main
<1> DEFINE record == [id |-> exported + 1, len |-> len]
           sentR == X!Sent(templated, "data", record)
           filled == X!AttachOrSend(templated, "data", record)
           twice == \/ due /\ X!TriesDeleteTwice(m, "template", X!Template)
                    \/ X!TriesDeleteTwice(templated, "data", record)
<1>3. CASE twice
  BY <1>1, <1>2, <1>3 DEF PackInv, OnceInv, ExportedOnce
<1>4. CASE ~ twice
  <2>1. /\ export_message' = filled /\ X!Send(sentT \o sentR)
        /\ exported' = exported + 1
    BY <1>1, <1>4
  <2>2. Packed(m) /\ X!DataIds(m) \in Seq(Nat) /\ exported \in Nat /\ sentRecords \in Seq(Nat)
    BY DataIdsTyped DEF PackInv, OnceInv
  <2>3. record \in Records /\ record.id = exported + 1
    <3>1. len \in Nat
      BY LengthsAreNat DEF OnceInv, X!Types
    <3> QED BY <2>2, <3>1 DEF Records
  <2>4. X!Template \in Records
    BY SizesAssumption DEF X!Template, Records
  <2>5. /\ Packed(templated) /\ sentT \in {<<>>, <<m>>} /\ X!IdsSent(sentT) \in Seq(Nat)
        /\ X!IdsSent(sentT) \o X!DataIds(templated) = X!DataIds(m)
    <3>1. CASE due
      <4>1. templated = X!AttachOrSend(m, "template", X!Template)
            /\ sentT = X!Sent(m, "template", X!Template)
        BY <3>1 DEF X!WithTemplate, X!SentForTemplate
      <4>2. ~ X!TriesDeleteTwice(m, "template", X!Template)
        BY <1>4, <3>1
      <4> HIDE DEF templated, sentT, m
      <4>3. LET a == X!AttachOrSend(m, "template", X!Template) IN
            /\ Packed(a)
            /\ X!Sent(m, "template", X!Template) \in {<<>>, <<m>>}
            /\ X!IdsSent(X!Sent(m, "template", X!Template)) \in Seq(Nat)
            /\ X!IdsSent(X!Sent(m, "template", X!Template)) \o X!DataIds(a)
                 = IF "template" = "data" THEN Append(X!DataIds(m), X!Template.id) ELSE X!DataIds(m)
        <5>1. "template" \in Kinds
          BY DEF Kinds
        <5> QED BY <2>2, <2>4, <4>2, <5>1, AttachOrSendPacked
      <4>4. "template" # "data"
        OBVIOUS
      <4>5. X!IdsSent(sentT) \o X!DataIds(templated) = X!DataIds(m)
        BY <4>1, <4>3, <4>4
      <4> QED BY <4>1, <4>3, <4>5
    <3>2. CASE ~ due
      <4>1. templated = m /\ sentT = <<>>
        BY <3>2 DEF X!WithTemplate, X!SentForTemplate
      <4>2. X!IdsSent(<<>>) = <<>>
        BY DEF X!IdsSent
      <4>3. <<>> \o X!DataIds(m) = X!DataIds(m)
        BY <2>2, ConcatEmptySeq
      <4>4. X!IdsSent(sentT) = <<>> /\ <<>> \in Seq(Nat)
        BY <4>1, <4>2
      <4>5. X!IdsSent(sentT) \o X!DataIds(templated) = X!DataIds(m)
        BY <4>1, <4>3, <4>4, Zenon
      <4>6. sentT \in {<<>>, <<m>>} /\ X!IdsSent(sentT) \in Seq(Nat) /\ Packed(templated)
        BY <2>2, <4>1, <4>4
      <4> QED BY <4>5, <4>6, Zenon
    <3> QED BY <3>1, <3>2
  <2>6. /\ Packed(filled) /\ sentR \in {<<>>, <<templated>>} /\ X!IdsSent(sentR) \in Seq(Nat)
        /\ X!IdsSent(sentR) \o X!DataIds(filled) = Append(X!DataIds(templated), exported + 1)
    <3>1. ~ X!TriesDeleteTwice(templated, "data", record)
      BY <1>4
    <3> HIDE DEF templated, record
    <3> QED BY <2>3, <2>5, <3>1, AttachOrSendPacked DEF Kinds
  <2> HIDE DEF templated, sentT, sentR, filled, record, m, due
  <2>7. PackInv'
    <3>1. Range(sentT \o sentR) \subseteq {m, templated}
      BY <2>5, <2>6, RangeOfSent
    <3>2. onWire' \subseteq onWire \cup {m, templated}
      BY <2>1, <3>1 DEF X!Send, X!Range, Range
    <3> QED BY <2>1, <2>2, <2>5, <2>6, <3>2 DEF PackInv
  <2>8. sentRecords' \o X!DataIds(filled) = Append(sentRecords \o X!DataIds(m), exported + 1)
        /\ sentRecords' \in Seq(Nat)
    <3> DEFINE iT == X!IdsSent(sentT)
               iR == X!IdsSent(sentR)
               dT == X!DataIds(templated)
               dF == X!DataIds(filled)
               one == <<exported + 1>>
    <3>1. /\ iT \in Seq(Nat) /\ iR \in Seq(Nat) /\ dT \in Seq(Nat) /\ dF \in Seq(Nat)
          /\ one \in Seq(Nat) /\ exported + 1 \in Nat
      BY <2>2, <2>5, <2>6, DataIdsTyped
    <3>0. PICK N : N = Nat
      OBVIOUS
    <3>2. sentRecords' = sentRecords \o (iT \o iR)
      <4>1. X!IdsSent(sentT \o sentR) = iT \o iR
        BY <2>5, <2>6, IdsOfBoth
      <4> QED BY <2>1, <4>1 DEF X!Send
    <3>3. iT \o dT = X!DataIds(m) /\ iR \o dF = Append(dT, exported + 1)
      BY <2>5, <2>6
    <3> HIDE DEF iT, iR, dT, dF
    <3>4. iT \o iR \in Seq(Nat) /\ sentRecords' \in Seq(Nat)
      BY <2>2, <3>1, <3>2, ConcatProperties
    <3>5. sentRecords' \o dF = sentRecords \o ((iT \o iR) \o dF)
      <4>1. PICK s, u, d : s = sentRecords /\ u = iT \o iR /\ d = dF
        OBVIOUS
      <4>2. s \in Seq(N) /\ u \in Seq(N) /\ d \in Seq(N)
        BY <2>2, <3>1, <3>4, <3>0, <4>1
      <4>3. s \o (u \o d) = (s \o u) \o d
        BY <4>2, Regroup
      <4> QED BY <3>2, <4>1, <4>3
    <3>6. (iT \o iR) \o dF = iT \o (iR \o dF)
      <4>1. iT \in Seq(N) /\ iR \in Seq(N) /\ dF \in Seq(N)
        BY <3>1, <3>0
      <4> QED BY <4>1, Regroup
    <3>7. Append(dT, exported + 1) = dT \o one
      BY <3>1, AppendIsConcat
    <3>8. iT \o (dT \o one) = (iT \o dT) \o one
      <4>1. iT \in Seq(N) /\ dT \in Seq(N) /\ one \in Seq(N)
        BY <3>1, <3>0
      <4> HIDE DEF one
      <4> QED BY <4>1, Regroup
    <3>9. sentRecords \o (X!DataIds(m) \o one) = (sentRecords \o X!DataIds(m)) \o one
      <4>1. PICK s, d : s = sentRecords /\ d = X!DataIds(m)
        OBVIOUS
      <4>2. s \in Seq(N) /\ d \in Seq(N) /\ one \in Seq(N)
        BY <2>2, <3>1, <3>0, <4>1
      <4> HIDE DEF one
      <4>3. s \o (d \o one) = (s \o d) \o one
        BY <4>2, Regroup
      <4> QED BY <4>1, <4>3
    <3>10. Append(sentRecords \o X!DataIds(m), exported + 1) = (sentRecords \o X!DataIds(m)) \o one
      <4>1. sentRecords \o X!DataIds(m) \in Seq(Nat)
        BY <2>2, ConcatProperties
      <4> QED BY <3>1, <4>1, AppendIsConcat
    <3> HIDE DEF one
    <3> QED BY <3>3, <3>4, <3>5, <3>6, <3>7, <3>8, <3>9, <3>10 DEF dF
  <2>9. ExportedOnce'
    <3>1. PICK ids, n, lost : ids = sentRecords \o X!DataIds(m) /\ n = exported /\ lost = lostRecords
      OBVIOUS
    <3>2. ids \in Seq(Nat) /\ n \in Nat
      BY <2>2, <3>1, ConcatProperties
    <3>3. Accounted(ids, lost, n)
      BY <3>1 DEF OnceInv, ExportedOnce, Accounted, m
    <3>4. PICK more : more = Append(ids, n + 1)
      OBVIOUS
    <3>5. Accounted(more, lost, n + 1)
      BY <3>2, <3>3, <3>4, NextRecord
    <3>6. more = sentRecords' \o X!DataIds(export_message)'
      BY <2>1, <2>8, <3>1, <3>4
    <3> QED BY <1>2, <2>1, <3>1, <3>5, <3>6 DEF ExportedOnce, Accounted
  <2>10. exported' \in Nat
    BY <2>1, <2>2
  <2> QED BY <1>2, <2>7, <2>8, <2>9, <2>10 DEF OnceInv
<1> QED BY <1>3, <1>4

\* At its end a process has sent its message.
LEMMA PackOnceExit ==
  ASSUME PackInv, OnceInv, X!Exit
  PROVE  PackInv' /\ OnceInv'
<1> DEFINE m == export_message
           messages == IF X!IsEmpty(m) THEN <<>> ELSE <<m>>
<1>1. /\ X!Send(messages) /\ export_message' = X!NewMessage' /\ type' \in X!Types
      /\ exported' = exported /\ lostRecords' = lostRecords
  BY DEF X!Exit, X!NextProcess
<1>2. Packed(m) /\ X!DataIds(m) \in Seq(Nat) /\ sentRecords \in Seq(Nat)
  BY DataIdsTyped DEF PackInv, OnceInv
<1>3. Packed(X!NewMessage') /\ X!DataIds(X!NewMessage') = <<>>
  BY NewMessagePackedNext
<1>4. X!IdsSent(messages) = X!DataIds(m) /\ Range(messages) \subseteq {m}
  <2>1. CASE X!IsEmpty(m)
    <3>1. messages = <<>>
      BY <2>1
    <3>2. X!DataIds(m) = <<>>
      BY <2>1 DEF X!IsEmpty, X!DataIds, X!HasSet
    <3> QED BY <3>1, <3>2 DEF X!IdsSent, Range
  <2>2. CASE ~ X!IsEmpty(m)
    <3>1. messages = <<m>>
      BY <2>2
    <3> QED BY <3>1 DEF X!IdsSent, Range
  <2> QED BY <2>1, <2>2
<1> HIDE DEF messages, m
<1>5. sentRecords' = sentRecords \o X!DataIds(m) /\ onWire' \subseteq onWire \cup {m}
  BY <1>1, <1>4 DEF X!Send, X!Range, Range
<1>6. PackInv'
  BY <1>1, <1>2, <1>3, <1>5 DEF PackInv
<1>7. sentRecords' \in Seq(Nat)
  BY <1>2, <1>5, ConcatProperties
<1>8. sentRecords' \o X!DataIds(export_message)' = sentRecords \o X!DataIds(m)
  <2>1. X!DataIds(export_message)' = <<>>
    BY <1>1, <1>3
  <2>2. sentRecords' \o <<>> = sentRecords'
    BY <1>7, ConcatEmptySeq
  <2> QED BY <1>5, <2>1, <2>2, Zenon
<1>9. ExportedOnce'
  <2>1. PICK ids : ids = sentRecords \o X!DataIds(m)
    OBVIOUS
  <2> QED BY <1>1, <1>8, <2>1 DEF OnceInv, ExportedOnce, m
<1> QED BY <1>1, <1>6, <1>7, <1>9 DEF OnceInv

\* What a killed process had in its message is not among what was sent.
LEMMA PackOnceCrash ==
  ASSUME PackInv, OnceInv, X!Crash
  PROVE  PackInv' /\ OnceInv'
<1> DEFINE d == X!DataIds(export_message)
           ids == sentRecords \o d
<1>1. /\ lostRecords' = lostRecords \cup Range(d)
      /\ export_message' = X!NewMessage' /\ type' \in X!Types
      /\ UNCHANGED <<exported, onWire, sentRecords>>
  BY DEF X!Crash, X!NextProcess, X!Range, Range
<1>2. d \in Seq(Nat) /\ sentRecords \in Seq(Nat)
  BY DataIdsTyped DEF PackInv, OnceInv
<1>3. Packed(X!NewMessage') /\ X!DataIds(X!NewMessage') = <<>>
  BY NewMessagePackedNext
<1>4. PackInv'
  BY <1>1, <1>3 DEF PackInv
<1>5. sentRecords' \o X!DataIds(export_message)' = sentRecords
  <2>1. X!DataIds(export_message)' = <<>>
    BY <1>1, <1>3
  <2>2. sentRecords \o <<>> = sentRecords
    BY <1>2, ConcatEmptySeq
  <2> QED BY <1>1, <2>1, <2>2, Zenon
<1>6. /\ \A i, j \in DOMAIN ids : i < j => ids[i] < ids[j]
      /\ Range(ids) \cup lostRecords = 1..exported
      /\ Range(ids) \cap lostRecords = {}
  BY DEF OnceInv, ExportedOnce
<1> HIDE DEF d
<1>7. /\ Range(ids) = Range(sentRecords) \cup Range(d)
      /\ Range(sentRecords) \cap Range(d) = {}
      /\ \A i, j \in DOMAIN sentRecords : i < j => sentRecords[i] < sentRecords[j]
  <2>1. PICK s, t : s = sentRecords /\ t = d /\ s \in Seq(Nat) /\ t \in Seq(Nat)
    BY <1>2
  <2>2. \A i, j \in DOMAIN (s \o t) : i < j => (s \o t)[i] < (s \o t)[j]
    BY <1>6, <2>1
  <2>3. /\ Range(s \o t) = Range(s) \cup Range(t) /\ Range(s) \cap Range(t) = {}
        /\ \A i, j \in DOMAIN s : i < j => s[i] < s[j]
    BY <2>1, <2>2, OrderedParts
  <2> QED BY <2>1, <2>3
<1>8. ExportedOnce'
  <2>1. /\ Range(sentRecords) \cup lostRecords' = 1..exported
        /\ Range(sentRecords) \cap lostRecords' = {}
    BY <1>1, <1>6, <1>7
  <2>2. PICK s : s = sentRecords
    OBVIOUS
  <2> QED BY <1>1, <1>5, <1>7, <2>1, <2>2 DEF ExportedOnce
<1> QED BY <1>1, <1>2, <1>4, <1>8 DEF OnceInv

LEMMA PackOnceInit == Init => PackInv /\ OnceInv
<1> SUFFICES ASSUME Init PROVE PackInv /\ OnceInv
  OBVIOUS
<1>1. /\ onWire = {} /\ export_message = X!NewMessage /\ type \in X!Types
      /\ exported = 0 /\ lostRecords = {} /\ sentRecords = <<>>
  BY DEF Init, X!ExporterInit
<1>2. Packed(X!NewMessage) /\ X!DataIds(X!NewMessage) = <<>>
  BY NewMessagePacked
<1>3. sentRecords \o X!DataIds(export_message) = <<>>
  BY <1>1, <1>2
<1>4. ExportedOnce
  <2>1. Range(<<>>) = {} /\ 1..0 = {} /\ DOMAIN <<>> = {}
    BY DEF Range
  <2> QED BY <1>1, <1>3, <2>1 DEF ExportedOnce
<1> QED BY <1>1, <1>2, <1>4 DEF PackInv, OnceInv

LEMMA PackOnceStep == PackInv /\ OnceInv /\ [Next]_vars => PackInv' /\ OnceInv'
<1> SUFFICES ASSUME PackInv, OnceInv, [Next]_vars PROVE PackInv' /\ OnceInv'
  OBVIOUS
<1>1. CASE /\ UNCHANGED <<type, export_message, exported, lostRecords, sentRecords>>
           /\ onWire' \subseteq onWire
  BY <1>1 DEF PackInv, OnceInv, ExportedOnce
<1>2. CASE Export
  BY <1>2, PackOnceRecord, PackOnceExit, PackOnceCrash DEF Export, X!ExporterNext
<1>3. CASE Collect
  <2>1. onWire' \subseteq onWire
    BY <1>3 DEF Collect, C!CollectorNext, C!Receive, C!ipfix_parse_template_set, C!FindTemplate,
                C!ipfix_parse_data_set, C!ipfix_cts_scan_expired
  <2> QED BY <1>1, <1>3, <2>1 DEF Collect, exporterVars
<1>4. CASE Lose \/ Tick \/ UNCHANGED vars
  BY <1>1, <1>4 DEF Lose, Tick, vars, exporterVars
<1> QED BY <1>2, <1>3, <1>4 DEF Next

\* A message never outgrows the buffer it is encoded into, and the lengths in the
\* headers of message and sets are those of what is in them, for any lengths of
\* records and headers, as long as nothing was freed twice.
THEOREM MessagesFit == Spec => []MessageFits
<1>1. PackInv => MessageFits
  BY DEF PackInv, Packed, LengthsRight, MessageFits
<1> QED BY <1>1, PackOnceInit, PackOnceStep, PTL DEF Spec

\* Every record is sent once, in order, however messages fill up, templates come
\* due, and processes end or are killed.
THEOREM RecordsExportedOnce == Spec => []ExportedOnce
<1>1. OnceInv => ExportedOnce
  BY DEF OnceInv
<1> QED BY <1>1, PackOnceInit, PackOnceStep, PTL DEF Spec

-----------------------------------------------------------------------------

(***************************************************************************)
(* Renewal of templates.  A data set needs its template when the message   *)
(* is parsed, which is later than the record was exported; so the template *)
(* may be in front of it in the message, in a message that will be parsed  *)
(* before, or in the store and young enough to be there still.             *)
(***************************************************************************)
First(m) == X!DataIds(m)[1]

TemplateFirst(m) == m.sets # <<>> /\ m.sets[1].kind = "template"

\* A template of domain d that is parsed before the record n.
Pending(d, n) ==
  \/ message.domain = d /\ X!HasSet(message, "template")
  \/ \E m \in onWire : m.domain = d /\ X!HasSet(m, "template") /\ First(m) < n

\* A template of domain d in the store that was seen at time x or later.
Since(d, x) == \E t \in cts : t.domain = d /\ t.last_seen >= x

Available(d, n, x) == Pending(d, n) \/ Since(d, x)

\* When the exporter's message is sent its data can be decoded, and so can those of
\* the message after it, unless a template is due by then.
Renewed ==
  /\ opened <= now /\ now - opened <= CTS_EXPIRE_TIME - XTS_RESEND_TIME
  /\ last_sent # 0 /\ opened - last_sent < XTS_RESEND_TIME
  /\ TemplateFirst(export_message)
       \/ Available(domain, First(export_message), opened - XTS_RESEND_TIME)
  /\ X!HasSet(export_message, "template")
       \/ Available(domain, First(export_message), last_sent)

OnTime(m) == TemplateFirst(m) \/ Available(m.domain, First(m), now - CTS_EXPIRE_TIME)

Received(m) == TemplateFirst(m) \/ Since(m.domain, now - CTS_EXPIRE_TIME)

Numbered ==
  /\ now \in Nat \ {0} /\ opened \in Nat /\ last_sent \in Nat /\ last_sent <= now
  /\ \A t \in cts : t.last_seen \in Nat
  /\ message.sets \in Seq(Sets)
  /\ \A m \in onWire : X!DataIds(m) # <<>>
  /\ export_message.sets = <<>> => last_sent = 0
  /\ export_message.sets # <<>> => X!DataIds(export_message) # <<>>

TimelyInv ==
  /\ Numbered
  /\ steady =>
       /\ dropped = {}
       /\ export_message.sets # <<>> => Renewed
       /\ \A m \in onWire : OnTime(m)
       /\ message.sets # <<>> => Received(message)

\* A template is sent again before the collector forgets it, and the exporter keeps
\* it as long as the collector does.
RenewalInTime == XTS_RESEND_TIME <= CTS_EXPIRE_TIME /\ CTS_EXPIRE_TIME <= XTS_EXPIRE_TIME

LEMMA RenewalTimes ==
  /\ XTS_RESEND_TIME \in Nat /\ XTS_RESEND_TIME > 0
  /\ XTS_EXPIRE_TIME \in Nat /\ CTS_EXPIRE_TIME \in Nat
BY TimesAssumption

-----------------------------------------------------------------------------

\* Message a is m with more records.
Grown(a, m) ==
  /\ a.sets # <<>>
  /\ \A k \in Kinds : X!HasSet(m, k) => X!HasSet(a, k)
  /\ m.sets # <<>> => a.sets[1].kind = m.sets[1].kind

LEMMA GrownTwice ==
  ASSUME NEW a, NEW b, NEW c, Grown(b, a), Grown(c, b)
  PROVE  Grown(c, a)
BY DEF Grown

LEMMA AttachShape ==
  ASSUME NEW m, Packed(m), NEW kind \in Kinds, NEW record
  PROVE  LET a == X!Attach(m, kind, record) IN
         /\ Grown(a, m) /\ X!HasSet(a, kind)
         /\ m.sets = <<>> => /\ a.sets[1].kind = kind
                            /\ \A k \in Kinds : X!HasSet(a, k) => k = kind
<1> DEFINE a == X!Attach(m, kind, record)
<1>1. IsMessage(m) /\ m.sets \in Seq(Sets)
  BY DEF Packed
<1>2. CASE X!HasSet(m, kind)
  <2>1. PICK sets : sets = [i \in DOMAIN m.sets |-> IF m.sets[i].kind = kind
                                                   THEN X!AddRecord(m.sets[i], record)
                                                   ELSE m.sets[i]]
    OBVIOUS
  <2>2. a = [m EXCEPT !.length = m.length + record.len, !.sets = sets]
    BY <1>2, <2>1 DEF X!Attach
  <2>3. a.sets = sets
    BY <1>1, <2>2, MessageExcept
  <2>4. DOMAIN sets = DOMAIN m.sets /\ \A i \in DOMAIN m.sets : sets[i].kind = m.sets[i].kind
    <3>1. \A i \in DOMAIN m.sets : X!AddRecord(m.sets[i], record).kind = m.sets[i].kind
      <4> SUFFICES ASSUME NEW i \in DOMAIN m.sets
                   PROVE  X!AddRecord(m.sets[i], record).kind = m.sets[i].kind
        OBVIOUS
      <4>1. PICK s \in Sets : s = m.sets[i]
        BY <1>1
      <4>2. PICK e : e = [s EXCEPT !.length = s.length + record.len]
        OBVIOUS
      <4>3. e = [kind |-> s.kind, length |-> s.length + record.len, records |-> s.records]
        BY <4>2 DEF Sets
      <4>4. X!AddRecord(s, record) = [e EXCEPT !.records = Append(s.records, record)]
        BY <4>1, <4>2 DEF X!AddRecord
      <4> QED BY <4>1, <4>3, <4>4
    <3> QED BY <2>1, <3>1
  <2>5. \A k : X!HasSet(a, k) <=> X!HasSet(m, k)
    BY <2>3, <2>4 DEF X!HasSet
  <2>6. m.sets # <<>> /\ 1 \in DOMAIN m.sets
    BY <1>1, <1>2 DEF X!HasSet
  <2>7. a.sets # <<>> /\ a.sets[1].kind = m.sets[1].kind
    BY <2>3, <2>4, <2>6
  <2> QED BY <1>2, <2>5, <2>6, <2>7 DEF Grown
<1>3. CASE ~ X!HasSet(m, kind)
  <2>1. PICK set, sets : set = X!NewSet(kind, record) /\ sets = Append(m.sets, set)
    OBVIOUS
  <2>2. a = [m EXCEPT !.length = m.length + set.length, !.sets = sets]
    BY <1>3, <2>1 DEF X!Attach
  <2>3. a.sets = sets
    BY <1>1, <2>2, MessageExcept
  <2>4. set.kind = kind
    BY <2>1 DEF X!NewSet
  <2>5. PICK n \in Nat : n = Len(m.sets) /\ DOMAIN m.sets = 1..n
    BY <1>1
  <2>6. /\ DOMAIN sets = 1..(n + 1) /\ sets[n + 1] = set
        /\ \A i \in 1..n : sets[i] = m.sets[i]
    BY <1>1, <2>1, <2>5
  <2>7. X!HasSet(a, kind) /\ \A k : X!HasSet(m, k) => X!HasSet(a, k)
    BY <2>3, <2>4, <2>5, <2>6 DEF X!HasSet
  <2>8. a.sets # <<>>
    BY <2>3, <2>5, <2>6
  <2>9. m.sets # <<>> => a.sets[1].kind = m.sets[1].kind
    BY <1>1, <2>3, <2>5, <2>6
  <2>10. ASSUME m.sets = <<>>
         PROVE  a.sets[1].kind = kind /\ \A k : X!HasSet(a, k) => k = kind
    <3>1. n = 0
      BY <2>5, <2>10
    <3> QED BY <2>3, <2>4, <2>6, <3>1 DEF X!HasSet
  <2> QED BY <2>7, <2>8, <2>9, <2>10 DEF Grown
<1> QED BY <1>2, <1>3

\* What is sent for a record has a set of its kind already.
LEMMA AttachOrSendShape ==
  ASSUME NEW m, Packed(m), NEW kind \in Kinds, NEW record \in Records,
         ~ X!TriesDeleteTwice(m, kind, record)
  PROVE  LET a == X!AttachOrSend(m, kind, record) IN
         /\ a.sets # <<>> /\ X!HasSet(a, kind)
         /\ \/ /\ X!Sent(m, kind, record) = <<>> /\ Grown(a, m)
               /\ m.sets = <<>> => /\ a.sets[1].kind = kind
                                  /\ \A k \in Kinds : X!HasSet(a, k) => k = kind
               /\ X!DataIds(a) = IF kind = "data" THEN Append(X!DataIds(m), record.id) ELSE X!DataIds(m)
            \/ /\ X!Sent(m, kind, record) = <<m>> /\ X!HasSet(m, kind)
               /\ a.sets[1].kind = kind /\ \A k \in Kinds : X!HasSet(a, k) => k = kind
               /\ X!DataIds(a) = IF kind = "data" THEN Append(<<>>, record.id) ELSE <<>>
<1> DEFINE a == X!AttachOrSend(m, kind, record)
<1>1. CASE X!Fits(m, kind, record)
  <2>1. a = X!Attach(m, kind, record) /\ X!Sent(m, kind, record) = <<>>
    BY <1>1 DEF X!AttachOrSend, X!Sent
  <2>2. X!DataIds(a) = IF kind = "data" THEN Append(X!DataIds(m), record.id) ELSE X!DataIds(m)
    BY <1>1, <2>1, AttachPacked
  <2>3. /\ Grown(a, m) /\ X!HasSet(a, kind)
        /\ m.sets = <<>> => /\ a.sets[1].kind = kind
                           /\ \A k \in Kinds : X!HasSet(a, k) => k = kind
    BY <2>1, AttachShape
  <2> HIDE DEF a
  <2> QED BY <2>1, <2>2, <2>3 DEF Grown, a
<1>2. CASE ~ X!Fits(m, kind, record)
  <2> DEFINE from == X!NewMessage
  <2>1. a = X!Attach(from, kind, record) /\ X!Sent(m, kind, record) = <<m>>
    BY <1>2 DEF X!AttachOrSend, X!Sent
  <2>2. Packed(from) /\ X!DataIds(from) = <<>> /\ from.sets = <<>> /\ ~ X!HasSet(from, kind)
    BY NewMessagePacked DEF X!NewMessage, X!HasSet
  <2>3. X!HasSet(m, kind)
    BY <1>2 DEF X!TriesDeleteTwice, X!DeletedTwice
  <2>4. X!Fits(from, kind, record)
    BY <1>2, <2>2 DEF X!TriesDeleteTwice, X!DeletedTwice
  <2>5. X!DataIds(a) = IF kind = "data" THEN Append(<<>>, record.id) ELSE <<>>
    BY <2>1, <2>2, <2>4, AttachPacked
  <2>6. /\ Grown(a, from) /\ X!HasSet(a, kind) /\ a.sets[1].kind = kind
        /\ \A k \in Kinds : X!HasSet(a, k) => k = kind
    BY <2>1, <2>2, AttachShape
  <2> HIDE DEF a, from
  <2> QED BY <2>1, <2>3, <2>5, <2>6 DEF Grown, a
<1> QED BY <1>1, <1>2

\* The message once the template was added, if it was due.
LEMMA TemplateStage ==
  ASSUME DecodeInv, PackInv, OnceInv, Numbered, NEW m, m = export_message,
         NEW templated, templated = X!WithTemplate(m), NEW sent, sent = X!SentForTemplate(m),
         X!TemplateDue => ~ X!TriesDeleteTwice(m, "template", X!Template)
  PROVE  /\ Packed(templated) /\ templated.domain = domain
         /\ \/ /\ sent = <<>> /\ Grown(templated, m) /\ X!DataIds(templated) = X!DataIds(m)
               /\ X!TemplateDue => X!HasSet(templated, "template")
               /\ m.sets = <<>> => TemplateFirst(templated) /\ ~ X!HasSet(templated, "data")
            \/ /\ sent = <<m>> /\ X!HasSet(m, "template") /\ TemplateFirst(templated)
               /\ ~ X!HasSet(templated, "data") /\ X!DataIds(templated) = <<>>
<1>1. Packed(m) /\ IsMessage(m) /\ m.domain = domain /\ m.type = type
  BY DEF PackInv, DecodeInv, Typed, OneType, Messages
<1>2. "template" \in Kinds /\ "data" \in Kinds /\ "template" # "data" /\ X!Template \in Records
  BY SizesAssumption DEF Kinds, X!Template, Records
<1>3. CASE X!TemplateDue
  <2>1. /\ templated = X!AttachOrSend(m, "template", X!Template)
        /\ sent = X!Sent(m, "template", X!Template)
        /\ ~ X!TriesDeleteTwice(m, "template", X!Template)
    BY <1>3 DEF X!WithTemplate, X!SentForTemplate
  <2>2. Packed(templated)
    BY <1>1, <1>2, <2>1, AttachOrSendPacked
  <2>3. templated.domain = domain
    BY <1>1, <2>1, AttachOrSendKeeps
  <2>4. /\ templated.sets # <<>> /\ X!HasSet(templated, "template")
        /\ \/ /\ sent = <<>> /\ Grown(templated, m)
              /\ m.sets = <<>> => /\ templated.sets[1].kind = "template"
                                 /\ \A k \in Kinds : X!HasSet(templated, k) => k = "template"
              /\ X!DataIds(templated) = X!DataIds(m)
           \/ /\ sent = <<m>> /\ X!HasSet(m, "template")
              /\ templated.sets[1].kind = "template"
              /\ \A k \in Kinds : X!HasSet(templated, k) => k = "template"
              /\ X!DataIds(templated) = <<>>
    BY <1>1, <1>2, <2>1, AttachOrSendShape
  <2> QED BY <1>2, <2>2, <2>3, <2>4 DEF TemplateFirst
<1>4. CASE ~ X!TemplateDue
  <2>1. templated = m /\ sent = <<>>
    BY <1>4 DEF X!WithTemplate, X!SentForTemplate
  <2>2. m.sets # <<>>
    BY <1>4 DEF X!TemplateDue, Numbered
  <2> QED BY <1>1, <1>4, <2>1, <2>2 DEF Grown
<1> QED BY <1>3, <1>4

LEMMA AppendFirst ==
  ASSUME NEW ids \in Seq(Nat), NEW n \in Nat
  PROVE  Append(ids, n) # <<>> /\ (ids # <<>> => Append(ids, n)[1] = ids[1])
<1>1. PICK k \in Nat : k = Len(ids) /\ DOMAIN ids = 1..k
  OBVIOUS
<1>2. DOMAIN Append(ids, n) = 1..(k + 1) /\ \A m \in 1..k : Append(ids, n)[m] = ids[m]
  BY <1>1
<1>3. 1 \in 1..(k + 1) /\ (ids # <<>> => 1 \in 1..k)
  BY <1>1
<1>4. DOMAIN <<>> = {}
  OBVIOUS
<1>5. Append(ids, n) # <<>>
  BY <1>2, <1>3, <1>4
<1> QED BY <1>2, <1>3, <1>5

\* The message grows, or it is sent and the next one is begun.
MessageGrows ==
  /\ onWire' = onWire /\ Grown(export_message', export_message)
  /\ X!TemplateDue => X!HasSet(export_message', "template")
  /\ export_message.sets = <<>> => TemplateFirst(export_message') /\ opened' = now
  /\ export_message.sets # <<>> => First(export_message') = First(export_message) /\ opened' = opened

Leaves(s) ==
  /\ onWire' = onWire \cup {s} /\ s.domain = domain
  /\ X!DataIds(s) = X!DataIds(export_message) /\ Grown(s, export_message)
  /\ X!TemplateDue => TemplateFirst(export_message') \/ X!HasSet(s, "template")

MessageLeaves ==
  /\ export_message.sets # <<>> /\ opened' = now /\ First(export_message') = exported + 1
  /\ \E s : Leaves(s)

LEMMA ExportOutcome ==
  ASSUME DecodeInv, PackInv, OnceInv, Numbered, X!ipfix_export_main
  PROVE  \/ UNCHANGED <<export_message, onWire, last_sent, opened>>
         \/ /\ last_sent' = IF X!TemplateDue THEN now ELSE last_sent
            /\ export_message'.sets # <<>> /\ X!DataIds(export_message') # <<>>
            /\ MessageGrows \/ MessageLeaves
<1>1. PICK m, templated, sentT :
        m = export_message /\ templated = X!WithTemplate(m) /\ sentT = X!SentForTemplate(m)
  OBVIOUS
<1>2. PICK len \in RecordLens[type] :
        LET record == [id |-> exported + 1, len |-> len]
            twice == \/ X!TemplateDue /\ X!TriesDeleteTwice(m, "template", X!Template)
                     \/ X!TriesDeleteTwice(templated, "data", record)
            messages == sentT \o X!Sent(templated, "data", record)
        IN IF twice
           THEN undefined' = TRUE /\ UNCHANGED <<last_sent, export_message, onWire, exported,
                                                 sentRecords, opened>>
           ELSE /\ export_message' = X!AttachOrSend(templated, "data", record)
                /\ X!Send(messages)
                /\ last_sent' = IF X!TemplateDue THEN now ELSE last_sent
                /\ exported' = exported + 1
                /\ opened' = IF messages # <<>> \/ X!IsEmpty(m) THEN now ELSE opened
  BY <1>1 DEF X!ipfix_export_main
<1>3. PICK record : record = [id |-> exported + 1, len |-> len]
  OBVIOUS
<1>4. CASE \/ X!TemplateDue /\ X!TriesDeleteTwice(m, "template", X!Template)
           \/ X!TriesDeleteTwice(templated, "data", record)
  BY <1>2, <1>3, <1>4
<1>5. CASE /\ ~ (X!TemplateDue /\ X!TriesDeleteTwice(m, "template", X!Template))
           /\ ~ X!TriesDeleteTwice(templated, "data", record)
  <2>1. PICK filled, sentR : filled = X!AttachOrSend(templated, "data", record)
                             /\ sentR = X!Sent(templated, "data", record)
    OBVIOUS
  <2>2. /\ export_message' = filled
        /\ onWire' = onWire \cup Range(sentT \o sentR)
        /\ last_sent' = IF X!TemplateDue THEN now ELSE last_sent
        /\ opened' = IF sentT \o sentR # <<>> \/ m.sets = <<>> THEN now ELSE opened
    BY <1>2, <1>3, <1>5, <2>1 DEF X!Send, X!Range, Range, X!IsEmpty
  <2>3. exported \in Nat /\ record \in Records /\ record.id = exported + 1
    <3>1. len \in Nat /\ exported \in Nat
      BY LengthsAreNat DEF OnceInv, X!Types
    <3> QED BY <1>3, <3>1 DEF Records
  <2>4. /\ Packed(templated) /\ templated.domain = domain
        /\ \/ /\ sentT = <<>> /\ Grown(templated, m) /\ X!DataIds(templated) = X!DataIds(m)
              /\ X!TemplateDue => X!HasSet(templated, "template")
              /\ m.sets = <<>> => TemplateFirst(templated) /\ ~ X!HasSet(templated, "data")
           \/ /\ sentT = <<m>> /\ X!HasSet(m, "template") /\ TemplateFirst(templated)
              /\ ~ X!HasSet(templated, "data") /\ X!DataIds(templated) = <<>>
    BY <1>1, <1>5, TemplateStage
  <2>5. /\ filled.sets # <<>>
        /\ \/ /\ sentR = <<>> /\ Grown(filled, templated)
              /\ X!DataIds(filled) = Append(X!DataIds(templated), exported + 1)
           \/ /\ sentR = <<templated>> /\ X!HasSet(templated, "data")
              /\ X!DataIds(filled) = Append(<<>>, exported + 1)
    BY <1>5, <2>1, <2>3, <2>4, AttachOrSendShape DEF Kinds
  <2>6. Packed(m) /\ X!DataIds(m) \in Seq(Nat) /\ X!DataIds(templated) \in Seq(Nat) /\ m.domain = domain
    BY <1>1, <2>4, DataIdsTyped DEF PackInv, DecodeInv, OneType
  <2>7. /\ \A ids \in Seq(Nat) : /\ Append(ids, exported + 1) # <<>>
                                 /\ ids # <<>> => Append(ids, exported + 1)[1] = ids[1]
        /\ Append(<<>>, exported + 1)[1] = exported + 1 /\ Append(<<>>, exported + 1) # <<>>
    <3>1. PICK n \in Nat : n = exported + 1
      BY <2>3
    <3>2. \A ids \in Seq(Nat) : /\ Append(ids, n) # <<>> /\ (ids # <<>> => Append(ids, n)[1] = ids[1])
      BY AppendFirst
    <3>3. Append(<<>>, n) = <<n>> /\ <<n>>[1] = n /\ <<n>> # <<>>
      OBVIOUS
    <3> QED BY <3>1, <3>2, <3>3
  <2>8. X!DataIds(filled) # <<>>
    BY <2>5, <2>6, <2>7
  <2>9. m.sets # <<>> => X!DataIds(m) # <<>>
    BY <1>1 DEF Numbered
  <2>10. "template" \in Kinds
    BY DEF Kinds
  <2>11. CASE sentT = <<>> /\ sentR = <<>>
    <3>1. sentT \o sentR = <<>> /\ Range(<<>>) = {}
      BY <2>11 DEF Range
    <3>2. onWire' = onWire /\ opened' = IF m.sets = <<>> THEN now ELSE opened
      BY <2>2, <3>1
    <3>3. Grown(templated, m) /\ Grown(filled, templated) /\ X!DataIds(templated) = X!DataIds(m)
      BY <2>4, <2>5, <2>11
    <3>4. Grown(filled, m)
      BY <3>3, GrownTwice
    <3>5. X!TemplateDue => X!HasSet(filled, "template")
      BY <2>4, <2>10, <2>11, <3>3 DEF Grown
    <3>6. m.sets = <<>> => TemplateFirst(filled)
      BY <2>4, <2>11, <3>3 DEF Grown, TemplateFirst
    <3>7. m.sets # <<>> => First(filled) = First(m)
      BY <2>5, <2>6, <2>7, <2>9, <2>11, <3>3 DEF First
    <3>8. MessageGrows
      BY <1>1, <2>2, <3>2, <3>4, <3>5, <3>6, <3>7 DEF MessageGrows
    <3> QED BY <2>2, <2>5, <2>8, <3>8
  <2>12. CASE sentT = <<>> /\ sentR # <<>>
    <3>1. sentT \o sentR = <<templated>> /\ Range(<<templated>>) = {templated}
      BY <2>5, <2>12 DEF Range
    <3>2. onWire' = onWire \cup {templated} /\ opened' = now
      <4>1. <<templated>> # <<>>
        OBVIOUS
      <4> QED BY <2>2, <3>1, <4>1
    <3>3. /\ X!HasSet(templated, "data") /\ Grown(templated, m) /\ X!DataIds(templated) = X!DataIds(m)
          /\ X!TemplateDue => X!HasSet(templated, "template")
          /\ m.sets # <<>>
      BY <2>4, <2>5, <2>12
    <3>4. First(filled) = exported + 1
      BY <2>3, <2>5, <2>7, <2>12 DEF First
    <3>5. Leaves(templated)
      BY <1>1, <2>2, <2>4, <3>2, <3>3 DEF Leaves
    <3>6. MessageLeaves
      BY <1>1, <2>2, <3>2, <3>3, <3>4, <3>5 DEF MessageLeaves
    <3> QED BY <2>2, <2>5, <2>8, <3>6
  <2>13. CASE sentT # <<>>
    <3>1. /\ sentT = <<m>> /\ X!HasSet(m, "template") /\ TemplateFirst(templated)
          /\ ~ X!HasSet(templated, "data") /\ X!DataIds(templated) = <<>>
      BY <2>4, <2>13
    <3>2. sentR = <<>> /\ Grown(filled, templated) /\ X!DataIds(filled) = Append(<<>>, exported + 1)
      BY <2>5, <3>1
    <3>3. sentT \o sentR = <<m>> /\ Range(<<m>>) = {m}
      BY <3>1, <3>2 DEF Range
    <3>4. onWire' = onWire \cup {m} /\ opened' = now
      <4>1. <<m>> # <<>>
        OBVIOUS
      <4> QED BY <2>2, <3>3, <4>1
    <3>5. TemplateFirst(filled)
      BY <3>1, <3>2 DEF TemplateFirst, Grown
    <3>6. First(filled) = exported + 1
      BY <2>3, <2>7, <3>2 DEF First
    <3>7. m.sets # <<>> /\ Grown(m, m)
      <4>1. m.sets # <<>>
        BY <3>1 DEF X!HasSet
      <4> QED BY <4>1 DEF Grown
    <3>8. Leaves(m)
      BY <1>1, <2>2, <2>6, <3>4, <3>5, <3>7 DEF Leaves
    <3>9. MessageLeaves
      BY <1>1, <2>2, <3>4, <3>6, <3>7, <3>8 DEF MessageLeaves
    <3> QED BY <2>2, <2>5, <2>8, <3>9
  <2> QED BY <2>11, <2>12, <2>13
<1> QED BY <1>4, <1>5

LEMMA FirstIsNat ==
  ASSUME NEW m, Packed(m), X!DataIds(m) # <<>>
  PROVE  First(m) \in Nat /\ First(m) \in Range(X!DataIds(m))
<1>1. PICK ids : ids = X!DataIds(m)
  OBVIOUS
<1>2. ids \in Seq(Nat) /\ ids # <<>>
  BY <1>1, DataIdsTyped
<1>3. 1 \in DOMAIN ids /\ ids[1] \in Nat
  BY <1>2
<1> QED BY <1>1, <1>3 DEF First, Range

LEMMA FirstExported ==
  ASSUME PackInv, OnceInv, Numbered, export_message.sets # <<>>
  PROVE  First(export_message) \in Nat /\ First(export_message) <= exported
<1>1. PICK s, ids : s = sentRecords /\ ids = X!DataIds(export_message)
  OBVIOUS
<1>2. Packed(export_message) /\ ids # <<>> /\ s \in Seq(Nat) /\ ids \in Seq(Nat) /\ exported \in Nat
  BY <1>1, DataIdsTyped DEF PackInv, OnceInv, Numbered
<1>3. Range(s \o ids) \subseteq 1..exported
  BY <1>1 DEF OnceInv, ExportedOnce
<1>4. Range(s \o ids) = Range(s) \cup Range(ids)
  BY <1>2, RangeConcatenation
<1>5. First(export_message) \in Nat /\ First(export_message) \in Range(ids)
  BY <1>1, <1>2, FirstIsNat
<1>6. First(export_message) \in 1..exported
  BY <1>3, <1>4, <1>5
<1> QED BY <1>2, <1>5, <1>6

LEMMA FirstHas ==
  ASSUME NEW m, Packed(m), TemplateFirst(m)
  PROVE  X!HasSet(m, "template")
<1>1. m.sets \in Seq(Sets) /\ m.sets # <<>>
  BY DEF Packed, TemplateFirst
<1>2. 1 \in DOMAIN m.sets
  BY <1>1
<1> QED BY <1>2 DEF TemplateFirst, X!HasSet

\* More on the wire, or a later record.
LEMMA PendingMore ==
  ASSUME PackInv, Numbered, UNCHANGED message, onWire \subseteq onWire',
         NEW d, NEW n \in Nat, NEW k \in Nat, n <= k, Pending(d, n)
  PROVE  Pending(d, k)'
<1>1. CASE message.domain = d /\ X!HasSet(message, "template")
  BY <1>1 DEF Pending, X!HasSet
<1>2. CASE \E m \in onWire : m.domain = d /\ X!HasSet(m, "template") /\ First(m) < n
  <2>1. PICK m \in onWire : m.domain = d /\ X!HasSet(m, "template") /\ First(m) < n
    BY <1>2
  <2>2. First(m) \in Nat
    BY FirstIsNat DEF PackInv, Numbered
  <2>3. First(m) < k
    BY <2>1, <2>2
  <2> QED BY <2>1, <2>3 DEF Pending
<1> QED BY <1>1, <1>2 DEF Pending

LEMMA SinceBefore ==
  ASSUME Numbered, NEW d, NEW x \in Int, NEW y \in Int, y <= x, Since(d, x)
  PROVE  Since(d, y)
<1>1. PICK t \in cts : t.domain = d /\ t.last_seen >= x /\ t.last_seen \in Nat
  BY DEF Since, Numbered
<1>2. t.last_seen >= y
  BY <1>1
<1> QED BY <1>1, <1>2 DEF Since

LEMMA WireKeepsOnTime ==
  ASSUME PackInv, Numbered, UNCHANGED <<message, now, cts>>, onWire \subseteq onWire',
         NEW m \in onWire, OnTime(m)
  PROVE  OnTime(m)'
<1>1. First(m) \in Nat
  BY FirstIsNat DEF PackInv, Numbered
<1>2. \A d, x : Since(d, x) => Since(d, x)'
  BY DEF Since
<1>3. PICK d, n : d = m.domain /\ n = First(m)
  OBVIOUS
<1>4. Pending(d, n) => Pending(d, n)'
  BY <1>1, <1>3, PendingMore
<1>5. TemplateFirst(m) \/ Pending(d, n) \/ Since(d, now - CTS_EXPIRE_TIME)
  BY <1>3 DEF OnTime, Available
<1>6. Since(d, now - CTS_EXPIRE_TIME) => Since(d, now - CTS_EXPIRE_TIME)'
  BY DEF Since
<1> QED BY <1>3, <1>4, <1>5, <1>6 DEF OnTime, Available, First, TemplateFirst

\* What is read off a message does not depend on the state.
LEMMA ReadOff ==
  ASSUME NEW m
  PROVE  /\ X!DataIds(m)' = X!DataIds(m) /\ First(m)' = First(m)
         /\ TemplateFirst(m)' = TemplateFirst(m)
         /\ \A kind : X!HasSet(m, kind)' = X!HasSet(m, kind)
BY DEF X!DataIds, X!HasSet, First, TemplateFirst

\* The exporter's message is sent in time, or what is added to it is.
LEMMA TimelyRecord ==
  ASSUME RenewalInTime, DecodeInv, PackInv, OnceInv, TimelyInv, PackInv',
         X!ipfix_export_main, UNCHANGED <<collectorVars, steady>>
  PROVE  TimelyInv'
<1> DEFINE E == export_message
<1>1. /\ Numbered /\ UNCHANGED <<now, domain, message, cts, dropped, steady>>
      /\ now \in Nat /\ now # 0 /\ opened \in Nat /\ last_sent \in Nat
  BY DEF TimelyInv, Numbered, X!ipfix_export_main, collectorVars
<1>2. CASE UNCHANGED <<export_message, onWire, last_sent, opened>>
  <2>1. Numbered'
    <3>1. \A m \in onWire' : X!DataIds(m) # <<>>
      BY <1>1, <1>2 DEF Numbered
    <3>2. PICK m : m = export_message /\ m = export_message'
      BY <1>2
    <3>3. (m.sets = <<>> => last_sent' = 0) /\ (m.sets # <<>> => X!DataIds(m) # <<>>)
      BY <1>1, <1>2, <3>2 DEF Numbered
    <3>4. /\ now' \in Nat \ {0} /\ opened' \in Nat /\ last_sent' \in Nat /\ last_sent' <= now'
          /\ \A a \in cts' : a.last_seen \in Nat
          /\ message'.sets \in Seq(Sets)
      BY <1>1, <1>2 DEF Numbered
    <3> QED BY <3>1, <3>2, <3>3, <3>4, ReadOff DEF Numbered
  <2>2. \A d, x : Since(d, x) => Since(d, x)'
    BY <1>1 DEF Since
  <2>3. \A d, n : Pending(d, n) => Pending(d, n)'
    BY <1>1, <1>2, ReadOff DEF Pending, X!HasSet
  <2>4. ASSUME steady, E.sets # <<>> PROVE Renewed'
    <3>1. Renewed
      BY <2>4 DEF TimelyInv
    <3>2. PICK n, d, x, y : n = First(E) /\ d = domain /\ x = opened - XTS_RESEND_TIME /\ y = last_sent
      OBVIOUS
    <3>3. n = First(E)' /\ d = domain' /\ x = (opened - XTS_RESEND_TIME)' /\ y = last_sent'
      BY <1>1, <1>2, <3>2 DEF First, X!DataIds, X!HasSet
    <3>4. (Pending(d, n) => Pending(d, n)') /\ (Since(d, x) => Since(d, x)') /\ (Since(d, y) => Since(d, y)')
      BY <2>2, <2>3
    <3>5. TemplateFirst(E)' = TemplateFirst(E) /\ X!HasSet(E, "template")' = X!HasSet(E, "template")
      BY <1>2 DEF TemplateFirst, X!HasSet
    <3>6. (TemplateFirst(E) \/ Available(domain, First(E), opened - XTS_RESEND_TIME))'
      BY <3>1, <3>2, <3>3, <3>4, <3>5 DEF Renewed, Available
    <3>7. (X!HasSet(E, "template") \/ Available(domain, First(E), last_sent))'
      BY <3>1, <3>2, <3>3, <3>4, <3>5 DEF Renewed, Available
    <3> QED BY <1>1, <1>2, <3>1, <3>6, <3>7 DEF Renewed
  <2>5. ASSUME steady, NEW m \in onWire PROVE OnTime(m)'
    <3>1. OnTime(m)
      BY <2>5 DEF TimelyInv
    <3> QED BY <1>1, <1>2, <2>5, <3>1, WireKeepsOnTime
  <2>6. (steady /\ message.sets # <<>>) => Received(message)'
    BY <1>1 DEF TimelyInv, Received, TemplateFirst, Since
  <2> QED BY <1>1, <1>2, <2>1, <2>4, <2>5, <2>6 DEF TimelyInv
<1>3. ASSUME last_sent' = IF X!TemplateDue THEN now ELSE last_sent,
             export_message'.sets # <<>>, X!DataIds(export_message') # <<>>,
             MessageGrows \/ MessageLeaves
      PROVE  TimelyInv'
  <2>1. /\ last_sent' \in Nat /\ last_sent' <= now /\ (X!TemplateDue => last_sent' = now)
        /\ (~ X!TemplateDue => last_sent' = last_sent)
        /\ opened' \in Nat /\ onWire \subseteq onWire'
    <3>1. (X!TemplateDue => last_sent' = now) /\ (~ X!TemplateDue => last_sent' = last_sent)
      BY <1>3
    <3>2. opened' = now \/ opened' = opened
      BY <1>3 DEF MessageGrows, MessageLeaves
    <3>3. onWire \subseteq onWire'
      <4>1. CASE MessageGrows
        BY <4>1 DEF MessageGrows
      <4>2. CASE MessageLeaves
        <5>1. PICK s : Leaves(s)
          BY <4>2 DEF MessageLeaves
        <5> QED BY <5>1 DEF Leaves
      <4> QED BY <1>3, <4>1, <4>2
    <3>4. last_sent <= now /\ now <= now
      BY <1>1 DEF Numbered
    <3> QED BY <1>1, <3>1, <3>2, <3>3, <3>4
  <2>2. last_sent' # 0
    <3>1. last_sent = 0 => X!TemplateDue
      BY DEF X!TemplateDue
    <3> QED BY <1>1, <2>1, <3>1
  <2>3. \A m \in onWire' : m \in onWire \/ (X!DataIds(m) = X!DataIds(E) /\ E.sets # <<>>)
    <3>1. CASE MessageGrows
      BY <3>1 DEF MessageGrows
    <3>2. CASE MessageLeaves
      <4>1. E.sets # <<>>
        BY <3>2 DEF MessageLeaves
      <4>2. PICK s : Leaves(s)
        BY <3>2 DEF MessageLeaves
      <4> QED BY <4>1, <4>2 DEF Leaves
    <3> QED BY <1>3, <3>1, <3>2
  <2>4. Numbered'
    <3>1. \A m \in onWire' : X!DataIds(m) # <<>>
      BY <1>1, <2>3 DEF Numbered
    <3>2. now' \in Nat \ {0} /\ last_sent' <= now'
      BY <1>1, <2>1
    <3>3. \A t \in cts' : t.last_seen \in Nat
      BY <1>1 DEF Numbered
    <3>4. message'.sets \in Seq(Sets)
      BY <1>1 DEF Numbered
    <3> QED BY <1>3, <2>1, <3>1, <3>2, <3>3, <3>4 DEF Numbered, X!DataIds, X!HasSet
  <2>5. \A d, x : Since(d, x) => Since(d, x)'
    BY <1>1 DEF Since
  <2>6. ASSUME steady
        PROVE  Renewed' /\ \A m \in onWire' \ onWire : OnTime(m)'
    <3>1. E.sets # <<>> => Renewed
      BY <2>6 DEF TimelyInv
    <3>2. CASE MessageGrows /\ E.sets = <<>>
      <4>1. last_sent = 0
        BY <1>1, <3>2 DEF Numbered
      <4>2. X!TemplateDue
        BY <4>1 DEF X!TemplateDue
      <4>3. TemplateFirst(E') /\ X!HasSet(E', "template") /\ opened' = now /\ last_sent' = now /\ onWire' = onWire
        BY <2>1, <3>2, <4>2 DEF MessageGrows
      <4>4. now - now <= CTS_EXPIRE_TIME - XTS_RESEND_TIME /\ now - now < XTS_RESEND_TIME /\ now <= now
        BY <1>1, RenewalTimes DEF RenewalInTime
      <4>5. /\ opened' <= now' /\ now' - opened' <= CTS_EXPIRE_TIME - XTS_RESEND_TIME
            /\ opened' - last_sent' < XTS_RESEND_TIME
        BY <1>1, <4>3, <4>4
      <4>6. TemplateFirst(E)' /\ X!HasSet(E, "template")'
        BY <4>3 DEF TemplateFirst, X!HasSet
      <4> QED BY <2>2, <4>3, <4>5, <4>6 DEF Renewed
    <3>3. CASE MessageGrows /\ E.sets # <<>>
      <4>1. /\ Grown(E', E) /\ opened' = opened /\ onWire' = onWire /\ First(E') = First(E)
            /\ (X!TemplateDue => X!HasSet(E', "template")) /\ Renewed
        BY <3>1, <3>3 DEF MessageGrows
      <4>2. /\ opened' <= now' /\ now' - opened' <= CTS_EXPIRE_TIME - XTS_RESEND_TIME
            /\ opened' - last_sent' < XTS_RESEND_TIME
        <5>1. /\ opened <= now /\ now - opened <= CTS_EXPIRE_TIME - XTS_RESEND_TIME
              /\ opened - last_sent < XTS_RESEND_TIME
          BY <4>1 DEF Renewed
        <5>2. opened - now < XTS_RESEND_TIME
          BY <1>1, <5>1, RenewalTimes
        <5> QED BY <1>1, <2>1, <4>1, <5>1, <5>2
      <4>3. PICK n, d : n = First(E) /\ n = First(E') /\ d = domain
        BY <4>1
      <4>4. Pending(d, n)' <=> Pending(d, n)
        BY <1>1, <4>1 DEF Pending, X!HasSet
      <4>5. TemplateFirst(E') \/ Pending(d, n)' \/ Since(d, opened - XTS_RESEND_TIME)'
        <5>1. TemplateFirst(E) \/ Pending(d, n) \/ Since(d, opened - XTS_RESEND_TIME)
          BY <4>1, <4>3 DEF Renewed, Available
        <5>2. TemplateFirst(E) => TemplateFirst(E')
          BY <4>1 DEF TemplateFirst, Grown
        <5>3. Since(d, opened - XTS_RESEND_TIME) => Since(d, opened - XTS_RESEND_TIME)'
          BY <1>1, <4>1 DEF Since
        <5> QED BY <4>4, <5>1, <5>2, <5>3
      <4>6. X!HasSet(E', "template") \/ Pending(d, n)' \/ Since(d, last_sent)'
        <5>1. X!HasSet(E, "template") \/ Pending(d, n) \/ Since(d, last_sent)
          BY <4>1, <4>3 DEF Renewed, Available
        <5>2. X!HasSet(E, "template") => X!HasSet(E', "template")
          BY <4>1 DEF Grown, Kinds
        <5>3. ~ X!TemplateDue => last_sent' = last_sent
          BY <2>1
        <5>4. Since(d, last_sent) /\ ~ X!TemplateDue => Since(d, last_sent)'
          BY <1>1, <5>3 DEF Since
        <5> QED BY <4>1, <4>4, <5>1, <5>2, <5>4
      <4>7. /\ TemplateFirst(E)' <=> TemplateFirst(E')
            /\ X!HasSet(E, "template")' <=> X!HasSet(E', "template")
            /\ First(E)' = First(E')
        BY DEF TemplateFirst, X!HasSet, First, X!DataIds
      <4>8. (TemplateFirst(E) \/ Available(domain, First(E), opened - XTS_RESEND_TIME))'
        BY <1>1, <4>3, <4>5, <4>7 DEF Available
      <4>9. (X!HasSet(E, "template") \/ Available(domain, First(E), last_sent))'
        BY <1>1, <4>3, <4>6, <4>7 DEF Available
      <4> QED BY <2>2, <4>1, <4>2, <4>8, <4>9 DEF Renewed
    <3>4. CASE MessageLeaves
      <4>1. /\ E.sets # <<>> /\ opened' = now /\ First(E)' = exported + 1 /\ Renewed
        BY <3>1, <3>4 DEF MessageLeaves, First, X!DataIds, X!HasSet
      <4>2. PICK s : /\ onWire' = onWire \cup {s} /\ s.domain = domain
                     /\ X!DataIds(s) = X!DataIds(E) /\ Grown(s, E)
                     /\ X!TemplateDue => TemplateFirst(E') \/ X!HasSet(s, "template")
        <5>1. PICK s : Leaves(s)
          BY <3>4 DEF MessageLeaves
        <5> QED BY <5>1 DEF Leaves
      <4>3. PICK n, k, d : n = First(E) /\ k = exported + 1 /\ d = domain
        OBVIOUS
      <4>4. n \in Nat /\ k \in Nat /\ n < k /\ n <= k /\ First(s) = n
        BY <1>1, <4>1, <4>2, <4>3, FirstExported DEF OnceInv, First
      <4>5. Pending(d, n) => Pending(d, k)' /\ Pending(d, n)'
        BY <1>1, <2>1, <4>4, PendingMore
      <4>6. X!HasSet(s, "template") => Pending(d, k)'
        BY <4>2, <4>3, <4>4 DEF Pending, First, X!HasSet, X!DataIds
      <4>7. X!HasSet(E, "template") => X!HasSet(s, "template")
        BY <4>2 DEF Grown, Kinds
      <4>8. PICK x, y, z : x = opened - XTS_RESEND_TIME /\ y = last_sent /\ z = now - XTS_RESEND_TIME
        OBVIOUS
      <4>9. /\ x \in Int /\ y \in Int /\ z \in Int /\ now - CTS_EXPIRE_TIME \in Int
            /\ now - CTS_EXPIRE_TIME <= x
        BY <1>1, <4>1, <4>8, RenewalTimes DEF Renewed
      <4>10. ~ X!TemplateDue => z < y
        BY <1>1, <4>1, <4>8, RenewalTimes DEF Renewed, RenewalInTime, X!TemplateDue
      <4>11. /\ X!HasSet(E, "template") \/ Pending(d, n) \/ Since(d, y)
             /\ TemplateFirst(E) \/ Pending(d, n) \/ Since(d, x)
        BY <4>1, <4>3, <4>8 DEF Renewed, Available
      <4>12. TemplateFirst(E') \/ Pending(d, k)' \/ (~ X!TemplateDue /\ Since(d, y)')
        BY <2>5, <4>2, <4>5, <4>6, <4>7, <4>11
      <4>13. ~ X!TemplateDue /\ Since(d, y)' => Since(d, z)'
        <5>1. ~ X!TemplateDue /\ Since(d, y)' => Since(d, y)
          BY <1>1 DEF Since
        <5>2. ~ X!TemplateDue /\ Since(d, y) => Since(d, z)
          BY <1>1, <4>9, <4>10, SinceBefore
        <5> QED BY <2>5, <5>1, <5>2
      <4>14. (TemplateFirst(E) \/ Available(domain, First(E), opened - XTS_RESEND_TIME))'
        <5>1. k = First(E)' /\ d = domain' /\ z = (opened - XTS_RESEND_TIME)'
          BY <1>1, <4>1, <4>3, <4>8
        <5>2. TemplateFirst(E') => TemplateFirst(E)'
          BY DEF TemplateFirst
        <5> QED BY <4>12, <4>13, <5>1, <5>2 DEF Available
      <4>15. (X!HasSet(E, "template") \/ Available(domain, First(E), last_sent))'
        <5>1. k = First(E)' /\ d = domain'
          BY <1>1, <4>1, <4>3
        <5>2. ~ X!TemplateDue => y = last_sent'
          BY <2>1, <4>8
        <5>3. TemplateFirst(E') => X!HasSet(E, "template")'
          <6>1. PICK m : m = E'
            OBVIOUS
          <6>2. Packed(m)
            BY <6>1 DEF PackInv, Packed
          <6>3. TemplateFirst(m) => X!HasSet(m, "template")
            BY <6>2, FirstHas
          <6> QED BY <6>1, <6>3 DEF X!HasSet
        <5> QED BY <4>12, <5>1, <5>2, <5>3 DEF Available
      <4>16. opened' <= now' /\ now' - opened' <= CTS_EXPIRE_TIME - XTS_RESEND_TIME
        <5>1. now <= now /\ now - now <= CTS_EXPIRE_TIME - XTS_RESEND_TIME
          BY <1>1, RenewalTimes DEF RenewalInTime
        <5> QED BY <1>1, <4>1, <5>1
      <4>17. opened' - last_sent' < XTS_RESEND_TIME
        <5>1. X!TemplateDue => now - now < XTS_RESEND_TIME
          BY <1>1, RenewalTimes
        <5>2. ~ X!TemplateDue => now - last_sent < XTS_RESEND_TIME
          BY <1>1, <4>8, <4>10, RenewalTimes
        <5> QED BY <1>1, <2>1, <4>1, <5>1, <5>2
      <4>18. Renewed'
        BY <2>2, <4>14, <4>15, <4>16, <4>17 DEF Renewed
      <4>19. OnTime(s)'
        <5>1. TemplateFirst(E) => TemplateFirst(s)
          BY <4>1, <4>2 DEF TemplateFirst, Grown
        <5>2. Since(d, x) => Since(d, now - CTS_EXPIRE_TIME)
          BY <1>1, <4>9, SinceBefore
        <5>3. Since(d, now - CTS_EXPIRE_TIME) => Since(d, now - CTS_EXPIRE_TIME)'
          BY <1>1 DEF Since
        <5>4. TemplateFirst(s) \/ Pending(d, n)' \/ Since(d, now - CTS_EXPIRE_TIME)'
          BY <4>5, <4>11, <5>1, <5>2, <5>3
        <5>5. d = s.domain /\ n = First(s)
          BY <4>2, <4>3, <4>4
        <5> QED BY <5>4, <5>5 DEF OnTime, Available, First, TemplateFirst
      <4> QED BY <4>2, <4>18, <4>19
    <3> QED BY <1>3, <3>2, <3>3, <3>4
  <2>7. ASSUME steady, NEW m \in onWire PROVE OnTime(m)'
    <3>1. OnTime(m)
      BY <2>7 DEF TimelyInv
    <3> QED BY <1>1, <2>1, <2>7, <3>1, WireKeepsOnTime
  <2>8. ASSUME steady, message.sets # <<>> PROVE Received(message)'
    BY <1>1, <2>8 DEF TimelyInv, Received, TemplateFirst, Since
  <2> QED BY <1>1, <1>3, <2>4, <2>6, <2>7, <2>8 DEF TimelyInv
<1> QED BY <1>1, <1>2, <1>3, ExportOutcome

\* The last message of a process is in time as well; that of a killed one does not
\* matter any more.
LEMMA TimelyEnd ==
  ASSUME RenewalInTime, DecodeInv, PackInv, OnceInv, TimelyInv, X!Exit \/ X!Crash,
         UNCHANGED <<collectorVars, steady>>
  PROVE  TimelyInv'
<1> PICK s : s = export_message
  OBVIOUS
<1>1. /\ Numbered /\ UNCHANGED <<now, message, cts, dropped, steady>>
      /\ now \in Nat /\ now # 0 /\ opened \in Nat /\ last_sent \in Nat
      /\ last_sent' = 0 /\ opened' = 0 /\ export_message'.sets = <<>>
  BY DEF TimelyInv, Numbered, X!Exit, X!Crash, X!NextProcess, X!NewMessage, collectorVars
<1>2. onWire' = onWire \/ (onWire' = onWire \cup {s} /\ s.sets # <<>>)
  <2>1. X!Range(<<>>) = {} /\ X!Range(<<s>>) = {s}
    BY DEF X!Range
  <2> QED BY <2>1 DEF X!Exit, X!Crash, X!Send, X!IsEmpty
<1>3. \A d, x : Since(d, x) => Since(d, x)'
  BY <1>1 DEF Since
<1>4. Numbered'
  <2>1. \A m \in onWire' : X!DataIds(m) # <<>>
    BY <1>1, <1>2 DEF Numbered
  <2>2. /\ now' \in Nat \ {0} /\ opened' \in Nat /\ last_sent' \in Nat /\ last_sent' <= now'
        /\ \A a \in cts' : a.last_seen \in Nat
        /\ message'.sets \in Seq(Sets)
    BY <1>1 DEF Numbered
  <2> QED BY <1>1, <2>1, <2>2, ReadOff DEF Numbered
<1>5. ASSUME steady, NEW m \in onWire PROVE OnTime(m)'
  <2>1. OnTime(m)
    BY <1>5 DEF TimelyInv
  <2> QED BY <1>1, <1>2, <1>5, <2>1, WireKeepsOnTime
<1>6. ASSUME steady, s.sets # <<>> PROVE OnTime(s)'
  <2>1. PICK n, d, x : n = First(s) /\ d = domain /\ x = opened - XTS_RESEND_TIME
    OBVIOUS
  <2>2. Renewed
    BY <1>6 DEF TimelyInv
  <2>3. TemplateFirst(s) \/ Pending(d, n) \/ Since(d, x)
    BY <2>1, <2>2 DEF Renewed, Available
  <2>4. n \in Nat
    BY <1>1, <1>6, <2>1, FirstExported
  <2>5. Pending(d, n) => Pending(d, n)'
    BY <1>1, <1>2, <2>4, PendingMore
  <2>6. x \in Int /\ now - CTS_EXPIRE_TIME \in Int /\ now - CTS_EXPIRE_TIME <= x
    BY <1>1, <2>1, <2>2, RenewalTimes DEF Renewed
  <2>7. Since(d, x) => Since(d, now - CTS_EXPIRE_TIME)
    BY <1>1, <2>6, SinceBefore
  <2>8. Since(d, now - CTS_EXPIRE_TIME) => Since(d, now - CTS_EXPIRE_TIME)'
    BY <1>1 DEF Since
  <2>9. d = s.domain /\ n = First(s)
    BY <2>1 DEF DecodeInv, OneType
  <2> QED BY <2>3, <2>5, <2>7, <2>8, <2>9 DEF OnTime, Available, First, TemplateFirst
<1>7. ASSUME steady, message.sets # <<>> PROVE Received(message)'
  BY <1>1, <1>7 DEF TimelyInv, Received, TemplateFirst, Since
<1> QED BY <1>1, <1>2, <1>4, <1>5, <1>6, <1>7 DEF TimelyInv

\* The collector keeps the templates that are young enough.
Keeps ==
  \A d : \A n \in Nat : \A x \in Int :
    now - CTS_EXPIRE_TIME <= x /\ x <= now /\ Available(d, n, x) => Available(d, n, x)'

LEMMA TimelyCollector ==
  ASSUME RenewalInTime, DecodeInv, PackInv, OnceInv, TimelyInv,
         UNCHANGED <<exporterVars, now>>, onWire' \subseteq onWire,
         message'.sets \in Seq(Sets), \A t \in cts' : t.last_seen \in Nat,
         steady' => /\ steady /\ dropped' = dropped /\ Keeps
                    /\ message'.sets # <<>> => Received(message)'
  PROVE  TimelyInv'
<1> PICK E : E = export_message
  OBVIOUS
<1>1. /\ Numbered /\ E = export_message'
      /\ UNCHANGED <<now, domain, opened, last_sent>>
      /\ now \in Nat /\ now # 0 /\ opened \in Nat /\ last_sent \in Nat
  BY DEF TimelyInv, Numbered, exporterVars
<1>2. Numbered'
  <2>1. \A m \in onWire' : X!DataIds(m) # <<>>
    BY <1>1 DEF Numbered
  <2>2. (E.sets = <<>> => last_sent' = 0) /\ (E.sets # <<>> => X!DataIds(E) # <<>>)
    BY <1>1 DEF Numbered
  <2>3. now' \in Nat \ {0} /\ opened' \in Nat /\ last_sent' \in Nat /\ last_sent' <= now'
    BY <1>1 DEF Numbered
  <2> QED BY <1>1, <2>1, <2>2, <2>3, ReadOff DEF Numbered
<1>3. ASSUME steady', E.sets # <<>> PROVE Renewed'
  <2>1. Renewed /\ Keeps
    BY <1>3 DEF TimelyInv
  <2>2. PICK n, d, x, y : n = First(E) /\ d = domain /\ x = opened - XTS_RESEND_TIME /\ y = last_sent
    OBVIOUS
  <2>3. n \in Nat
    BY <1>1, <1>3, <2>2, FirstExported
  <2>4. /\ x \in Int /\ now - CTS_EXPIRE_TIME <= x /\ x <= now
        /\ y \in Int /\ now - CTS_EXPIRE_TIME <= y /\ y <= now
    BY <1>1, <2>1, <2>2, RenewalTimes DEF Renewed, Numbered
  <2>5. (Available(d, n, x) => Available(d, n, x)') /\ (Available(d, n, y) => Available(d, n, y)')
    BY <2>1, <2>3, <2>4 DEF Keeps
  <2>6. /\ TemplateFirst(E) \/ Available(d, n, x)
        /\ X!HasSet(E, "template") \/ Available(d, n, y)
    BY <2>1, <2>2 DEF Renewed
  <2>7. n = First(export_message)' /\ d = domain' /\ x = (opened - XTS_RESEND_TIME)' /\ y = last_sent'
    <3>1. First(export_message)' = First(E)
      BY <1>1, ReadOff DEF First, X!DataIds, X!HasSet
    <3> QED BY <1>1, <2>2, <3>1
  <2>8. (TemplateFirst(export_message) \/ Available(domain, First(export_message), opened - XTS_RESEND_TIME))'
    <3>1. TemplateFirst(E) => TemplateFirst(export_message)'
      BY <1>1 DEF TemplateFirst
    <3>2. Available(d, n, x)' =>
            Available(domain, First(export_message), opened - XTS_RESEND_TIME)'
      BY <2>7 DEF Available, Pending, Since
    <3> QED BY <2>5, <2>6, <3>1, <3>2
  <2>9. (X!HasSet(export_message, "template") \/ Available(domain, First(export_message), last_sent))'
    <3>1. X!HasSet(E, "template") => X!HasSet(export_message, "template")'
      BY <1>1 DEF X!HasSet
    <3>2. Available(d, n, y)' => Available(domain, First(export_message), last_sent)'
      BY <2>7 DEF Available, Pending, Since
    <3> QED BY <2>5, <2>6, <3>1, <3>2
  <2> QED BY <1>1, <2>1, <2>8, <2>9 DEF Renewed
<1>4. ASSUME steady', NEW m \in onWire' PROVE OnTime(m)'
  <2>1. OnTime(m) /\ Keeps
    BY <1>4 DEF TimelyInv
  <2>2. PICK n, d, x : n = First(m) /\ d = m.domain /\ x = now - CTS_EXPIRE_TIME
    OBVIOUS
  <2>3. n \in Nat
    BY <1>1, <1>4, <2>2, FirstIsNat DEF PackInv, Numbered
  <2>4. x \in Int /\ now - CTS_EXPIRE_TIME <= x /\ x <= now
    BY <1>1, <2>2, RenewalTimes
  <2>5. Available(d, n, x) => Available(d, n, x)'
    BY <2>1, <2>3, <2>4 DEF Keeps
  <2>6. TemplateFirst(m) \/ Available(d, n, x)'
    BY <2>1, <2>2, <2>5 DEF OnTime
  <2>7. n = First(m)' /\ d = m.domain /\ x = (now - CTS_EXPIRE_TIME)'
    BY <1>1, <2>2, ReadOff
  <2> QED BY <2>6, <2>7, ReadOff DEF OnTime, Available, Pending, Since
<1> QED BY <1>1, <1>2, <1>3, <1>4 DEF TimelyInv

LEMMA TimelyReceive ==
  ASSUME RenewalInTime, DecodeInv, PackInv, OnceInv, TimelyInv, C!Receive, UNCHANGED exporterVars,
         steady' = (steady /\ ~ refused' /\ \A m \in onWire \ onWire' : Oldest(m))
  PROVE  TimelyInv'
<1>1. /\ Numbered /\ UNCHANGED <<now, cts, dropped>> /\ message.sets = <<>>
      /\ now \in Nat
  BY DEF TimelyInv, Numbered, C!Receive, C!Idle
<1>2. PICK m \in onWire : message' = m /\ onWire' = onWire \ {m}
  BY DEF C!Receive
<1>3. Packed(m) /\ m.sets \in Seq(Sets) /\ X!DataIds(m) # <<>>
  BY <1>1, <1>2 DEF PackInv, Packed, Numbered
<1>4. ~ X!HasSet(message, "template")
  BY <1>1 DEF X!HasSet
<1>5. \A d, x : Since(d, x) => Since(d, x)'
  BY <1>1 DEF Since
<1>6. Keeps
  <2> SUFFICES ASSUME NEW d, NEW n \in Nat, Pending(d, n) PROVE Pending(d, n)'
    BY <1>5 DEF Keeps, Available
  <2>1. PICK other \in onWire : /\ other.domain = d /\ X!HasSet(other, "template")
                                /\ First(other) < n
    BY <1>4 DEF Pending
  <2>2. CASE other = m
    BY <1>2, <2>1, <2>2, ReadOff DEF Pending, X!HasSet
  <2>3. CASE other # m
    <3>1. other \in onWire'
      BY <1>2, <2>3
    <3> QED BY <2>1, <3>1, ReadOff DEF Pending
  <2> QED BY <2>2, <2>3
<1>7. ASSUME steady' PROVE Received(message)'
  <2>1. steady /\ OnTime(m) /\ Oldest(m)
    BY <1>2, <1>7 DEF TimelyInv
  <2>2. First(m) \in Nat
    BY <1>3, FirstIsNat
  <2>3. ~ Pending(m.domain, First(m))
    <3> SUFFICES ASSUME NEW other \in onWire, First(other) < First(m) PROVE FALSE
      BY <1>4 DEF Pending
    <3>1. First(other) \in Nat
      BY <1>1, FirstIsNat DEF PackInv, Numbered
    <3>2. other # m
      BY <2>2
    <3>3. First(m) < First(other)
      BY <2>1, <3>2 DEF Oldest, First
    <3> QED BY <2>2, <3>1, <3>3
  <2>4. TemplateFirst(m) \/ Since(m.domain, now - CTS_EXPIRE_TIME)
    BY <2>1, <2>3 DEF OnTime, Available
  <2>5. Since(m.domain, now - CTS_EXPIRE_TIME) => Since(message.domain, now - CTS_EXPIRE_TIME)'
    BY <1>1, <1>2 DEF Since
  <2>6. TemplateFirst(m) => TemplateFirst(message)'
    BY <1>2 DEF TemplateFirst
  <2> QED BY <2>4, <2>5, <2>6 DEF Received
<1>8. \A t \in cts' : t.last_seen \in Nat
  BY <1>1 DEF Numbered
<1> QED BY <1>1, <1>2, <1>3, <1>6, <1>7, <1>8, TimelyCollector

\* A template in the message goes to the store, unless it is refused.
LEMMA TimelyTemplateSet ==
  ASSUME RenewalInTime, DecodeInv, PackInv, OnceInv, TimelyInv, C!ipfix_parse_template_set,
         UNCHANGED exporterVars,
         steady' = (steady /\ ~ refused' /\ \A m \in onWire \ onWire' : Oldest(m))
  PROVE  TimelyInv'
<1>1. /\ Numbered /\ UNCHANGED <<now, dropped, onWire>> /\ message.sets # <<>>
      /\ message' = [message EXCEPT !.sets = Tail(message.sets)]
      /\ now \in Nat /\ message.sets \in Seq(Sets)
  BY DEF TimelyInv, Numbered, C!ipfix_parse_template_set, C!Idle, C!AfterSet
<1>2. IsMessage(message) /\ message'.domain = message.domain /\ message'.sets = Tail(message.sets)
  BY <1>1 DEF DecodeInv, Typed, Messages, IsMessage
<1>3. message'.sets \in Seq(Sets)
  BY <1>1, <1>2
<1>4. \A t \in cts : IsTemplate(t) /\ t.last_seen \in Nat
  BY <1>1 DEF DecodeInv, Typed, Numbered
<1> DEFINE Stored == \A d : \A x \in Int :
                       x <= now /\ (Since(d, x) \/ d = message.domain) => Since(d, x)'
<1>5. ASSUME C!Matches(message) # {}
      PROVE  Stored /\ \A t \in cts' : t.last_seen \in Nat
  <2>1. PICK s : s = C!ipfix_cts_search(message)
    OBVIOUS
  <2>2. s \in cts /\ s.domain = message.domain
    BY <1>5, <2>1 DEF C!ipfix_cts_search, C!Matches, C!ipfix_template_key_cmp
  <2>3. cts' = {IF t = s THEN [t EXCEPT !.last_seen = now] ELSE t : t \in cts}
    BY <1>5, <2>1 DEF C!ipfix_parse_template_set
  <2>4. PICK r : r = [s EXCEPT !.last_seen = now]
    OBVIOUS
  <2>5. r.domain = s.domain /\ r.last_seen = now
    <3>1. IsTemplate(s)
      BY <1>4, <2>2
    <3> QED BY <2>4, <3>1 DEF IsTemplate
  <2>6. r \in cts' /\ \A t \in cts : t \in cts' \/ t = s
    BY <2>2, <2>3, <2>4
  <2>7. \A t \in cts' : t \in cts \/ t = r
    BY <2>3, <2>4
  <2>8. \A t \in cts' : t.last_seen \in Nat
    BY <1>1, <1>4, <2>5, <2>7
  <2>9. ASSUME NEW d, NEW x \in Int, x <= now, Since(d, x) \/ d = message.domain
        PROVE  Since(d, x)'
    <3>1. CASE d = message.domain
      BY <1>1, <2>2, <2>5, <2>6, <2>9, <3>1 DEF Since
    <3>2. CASE d # message.domain
      BY <2>2, <2>6, <2>9, <3>2 DEF Since
    <3> QED BY <3>1, <3>2
  <2> QED BY <2>8, <2>9
<1>6. ASSUME C!Matches(message) = {}, ~ refused'
      PROVE  Stored
  <2>1. PICK r : r = [domain |-> message.domain, type |-> message.type, last_seen |-> now]
    OBVIOUS
  <2>2. cts' = cts \cup {r}
    BY <1>6, <2>1 DEF C!ipfix_parse_template_set
  <2>3. r.domain = message.domain /\ r.last_seen = now
    BY <2>1
  <2> QED BY <1>1, <2>2, <2>3 DEF Since
<1>7. ASSUME C!Matches(message) = {}
      PROVE  \A t \in cts' : t.last_seen \in Nat
  <2>1. PICK r : r = [domain |-> message.domain, type |-> message.type, last_seen |-> now]
    OBVIOUS
  <2>2. cts' \subseteq cts \cup {r} /\ r.last_seen \in Nat
    BY <1>1, <1>7, <2>1 DEF C!ipfix_parse_template_set
  <2> QED BY <1>4, <2>2
<1>8. ASSUME Stored PROVE Keeps /\ Received(message)'
  <2>1. \A d, n : Pending(d, n) => d = message.domain \/ Pending(d, n)'
    BY <1>1, ReadOff DEF Pending
  <2>2. Keeps
    BY <1>8, <2>1 DEF Keeps, Available
  <2>3. now - CTS_EXPIRE_TIME \in Int /\ now - CTS_EXPIRE_TIME <= now
    BY <1>1, RenewalTimes
  <2>4. PICK d, x : d = message.domain /\ x = now - CTS_EXPIRE_TIME
    OBVIOUS
  <2>5. Since(d, x)'
    BY <1>8, <2>3, <2>4
  <2>6. d = message'.domain /\ x = now' - CTS_EXPIRE_TIME
    BY <1>1, <1>2, <2>4
  <2> QED BY <2>2, <2>5, <2>6 DEF Received, Since
<1>9. steady' => steady /\ Stored
  BY <1>5, <1>6
<1>10. steady' => Keeps /\ Received(message)'
  BY <1>8, <1>9
<1> QED BY <1>1, <1>3, <1>5, <1>7, <1>9, <1>10, TimelyCollector

\* The search for the template of a data set succeeds.
LEMMA TimelySearch ==
  ASSUME RenewalInTime, DecodeInv, PackInv, OnceInv, TimelyInv, C!FindTemplate,
         UNCHANGED exporterVars, steady' => steady
  PROVE  TimelyInv'
<1>1. /\ Numbered /\ UNCHANGED <<now, cts, onWire>> /\ message.sets # <<>>
      /\ message.sets \in Seq(Sets) /\ Head(message.sets).kind = "data"
  BY DEF TimelyInv, Numbered, C!FindTemplate, C!Idle, C!ThisSet
<1>2. \A t \in cts' : t.last_seen \in Nat
  BY <1>1 DEF Numbered
<1>3. steady => C!Matches(message) # {}
  <2>1. ~ TemplateFirst(message)
    BY <1>1 DEF TemplateFirst
  <2>2. steady => Since(message.domain, now - CTS_EXPIRE_TIME)
    BY <1>1, <2>1 DEF TimelyInv, Received
  <2> QED BY <2>2 DEF Since, C!Matches, C!ipfix_template_key_cmp
<1>4. steady => UNCHANGED <<message, dropped>>
  BY <1>3 DEF C!FindTemplate
<1>5. steady => Keeps
  BY <1>1, <1>4, ReadOff DEF Keeps, Available, Pending, Since, X!HasSet
<1>6. steady => Received(message)'
  BY <1>1, <1>4 DEF TimelyInv, Received, TemplateFirst, Since
<1>7. message'.sets \in Seq(Sets)
  <2>1. message' = message \/ message' = [message EXCEPT !.sets = Tail(message.sets)]
    BY DEF C!FindTemplate, C!AfterSet
  <2>2. IsMessage(message) /\ Tail(message.sets) \in Seq(Sets)
    BY <1>1 DEF DecodeInv, Typed, Messages
  <2> QED BY <1>1, <2>1, <2>2 DEF IsMessage
<1> QED BY <1>1, <1>2, <1>4, <1>5, <1>6, <1>7, TimelyCollector

\* A template that is behind the data set is still to come.
LEMMA TimelyDataSet ==
  ASSUME RenewalInTime, DecodeInv, PackInv, OnceInv, TimelyInv, C!ipfix_parse_data_set,
         UNCHANGED exporterVars, steady' => steady
  PROVE  TimelyInv'
<1>1. /\ Numbered /\ UNCHANGED <<now, cts, onWire, dropped>> /\ message.sets # <<>>
      /\ message.sets \in Seq(Sets) /\ Head(message.sets).kind = "data"
      /\ message' = [message EXCEPT !.sets = Tail(message.sets)]
  BY DEF TimelyInv, Numbered, DecodeInv, CopyOfTemplate, C!ipfix_parse_data_set, C!Idle, C!AfterSet
<1>2. /\ IsMessage(message) /\ message'.domain = message.domain
      /\ message'.sets = Tail(message.sets) /\ Tail(message.sets) \in Seq(Sets)
  BY <1>1 DEF DecodeInv, Typed, Messages, IsMessage
<1>3. \A t \in cts' : t.last_seen \in Nat
  BY <1>1 DEF Numbered
<1>4. X!HasSet(message, "template") => X!HasSet(message, "template")'
  <2> SUFFICES ASSUME NEW i \in DOMAIN message.sets, message.sets[i].kind = "template"
               PROVE  \E j \in DOMAIN message'.sets : message'.sets[j].kind = "template"
    BY DEF X!HasSet
  <2>1. PICK s, r : s = message.sets /\ r = Tail(s) /\ s \in Seq(Sets) /\ s # <<>>
    BY <1>1
  <2>2. i # 1 /\ i \in 1..Len(s)
    BY <1>1, <2>1
  <2>3. i - 1 \in DOMAIN r /\ r[i - 1] = s[i]
    BY <2>1, <2>2
  <2> QED BY <1>2, <2>1, <2>3
<1>5. Keeps
  <2>1. \A d, n : Pending(d, n) => Pending(d, n)'
    BY <1>1, <1>2, <1>4, ReadOff DEF Pending
  <2>2. \A d, x : Since(d, x) => Since(d, x)'
    BY <1>1 DEF Since
  <2> QED BY <2>1, <2>2 DEF Keeps, Available
<1>6. steady => Received(message)'
  <2>1. ~ TemplateFirst(message)
    BY <1>1 DEF TemplateFirst
  <2>2. steady => Since(message.domain, now - CTS_EXPIRE_TIME)
    BY <1>1, <2>1 DEF TimelyInv, Received
  <2> QED BY <1>1, <1>2, <2>2 DEF Received, Since
<1> QED BY <1>1, <1>2, <1>3, <1>5, <1>6, TimelyCollector

\* The monitor thread deletes no template that is still needed.
LEMMA TimelyScan ==
  ASSUME RenewalInTime, DecodeInv, PackInv, OnceInv, TimelyInv, C!ipfix_cts_scan_expired,
         UNCHANGED exporterVars, steady' => steady
  PROVE  TimelyInv'
<1>1. /\ Numbered /\ UNCHANGED <<now, message, onWire, dropped>> /\ now \in Nat
      /\ message.sets \in Seq(Sets)
      /\ cts' = {t \in cts : ~ (now - t.last_seen > CTS_EXPIRE_TIME)}
  BY DEF TimelyInv, Numbered, C!ipfix_cts_scan_expired, C!NotExpired, C!Expired
<1>2. \A t \in cts' : t.last_seen \in Nat
  BY <1>1 DEF Numbered
<1>3. ASSUME NEW d, NEW x \in Int, now - CTS_EXPIRE_TIME <= x, Since(d, x)
      PROVE  Since(d, x)'
  <2>1. PICK t \in cts : t.domain = d /\ t.last_seen >= x
    BY <1>3 DEF Since
  <2>2. t.last_seen \in Nat
    BY <1>1 DEF Numbered
  <2>3. ~ (now - t.last_seen > CTS_EXPIRE_TIME)
    BY <1>1, <1>3, <2>1, <2>2, RenewalTimes
  <2> QED BY <1>1, <2>1, <2>3 DEF Since
<1>4. Keeps
  <2>1. \A d, n : Pending(d, n) => Pending(d, n)'
    BY <1>1, ReadOff DEF Pending, X!HasSet
  <2> QED BY <1>3, <2>1 DEF Keeps, Available
<1>5. (steady /\ message.sets # <<>>) => Received(message)'
  <2>1. PICK d, x : d = message.domain /\ x = now - CTS_EXPIRE_TIME
    OBVIOUS
  <2>2. x \in Int /\ now - CTS_EXPIRE_TIME <= x
    BY <1>1, <2>1, RenewalTimes
  <2>3. Since(d, x) => Since(d, x)'
    BY <1>3, <2>2
  <2>4. (steady /\ message.sets # <<>>) => TemplateFirst(message) \/ Since(d, x)
    BY <2>1 DEF TimelyInv, Received
  <2>5. Since(d, x)' => Since(message.domain, now - CTS_EXPIRE_TIME)'
    BY <1>1, <2>1 DEF Since
  <2>6. TemplateFirst(message) => TemplateFirst(message)'
    BY <1>1 DEF TemplateFirst
  <2> QED BY <2>3, <2>4, <2>5, <2>6 DEF Received
<1> QED BY <1>1, <1>2, <1>4, <1>5, TimelyCollector

\* Time passes while nothing is on its way and the message is young.
LEMMA TimelyTick ==
  ASSUME RenewalInTime, PackInv, OnceInv, TimelyInv, Tick
  PROVE  TimelyInv'
<1> PICK E : E = export_message
  OBVIOUS
<1>1. /\ Numbered /\ now' = now + 1 /\ E = export_message'
      /\ UNCHANGED <<domain, opened, last_sent, message, cts, onWire, dropped>>
      /\ now \in Nat /\ opened \in Nat /\ last_sent \in Nat /\ last_sent <= now
      /\ now' \in Nat \ {0} /\ last_sent <= now'
  BY DEF TimelyInv, Numbered, Tick, exporterVars, collectorVars
<1>2. Numbered'
  <2>1. (E.sets = <<>> => last_sent' = 0) /\ (E.sets # <<>> => X!DataIds(E) # <<>>)
    BY <1>1 DEF Numbered
  <2>2. \A m \in onWire' : X!DataIds(m) # <<>>
    BY <1>1 DEF Numbered
  <2>3. (\A t \in cts' : t.last_seen \in Nat) /\ message'.sets \in Seq(Sets)
    BY <1>1 DEF Numbered
  <2> QED BY <1>1, <2>1, <2>2, <2>3, ReadOff DEF Numbered
<1>3. steady' => /\ steady /\ onWire = {} /\ message.sets = <<>>
                 /\ E.sets = <<>> \/ now' - opened <= CTS_EXPIRE_TIME - XTS_RESEND_TIME
  BY <1>1 DEF Tick, C!Idle, X!IsEmpty
<1>4. ASSUME steady', E.sets # <<>> PROVE Renewed'
  <2>1. Renewed /\ now' - opened <= CTS_EXPIRE_TIME - XTS_RESEND_TIME
    BY <1>3, <1>4 DEF TimelyInv
  <2>2. opened <= now'
    BY <1>1, <2>1 DEF Renewed
  <2>3. \A d, n, x : Available(d, n, x) => Available(d, n, x)'
    BY <1>1, ReadOff DEF Available, Pending, Since, X!HasSet
  <2>4. PICK n, d, x, y : n = First(E) /\ d = domain /\ x = opened - XTS_RESEND_TIME /\ y = last_sent
    OBVIOUS
  <2>5. n = First(export_message)' /\ d = domain' /\ x = (opened - XTS_RESEND_TIME)' /\ y = last_sent'
    <3>1. First(export_message)' = First(E)
      BY <1>1, ReadOff DEF First, X!DataIds, X!HasSet
    <3> QED BY <1>1, <2>4, <3>1
  <2>6. (TemplateFirst(export_message) \/ Available(domain, First(export_message), opened - XTS_RESEND_TIME))'
    <3>1. TemplateFirst(E) \/ Available(d, n, x)'
      BY <1>1, <2>1, <2>3, <2>4 DEF Renewed
    <3>2. TemplateFirst(E) => TemplateFirst(export_message)'
      BY <1>1 DEF TemplateFirst
    <3>3. Available(d, n, x)' =>
            Available(domain, First(export_message), opened - XTS_RESEND_TIME)'
      BY <2>5 DEF Available, Pending, Since
    <3> QED BY <3>1, <3>2, <3>3
  <2>7. (X!HasSet(export_message, "template") \/ Available(domain, First(export_message), last_sent))'
    <3>1. X!HasSet(E, "template") \/ Available(d, n, y)'
      BY <1>1, <2>1, <2>3, <2>4 DEF Renewed
    <3>2. X!HasSet(E, "template") => X!HasSet(export_message, "template")'
      BY <1>1 DEF X!HasSet
    <3>3. Available(d, n, y)' => Available(domain, First(export_message), last_sent)'
      BY <2>5 DEF Available, Pending, Since
    <3> QED BY <3>1, <3>2, <3>3
  <2> QED BY <1>1, <2>1, <2>2, <2>6, <2>7 DEF Renewed
<1> QED BY <1>1, <1>2, <1>3, <1>4 DEF TimelyInv

LEMMA TimelyInit == Init => TimelyInv
<1> SUFFICES ASSUME Init PROVE TimelyInv
  OBVIOUS
<1>1. /\ now = 1 /\ last_sent = 0 /\ opened = 0 /\ onWire = {} /\ cts = {} /\ dropped = {}
      /\ export_message.sets = <<>> /\ message.sets = <<>>
  BY DEF Init, X!ExporterInit, C!CollectorInit, X!NewMessage
<1> QED BY <1>1 DEF TimelyInv, Numbered

LEMMA TimelyStep ==
  ASSUME RenewalInTime, DecodeInv, PackInv, OnceInv, TimelyInv, PackInv', [Next]_vars
  PROVE  TimelyInv'
<1>1. CASE Export
  BY <1>1, TimelyRecord, TimelyEnd DEF Export, X!ExporterNext
<1>2. CASE Collect
  BY <1>2, TimelyReceive, TimelyTemplateSet, TimelySearch, TimelyDataSet, TimelyScan
  DEF Collect, C!CollectorNext
<1>3. CASE Lose
  <2>1. /\ UNCHANGED <<exporterVars, collectorVars, now>> /\ onWire' \subseteq onWire
        /\ ~ steady'
    BY <1>3 DEF Lose
  <2>2. message'.sets \in Seq(Sets) /\ \A t \in cts' : t.last_seen \in Nat
    BY <2>1 DEF TimelyInv, Numbered, collectorVars
  <2> QED BY <2>1, <2>2, TimelyCollector
<1>4. CASE Tick
  BY <1>4, TimelyTick
<1>5. CASE UNCHANGED vars
  <2>1. /\ UNCHANGED <<exporterVars, collectorVars, now, onWire, steady>>
        /\ UNCHANGED <<message, cts, dropped, onWire, now>>
    BY <1>5 DEF vars, collectorVars
  <2>2. message'.sets \in Seq(Sets) /\ \A t \in cts' : t.last_seen \in Nat
    BY <2>1 DEF TimelyInv, Numbered
  <2>3. Keeps
    BY <2>1, ReadOff DEF Keeps, Available, Pending, Since, X!HasSet
  <2>4. (steady /\ message.sets # <<>>) => Received(message)'
    BY <2>1 DEF TimelyInv, Received, TemplateFirst, Since
  <2> QED BY <2>1, <2>2, <2>3, <2>4, TimelyCollector
<1> QED BY <1>1, <1>2, <1>3, <1>4, <1>5 DEF Next

\* While messages arrive in order and are sent soon enough, the collector has a
\* template for every data set, for any times of which the first is the shortest:
\* a template is sent again before the collector forgets it, and the exporter does
\* not forget before the collector that it has sent one.
THEOREM TemplatesInTime == RenewalInTime => (Spec => []TemplateInTime)
<1> SUFFICES ASSUME RenewalInTime PROVE Spec => []TemplateInTime
  OBVIOUS
<1> DEFINE Inv == DecodeInv /\ PackInv /\ OnceInv /\ TimelyInv
<1>1. Init => Inv
  BY DecodeInit, PackOnceInit, TimelyInit
<1>2. Inv /\ [Next]_vars => Inv'
  BY DecodeStep, PackOnceStep, TimelyStep
<1>3. Inv => TemplateInTime
  BY DEF TimelyInv, TemplateInTime
<1> HIDE DEF Inv
<1> QED BY <1>1, <1>2, <1>3, PTL DEF Spec
=============================================================================
