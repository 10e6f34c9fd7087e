--------------------------- MODULE PacketDispatch ---------------------------
(***************************************************************************)
(* What happens to a packet before and after flow_key_get_record           *)
(* (joy/src/pkt_proc.c): process_packet picks the flow key by protocol,    *)
(* fragment offset and validity of the transport header, and counts the    *)
(* packet in the record it got.  A datagram that carries a NetFlow v9 or   *)
(* IPFIX message is a packet of a flow of its own, the carrier; while      *)
(* process_packet holds a pointer to the carrier's record, the flows the   *)
(* message reports go through the same flow table, one by one.             *)
(*                                                                         *)
(* The contents of the counters other than np are left to TcpFlow, the     *)
(* life of IPFIX templates to IpfixCollector.                              *)
(***************************************************************************)
EXTENDS FlowTable, Sequences, FiniteSets

CONSTANTS
  Packets,        \* packets: [kind, key], key as in a complete packet
  Messages,       \* datagrams: [key, version, source, left, sets]
  Behind,         \* sets that may be read behind the end of a datagram
  Counts,         \* values of IN_PKTS and packetDeltaCount in a flow
  Layout(_, _),   \* what a template id means to an exporter
  ZeroSize,       \* layouts of which the fields have no length
  MAX_TEMPLATES,
  SetHeader,      \* size of the header of a set
  LenMod,         \* message_len in process_ipfix is taken modulo LenMod (2^16)
  NpMod           \* record->np is taken modulo NpMod (2^8)

\* A set is what its own Length leads to, and holds what that Length covers:
\* templates, or records, read as the keys of the flows they report.  The other
\* sets are passed over: options templates, reserved ids, IPFIX templates (they
\* are in IpfixCollector) and IPFIX data without a template.
DataSets == [type: {"data"}, length: Nat, id: Nat, flows: Seq(Keys)]
TemplateSets == [type: {"template"}, length: Nat, ids: Seq(Nat)]
FlowSets == DataSets \cup TemplateSets \cup [type: {"other"}, length: Nat]

Kinds == {"tcp", "tcp_retrans", "tcp_malformed", "udp", "icmp", "malformed", "fragment"}

ASSUME DispatchAssumption ==
  /\ Packets \subseteq [kind: Kinds, key: Keys]
  /\ \A d \in Messages : /\ d.key \in Keys /\ d.version \in {9, 10}
                         /\ d.left \in Int /\ d.sets \in Seq(FlowSets)
  /\ Behind \subseteq FlowSets /\ SetHeader \in Nat /\ LenMod \in Nat \ {0}
  /\ Counts \subseteq Nat /\ MAX_TEMPLATES \in Nat \ {0} /\ NpMod \in Nat \ {0}

\* A set that is no longer than its header has nothing in it.  IPFIX sets shorter
\* than their header, whose data_set_len wraps, are only among those passed over.
Sparse(s, version) ==
  s.length <= SetHeader =>
    /\ s.type = "data" => s.flows = <<>>
    /\ s.type = "template" => s.ids = <<>>
    /\ version = 10 /\ s.length < SetHeader => s.type = "other"

ASSUME SetsAssumption ==
  /\ \A d \in Messages : \A i \in DOMAIN d.sets : Sparse(d.sets[i], d.version)
  /\ \A s \in Behind : Sparse(s, 10)

VARIABLES
  np,             \* record->np
  carrier,        \* `record' in process_udp: that of the datagram, or NULL
  datagram,       \* the datagram; `len' or `message_len' in `left', the sets to come
  cur_template,   \* the template of the data set that is read, or NULL
  prev_key,
  v9_templates,   \* the array, first element at 0
  num_templates,
  expected,       \* history: packets of each key since its record was made
  apart,          \* history: keys a message came back to since their record was made
  counted,        \* history: the flows of this datagram counted, in order
  self,           \* history: a message reported the flow that carries it, or its twin
  announced,      \* history: the v9 templates received
  decoded         \* history: how the last set was decoded: [as, sent]

nfv9 == <<v9_templates, num_templates>>
collector ==
  <<carrier, datagram, cur_template, prev_key, nfv9, counted, self, announced, decoded>>
counts == <<np, expected, apart>>
dispatchVars == <<vars, counts, collector>>

NoDatagram ==
  [key |-> NULL, version |-> 0, source |-> 0, left |-> 0, sets |-> <<>>, ts |-> 0]
NotCollecting == carrier = NULL /\ datagram = NoDatagram

(***************************************************************************)
(* Flow keys.                                                              *)
(***************************************************************************)
WithoutPorts(k) == [k EXCEPT !.sp = 0, !.dp = 0]

\* A fragment other than the first has no transport header.
FragmentKey(k) == [WithoutPorts(k) EXCEPT !.prot = 0]

\* process_tcp, process_udp and process_icmp fill in the ports, if they find
\* a complete header; ICMP and plain IP have none.
PacketKey(p) ==
  CASE p.kind \in {"tcp", "tcp_retrans", "udp"} -> p.key
    [] p.kind \in {"tcp_malformed", "malformed", "icmp"} -> WithoutPorts(p.key)
    [] p.kind = "fragment" -> FragmentKey(p.key)

ASSUME KeysOfPacketsAssumption == \A p \in Packets : PacketKey(p) \in Keys

(***************************************************************************)
(* Counting.  `gone' is what a timeout deletes; n packets go to the record *)
(* at address r, of which `due' are expected for its key k.                *)
(***************************************************************************)
Plus(a, n) == (a + n) % NpMod

Count(gone, r, n, k, due, again) ==
  LET now == Zeroize(np, gone, 0)
      forgotten == {key[s] : s \in gone}
      kept == [x \in Keys |-> IF x \in forgotten THEN 0 ELSE expected[x]]
  IN  /\ np' = IF r \in table' THEN [now EXCEPT ![r] = Plus(@, n)] ELSE now
      /\ expected' = IF Used(k) # NULL THEN [kept EXCEPT ![k] = Plus(@, due)] ELSE kept
      /\ apart' = (apart \ forgotten) \cup again

\* process_packet for everything but retransmissions and collected datagrams.
\* A malformed TCP packet is looked up first, and no timeout is tested when its
\* record is there.
Expired(p, ts) == IF p.kind = "tcp_malformed" THEN {} ELSE active_expired(ts)

process_ip_packet(p, ts) ==
  LET k == PacketKey(p) gone == Preempted(k, Expired(p, ts)) IN
  /\ NotCollecting /\ p.kind # "tcp_retrans"
  /\ NotWalking
  /\ AdvanceTime(ts)
  /\ get_record(k, Expired(p, ts), ts, ts, TRUE)
  /\ Count(gone, Used(k), 1, k, 1, {})
  /\ UNCHANGED collector

\* It is not counted.
process_tcp_retransmission(p, ts) ==
  /\ NotCollecting /\ p.kind = "tcp_retrans"
  /\ process_retransmission(PacketKey(p), ts)
  /\ Count(Preempted(PacketKey(p), active_expired(ts)), NULL, 0, PacketKey(p), 0, {})
  /\ UNCHANGED collector

(***************************************************************************)
(* Datagrams.  process_udp gets the record of the carrier before it reads  *)
(* the message, process_packet counts and dates it afterwards.             *)
(***************************************************************************)
process_udp(d, ts) ==
  LET gone == Preempted(d.key, active_expired(ts)) IN
  /\ NotCollecting /\ NotWalking
  /\ AdvanceTime(ts)
  /\ get_record(d.key, active_expired(ts), 0, 0, FALSE)
  /\ Used(d.key) # NULL
  /\ carrier' = Used(d.key)
  /\ datagram' = [key |-> d.key, version |-> d.version, source |-> d.source,
                  left |-> d.left, sets |-> d.sets, ts |-> ts]
  /\ cur_template' = NULL /\ prev_key' = NULL /\ counted' = <<>>
  /\ Count(gone, NULL, 0, d.key, 0, {})
  /\ UNCHANGED <<nfv9, self, announced, decoded>>

Set == Head(datagram.sets)

\* The condition of both loops over the sets.
InMessage == carrier # NULL /\ datagram.left > SetHeader

InSet(type) == InMessage /\ datagram.sets # <<>> /\ Set.type = type


LeftAfter(length) ==
  IF datagram.version = 9 THEN datagram.left - length ELSE (datagram.left - length) % LenMod

NextSet ==
  /\ datagram' = [datagram EXCEPT !.left = LeftAfter(Set.length),
                                  !.sets = IF Set.length = 0 THEN @ ELSE Tail(@)]
  /\ cur_template' = NULL

\* Nothing compares a Length with what is left: behind the end of the message
\* the loop goes on with what it finds there.
read_behind ==
  /\ InMessage /\ datagram.sets = <<>>
  /\ \E s \in Behind : datagram' = [datagram EXCEPT !.sets = <<s>>]
  /\ UNCHANGED <<vars, counts, carrier, cur_template, prev_key, counted, nfv9, self, announced, decoded>>

\* An exporter is known by its address and SourceID.  The address is read from
\* the carrier's record, which is all zeroes once it was deleted.
Sender == <<datagram.key.sa, datagram.source>>

nfv9_template_key_init == <<IF carrier \in table THEN key[carrier].sa ELSE 0, datagram.source>>

nfv9_template_key_cmp(t, id) == t.template_id = id /\ t.src = nfv9_template_key_init

KnownAt(id) == {i \in 0 .. num_templates - 1 : nfv9_template_key_cmp(v9_templates[i], id)}

FirstOf(I) == CHOOSE i \in I : \A j \in I : i <= j

ByIdOnly(id) ==
  v9_templates[FirstOf({i \in 0 .. num_templates - 1 : v9_templates[i].template_id = id})]

FoundTemplate(id) == v9_templates[FirstOf(KnownAt(id))]

NeverKnown(id) == FALSE

Redundant(id) == KnownAt(id) # {}

\* A template that is known is not stored again; when the array is full all
\* are forgotten.
process_nfv9_template ==
  /\ InSet("template") /\ datagram.version = 9 /\ Set.ids # <<>>
  /\ LET id == Head(Set.ids)
         t == [template_id |-> id, src |-> nfv9_template_key_init, layout |-> Layout(Sender, id)]
     IN  /\ IF Redundant(id) THEN UNCHANGED nfv9
            ELSE /\ v9_templates' = [v9_templates EXCEPT ![num_templates] = t]
                 /\ num_templates' = (num_templates + 1) % MAX_TEMPLATES
         /\ announced' = announced \cup {<<Sender, id>>}
         /\ datagram' = [datagram EXCEPT !.sets[1] = [Set EXCEPT !.ids = Tail(@)]]
  /\ UNCHANGED <<vars, counts, carrier, cur_template, prev_key, counted, self, decoded>>

\* The template is looked for once for each data set.  When its records would
\* be empty process_nfv9 returns, and the rest of the message is not read.
find_template ==
  /\ InSet("data") /\ datagram.version = 9 /\ cur_template = NULL /\ KnownAt(Set.id) # {}
  /\ IF FoundTemplate(Set.id).layout \in ZeroSize
     THEN datagram' = [datagram EXCEPT !.left = 0, !.sets = <<>>] /\ UNCHANGED cur_template
     ELSE cur_template' = FoundTemplate(Set.id) /\ UNCHANGED datagram
  /\ UNCHANGED <<vars, counts, carrier, prev_key, counted, nfv9, self, announced, decoded>>

\* A set that is passed over, or was read to its end.
next_set ==
  /\ \/ InSet("other")
     \/ InSet("template") /\ (datagram.version = 10 \/ Set.ids = <<>>)
     \/ InSet("data") /\ Set.flows = <<>> /\ (datagram.version = 9 => cur_template # NULL)
     \/ InSet("data") /\ datagram.version = 9 /\ cur_template = NULL /\ KnownAt(Set.id) = {}
  /\ NextSet
  /\ UNCHANGED <<vars, counts, carrier, prev_key, counted, nfv9, self, announced, decoded>>

\* The packets of a flow are added once for several records in a row.
AddEveryRecord(k, n) == n

PacketsToAdd(k, n) == IF k # prev_key THEN n ELSE 0

Recorded == {counted[i] : i \in DOMAIN counted}

\* The message comes back to a flow after another.
ComesBack(k) == k \in Recorded /\ k # counted[Len(counted)]

\* One record of a data set, IPFIX or NetFlow v9.  When calloc fails,
\* process_ipfix tries the record again and process_nfv9 goes on to the next.
collect_record(n) ==
  LET k == Head(Set.flows)
      gone == Preempted(k, active_expired_no_header)
  IN  /\ InSet("data") /\ Set.flows # <<>>
      /\ datagram.version = 9 => cur_template # NULL
      /\ \E x \in Exported : collect_flow(k, x[1], x[2])
      /\ Count(gone, Used(k), PacketsToAdd(k, n), k, IF k \in Recorded THEN 0 ELSE n,
               IF Used(k) # NULL /\ ComesBack(k) THEN {k} ELSE {})
      /\ IF Used(k) = NULL THEN UNCHANGED <<prev_key, counted>>
         ELSE prev_key' = k /\ counted' = Append(counted, k)
      /\ IF Used(k) = NULL /\ datagram.version = 10 THEN UNCHANGED datagram
         ELSE datagram' = [datagram EXCEPT !.sets[1] = [Set EXCEPT !.flows = Tail(@)]]
      /\ self' = (self \/ k = datagram.key \/ flow_key_is_twin(k, datagram.key))
      /\ decoded' = IF datagram.version = 10 THEN decoded
                    ELSE [as |-> cur_template.layout, sent |-> Layout(Sender, Set.id)]
      /\ UNCHANGED <<carrier, cur_template, nfv9, announced>>

\* Back in process_packet.  What it writes to a record that was freed goes to
\* the record, if any, that has got its address.
finish_packet ==
  /\ carrier # NULL /\ ~ InMessage
  /\ NotWalking
  /\ IF carrier \in table
     THEN /\ start' = [start EXCEPT ![carrier] = IF @ = 0 THEN datagram.ts ELSE @]
          /\ end' = [end EXCEPT ![carrier] = datagram.ts]
     ELSE UNCHANGED <<start, end>>
  /\ UNCHANGED <<table, key, twin, older, chrono, global_time>>
  /\ Count({}, carrier, 1, datagram.key, 1, {})
  /\ carrier' = NULL /\ datagram' = NoDatagram
  /\ cur_template' = NULL /\ prev_key' = NULL /\ counted' = <<>> /\ decoded' = NULL
  /\ UNCHANGED <<nfv9, self, announced>>

\* Between two packets the main thread reports expired flows.
report_flows ==
  /\ NotCollecting
  /\ \/ StartWalk("JOY_EXPIRED_FLOWS") /\ UNCHANGED counts
     \/ /\ WalkStep
        /\ Count(table \ table', NULL, 0, NULL, 0, {})
  /\ UNCHANGED collector

DispatchInit ==
  /\ Init
  /\ np = [r \in Rid |-> 0] /\ expected = [k \in Keys |-> 0] /\ apart = {}
  /\ carrier = NULL /\ datagram = NoDatagram /\ cur_template = NULL /\ prev_key = NULL
  /\ num_templates = 0
  /\ v9_templates = [i \in 0 .. MAX_TEMPLATES - 1 |-> NULL]
  /\ counted = <<>> /\ self = FALSE /\ announced = {} /\ decoded = NULL

\* The rounds of the loops over a message, and the return to process_packet.
ReadDatagram ==
  \/ process_nfv9_template \/ find_template \/ next_set \/ read_behind
  \/ \E n \in Counts : collect_record(n)
  \/ finish_packet

DispatchNext ==
  \/ \E p \in Packets, ts \in Times :
       process_ip_packet(p, ts) \/ process_tcp_retransmission(p, ts)
  \/ \E d \in Messages, ts \in Times : process_udp(d, ts)
  \/ ReadDatagram
  \/ report_flows

DispatchSpec == DispatchInit /\ [][DispatchNext]_dispatchVars

(***************************************************************************)
(* Properties.                                                             *)
(***************************************************************************)

\* process_packet and process_udp hold a pointer to the carrier's record across
\* the calls that collect flows, each of which may delete records: it stays
\* that record, unless the message reports the very flow that carries it.
CarrierKept ==
  carrier # NULL => self \/ (carrier \in table /\ key[carrier] = datagram.key)

\* Every packet that is not a retransmission is counted in the record of its
\* flow, complete or not, and the packets a collected flow reports are counted
\* once for each message, however its records are spread over sets; other than
\* for a flow that a message has come back to after another, which is counted
\* again (nfv9_process_flow_record is told apart by prev_key only).
PacketsCounted ==
  self \/ \A r \in table : key[r] \in apart \/ np[r] = expected[key[r]]

\* A data set is decoded with the template of its own exporter, though all
\* exporters share one array and use the same template ids.  The records that
\* are collected may have deleted the one the exporter's address is read from.
DecodedAsAnnounced == decoded # NULL => self \/ decoded.as = decoded.sent

\* As long as fewer templates exist than the array can hold, a template that
\* was received stays known, however often each is sent again.
TemplatesKept ==
  Cardinality(announced) < MAX_TEMPLATES => self \/
    \A a \in announced : \E i \in 0 .. num_templates - 1 :
      v9_templates[i].src = a[1] /\ v9_templates[i].template_id = a[2]

\* What the loops cannot get past, or may not: a set whose Length is 0, an IPFIX
\* set longer than what is left, and an IPFIX record for which there is no memory.
Unended ==
  /\ InMessage /\ datagram.sets # <<>>
  /\ \/ Set.length = 0
     \/ datagram.version = 10 /\ Set.length > datagram.left
     \/ /\ datagram.version = 10 /\ Set.type = "data" /\ Set.flows # <<>>
        /\ Used(Head(Set.flows)) = NULL

Items(s) ==
  CASE s.type = "data" -> Len(s.flows)
    [] s.type = "template" -> Len(s.ids)
    [] s.type = "other" -> 0

\* A step that leaves less of the message, or less to do before that.
Nearer ==
  \/ datagram'.left < datagram.left
  \/ /\ datagram'.left = datagram.left /\ datagram'.sets # <<>>
     /\ \/ datagram.sets = <<>>
        \/ Items(Head(datagram'.sets)) < Items(Set)
        \/ datagram'.sets = datagram.sets /\ cur_template = NULL /\ cur_template' # NULL

=============================================================================
