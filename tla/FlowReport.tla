----------------------------- MODULE FlowReport -----------------------------
(***************************************************************************)
(* The JSON object of one flow: flow_record_print_json (joy/src/p2f.c)     *)
(* over a record, the first of two directions to be seen, and the twin it  *)
(* may have.  The record that becomes the client of the object is `rec':   *)
(* its addresses are "sa" and "da".  The two arrays of packet times are    *)
(* merged one packet per step.                                             *)
(***************************************************************************)
EXTENDS Sums, FiniteSets

CONSTANTS
  Times,        \* packet timestamps, in milliseconds
  num_pkts,     \* glb_config->num_pkts
  ReportPktLen, \* MAX_NUM_PKT_LEN
  IptMod,       \* inter-packet times are unsigned: taken modulo IptMod
  MaxPackets    \* bound: packets of the flow

ASSUME TimesAssumption == Times \subseteq Nat \ {0}
ASSUME ReportAssumption == num_pkts \in Nat /\ ReportPktLen \in Nat /\ IptMod \in Nat \ {0}

SYN == 2
SYN_ACK == 18
Sides == {"record", "twin"}

VARIABLES
  start, end,   \* of each side; 0: no packet seen
  pkt_time,     \* of the packets with data
  dir,          \* what proto_identify found: UNKNOWN, CLIENT, SERVER
  flags,        \* tcp.flags: the first of SYN and SYN/ACK seen, or 0
  exp_type,     \* of each side: none, active or inactive
  pc,           \* collecting packets, printing, or done
  rec,          \* the side that became the client
  i, j,         \* cursors in the arrays of rec and of its twin
  ts_start, ts_end, ts_last,
  out           \* the "packets" array; side and time are history

packets == <<start, end, pkt_time, dir, flags>>
printer == <<pc, rec, i, j, ts_start, ts_end, ts_last, out>>
reportVars == <<packets, exp_type, printer>>

HasTwin == start["twin"] # 0

ReportInit ==
  /\ start = [s \in Sides |-> 0] /\ end = start
  /\ pkt_time = [s \in Sides |-> <<>>]
  /\ dir = [s \in Sides |-> "UNKNOWN"] /\ flags = [s \in Sides |-> 0]
  /\ exp_type = [s \in Sides |-> "none"]
  /\ pc = "collect" /\ rec = "record"
  /\ i = 0 /\ j = 0 /\ ts_start = 0 /\ ts_end = 0 /\ ts_last = 0
  /\ out = <<>>

Latest == IF end["record"] < end["twin"] THEN end["twin"] ELSE end["record"]

(***************************************************************************)
(* Packets arrive in the order of their timestamps.                        *)
(***************************************************************************)
RecordPacket(s, t, data, fl, d) ==
  /\ pc = "collect"
  /\ Len(pkt_time["record"]) + Len(pkt_time["twin"]) < MaxPackets
  /\ s = "twin" => start["record"] # 0
  /\ t >= Latest
  /\ start' = [start EXCEPT ![s] = IF @ = 0 THEN t ELSE @]
  /\ end' = [end EXCEPT ![s] = t]
  /\ pkt_time' = [pkt_time EXCEPT ![s] =
                    IF data /\ Len(@) < ReportPktLen THEN Append(@, t) ELSE @]
  /\ flags' = [flags EXCEPT ![s] = IF @ = 0 THEN fl ELSE @]
  /\ dir' = [dir EXCEPT ![s] = IF @ = "UNKNOWN" /\ data THEN d ELSE @]
  /\ UNCHANGED <<exp_type, printer>>

(***************************************************************************)
(* Which side is the client.                                               *)
(***************************************************************************)
Other(s) == IF s = "record" THEN "twin" ELSE "record"

FirstWith(f, v) == IF f["record"] = v THEN "record" ELSE "twin"

tcp_client_flow ==
  IF \A s \in Sides : flags[s] = SYN THEN "none"
  ELSE IF \E s \in Sides : flags[s] = SYN THEN FirstWith(flags, SYN)
  ELSE IF \A s \in Sides : flags[s] = SYN_ACK THEN "none"
  ELSE IF \E s \in Sides : flags[s] = SYN_ACK THEN Other(FirstWith(flags, SYN_ACK))
  ELSE "none"

get_client_flow ==
  IF \E s \in Sides : dir[s] = "CLIENT" THEN FirstWith(dir, "CLIENT")
  ELSE IF \E s \in Sides : dir[s] = "SERVER" THEN Other(FirstWith(dir, "SERVER"))
  ELSE tcp_client_flow

EarlierSide == IF start["record"] < start["twin"] THEN "record" ELSE "twin"

ClientSide ==
  IF ~HasTwin THEN "record"
  ELSE IF get_client_flow # "none" THEN get_client_flow
  ELSE EarlierSide

EndTime ==
  IF ~HasTwin \/ get_client_flow # "none" THEN end["record"] ELSE Latest

\* flow_record_is_expired sets exp_type of the record it is called with; a
\* report of all flows (or a preemptive timeout) leaves it unset.
flow_record_print_json(expiration) ==
  /\ pc = "collect" /\ start["record"] # 0
  /\ pc' = "print"
  /\ exp_type' = [exp_type EXCEPT !["record"] = expiration]
  /\ rec' = ClientSide
  /\ ts_start' = start[ClientSide]
  /\ ts_end' = EndTime
  /\ ts_last' = start[ClientSide]
  /\ UNCHANGED <<packets, i, j, out>>

(***************************************************************************)
(* The "packets" array.                                                    *)
(***************************************************************************)
AtMost(s) == LET op == Len(pkt_time[s]) IN IF op > num_pkts THEN num_pkts ELSE op

imax == AtMost(rec)
jmax == IF HasTwin THEN AtMost(Other(rec)) ELSE 0

OneTooFarAlone == (IF HasTwin THEN i >= imax ELSE i > imax) /\ j >= jmax

Exhausted == i >= imax /\ j >= jmax

\* An entry for the n-th packet of side s, counted from 0.
EntryPerSide(s, n, label, last) ==
  [dir |-> label, side |-> s, time |-> pkt_time[s][n + 1],
   ipt |-> IF n = 0 THEN 0 ELSE (pkt_time[s][n + 1] - last) % IptMod]

Entry(s, n, label, last) ==
  [dir |-> label, side |-> s, time |-> pkt_time[s][n + 1],
   ipt |-> (pkt_time[s][n + 1] - last) % IptMod]

Alternate == j <= i

TwinFirst == pkt_time[rec][i + 1] >= pkt_time[Other(rec)][j + 1]

TakeFromTwin == j < jmax /\ IF i < imax THEN TwinFirst ELSE TRUE

DirOf(s) == IF s = rec THEN ">" ELSE "<"

PrintTwinPacket ==
  /\ pc = "print" /\ HasTwin /\ ~Exhausted
  /\ TakeFromTwin
  /\ out' = Append(out, Entry(Other(rec), j, DirOf(Other(rec)), ts_last))
  /\ ts_last' = pkt_time[Other(rec)][j + 1]
  /\ j' = j + 1
  /\ UNCHANGED <<packets, exp_type, pc, rec, i, ts_start, ts_end>>

PrintRecPacket ==
  /\ pc = "print" /\ HasTwin /\ ~Exhausted
  /\ ~TakeFromTwin
  /\ out' = Append(out, Entry(rec, i, DirOf(rec), ts_last))
  /\ ts_last' = pkt_time[rec][i + 1]
  /\ i' = i + 1
  /\ UNCHANGED <<packets, exp_type, pc, rec, j, ts_start, ts_end>>

\* A flow without a twin: the first packet has inter-packet time 0.
PrintUnidirectional ==
  /\ pc = "print" /\ ~HasTwin
  /\ i < imax
  /\ out' = Append(out, Entry(rec, i, "<",
                              IF i = 0 THEN pkt_time[rec][1] ELSE pkt_time[rec][i]))
  /\ i' = i + 1
  /\ UNCHANGED <<packets, exp_type, pc, rec, j, ts_start, ts_end, ts_last>>

Finish ==
  /\ pc = "print"
  /\ Exhausted
  /\ pc' = "done"
  /\ UNCHANGED <<packets, exp_type, rec, i, j, ts_start, ts_end, ts_last, out>>

PrintStep == PrintTwinPacket \/ PrintRecPacket \/ PrintUnidirectional \/ Finish

ReportNext ==
  \/ \E s \in Sides, t \in Times, data \in BOOLEAN,
        fl \in {0, SYN, SYN_ACK}, d \in {"UNKNOWN", "CLIENT", "SERVER"} :
       RecordPacket(s, t, data, fl, d)
  \/ \E e \in {"none", "active", "inactive"} : flow_record_print_json(e)
  \/ PrintStep

ReportSpec == ReportInit /\ [][ReportNext]_reportVars /\ WF_reportVars(PrintStep)

(***************************************************************************)
(* Properties.                                                             *)
(***************************************************************************)
\* The packets of side s among the first k entries.
PrintedOf(s, k) == Cardinality({m \in 1..k : out[m].side = s})

\* The merge loses and repeats nothing: each direction contributes its first
\* num_pkts packets, and the two are interleaved in the order of time.  The
\* label of a packet tells those of "sa" from those of "da", whichever side became
\* the client.
EveryPacketOnce ==
  /\ HasTwin => \A k \in DOMAIN out : out[k].dir = ">" <=> out[k].side = rec
  /\ \A k \in 1..(Len(out) - 1) : out[k].time <= out[k + 1].time
  /\ \A k \in DOMAIN out :
       out[k].time = pkt_time[out[k].side][PrintedOf(out[k].side, k)]
  /\ pc = "done" =>
       \A s \in Sides : PrintedOf(s, Len(out)) =
         IF Len(pkt_time[s]) < num_pkts THEN Len(pkt_time[s]) ELSE num_pkts

Identified == HasTwin /\ get_client_flow # "none"

IptSum(k) == SumOf(0, [m \in 1..k |-> out[m].ipt])

\* Unless a side was identified as the client that was not the first to send,
\* the inter-packet times of a bidirectional flow lead from "time_start" to the
\* time of each packet.  Unless a client was identified at all, "time_start" and
\* "time_end" enclose the packets.
TimesReconstruct ==
  /\ HasTwin /\ (Identified => start[rec] <= start[Other(rec)]) =>
       \A k \in DOMAIN out : ts_start + IptSum(k) = out[k].time
  /\ pc = "done" /\ ~Identified =>
       /\ ts_end = Latest
       /\ \A s \in Sides : \A k \in DOMAIN pkt_time[s] : ts_start <= pkt_time[s][k]

\* The loop over two arrays with two cursors ends.
ReportCompletes == pc = "print" ~> pc = "done"

\* using-joy-05.tex: the flow record indicates which expiration happened in
\* "expire_type", which is printed from rec and "appears in the top level of
\* each flow object".
ExpireTypePrinted ==
  pc = "done" /\ (\E s \in Sides : exp_type[s] # "none") =>
    exp_type[rec] # "none"
=============================================================================
