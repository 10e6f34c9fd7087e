------------------------------- MODULE TcpFlow -------------------------------
(***************************************************************************)
(* One direction of a TCP connection as process_tcp and process_packet see *)
(* it (joy/src/pkt_proc.c): detection of retransmissions, the counters of  *)
(* the flow record, and the capture of the initial data packet (IDP).      *)
(*                                                                         *)
(* The network delivers the segments of the connection any number of times *)
(* and in any order.  The content of a segment is left out: byte counts    *)
(* are reduced to their sum.                                               *)
(***************************************************************************)
EXTENDS Integers, Sequences

CONSTANTS
  Segments,       \* the segments one side sends: [syn, seq, len]
  SeqSpace,         \* sequence numbers are taken modulo SeqSpace (2^32)
  RetransBuffer,  \* MAX_TCP_RETRANS_BUFFER
  MaxPktLen,      \* MAX_NUM_PKT_LEN
  MinOctets,      \* ETTA_MIN_OCTETS
  ObMod,          \* record->ob is taken modulo ObMod (2^16)
  include_zeroes, \* glb_config->include_zeroes
  include_retrans,\* glb_config->include_retrans
  MaxSent         \* bound: number of packets observed

ASSUME SegmentsAssumption ==
  Segments \subseteq [syn: BOOLEAN, seq: 0..(SeqSpace - 1), len: 0..(ObMod - 1)]
ASSUME TcpAssumption ==
  /\ RetransBuffer \in Nat \ {0} /\ MaxPktLen \in Nat
  /\ SeqSpace \in Nat \ {0} /\ ObMod \in Nat \ {0}
  /\ {include_zeroes, include_retrans} \subseteq BOOLEAN

NONE == -1

Slots == 0..(RetransBuffer - 1)

VARIABLES
  tcp_retrans,      \* the ring of the last segments: seq and len
  tcp_retrans_tail, \* its next slot
  op,               \* number of entries of pkt_len and pkt_time
  ob,               \* number of data bytes
  octets,           \* sum of byte_count
  idp_seq_num,      \* sequence number of the SYN, 0 when not waiting
  idp_packet,       \* the current packet is the initial data packet
  idp,              \* sequence number of the packet in record->idp, or NONE
  segments_seen,    \* history: the segments observed
  taken             \* history: those not dropped as retransmissions

record ==
  <<tcp_retrans, tcp_retrans_tail, op, ob, octets, idp_seq_num, idp_packet, idp>>
tcpVars == <<record, segments_seen, taken>>

TcpInit ==
  /\ tcp_retrans = [i \in Slots |-> [seq |-> 0, len |-> 0]]
  /\ tcp_retrans_tail = 0
  /\ op = 0 /\ ob = 0 /\ octets = 0
  /\ idp_seq_num = 0 /\ idp_packet = FALSE /\ idp = NONE
  /\ segments_seen = <<>> /\ taken = <<>>

(***************************************************************************)
(* Retransmissions.                                                        *)
(***************************************************************************)
SameSeq(s) == {i \in Slots : tcp_retrans[i].seq = s.seq}

FirstSlot(s) == CHOOSE i \in SameSeq(s) : \A j \in SameSeq(s) : i <= j

WithoutNewData(s) == s.len > 0 /\ \E i \in SameSeq(s) : s.len <= tcp_retrans[i].len

\* retrans_detected is called for segments with data only.
retrans_detected(s) == s.len > 0 /\ SameSeq(s) # {}

\* It keeps the larger length.
RingChecked(s) ==
  IF s.len > 0 /\ SameSeq(s) # {}
  THEN [tcp_retrans EXCEPT ![FirstSlot(s)].len = IF @ < s.len THEN s.len ELSE @]
  ELSE tcp_retrans

(***************************************************************************)
(* The counters.  The length and time of a packet, and its entry of the    *)
(* ring, are stored as long as the array has room.                         *)
(***************************************************************************)
HasRoom == op < MaxPktLen - 1

HasData(s) == include_zeroes \/ s.len > 0

NextTail == (tcp_retrans_tail + 1) % RetransBuffer

flow_record_process_packet_length_and_time_ack(s, ring) ==
  IF HasData(s) /\ HasRoom
  THEN /\ op' = op + 1
       /\ tcp_retrans' = [ring EXCEPT ![tcp_retrans_tail] =
                            [seq |-> s.seq, len |-> s.len]]
       /\ tcp_retrans_tail' = NextTail
  ELSE tcp_retrans' = ring /\ UNCHANGED <<op, tcp_retrans_tail>>

flow_record_update_byte_count(s) ==
  LET room == MinOctets - ob IN
  IF ob + s.len >= ObMod \/ room <= 0 THEN 0
  ELSE IF s.len < room THEN s.len ELSE room

(***************************************************************************)
(* The initial data packet.  While the sequence number of a SYN is known,  *)
(* only the segment that follows it qualifies.                             *)
(***************************************************************************)
FollowsSyn(s) == s.seq = (idp_seq_num + 1) % SeqSpace

AnyDataIsInitial(s) == ~s.syn /\ s.len > 0

IsInitialData(s) ==
  /\ ~s.syn /\ s.len > 0
  /\ idp_seq_num = 0 \/ FollowsSyn(s)

UpdateIdp(s) ==
  /\ idp_seq_num' = IF s.syn THEN s.seq
                    ELSE IF IsInitialData(s) THEN 0 ELSE idp_seq_num
  /\ IF op' > 0 /\ idp = NONE
     THEN /\ idp' = IF idp_packet \/ IsInitialData(s) THEN s.seq ELSE NONE
          /\ idp_packet' = FALSE
     ELSE /\ idp_packet' = (idp_packet \/ IsInitialData(s))
          /\ UNCHANGED idp

(***************************************************************************)
(* Operations: process_packet for one segment.                             *)
(***************************************************************************)
Observe(s) == Len(segments_seen) < MaxSent /\ segments_seen' = Append(segments_seen, s)

\* The lookup that follows finds the record with is_tcp_retrans set.
DropRetransmission(s) ==
  /\ Observe(s)
  /\ retrans_detected(s) /\ ~include_retrans
  /\ tcp_retrans' = RingChecked(s)
  /\ UNCHANGED <<tcp_retrans_tail, op, ob, octets, idp_seq_num, idp_packet, idp, taken>>

ProcessSegment(s) ==
  /\ Observe(s)
  /\ include_retrans \/ ~retrans_detected(s)
  /\ flow_record_process_packet_length_and_time_ack(s, RingChecked(s))
  /\ ob' = (ob + s.len) % ObMod
  /\ octets' = octets + flow_record_update_byte_count(s)
  /\ UpdateIdp(s)
  /\ taken' = Append(taken, s)

TcpNext == \E s \in Segments : DropRetransmission(s) \/ ProcessSegment(s)

TcpSpec == TcpInit /\ [][TcpNext]_tcpVars

(***************************************************************************)
(* Properties.                                                             *)
(***************************************************************************)
\* No byte of the stream is counted twice as long as the duplicate arrives
\* before the ring has been overwritten: whatever was reordered, repeated or
\* extended, two data segments with one sequence number are more than
\* RetransBuffer segments apart.
RetransmissionsDetected ==
  ~include_retrans /\ HasRoom =>
    \A i, j \in DOMAIN taken :
      i < j /\ j - i <= RetransBuffer /\ taken[i].len > 0 /\ taken[j].len > 0
      => taken[i].seq # taken[j].seq

\* The initial data packet is the one that follows the SYN, even when data
\* segments arrive out of order, and it is captured as soon as it is taken.
IdpIsInitialData ==
  Len(taken) > 0 /\ taken[1].syn =>
    LET first == (taken[1].seq + 1) % SeqSpace
        Initial(s) == ~s.syn /\ s.len > 0 /\ s.seq = first
    IN  /\ idp \in {NONE, first}
        /\ (\E k \in DOMAIN taken : Initial(taken[k])) => idp = first
=============================================================================
