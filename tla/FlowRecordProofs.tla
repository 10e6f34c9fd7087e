-------------------------- MODULE FlowRecordProofs --------------------------
(***************************************************************************)
(* Proofs about the parts of a flow record: the TCP segments of one        *)
(* direction, the labels of its addresses, the SSH key exchange, the TLS   *)
(* records, the IKE messages and the search for user names.                *)
(***************************************************************************)
EXTENDS TcpFlow, RadixTrie, SshExchange, TlsRecords, IkeMessages, StrMatch, SumsProofs, FiniteSetTheorems

(***************************************************************************)
(* Retransmissions are detected, for rings and arrays of any size and any  *)
(* order of the segments.                                                  *)
(*                                                                         *)
(* RetransmissionsDetected compares the segments that were taken with one  *)
(* another; the code only sees its ring.  The invariant relates the two:   *)
(* a data segment that is d segments old is in one of the d slots behind   *)
(* the tail, since a taken segment moves the tail by at most one.          *)
(***************************************************************************)

\* The slot that was written d + 1 entries ago, if the tail is t.
Back(t, d) == IF d < t THEN t - 1 - d ELSE t - 1 - d + RetransBuffer

\* The data segment taken[i] can be found in the ring.
InRing(i) ==
  \E d \in 0 .. Len(taken) - i : tcp_retrans[Back(tcp_retrans_tail, d)].seq = taken[i].seq

RingInv ==
  /\ tcp_retrans \in [Slots -> [seq : 0 .. SeqSpace - 1, len : Nat]]
  /\ tcp_retrans_tail \in Slots
  /\ op \in Nat
  /\ taken \in Seq(Segments)
  /\ HasRoom =>
       \A i \in DOMAIN taken :
         Len(taken) - i < RetransBuffer /\ taken[i].len > 0 => InRing(i)
  /\ RetransmissionsDetected

LEMMA SegmentType ==
  ASSUME NEW s \in Segments
  PROVE  s.seq \in 0 .. SeqSpace - 1 /\ s.len \in Nat
BY SegmentsAssumption, TcpAssumption

LEMMA BackInSlots ==
  ASSUME NEW t \in Slots, NEW d \in 0 .. RetransBuffer - 1
  PROVE  Back(t, d) \in Slots /\ (d < RetransBuffer - 1 => Back(t, d) # t)
BY TcpAssumption DEF Back, Slots

\* When the tail moves on, every entry gets older by one.
LEMMA BackOfNext ==
  ASSUME NEW t \in Slots, NEW n, n = (t + 1) % RetransBuffer
  PROVE  /\ n \in Slots
         /\ Back(n, 0) = t
         /\ \A d \in 0 .. RetransBuffer - 2 : Back(n, d + 1) = Back(t, d)
<1>1. RetransBuffer \in Nat \ {0} /\ t \in 0 .. RetransBuffer - 1
  BY TcpAssumption DEF Slots
<1>2. n = IF t + 1 = RetransBuffer THEN 0 ELSE t + 1
  BY <1>1
<1> QED BY <1>1, <1>2 DEF Back, Slots

LEMMA RingInit == TcpInit => RingInv
<1> SUFFICES ASSUME TcpInit PROVE RingInv
  OBVIOUS
<1>1. 0 \in Slots /\ 0 \in 0 .. SeqSpace - 1
  BY TcpAssumption DEF Slots
<1>2. taken = <<>>
  BY DEF TcpInit
<1> QED BY <1>1, <1>2 DEF TcpInit, RingInv, RetransmissionsDetected

\* retrans_detected changes lengths only.
LEMMA DropKeepsRing ==
  ASSUME RingInv, NEW s \in Segments, DropRetransmission(s)
  PROVE  RingInv'
<1>1. /\ tcp_retrans' = RingChecked(s)
      /\ UNCHANGED <<tcp_retrans_tail, op, taken>>
  BY DEF DropRetransmission
<1>2. /\ tcp_retrans' \in [Slots -> [seq : 0 .. SeqSpace - 1, len : Nat]]
      /\ \A x \in Slots : tcp_retrans'[x].seq = tcp_retrans[x].seq
  BY <1>1, SegmentType DEF RingChecked, RingInv
<1>3. ASSUME NEW i \in DOMAIN taken, Len(taken) - i < RetransBuffer, InRing(i)
      PROVE  InRing(i)'
  <2>1. PICK d \in 0 .. Len(taken) - i :
          tcp_retrans[Back(tcp_retrans_tail, d)].seq = taken[i].seq
    BY <1>3 DEF InRing
  <2>2. d \in 0 .. RetransBuffer - 1 /\ tcp_retrans_tail \in Slots
    BY <1>3, TcpAssumption DEF RingInv
  <2>3. Back(tcp_retrans_tail, d) \in Slots
    BY <2>2, BackInSlots
  <2>4. Back(tcp_retrans_tail, d)' = Back(tcp_retrans_tail, d)
    BY <1>1 DEF Back
  <2> QED BY <1>1, <1>2, <2>1, <2>3, <2>4 DEF InRing
<1> QED BY <1>1, <1>2, <1>3 DEF RingInv, HasRoom, RetransmissionsDetected

\* A segment that is taken is in none of the slots that hold recent segments.
LEMMA ProcessKeepsRing ==
  ASSUME RingInv, ~include_retrans, NEW s \in Segments, ProcessSegment(s)
  PROVE  RingInv'
<1> DEFINE n == Len(taken)
           tail == tcp_retrans_tail
           Advance == HasData(s) /\ HasRoom
<1>1. /\ taken \in Seq(Segments) /\ n \in Nat /\ tail \in Slots /\ op \in Nat
      /\ tcp_retrans \in [Slots -> [seq : 0 .. SeqSpace - 1, len : Nat]]
      /\ s.seq \in 0 .. SeqSpace - 1 /\ s.len \in Nat
  BY SegmentType DEF RingInv
<1>2. /\ taken' = Append(taken, s) /\ taken' \in Seq(Segments) /\ Len(taken') = n + 1
      /\ DOMAIN taken' = 1 .. n + 1 /\ DOMAIN taken = 1 .. n
      /\ taken'[n + 1] = s /\ \A i \in 1 .. n : taken'[i] = taken[i]
  BY <1>1 DEF ProcessSegment
<1>a. RetransBuffer \in Nat \ {0} /\ MaxPktLen \in Nat
  BY TcpAssumption
<1>3. s.len > 0 => \A x \in Slots : tcp_retrans[x].seq # s.seq
  BY DEF ProcessSegment, retrans_detected, SameSeq
<1>4. IF Advance
      THEN /\ op' = op + 1 /\ tcp_retrans_tail' = (tail + 1) % RetransBuffer
           /\ tcp_retrans' = [tcp_retrans EXCEPT ![tail] = [seq |-> s.seq, len |-> s.len]]
      ELSE UNCHANGED <<op, tcp_retrans, tcp_retrans_tail>>
  BY DEF ProcessSegment, retrans_detected, RingChecked, NextTail,
         flow_record_process_packet_length_and_time_ack
<1>5. /\ tcp_retrans' \in [Slots -> [seq : 0 .. SeqSpace - 1, len : Nat]]
      /\ tcp_retrans_tail' \in Slots /\ op' \in Nat
      /\ HasRoom' => HasRoom
      /\ HasRoom' /\ s.len > 0 => Advance
  <2>1. CASE Advance
    <3>1. tcp_retrans_tail' \in Slots
      BY <1>1, <1>4, <2>1, BackOfNext
    <3>2. op' = op + 1 /\ HasRoom
      BY <1>4, <2>1
    <3>3. tcp_retrans' \in [Slots -> [seq : 0 .. SeqSpace - 1, len : Nat]]
      <4> DEFINE Entry == [seq : 0 .. SeqSpace - 1, len : Nat]
                 new == [seq |-> s.seq, len |-> s.len]
      <4>1. new \in Entry
        BY <1>1
      <4>2. tcp_retrans' = [tcp_retrans EXCEPT ![tail] = new] /\ tcp_retrans \in [Slots -> Entry]
        BY <1>1, <1>4, <2>1
      <4> HIDE DEF Entry, new, tail
      <4>3. tcp_retrans' \in [Slots -> Entry]
        BY <4>1, <4>2
      <4> QED BY <4>3 DEF Entry
    <3> QED BY <1>1, <2>1, <3>1, <3>2, <3>3
  <2>2. CASE ~Advance
    BY <1>1, <1>4, <2>2 DEF HasRoom, HasData
  <2> QED BY <2>1, <2>2
<1>6. ASSUME HasRoom', NEW i \in 1 .. n, n - i < RetransBuffer, taken[i].len > 0
      PROVE  \E d \in 0 .. n - i :
               /\ tcp_retrans[Back(tail, d)].seq = taken[i].seq
               /\ d < RetransBuffer /\ Back(tail, d) \in Slots
  <2>1. InRing(i)
    BY <1>2, <1>5, <1>6 DEF RingInv
  <2>2. PICK d \in 0 .. n - i : tcp_retrans[Back(tail, d)].seq = taken[i].seq
    BY <2>1 DEF InRing
  <2>3. d \in 0 .. RetransBuffer - 1 /\ d < RetransBuffer
    BY <1>1, <1>a, <1>6, <2>2
  <2>4. Back(tail, d) \in Slots
    BY <1>1, <2>3, BackInSlots
  <2> QED BY <2>2, <2>3, <2>4
<1>b. ASSUME NEW i \in 1 .. n + 1, NEW d \in 0 .. n + 1 - i,
             tcp_retrans'[Back(tcp_retrans_tail', d)].seq = taken'[i].seq
      PROVE  InRing(i)'
  <2>1. d \in 0 .. Len(taken') - i
    BY <1>2
  <2> QED BY <1>b, <2>1 DEF InRing, Back
<1> HIDE DEF n, tail, Advance
<1>7. ASSUME HasRoom', NEW i \in DOMAIN taken', Len(taken') - i < RetransBuffer,
             taken'[i].len > 0
      PROVE  InRing(i)'
  <2>1. CASE i = n + 1
    <3>1. Advance /\ Back(tcp_retrans_tail', 0) = tail
      BY <1>1, <1>2, <1>4, <1>5, <1>7, <2>1, BackOfNext
    <3>2. tcp_retrans'[tail].seq = s.seq
      BY <1>1, <1>4, <3>1
    <3>3. tcp_retrans'[Back(tcp_retrans_tail', 0)].seq = taken'[i].seq
          /\ 0 \in 0 .. Len(taken') - i
      BY <1>1, <1>2, <2>1, <3>1, <3>2
    <3> QED BY <1>1, <1>b, <1>2, <1>7, <3>3
  <2>2. CASE i # n + 1
    <3>1. i \in 1 .. n /\ n - i < RetransBuffer - 1 /\ taken[i].len > 0
      BY <1>1, <1>a, <1>2, <1>7, <2>2
    <3>2. PICK d \in 0 .. n - i :
            /\ tcp_retrans[Back(tail, d)].seq = taken[i].seq
            /\ d < RetransBuffer /\ Back(tail, d) \in Slots
      <4>1. n - i < RetransBuffer
        BY <1>1, <1>a, <3>1
      <4> QED BY <1>6, <1>7, <3>1, <4>1
    <3>3. CASE Advance
      <4>a. n \in Nat /\ RetransBuffer \in Nat
        BY <1>1, <1>a
      <4>b. i \in 1 .. n /\ n - i < RetransBuffer - 1
        BY <3>1
      <4>1. d \in 0 .. RetransBuffer - 2 /\ d + 1 \in 0 .. n + 1 - i
        BY <4>a, <4>b
      <4>2. Back(tcp_retrans_tail', d + 1) = Back(tail, d)
        BY <1>1, <1>4, <3>3, <4>1, BackOfNext
      <4>3. Back(tail, d) # tail
        BY <1>1, <1>a, <4>1, BackInSlots
      <4>4. tcp_retrans'[Back(tcp_retrans_tail', d + 1)].seq = taken'[i].seq
        BY <1>1, <1>2, <1>4, <3>1, <3>2, <3>3, <4>2, <4>3
      <4> QED BY <1>b, <1>2, <1>7, <4>1, <4>4
    <3>4. CASE ~Advance
      <4>1. /\ d \in 0 .. n + 1 - i
            /\ tcp_retrans'[Back(tcp_retrans_tail', d)].seq = taken'[i].seq
        BY <1>1, <1>2, <1>4, <3>1, <3>2, <3>4 DEF tail
      <4> QED BY <1>b, <1>2, <1>7, <4>1
    <3> QED BY <3>3, <3>4
  <2> QED BY <2>1, <2>2
<1>8. ASSUME HasRoom', NEW i \in DOMAIN taken', NEW j \in DOMAIN taken',
             i < j, j - i <= RetransBuffer, taken'[i].len > 0, taken'[j].len > 0
      PROVE  taken'[i].seq # taken'[j].seq
  <2>1. CASE j = n + 1
    <3>1. i \in 1 .. n /\ n - i < RetransBuffer /\ taken[i].len > 0 /\ s.len > 0
      BY <1>1, <1>2, <1>8, <2>1, <1>a
    <3>2. \E x \in Slots : tcp_retrans[x].seq = taken[i].seq
      BY <1>6, <1>8, <3>1
    <3> QED BY <1>2, <1>3, <2>1, <3>1, <3>2
  <2>2. CASE j # n + 1
    <3>1. i \in DOMAIN taken /\ j \in DOMAIN taken
      BY <1>1, <1>2, <1>8, <2>2
    <3> QED BY <1>2, <1>5, <1>8, <3>1 DEF RingInv, RetransmissionsDetected
  <2> QED BY <2>1, <2>2
<1> QED BY <1>2, <1>5, <1>7, <1>8 DEF RingInv, RetransmissionsDetected

\* Unless they are asked for, no retransmission of a segment that is still in
\* the ring is counted, and with it no byte of the stream twice.
THEOREM RetransmissionsAreDetected == TcpSpec => []RetransmissionsDetected
<1>1. CASE include_retrans
  <2>1. RetransmissionsDetected
    BY <1>1 DEF RetransmissionsDetected
  <2> QED BY <2>1, PTL
<1>2. CASE ~include_retrans
  <2>1. RingInv /\ [TcpNext]_tcpVars => RingInv'
    <3> SUFFICES ASSUME RingInv, [TcpNext]_tcpVars PROVE RingInv'
      OBVIOUS
    <3>1. CASE UNCHANGED tcpVars
      BY <3>1 DEF tcpVars, record, RingInv, HasRoom, InRing, Back, RetransmissionsDetected
    <3>2. CASE TcpNext
      BY <1>2, <3>2, DropKeepsRing, ProcessKeepsRing DEF TcpNext
    <3> QED BY <3>1, <3>2
  <2>2. RingInv => RetransmissionsDetected
    BY DEF RingInv
  <2> QED BY <2>1, <2>2, RingInit, PTL DEF TcpSpec
<1> QED BY <1>1, <1>2

(***************************************************************************)
(* The initial data packet.  From the SYN until the segment that follows   *)
(* it the record waits for that segment and for no other.                  *)
(***************************************************************************)
\* The number of a SYN is always the same; zero would mean that none was seen.
OneSyn == \A s, t \in Segments : s.syn /\ t.syn => s.seq = t.seq /\ s.seq # 0

First == (taken[1].seq + 1) % SeqSpace

Initial(s) == ~s.syn /\ s.len > 0 /\ s.seq = First

Waiting ==
  /\ idp_seq_num = taken[1].seq /\ ~idp_packet /\ idp = NONE
  /\ \A k \in DOMAIN taken : ~Initial(taken[k])

IdpInv ==
  /\ op \in Nat /\ taken \in Seq(Segments)
  /\ taken = <<>> => ~idp_packet /\ idp = NONE
  /\ taken # <<>> /\ taken[1].syn => Waiting \/ idp = First

LEMMA FirstIsNumber ==
  ASSUME NEW s \in Segments
  PROVE  (s.seq + 1) % SeqSpace \in Nat /\ (s.seq + 1) % SeqSpace # NONE
<1>1. s.seq + 1 \in Int /\ SeqSpace \in Nat \ {0}
  BY SegmentsAssumption, TcpAssumption
<1>2. PICK x : x = s.seq + 1
  OBVIOUS
<1>3. x % SeqSpace \in 0 .. SeqSpace - 1
  BY <1>1, <1>2
<1> QED BY <1>1, <1>2, <1>3 DEF NONE

LEMMA ProcessKeepsIdp ==
  ASSUME IdpInv, OneSyn, MaxPktLen > 1, NEW s \in Segments, ProcessSegment(s)
  PROVE  IdpInv'
<1> DEFINE n == Len(taken)
<1>1. /\ taken \in Seq(Segments) /\ n \in Nat /\ op \in Nat /\ MaxPktLen \in Nat /\ s.len \in Nat
      /\ taken' = Append(taken, s) /\ taken' \in Seq(Segments) /\ taken' # <<>>
      /\ DOMAIN taken' = 1 .. n + 1 /\ DOMAIN taken = 1 .. n
      /\ taken'[n + 1] = s /\ \A k \in 1 .. n : taken'[k] = taken[k]
  BY SegmentType, TcpAssumption DEF IdpInv, ProcessSegment
<1>2. op' \in Nat /\ (s.len > 0 => op' > 0)
  BY <1>1 DEF ProcessSegment, flow_record_process_packet_length_and_time_ack, HasData, HasRoom
<1>3. /\ idp_seq_num' = IF s.syn THEN s.seq ELSE IF IsInitialData(s) THEN 0 ELSE idp_seq_num
      /\ IF op' > 0 /\ idp = NONE
         THEN /\ idp' = IF idp_packet \/ IsInitialData(s) THEN s.seq ELSE NONE
              /\ idp_packet' = FALSE
         ELSE /\ idp_packet' = (idp_packet \/ IsInitialData(s))
              /\ idp' = idp
  BY DEF ProcessSegment, UpdateIdp
<1>4. CASE taken = <<>> /\ s.syn
  <2>1. n = 0 /\ taken'[1] = s /\ DOMAIN taken' = {1}
    BY <1>1, <1>4
  <2>2. ~IsInitialData(s) /\ ~idp_packet /\ idp = NONE
    BY <1>4 DEF IsInitialData, IdpInv
  <2>3. Waiting'
    BY <1>3, <1>4, <2>1, <2>2 DEF Waiting, Initial
  <2> QED BY <1>1, <1>2, <2>3 DEF IdpInv
<1>5. CASE taken = <<>> /\ ~s.syn
  <2>1. taken'[1] = s
    BY <1>1, <1>5
  <2> QED BY <1>1, <1>2, <1>5, <2>1 DEF IdpInv
<1>6. CASE taken # <<>>
  <2>1. n >= 1 /\ taken'[1] = taken[1] /\ First' = First /\ taken[1] \in Segments
    <3>1. n # 0
      BY <1>1, <1>6
    <3> QED BY <1>1, <3>1 DEF First
  <2>2. First # NONE
    BY <2>1, FirstIsNumber DEF First
  <2>3. SUFFICES ASSUME taken[1].syn PROVE Waiting' \/ idp' = First'
    BY <1>1, <1>2, <2>1 DEF IdpInv
  <2>4. CASE idp = First
    BY <1>3, <2>1, <2>2, <2>4
  <2>5. CASE Waiting
    <3>1. /\ idp_seq_num = taken[1].seq /\ ~idp_packet /\ idp = NONE
          /\ \A k \in 1 .. n : ~Initial(taken[k])
      BY <1>1, <2>5 DEF Waiting
    <3>2. idp_seq_num # 0 /\ (s.syn => s.seq = taken[1].seq)
      BY <2>1, <2>3, <3>1 DEF OneSyn
    <3>3. IsInitialData(s) <=> Initial(s)
      BY <3>1, <3>2 DEF IsInitialData, FollowsSyn, Initial, First
    <3>4. CASE Initial(s)
      <4>1. s.len > 0 /\ s.seq = First
        BY <3>4 DEF Initial
      <4> QED BY <1>2, <1>3, <2>1, <3>1, <3>3, <3>4, <4>1
    <3>5. CASE ~Initial(s)
      <4>1. idp_seq_num' = taken[1].seq /\ ~idp_packet' /\ idp' = NONE
        BY <1>3, <3>1, <3>2, <3>3, <3>5
      <4>2. \A k \in 1 .. n + 1 : ~Initial(taken'[k])
        BY <1>1, <3>1, <3>5
      <4>3. \A x : Initial(x)' <=> Initial(x)
        BY <2>1 DEF Initial
      <4>4. \A k \in DOMAIN taken' : ~Initial(taken[k])'
        BY <1>1, <2>1, <4>2 DEF Initial
      <4> QED BY <2>1, <4>1, <4>4 DEF Waiting
    <3> QED BY <3>4, <3>5
  <2> QED BY <1>6, <2>3, <2>4, <2>5 DEF IdpInv
<1> QED BY <1>4, <1>5, <1>6

\* Data segments may overtake the initial one, be lost or repeated, in any order and
\* around the retransmission ring: process_tcp captures the segment that follows the
\* SYN, and captures it as soon as it is taken.
THEOREM IdpIsCaptured ==
  OneSyn /\ MaxPktLen > 1 => (TcpSpec => []IdpIsInitialData)
<1> SUFFICES ASSUME OneSyn, MaxPktLen > 1 PROVE TcpSpec => []IdpIsInitialData
  OBVIOUS
<1>1. TcpInit => IdpInv
  BY DEF TcpInit, IdpInv
<1>2. IdpInv /\ [TcpNext]_tcpVars => IdpInv'
  <2> SUFFICES ASSUME IdpInv, [TcpNext]_tcpVars PROVE IdpInv'
    OBVIOUS
  <2>1. CASE UNCHANGED <<op, taken, idp, idp_packet, idp_seq_num>>
    BY <2>1 DEF IdpInv, Waiting, First, Initial
  <2>2. ASSUME NEW s \in Segments, ProcessSegment(s) PROVE IdpInv'
    BY <2>2, ProcessKeepsIdp
  <2> QED BY <2>1, <2>2 DEF TcpNext, DropRetransmission, tcpVars, record
<1>3. IdpInv => IdpIsInitialData
  <2> SUFFICES ASSUME IdpInv, Len(taken) > 0, taken[1].syn
               PROVE  /\ idp \in {NONE, First}
                      /\ (\E k \in DOMAIN taken : Initial(taken[k])) => idp = First
    BY DEF IdpIsInitialData, First, Initial
  <2>1. taken # <<>>
    OBVIOUS
  <2> QED BY <2>1 DEF IdpInv, Waiting
<1> QED BY <1>1, <1>2, <1>3, PTL DEF TcpSpec

-----------------------------------------------------------------------------

(***************************************************************************)
(* Lookups in the trie of labels are exact, for addresses and bytes of any *)
(* size and any number of subnets, none of which lies in another that ends *)
(* in an earlier byte.                                                     *)
(*                                                                         *)
(* LabelsExact is not inductive: it says nothing of the leaves a later     *)
(* subnet will find.  TrieInv says which leaves there are, those of the    *)
(* entries of each subnet, and what each of them holds.                    *)
(***************************************************************************)
Subnet == [addr : Address, len : NetmaskLengths, flag : Labels]

LastByte(s) == InternalNodes(s.len)

EntriesOf(s) == Entries(s.addr, LastByte(s), s.len)

FlagsAt(p) == {s.flag : s \in {s \in subnets : p \in EntriesOf(s)}}

\* What is true of the trie as long as the subnets do not nest across bytes.
LeavesRight ==
  /\ DOMAIN trie = UNION {EntriesOf(s) : s \in subnets}
  /\ \A p \in DOMAIN trie : trie[p] = FlagsAt(p)

TrieInv == subnets \subseteq Subnet /\ (SameLevel => LeavesRight)

-----------------------------------------------------------------------------
\* The subnet's last byte is one of the address, and the number of its whole
\* bytes is either the number of internal nodes or one more.
LEMMA LastByteType ==
  ASSUME NEW len \in NetmaskLengths
  PROVE  /\ InternalNodes(len) \in 0 .. Bytes - 1
         /\ len % Bits = 0 => len \div Bits = InternalNodes(len) + 1
         /\ len % Bits # 0 => len \div Bits = InternalNodes(len)
<1>1. InternalNodes(len) \in Nat
  BY RadixAssumption DEF InternalNodes, NetmaskLengths
<1>2. (len % Bits = 0 => len \div Bits = InternalNodes(len) + 1)
        /\ (len % Bits # 0 => len \div Bits = InternalNodes(len))
  BY RadixAssumption DEF InternalNodes, NetmaskLengths
<1>3. InternalNodes(len) < Bytes
  BY RadixAssumption DEF InternalNodes, NetmaskLengths
<1>. QED  BY <1>1, <1>2, <1>3, RadixAssumption

\* An address is in a subnet if its path to the last byte is an entry of it.
LEMMA InSubnetPath ==
  ASSUME NEW s \in Subnet, NEW x \in Address
  PROVE  InSubnet(x, s) <=> Path(x, LastByte(s) + 1) \in EntriesOf(s)
<1>. DEFINE n == LastByte(s)
<1>1. n \in 0 .. Bytes - 1 /\ s.len \in NetmaskLengths /\ s.addr \in Address
  BY LastByteType DEF Subnet, LastByte
<1>2. InSubnet(x, s) <=> (\A i \in 1 .. n : x[i] = s.addr[i])
                           /\ x[n + 1] \in Prefixed(s.addr, n, s.len)
  <2>0. x[n + 1] \in Byte  BY <1>1, RadixAssumption DEF Address
  <2>1. CASE s.len % Bits = 0
    <3>1. s.len \div Bits = n + 1  BY <2>1, <1>1, LastByteType DEF LastByte
    <3>2. Prefixed(s.addr, n, s.len) = {s.addr[n + 1]}  BY <2>1 DEF Prefixed
    <3>3. InSubnet(x, s) <=> \A i \in 1 .. n + 1 : x[i] = s.addr[i]
      BY <2>1, <3>1 DEF InSubnet
    <3>. QED  BY <3>2, <3>3, <1>1
  <2>2. CASE s.len % Bits # 0
    <3>1. s.len \div Bits = n  BY <2>2, <1>1, LastByteType DEF LastByte
    <3>. QED  BY <2>2, <3>1, <2>0 DEF InSubnet, Prefixed
  <2>. QED  BY <2>1, <2>2
<1>3. Path(x, n + 1) \in EntriesOf(s)
        <=> (\A i \in 1 .. n : x[i] = s.addr[i]) /\ x[n + 1] \in Prefixed(s.addr, n, s.len)
  <2>. DEFINE e(b) == [j \in 1 .. n + 1 |-> IF j = n + 1 THEN b ELSE s.addr[j]]
  <2>1. EntriesOf(s) = {e(b) : b \in Prefixed(s.addr, n, s.len)}
    BY DEF EntriesOf, Entries
  <2>2. ASSUME NEW b
        PROVE  Path(x, n + 1) = e(b) <=> (\A i \in 1 .. n : x[i] = s.addr[i]) /\ x[n + 1] = b
    BY <1>1 DEF Path
  <2>. QED  BY <2>1, <2>2
<1>. QED  BY <1>2, <1>3

\* The entries of a subnet are paths of its addresses.
LEMMA EntryOfAddress ==
  ASSUME NEW s \in Subnet, NEW p \in EntriesOf(s)
  PROVE  /\ DOMAIN p = 1 .. LastByte(s) + 1
         /\ \A i \in DOMAIN p : p[i] \in Byte
<1>1. LastByte(s) \in 0 .. Bytes - 1 /\ s.addr \in Address
  BY LastByteType DEF Subnet, LastByte
<1>2. PICK b \in Prefixed(s.addr, LastByte(s), s.len) :
        p = [j \in 1 .. LastByte(s) + 1 |-> IF j = LastByte(s) + 1 THEN b ELSE s.addr[j]]
  BY DEF EntriesOf, Entries
<1>3. b \in Byte
  BY <1>1, <1>2, RadixAssumption DEF Prefixed, Address
<1>. QED  BY <1>1, <1>2, <1>3, RadixAssumption DEF Address

\* Any path with bytes of an address is the path of some address.
LEMMA Extends ==
  ASSUME NEW n \in 1 .. Bytes, NEW p, p = [i \in 1 .. n |-> p[i]],
         \A i \in 1 .. n : p[i] \in Byte
  PROVE  \E x \in Address : Path(x, n) = p
<1>. DEFINE x == [i \in 1 .. Bytes |-> IF i \in 1 .. n THEN p[i] ELSE 0]
<1>1. 0 \in Byte
  BY RadixAssumption DEF Byte
<1>2. x \in Address  BY <1>1 DEF Address
<1>3. Path(x, n) = p  BY RadixAssumption DEF Path
<1>. QED  BY <1>2, <1>3

-----------------------------------------------------------------------------
\* Leaves of a subnet and entries of another are apart, unless they are equal.
LEMMA EntriesApart ==
  ASSUME NEW s \in Subnet, NEW t \in Subnet, NEW p \in EntriesOf(s), NEW q \in EntriesOf(t),
         Under(p, q), Overlap(s, t) => LastByte(s) = LastByte(t)
  PROVE  p = q
<1>1. /\ DOMAIN p = 1 .. LastByte(s) + 1 /\ \A i \in DOMAIN p : p[i] \in Byte
      /\ LastByte(s) \in 0 .. Bytes - 1
      /\ p = [i \in 1 .. LastByte(s) + 1 |-> p[i]]
  <2>1. p = [i \in DOMAIN p |-> p[i]]  BY DEF EntriesOf, Entries
  <2>. QED  BY <2>1, EntryOfAddress, LastByteType DEF Subnet, LastByte
<1>2. /\ DOMAIN q = 1 .. LastByte(t) + 1
      /\ LastByte(t) \in 0 .. Bytes - 1
      /\ q = [i \in 1 .. LastByte(t) + 1 |-> q[i]]
  <2>1. q = [i \in DOMAIN q |-> q[i]]  BY DEF EntriesOf, Entries
  <2>. QED  BY <2>1, EntryOfAddress, LastByteType DEF Subnet, LastByte
<1>3. PICK x \in Address : Path(x, LastByte(s) + 1) = p
  BY <1>1, Extends, RadixAssumption
<1>4. \A i \in DOMAIN q : x[i] = q[i]
  BY <1>1, <1>2, <1>3 DEF Under, Path
<1>5. Path(x, LastByte(t) + 1) = q
  BY <1>2, <1>4 DEF Path
<1>6. InSubnet(x, s) /\ InSubnet(x, t)
  BY <1>3, <1>5, InSubnetPath
<1>7. LastByte(s) = LastByte(t)
  BY <1>6 DEF Overlap
<1>. QED  BY <1>3, <1>5, <1>7

-----------------------------------------------------------------------------
LEMMA TrieInvInit == TrieInit => TrieInv
BY DEF TrieInit, TrieInv, LeavesRight

LEMMA TrieInvStep ==
  ASSUME TrieInv, NEW a \in Address, NEW len \in NetmaskLengths, NEW flag \in Labels,
         radix_trie_add_subnet(a, len, flag)
  PROVE  TrieInv'
<1>. DEFINE new == [addr |-> a, len |-> len, flag |-> flag]
            n == InternalNodes(len)
<1>1. new \in Subnet /\ subnets' = subnets \cup {new} /\ subnets \subseteq Subnet
  BY DEF radix_trie_add_subnet, Subnet, TrieInv
<1>2. SUFFICES ASSUME SameLevel' PROVE LeavesRight'
  BY <1>1 DEF TrieInv
<1>3. \A s, t \in subnets \cup {new} : Overlap(s, t) => LastByte(s) = LastByte(t)
  BY <1>1, <1>2 DEF SameLevel, LastByte, Overlap, InSubnet, Address
<1>4. LeavesRight
  <2>1. SameLevel  BY <1>1, <1>3 DEF SameLevel, LastByte
  <2>. QED  BY <2>1 DEF TrieInv
<1>5. n \in 0 .. Bytes - 1 /\ LastByte(new) = n
  BY LastByteType DEF LastByte
<1>6. \A p \in DOMAIN trie : \E s \in subnets : p \in EntriesOf(s)
  BY <1>4 DEF LeavesRight
<1>7. ASSUME NEW p \in DOMAIN trie, NEW q \in EntriesOf(new), Under(p, q) \/ Under(q, p)
      PROVE  p = q
  BY <1>1, <1>3, <1>6, <1>7, EntriesApart
<1>8. LeavesMet(a, len) = {}
  <2>1. SUFFICES ASSUME NEW i \in 0 .. n - 1, Path(a, i + 1) \in DOMAIN trie PROVE FALSE
    BY DEF LeavesMet
  <2>2. Path(a, n + 1) \in EntriesOf(new)
    <3>1. InSubnet(a, new)  BY <1>1 DEF InSubnet, SameTop
    <3>. QED  BY <1>1, <1>5, <3>1, InSubnetPath
  <2>3. Under(Path(a, n + 1), Path(a, i + 1))
    BY <1>5 DEF Under, Path
  <2>4. DOMAIN Path(a, n + 1) # DOMAIN Path(a, i + 1)
    <3>1. n + 1 \in 1 .. n + 1 /\ n + 1 \notin 1 .. i + 1  BY <1>5
    <3>. QED  BY <3>1 DEF Path
  <2>. QED  BY <1>7, <2>1, <2>2, <2>3, <2>4
<1>9. Entries(a, Stop(a, len), len) = EntriesOf(new)
  BY <1>8, <1>5 DEF Stop, EntriesOf
<1>. DEFINE added == {t \in EntriesOf(new) : \A p \in DOMAIN trie : ~Under(p, t)}
            below == {p \in DOMAIN trie : \E t \in EntriesOf(new) : Under(p, t)}
<1>10. trie' = [p \in DOMAIN trie \cup added |->
                  IF p \in added THEN {flag}
                  ELSE IF p \in below THEN trie[p] \cup {flag} ELSE trie[p]]
  BY <1>9 DEF radix_trie_add_subnet, AddFlag
<1>11. added = EntriesOf(new) \ DOMAIN trie
  BY <1>7 DEF Under
<1>12. below = EntriesOf(new) \cap DOMAIN trie
  BY <1>7 DEF Under
<1>13. DOMAIN trie' = UNION {EntriesOf(s) : s \in subnets'}
  BY <1>1, <1>4, <1>10, <1>11 DEF LeavesRight
<1>14. ASSUME NEW p \in DOMAIN trie' PROVE trie'[p] = FlagsAt(p)'
  <2>1. FlagsAt(p)' = FlagsAt(p) \cup (IF p \in EntriesOf(new) THEN {flag} ELSE {})
    <3>1. FlagsAt(p)' = {s.flag : s \in {s \in subnets' : p \in EntriesOf(s)}}
      BY DEF FlagsAt, EntriesOf, Entries, LastByte, Prefixed, SameTop
    <3>2. new.flag = flag
      OBVIOUS
    <3>. HIDE DEF new
    <3>3. {s \in subnets' : p \in EntriesOf(s)}
            = {s \in subnets : p \in EntriesOf(s)} \cup (IF p \in EntriesOf(new) THEN {new} ELSE {})
      BY <1>1
    <3>. QED  BY <3>1, <3>2, <3>3 DEF FlagsAt
  <2>2. CASE p \in added
    <3>1. FlagsAt(p) = {}
      BY <1>4, <1>11, <2>2 DEF FlagsAt, LeavesRight
    <3>. QED  BY <1>10, <1>11, <2>1, <2>2, <3>1
  <2>3. CASE p \in DOMAIN trie /\ p \notin added
    <3>1. trie[p] = FlagsAt(p)  BY <1>4, <2>3 DEF LeavesRight
    <3>. QED  BY <1>10, <1>12, <2>1, <2>3, <3>1
  <2>. QED  BY <1>10, <2>2, <2>3
<1>. QED  BY <1>13, <1>14 DEF LeavesRight

-----------------------------------------------------------------------------
\* What the invariant says of a lookup.
LEMMA TrieInvLookups == TrieInv => LabelsExact
<1>1. SUFFICES ASSUME TrieInv, SameLevel, NEW x \in Address
               PROVE  radix_trie_lookup_addr(x) = LabelsOf(x)
  BY DEF LabelsExact, LookupIsUnion
<1>2. LeavesRight /\ subnets \subseteq Subnet
  BY <1>1 DEF TrieInv
<1>3. \A s \in subnets : LastByte(s) \in 0 .. Bytes - 1
  BY <1>2, LastByteType DEF Subnet, LastByte
<1>4. ASSUME NEW m \in 1 .. Bytes, NEW s \in subnets, Path(x, m) \in EntriesOf(s)
      PROVE  m = LastByte(s) + 1 /\ InSubnet(x, s)
  <2>1. 1 .. m = 1 .. LastByte(s) + 1
    BY <1>2, <1>4, EntryOfAddress DEF Path
  <2>2. m = LastByte(s) + 1
    <3>1. m \in 1 .. LastByte(s) + 1 /\ LastByte(s) + 1 \in 1 .. m
      BY <2>1, <1>3, RadixAssumption
    <3>. QED  BY <3>1, <1>3
  <2>. QED  BY <1>2, <1>4, <2>2, InSubnetPath
<1>5. ASSUME NEW f \in radix_trie_lookup_addr(x) PROVE f \in LabelsOf(x)
  <2>1. PICK m \in FirstLeaf(x) : f \in trie[Path(x, m)]
    BY DEF radix_trie_lookup_addr
  <2>2. m \in 1 .. Bytes /\ Path(x, m) \in DOMAIN trie
    BY DEF FirstLeaf
  <2>3. f \in FlagsAt(Path(x, m))
    BY <1>2, <2>1, <2>2 DEF LeavesRight
  <2>4. PICK s \in subnets : Path(x, m) \in EntriesOf(s) /\ f = s.flag
    BY <2>3 DEF FlagsAt
  <2>5. InSubnet(x, s)
    BY <1>4, <2>2, <2>4
  <2>. QED  BY <2>4, <2>5 DEF LabelsOf
<1>6. ASSUME NEW f \in LabelsOf(x) PROVE f \in radix_trie_lookup_addr(x)
  <2>1. PICK s \in subnets : InSubnet(x, s) /\ f = s.flag
    BY DEF LabelsOf
  <2>. DEFINE n == LastByte(s) + 1
  <2>2. Path(x, n) \in EntriesOf(s) /\ n \in 1 .. Bytes
    BY <1>2, <1>3, <2>1, InSubnetPath, RadixAssumption
  <2>3. Path(x, n) \in DOMAIN trie /\ f \in trie[Path(x, n)]
    BY <1>2, <2>1, <2>2 DEF LeavesRight, FlagsAt
  <2>4. ASSUME NEW m \in 1 .. n - 1, Path(x, m) \in DOMAIN trie PROVE FALSE
    <3>1. PICK t \in subnets : Path(x, m) \in EntriesOf(t)
      BY <1>2, <2>4 DEF LeavesRight
    <3>2. m \in 1 .. Bytes /\ m < n
      BY <2>2, RadixAssumption
    <3>3. m = LastByte(t) + 1 /\ InSubnet(x, t)
      BY <1>4, <3>1, <3>2
    <3>4. LastByte(s) = LastByte(t)
      BY <1>1, <2>1, <3>3 DEF SameLevel, Overlap, LastByte
    <3>. QED  BY <3>2, <3>3, <3>4
  <2>5. n \in FirstLeaf(x)
    BY <2>2, <2>3, <2>4 DEF FirstLeaf
  <2>. QED  BY <2>3, <2>5 DEF radix_trie_lookup_addr
<1>. QED  BY <1>5, <1>6

\* For every size of byte and address, and any sequence of added subnets that do
\* not nest across bytes, radix_trie_lookup_addr returns the labels of all
\* subnets of the address, and no others.
THEOREM LabelsAreExact == TrieSpec => []LabelsExact
<1>1. TrieInit => TrieInv
  BY TrieInvInit
<1>2. TrieInv /\ [TrieNext]_trieVars => TrieInv'
  <2>1. SUFFICES ASSUME TrieInv, [TrieNext]_trieVars PROVE TrieInv'
    OBVIOUS
  <2>2. CASE TrieNext
    BY <2>1, <2>2, TrieInvStep DEF TrieNext
  <2>3. CASE UNCHANGED trieVars
    BY <2>1, <2>3 DEF trieVars, TrieInv, SameLevel, LeavesRight, FlagsAt, EntriesOf, Entries,
       LastByte, Overlap, InSubnet, Subnet, Prefixed, SameTop
  <2>. QED  BY <2>1, <2>2, <2>3
<1>. QED  BY <1>1, <1>2, TrieInvLookups, PTL DEF TrieSpec

-----------------------------------------------------------------------------

(***************************************************************************)
(* The key exchange of SSH: what is taken out of the buffer.               *)
(***************************************************************************)
LEMMA SubsetsFinite ==
  ASSUME NEW n \in Nat, NEW I \in SUBSET (1..n)
  PROVE  IsFiniteSet(I) /\ Cardinality(I) \in Nat
<1>1. 1 \in Int /\ n \in Int
  OBVIOUS
<1>2. IsFiniteSet(1..n)
  BY ONLY <1>1, FS_Interval
<1>3. IsFiniteSet(I)
  BY ONLY <1>2, FS_Subset
<1> QED BY <1>3, FS_CardinalityType

\* How many of I come before i.
Rank(I, i) == Cardinality({j \in I : j < i})

LEMMA DisjointUnion ==
  ASSUME NEW A, NEW B, IsFiniteSet(A), IsFiniteSet(B), A \cap B = {}
  PROVE  Cardinality(A \cup B) = Cardinality(A) + Cardinality(B)
<1>1. Cardinality(A \cup B) = Cardinality(A) + Cardinality(B) - Cardinality(A \cap B)
  BY FS_Union
<1>2. Cardinality(A \cap B) = 0
  BY FS_EmptySet
<1>3. Cardinality(A) \in Nat /\ Cardinality(B) \in Nat
  BY FS_CardinalityType
<1> QED BY <1>1, <1>2, <1>3

LEMMA RankOfUnion ==
  ASSUME NEW n \in Nat, NEW A \in SUBSET (1..n), NEW B \in SUBSET (1..n),
         \A a \in A, b \in B : a < b
  PROVE  /\ Cardinality(A \cup B) = Cardinality(A) + Cardinality(B)
         /\ \A i \in A : /\ Rank(A \cup B, i) = Rank(A, i)
                         /\ Rank(A, i) \in 0 .. Cardinality(A) - 1
         /\ \A i \in B : /\ Rank(A \cup B, i) = Cardinality(A) + Rank(B, i)
                         /\ Rank(B, i) \in 0 .. Cardinality(B) - 1
<1>1. IsFiniteSet(A) /\ IsFiniteSet(B)
  BY SubsetsFinite
<1>2. A \cap B = {}
  OBVIOUS
<1>3. ASSUME NEW I \in SUBSET (1..n), NEW i \in I
      PROVE  Rank(I, i) \in 0 .. Cardinality(I) - 1
  <2>1. IsFiniteSet(I) /\ Cardinality(I) \in Nat
    BY SubsetsFinite
  <2>2. PICK J : J = {j \in I : j < i}
    OBVIOUS
  <2>3. J \in SUBSET I /\ i \notin J
    BY <2>2
  <2>4. IsFiniteSet(J) /\ Cardinality(J) <= Cardinality(I) /\ Cardinality(J) # Cardinality(I)
    BY <2>1, <2>3, FS_Subset
  <2>5. Cardinality(J) \in Nat
    BY <2>4, FS_CardinalityType
  <2> QED BY <2>1, <2>2, <2>4, <2>5 DEF Rank
<1>4. ASSUME NEW i \in A PROVE Rank(A \cup B, i) = Rank(A, i)
  <2>1. \A j \in B : ~ (j < i)
    OBVIOUS
  <2>2. {j \in A \cup B : j < i} = {j \in A : j < i}
    BY <2>1
  <2> QED BY <2>2 DEF Rank
<1>5. ASSUME NEW i \in B PROVE Rank(A \cup B, i) = Cardinality(A) + Rank(B, i)
  <2>1. PICK J : J = {j \in B : j < i}
    OBVIOUS
  <2>2. {j \in A \cup B : j < i} = A \cup J
    BY <2>1
  <2>3. J \in SUBSET (1..n) /\ A \cap J = {}
    BY <2>1, <1>2
  <2>4. IsFiniteSet(J)
    BY <2>3, SubsetsFinite
  <2> QED BY <1>1, <2>1, <2>2, <2>3, <2>4, DisjointUnion DEF Rank
<1> QED BY <1>1, <1>2, <1>3, <1>4, <1>5, DisjointUnion

\* The sequence f of length c lists I.
Listing(I, f, c) ==
  /\ c \in Nat /\ f \in Seq({f[k] : k \in 1..c}) /\ Len(f) = c
  /\ \A k \in 1..c : f[k] = CHOOSE i \in I : Rank(I, i) = k - 1

LEMMA AscendingLists ==
  ASSUME NEW n \in Nat, NEW I \in SUBSET (1..n)
  PROVE  Listing(I, Ascending(I), Cardinality(I))
<1>0. PICK c, f : c = Cardinality(I) /\ f = Ascending(I)
  OBVIOUS
<1> DEFINE N(k) == CHOOSE i \in I : Rank(I, i) = k - 1
<1>1. c \in Nat
  BY <1>0, SubsetsFinite
<1>2. f = [k \in 1..c |-> N(k)]
  BY <1>0 DEF Ascending, Rank
<1>3. \A k \in 1..c : f[k] = N(k)
  BY <1>2
<1>4. f \in Seq({f[k] : k \in 1..c}) /\ Len(f) = c
  <2> HIDE DEF N
  <2> QED BY <1>1, <1>2
<1>5. Listing(I, f, c)
  BY <1>1, <1>3, <1>4 DEF Listing
<1> QED BY <1>0, <1>5

\* Messages that come later are listed later.
LEMMA AscendingUnion ==
  ASSUME NEW n \in Nat, NEW A \in SUBSET (1..n), NEW B \in SUBSET (1..n),
         \A a \in A, b \in B : a < b
  PROVE  Ascending(A \cup B) = Ascending(A) \o Ascending(B)
<1>1. PICK ca, cb, x, y, z : /\ ca = Cardinality(A) /\ cb = Cardinality(B)
                             /\ x = Ascending(A) /\ y = Ascending(B) /\ z = Ascending(A \cup B)
  OBVIOUS
<1>2. ca \in Nat /\ cb \in Nat /\ Cardinality(A \cup B) = ca + cb /\ A \cup B \in SUBSET (1..n)
  BY <1>1, SubsetsFinite, RankOfUnion
<1>3. Listing(A, x, ca) /\ Listing(B, y, cb) /\ Listing(A \cup B, z, ca + cb)
  <2>1. Listing(A, x, ca)
    BY <1>1, AscendingLists
  <2>2. Listing(B, y, cb)
    BY <1>1, AscendingLists
  <2>3. Listing(A \cup B, z, Cardinality(A \cup B))
    BY <1>1, <1>2, AscendingLists
  <2> QED BY <1>2, <2>1, <2>2, <2>3
<1>r. /\ \A i \in A : Rank(A \cup B, i) = Rank(A, i) /\ Rank(A, i) \in 0 .. ca - 1
      /\ \A i \in B : Rank(A \cup B, i) = ca + Rank(B, i) /\ Rank(B, i) \in 0 .. cb - 1
  BY <1>1, RankOfUnion
<1>4. ASSUME NEW k \in 1 .. ca PROVE z[k] = x[k]
  <2>1. \A i : i \in A \cup B /\ Rank(A \cup B, i) = k - 1 <=> i \in A /\ Rank(A, i) = k - 1
    <3>1. \A i \in A : Rank(A \cup B, i) = Rank(A, i)
      BY <1>r
    <3>2. \A i \in B : Rank(A \cup B, i) # k - 1
      BY <1>2, <1>r
    <3> QED BY <3>1, <3>2
  <2>2. (CHOOSE i \in A \cup B : Rank(A \cup B, i) = k - 1) = CHOOSE i \in A : Rank(A, i) = k - 1
    BY <2>1
  <2>3. k \in 1 .. ca + cb
    BY <1>2
  <2>4. z[k] = CHOOSE i \in A \cup B : Rank(A \cup B, i) = k - 1
    BY <1>3, <2>3 DEF Listing
  <2>5. x[k] = CHOOSE i \in A : Rank(A, i) = k - 1
    BY <1>3 DEF Listing
  <2> QED BY <2>2, <2>4, <2>5
<1>5. ASSUME NEW k \in ca + 1 .. ca + cb PROVE z[k] = y[k - ca]
  <2>1. \A i : i \in A \cup B /\ Rank(A \cup B, i) = k - 1 <=> i \in B /\ Rank(B, i) = (k - ca) - 1
    <3>1. \A i \in B : Rank(A \cup B, i) = k - 1 <=> Rank(B, i) = (k - ca) - 1
      <4> SUFFICES ASSUME NEW i \in B
                   PROVE  Rank(A \cup B, i) = k - 1 <=> Rank(B, i) = (k - ca) - 1
        OBVIOUS
      <4>1. Rank(A \cup B, i) = ca + Rank(B, i) /\ Rank(B, i) \in 0 .. cb - 1
        BY <1>r
      <4> QED BY <4>1, <1>2
    <3>2. \A i \in A : Rank(A \cup B, i) # k - 1
      BY <1>2, <1>r
    <3> QED BY <3>1, <3>2
  <2>2. (CHOOSE i \in A \cup B : Rank(A \cup B, i) = k - 1) = CHOOSE i \in B : Rank(B, i) = (k - ca) - 1
    BY <2>1
  <2>3. k \in 1 .. ca + cb /\ k - ca \in 1 .. cb
    BY <1>2
  <2>4. z[k] = CHOOSE i \in A \cup B : Rank(A \cup B, i) = k - 1
    BY <1>3, <2>3 DEF Listing
  <2>5. y[k - ca] = CHOOSE i \in B : Rank(B, i) = (k - ca) - 1
    BY <1>3, <2>3 DEF Listing
  <2> QED BY <2>2, <2>4, <2>5
<1>6. PICK S : S = {x[k] : k \in 1 .. ca} \cup {y[k] : k \in 1 .. cb} \cup {z[k] : k \in 1 .. ca + cb}
  OBVIOUS
<1>7. x \in Seq(S) /\ y \in Seq(S) /\ z \in Seq(S) /\ Len(x) = ca /\ Len(y) = cb /\ Len(z) = ca + cb
  BY <1>3, <1>6 DEF Listing
<1>8. /\ x \o y \in Seq(S) /\ Len(x \o y) = ca + cb
      /\ \A k \in 1 .. ca + cb : (x \o y)[k] = IF k <= ca THEN x[k] ELSE y[k - ca]
  BY <1>7, ConcatProperties
<1>9. \A k \in 1 .. ca + cb : z[k] = (x \o y)[k]
  BY <1>2, <1>4, <1>5, <1>8
<1>10. z = x \o y
  BY <1>7, <1>8, <1>9, SeqEqual
<1> QED BY <1>1, <1>10

LEMMA RanksDiffer ==
  ASSUME NEW n \in Nat, NEW I \in SUBSET (1..n), NEW i \in I, NEW j \in I, i < j
  PROVE  Rank(I, i) < Rank(I, j)
<1> DEFINE A == {k \in I : k < i}
           B == {k \in I : k < j}
<1>0. \A k \in I : k \in 1 .. n /\ k \in Nat
  OBVIOUS
<1>1. A \in SUBSET B /\ i \in B /\ i \notin A /\ B \in SUBSET (1..n) /\ A \in SUBSET (1..n)
  <2>1. \A k \in A : k \in B
    BY <1>0
  <2>2. i \in B /\ i \notin A
    BY <1>0
  <2>3. \A k \in B : k \in 1 .. n
    BY <1>0
  <2> HIDE DEF A, B
  <2> QED BY <2>1, <2>2, <2>3
<1> HIDE DEF A, B
<1>2. IsFiniteSet(B) /\ Cardinality(B) \in Nat /\ Cardinality(A) \in Nat
  BY <1>1, SubsetsFinite
<1>3. Cardinality(A) <= Cardinality(B) /\ Cardinality(A) # Cardinality(B)
  BY <1>1, <1>2, FS_Subset
<1>4. Cardinality(A) < Cardinality(B)
  BY <1>2, <1>3
<1> QED BY <1>4 DEF A, B, Rank

LEMMA AscendingOnto ==
  ASSUME NEW n \in Nat, NEW I \in SUBSET (1..n)
  PROVE  LET m == Cardinality(I) a == Ascending(I) IN
         /\ m \in Nat
         /\ \A k \in 1 .. m : a[k] \in I
         /\ \A i \in I : \E k \in 1 .. m : a[k] = i
         /\ \A k, l \in 1 .. m : a[k] = a[l] => k = l
<1> DEFINE m == Cardinality(I)
           a == Ascending(I)
           R == [i \in I |-> Rank(I, i) + 1]
<1>1. IsFiniteSet(I) /\ m \in Nat
  BY SubsetsFinite
<1>2. \A i \in I : Rank(I, i) + 1 \in 1 .. m
  <2> SUFFICES ASSUME NEW i \in I PROVE Rank(I, i) + 1 \in 1 .. m
    OBVIOUS
  <2> DEFINE J == {j \in I : j < i}
  <2>1. J \in SUBSET I /\ i \notin J /\ J \in SUBSET (1..n)
    <3>1. i \in Nat /\ \A k \in I : k \in 1 .. n
      OBVIOUS
    <3>2. i \notin J /\ \A k \in J : k \in I
      BY <3>1
    <3> HIDE DEF J
    <3> QED BY <3>1, <3>2
  <2> HIDE DEF J
  <2>2. Cardinality(J) \in Nat /\ Cardinality(J) <= m /\ Cardinality(J) # m
    BY <1>1, <2>1, FS_Subset, SubsetsFinite
  <2> HIDE DEF m
  <2>3. Cardinality(J) + 1 \in 1 .. m
    BY <1>1, <2>2
  <2> QED BY <2>3 DEF J, Rank
<1>3. \A i, j \in I : Rank(I, i) = Rank(I, j) => i = j
  <2> SUFFICES ASSUME NEW i \in I, NEW j \in I, Rank(I, i) = Rank(I, j) PROVE i = j
    OBVIOUS
  <2>1. i \in Nat /\ j \in Nat /\ ~ (Rank(I, i) < Rank(I, j)) /\ ~ (Rank(I, j) < Rank(I, i))
    <3>1. {k \in I : k < i} \in SUBSET (1..n)
      OBVIOUS
    <3>2. Rank(I, i) \in Nat
      BY <3>1, SubsetsFinite DEF Rank
    <3> QED BY <3>2
  <2>2. ~ (i < j)
    BY <2>1, RanksDiffer
  <2>3. ~ (j < i)
    BY <2>1, RanksDiffer
  <2> QED BY <2>1, <2>2, <2>3
<1>4. \A i \in I : Rank(I, i) \in Nat
  <2> SUFFICES ASSUME NEW i \in I PROVE Rank(I, i) \in Nat
    OBVIOUS
  <2>1. {j \in I : j < i} \in SUBSET (1..n)
    OBVIOUS
  <2> QED BY <2>1, SubsetsFinite DEF Rank
<1>5. R \in Injection(I, 1 .. m)
  <2>1. R \in [I -> 1 .. m]
    BY <1>2
  <2>2. \A i, j \in I : R[i] = R[j] => i = j
    BY <1>3, <1>4
  <2> HIDE DEF R, m
  <2> QED BY <2>1, <2>2 DEF Injection, IsInjective
<1>6. IsFiniteSet(1 .. m) /\ Cardinality(1 .. m) = m
  <2> HIDE DEF m
  <2>1. 1 \in Int /\ m \in Int /\ (1 > m => m = 0)
    BY <1>1
  <2>2. IsFiniteSet(1 .. m) /\ Cardinality(1 .. m) = IF 1 > m THEN 0 ELSE m - 1 + 1
    BY <2>1, FS_Interval
  <2> QED BY <1>1, <2>1, <2>2
<1>7. R \in Surjection(I, 1 .. m)
  <2> HIDE DEF R
  <2> QED BY <1>1, <1>5, <1>6, FS_Injection
<1>8. \A k \in 1 .. m : \E i \in I : Rank(I, i) = k - 1
  <2> SUFFICES ASSUME NEW k \in 1 .. m PROVE \E i \in I : Rank(I, i) = k - 1
    OBVIOUS
  <2>1. PICK i \in I : R[i] = k
    <3> HIDE DEF R
    <3> QED BY <1>7 DEF Surjection
  <2>2. Rank(I, i) + 1 = k /\ Rank(I, i) \in Nat
    BY <2>1, <1>4
  <2> HIDE DEF m
  <2> QED BY <2>2
<1>9. ASSUME NEW k \in 1 .. m PROVE a[k] \in I /\ Rank(I, a[k]) = k - 1
  <2>1. a[k] = CHOOSE i \in I : Rank(I, i) = k - 1
    BY DEF Ascending, Rank
  <2> HIDE DEF a, m
  <2> QED BY <1>8, <2>1
<1> HIDE DEF a, m
<1>10. ASSUME NEW i \in I PROVE \E k \in 1 .. m : a[k] = i
  <2> DEFINE k == Rank(I, i) + 1
  <2>1. k \in 1 .. m /\ k - 1 = Rank(I, i)
    BY <1>2, <1>4
  <2>2. a[k] \in I /\ Rank(I, a[k]) = Rank(I, i)
    BY <1>9, <2>1
  <2>3. a[k] = i
    BY <1>3, <2>2
  <2> HIDE DEF k
  <2> QED BY <2>1, <2>3
<1>11. ASSUME NEW k \in 1 .. m, NEW l \in 1 .. m, a[k] = a[l] PROVE k = l
  <2>1. k - 1 = l - 1
    BY <1>9, <1>11
  <2> QED BY <2>1, <1>1
<1> QED BY <1>1, <1>9, <1>10, <1>11 DEF a, m

LEMMA AscendingEmpty ==
  Ascending({}) = <<>>
<1>1. {} \in SUBSET (1..0) /\ 0 \in Nat
  OBVIOUS
<1>2. PICK f, c : f = Ascending({}) /\ c = Cardinality({})
  OBVIOUS
<1>3. Listing({}, f, c)
  BY <1>1, <1>2, AscendingLists
<1>4. c = 0
  BY <1>2, FS_EmptySet
<1>5. f \in Seq({f[k] : k \in 1..0}) /\ Len(f) = 0
  BY <1>3, <1>4 DEF Listing
<1>6. f = <<>>
  BY <1>5, EmptySeq
<1> QED BY <1>2, <1>6

LEMMA KeptIs ==
  ASSUME NEW S, NEW x \in Seq(S)
  PROVE  /\ Kept(x) \in Seq(S)
         /\ Len(Kept(x)) = IF Len(x) < MAX_SSH_KEX_MESSAGES THEN Len(x) ELSE MAX_SSH_KEX_MESSAGES
         /\ \A k \in 1 .. Len(Kept(x)) : Kept(x)[k] = x[k]
<1>1. PICK n : n = IF Len(x) < MAX_SSH_KEX_MESSAGES THEN Len(x) ELSE MAX_SSH_KEX_MESSAGES
  OBVIOUS
<1>2. n \in 0 .. Len(x)
  BY <1>1, SshAssumption
<1>3. \A k \in 1..n : x[k] \in S
  BY <1>2, ElementOfSeq
<1>4. /\ SubSeq(x, 1, n) \in Seq(S) /\ Len(SubSeq(x, 1, n)) = n
      /\ \A k \in 1..n : SubSeq(x, 1, n)[k] = x[k]
  BY <1>2, <1>3, SubSeqProperties
<1>5. Kept(x) = SubSeq(x, 1, n)
  BY <1>1 DEF Kept
<1> QED BY <1>1, <1>4, <1>5

\* What had no room is not missed: more would not have had room after it.
LEMMA KeptOfMore ==
  ASSUME NEW S, NEW x \in Seq(S), NEW y \in Seq(S)
  PROVE  Kept(Kept(x) \o y) = Kept(x \o y)
<1>1. PICK p, a, b, M : p = Kept(x) /\ a = Len(x) /\ b = Len(y) /\ M = MAX_SSH_KEX_MESSAGES
  OBVIOUS
<1>2. a \in Nat /\ b \in Nat /\ M \in Nat
  BY <1>1, SshAssumption
<1>3. /\ p \in Seq(S) /\ Len(p) = IF a < M THEN a ELSE M
      /\ \A k \in 1 .. Len(p) : p[k] = x[k]
  BY <1>1, KeptIs
<1>4. PICK u, v : u = p \o y /\ v = x \o y
  OBVIOUS
<1>5. /\ u \in Seq(S) /\ Len(u) = Len(p) + b
      /\ \A k \in 1 .. Len(p) + b : u[k] = IF k <= Len(p) THEN p[k] ELSE y[k - Len(p)]
  <2>1. p \in Seq(S)
    BY <1>3
  <2>2. /\ p \o y \in Seq(S) /\ Len(p \o y) = Len(p) + Len(y)
        /\ \A k \in 1 .. Len(p) + Len(y) : (p \o y)[k] = IF k <= Len(p) THEN p[k] ELSE y[k - Len(p)]
    BY <2>1, ConcatProperties
  <2> QED BY <1>1, <1>4, <2>2
<1>6. /\ v \in Seq(S) /\ Len(v) = a + b
      /\ \A k \in 1 .. a + b : v[k] = IF k <= a THEN x[k] ELSE y[k - a]
  BY <1>1, <1>4, ConcatProperties
<1>7. PICK f, g : f = Kept(u) /\ g = Kept(v)
  OBVIOUS
<1>8. /\ f \in Seq(S) /\ Len(f) = (IF Len(u) < M THEN Len(u) ELSE M)
      /\ \A k \in 1 .. Len(f) : f[k] = u[k]
  BY <1>1, <1>5, <1>7, KeptIs
<1>9. /\ g \in Seq(S) /\ Len(g) = (IF Len(v) < M THEN Len(v) ELSE M)
      /\ \A k \in 1 .. Len(g) : g[k] = v[k]
  BY <1>1, <1>6, <1>7, KeptIs
<1>10. Len(f) = Len(g) /\ Len(f) \in Nat /\ Len(f) <= M /\ Len(f) <= a + b
  BY <1>2, <1>3, <1>5, <1>6, <1>8, <1>9
<1>11. ASSUME NEW k \in 1 .. Len(f) PROVE f[k] = g[k]
  <2>1. CASE a < M
    <3>1. Len(p) = a /\ k \in 1 .. a + b /\ k \in 1 .. Len(g)
      BY <1>2, <1>3, <1>10, <2>1
    <3>2. u[k] = v[k]
      <4>1. u[k] = IF k <= a THEN p[k] ELSE y[k - a]
        BY <1>5, <3>1
      <4>2. k <= a => p[k] = x[k]
        BY <1>3, <3>1
      <4>3. v[k] = IF k <= a THEN x[k] ELSE y[k - a]
        BY <1>6, <3>1
      <4> QED BY <4>1, <4>2, <4>3
    <3> QED BY <1>8, <1>9, <3>1, <3>2
  <2>2. CASE ~ (a < M)
    <3>1. Len(p) = M /\ k \in 1 .. M /\ k <= a /\ k \in 1 .. a + b /\ k \in 1 .. M + b /\ k \in 1 .. Len(g)
      BY <1>2, <1>3, <1>10, <2>2
    <3>2. u[k] = p[k] /\ p[k] = x[k] /\ v[k] = x[k]
      BY <1>3, <1>5, <1>6, <3>1
    <3> QED BY <1>8, <1>9, <3>1, <3>2
  <2> QED BY <2>1, <2>2
<1>12. f = g
  BY <1>8, <1>9, <1>10, <1>11, SeqEqual
<1> QED BY <1>1, <1>4, <1>7, <1>12

\* The messages of a call are kept as if they had come along with those before.
LEMMA FirstOfUnion ==
  ASSUME NEW n \in Nat, NEW A \in SUBSET (1..n), NEW B \in SUBSET (1..n),
         \A a \in A, b \in B : a < b
  PROVE  FirstMessages(FirstMessages(<<>>, A), B) = FirstMessages(<<>>, A \cup B)
<1>1. PICK x, y, z : x = Ascending(A) /\ y = Ascending(B) /\ z = Ascending(A \cup B)
  OBVIOUS
<1>2. z = x \o y
  BY <1>1, AscendingUnion
<1>3. PICK S : x \in Seq(S) /\ y \in Seq(S)
  <2>1. PICK ca, cb : ca = Cardinality(A) /\ cb = Cardinality(B)
    OBVIOUS
  <2>2. Listing(A, x, ca) /\ Listing(B, y, cb)
    BY <1>1, <2>1, AscendingLists
  <2>3. PICK S : S = {x[k] : k \in 1..ca} \cup {y[k] : k \in 1..cb}
    OBVIOUS
  <2>4. x \in Seq(S) /\ y \in Seq(S)
    BY <2>2, <2>3 DEF Listing
  <2> QED BY <2>4
<1>4. x \o y \in Seq(S)
  BY <1>3, ConcatProperties
<1>5. <<>> \o x = x /\ <<>> \o z = z
  BY <1>2, <1>3, <1>4, ConcatEmptySeq
<1>6. Kept(Kept(x) \o y) = Kept(x \o y)
  BY <1>3, KeptOfMore
<1> QED BY <1>1, <1>2, <1>5, <1>6 DEF FirstMessages

\* The messages that are kept are some of those there were, as many as there is room for.
LEMMA KeptAreThere ==
  ASSUME NEW n \in Nat, NEW I \in SUBSET (1..n), NEW f, f = FirstMessages(<<>>, I)
  PROVE  /\ Len(f) = IF Cardinality(I) < MAX_SSH_KEX_MESSAGES THEN Cardinality(I) ELSE MAX_SSH_KEX_MESSAGES
         /\ \A k \in 1 .. Len(f) : f[k] \in I
<1>1. PICK x, c : x = Ascending(I) /\ c = Cardinality(I)
  OBVIOUS
<1>2. Listing(I, x, c) /\ c \in Nat
  BY <1>1, AscendingLists, SubsetsFinite
<1>3. PICK S : x \in Seq(S) /\ Len(x) = c
  BY <1>2 DEF Listing
<1>4. f = Kept(x)
  BY <1>1, <1>3, ConcatEmptySeq DEF FirstMessages
<1>5. \A k \in 1 .. c : x[k] \in I
  BY <1>1, AscendingOnto
<1>6. /\ Len(f) = IF c < MAX_SSH_KEX_MESSAGES THEN c ELSE MAX_SSH_KEX_MESSAGES
      /\ \A k \in 1 .. Len(f) : f[k] = x[k]
  BY <1>3, <1>4, KeptIs
<1>7. \A k \in 1 .. Len(f) : k \in 1 .. c
  BY <1>2, <1>6, SshAssumption
<1> QED BY <1>1, <1>5, <1>6, <1>7

-----------------------------------------------------------------------------

(***************************************************************************)
(* The packets follow one another.                                         *)
(***************************************************************************)
LEMMA StreamType ==
  ASSUME ssh_stream \in SshPairs, NEW s \in SshSides
  PROVE  /\ ssh_stream[s].version.to \in Nat \ {0}
         /\ ssh_stream[s].packets \in Seq(SshPackets)
         /\ DOMAIN ssh_stream[s].packets = 1 .. Len(ssh_stream[s].packets)
         /\ Len(ssh_stream[s].packets) \in Nat
         /\ \A i \in DOMAIN ssh_stream[s].packets :
              /\ i \in Nat \ {0} /\ PacketOf(s, i) \in SshPackets
              /\ PacketOf(s, i).at \in Nat /\ PacketEnd(s, i) \in Nat
              /\ PacketOf(s, i).at < PacketEnd(s, i)
              /\ PacketOf(s, i).at = IF i = 1 THEN ssh_stream[s].version.to ELSE PacketEnd(s, i - 1)
              /\ PacketOf(s, i).code = NEWKEYS => i = Len(ssh_stream[s].packets)
<1>1. PICK p : p = ssh_stream[s].packets
  OBVIOUS
<1>2. /\ ssh_stream[s].version.to \in Nat \ {0} /\ p \in Seq(SshPackets)
      /\ \A i \in DOMAIN p :
           /\ p[i].at = IF i = 1 THEN ssh_stream[s].version.to ELSE p[i - 1].at + p[i - 1].len
           /\ p[i].code = NEWKEYS => i = Len(p)
  BY <1>1, SshPairsAssumption
<1>3. DOMAIN p = 1 .. Len(p) /\ Len(p) \in Nat /\ \A i \in DOMAIN p : p[i] \in SshPackets
  BY <1>2
<1>4. ASSUME NEW i \in DOMAIN p
      PROVE  p[i].at \in Nat /\ p[i].len \in Nat \ {0}
  BY <1>3 DEF SshPackets
<1>5. ASSUME NEW i \in DOMAIN p
      PROVE  /\ i \in Nat \ {0} /\ PacketOf(s, i) \in SshPackets
             /\ PacketOf(s, i).at \in Nat /\ PacketEnd(s, i) \in Nat
             /\ PacketOf(s, i).at < PacketEnd(s, i)
             /\ PacketOf(s, i).at = IF i = 1 THEN ssh_stream[s].version.to ELSE PacketEnd(s, i - 1)
             /\ PacketOf(s, i).code = NEWKEYS => i = Len(p)
  <2>1. PacketOf(s, i) = p[i] /\ PacketEnd(s, i) = p[i].at + p[i].len
        /\ PacketEnd(s, i - 1) = p[i - 1].at + p[i - 1].len
    BY <1>1 DEF PacketOf, PacketEnd
  <2> QED BY <1>2, <1>3, <1>4, <2>1
<1> QED BY <1>1, <1>2, <1>3, <1>5

LEMMA PacketsInOrder ==
  ASSUME ssh_stream \in SshPairs, NEW s \in SshSides
  PROVE  /\ \A i \in DOMAIN ssh_stream[s].packets : ssh_stream[s].version.to <= PacketOf(s, i).at
         /\ \A i, j \in DOMAIN ssh_stream[s].packets :
              i < j => PacketEnd(s, i) <= PacketOf(s, j).at
<1>1. PICK n, v : n = Len(ssh_stream[s].packets) /\ v = ssh_stream[s].version.to
  OBVIOUS
<1>2. /\ n \in Nat /\ v \in Nat /\ DOMAIN ssh_stream[s].packets = 1..n
      /\ \A i \in 1..n : /\ PacketOf(s, i).at \in Nat /\ PacketEnd(s, i) \in Nat
                         /\ PacketOf(s, i).at < PacketEnd(s, i)
                         /\ PacketOf(s, i).at = IF i = 1 THEN v ELSE PacketEnd(s, i - 1)
  BY <1>1, StreamType
<1> DEFINE S == {k \in 0..n : k # 0 => /\ v <= PacketOf(s, k).at
                                      /\ \A i \in 1 .. k - 1 : PacketEnd(s, i) <= PacketOf(s, k).at}
<1>3. 0 \in S
  BY <1>2
<1>4. ASSUME NEW k \in 0 .. n - 1, k \in S PROVE k + 1 \in S
  <2>1. k + 1 \in 1..n /\ k + 1 \in 0..n /\ (k + 1) - 1 = k
    BY <1>2
  <2>2. CASE k = 0
    <3>1. PacketOf(s, k + 1).at = v
      BY <1>2, <2>1, <2>2
    <3> QED BY <1>2, <2>1, <2>2, <3>1
  <2>3. CASE k # 0
    <3>1. k \in 1..n /\ k + 1 # 1
      BY <1>2, <2>3
    <3>2. PacketOf(s, k + 1).at = PacketEnd(s, k)
      BY <1>2, <2>1, <3>1
    <3>3. PacketOf(s, k).at < PacketEnd(s, k) /\ PacketOf(s, k).at \in Nat /\ PacketEnd(s, k) \in Nat
      BY <1>2, <3>1
    <3>4. v <= PacketOf(s, k).at /\ \A i \in 1 .. k - 1 : PacketEnd(s, i) <= PacketOf(s, k).at
      BY <1>4, <2>3
    <3>5. v <= PacketOf(s, k + 1).at
      BY <1>2, <3>2, <3>3, <3>4
    <3>6. ASSUME NEW i \in 1..k PROVE PacketEnd(s, i) <= PacketOf(s, k + 1).at
      <4>1. PacketEnd(s, i) \in Nat
        BY <1>2, <3>1
      <4>2. CASE i = k
        BY <3>2, <4>1, <4>2
      <4>3. CASE i # k
        <5>1. i \in 1 .. k - 1
          BY <3>1, <4>3
        <5> QED BY <3>2, <3>3, <3>4, <4>1, <5>1
      <4> QED BY <4>2, <4>3
    <3> QED BY <2>1, <3>5, <3>6
  <2> QED BY <2>2, <2>3
<1> HIDE DEF S
<1>5. \A k \in 0..n : k \in S
  BY <1>2, <1>3, <1>4, UpTo
<1>6. ASSUME NEW k \in 1..n
      PROVE  v <= PacketOf(s, k).at /\ \A i \in 1 .. k - 1 : PacketEnd(s, i) <= PacketOf(s, k).at
  <2>1. k \in 0..n /\ k # 0
    BY <1>2
  <2> QED BY <1>5, <2>1 DEF S
<1>7. ASSUME NEW i \in 1..n, NEW j \in 1..n, i < j PROVE PacketEnd(s, i) <= PacketOf(s, j).at
  <2>1. i \in 1 .. j - 1
    BY <1>2, <1>7
  <2> QED BY <1>6, <2>1
<1> QED BY <1>1, <1>2, <1>6, <1>7

LEMMA LowestIs ==
  ASSUME NEW n \in Nat, NEW I \in SUBSET (1..n), NEW none
  PROVE  /\ I = {} => LowestOr(I, none) = none
         /\ I # {} => LowestOr(I, none) \in I /\ \A j \in I : LowestOr(I, none) <= j
<1>1. I # {} => \E i \in I : \A j \in I : i <= j
  <2>1. I \in SUBSET Nat
    OBVIOUS
  <2> QED BY <2>1, LeastNatural
<1> QED BY <1>1 DEF LowestOr

LEMMA LowestOfUnion ==
  ASSUME NEW n \in Nat, NEW A \in SUBSET (1..n), NEW B \in SUBSET (1..n),
         \A a \in A, b \in B : a < b
  PROVE  LowestOr(A \cup B, 0) = IF LowestOr(A, 0) # 0 THEN LowestOr(A, 0) ELSE LowestOr(B, 0)
<1>1. PICK a, c : a = LowestOr(A, 0) /\ c = LowestOr(A \cup B, 0)
  OBVIOUS
<1>2. CASE A = {}
  <2>1. LowestOr(A, 0) = 0 /\ A \cup B = B
    BY <1>2, LowestIs
  <2> QED BY <2>1
<1>3. CASE A # {}
  <2>1. a \in A /\ \A j \in A : a <= j
    BY <1>1, <1>3, LowestIs
  <2>2. A \cup B \in SUBSET (1..n) /\ A \cup B # {}
    BY <1>3
  <2>3. c \in A \cup B /\ \A j \in A \cup B : c <= j
    BY <1>1, <2>2, LowestIs
  <2>4. c <= a /\ c \in Nat /\ a \in Nat \ {0} /\ a <= c
    BY <2>1, <2>3
  <2> QED BY <1>1, <2>4
<1> QED BY <1>2, <1>3

LEMMA LargestIs ==
  ASSUME NEW n \in Nat, NEW S \in SUBSET (0..n), S # {}
  PROVE  Largest(S) \in S /\ \A y \in S : y <= Largest(S)
<1> DEFINE D == {n - x : x \in S}
<1>1. D \in SUBSET Nat /\ D # {}
  <2>1. \A x \in S : n - x \in Nat
    OBVIOUS
  <2>2. D \subseteq Nat
    BY <2>1
  <2>3. D # {}
    OBVIOUS
  <2> QED BY <2>2, <2>3
<1>2. PICK d \in D : \A e \in D : d <= e
  BY <1>1, LeastNatural
<1>3. PICK x \in S : d = n - x
  OBVIOUS
<1>4. ASSUME NEW y \in S PROVE y <= x
  <2>1. n - x <= n - y /\ x \in 0..n /\ y \in 0..n
    BY <1>2, <1>3
  <2> QED BY <2>1
<1> QED BY <1>4 DEF Largest

-----------------------------------------------------------------------------

(***************************************************************************)
(* A call of ssh_update.                                                   *)
(***************************************************************************)

\* The packets that are complete in the first t bytes.
SeenIn(s, t) == {i \in DOMAIN ssh_stream[s].packets : PacketEnd(s, i) <= t}
Coded(s, I, codes) == {i \in I : PacketOf(s, i).code \in codes}

\* No packet reaches over the position b, and those before it are the ones that
\* are complete in the first t bytes.
Parsed(s, b, t) ==
  /\ b \in Nat
  /\ \A i \in DOMAIN ssh_stream[s].packets :
       /\ PacketOf(s, i).at < b => PacketEnd(s, i) <= b /\ PacketEnd(s, i) <= t
       /\ PacketEnd(s, i) <= t => PacketEnd(s, i) <= b

LEMMA SeenType ==
  ASSUME ssh_stream \in SshPairs, NEW s \in SshSides
  PROVE  \E n \in Nat :
           /\ n = Len(ssh_stream[s].packets)
           /\ \A t : SeenIn(s, t) \in SUBSET (1..n)
           /\ \A f, t : CompleteFrom(s, f, t) \in SUBSET (1..n)
           /\ \A I \in SUBSET (1..n) : \A c : Coded(s, I, c) \in SUBSET (1..n)
<1>1. PICK n : n = Len(ssh_stream[s].packets)
  OBVIOUS
<1>2. n \in Nat /\ DOMAIN ssh_stream[s].packets = 1..n
  BY <1>1, StreamType
<1> QED BY <1>1, <1>2 DEF SeenIn, CompleteFrom, Coded

\* What a call takes out of the buffer is what has become complete, and it
\* comes after what was taken before.
LEMMA CompleteIsNew ==
  ASSUME ssh_stream \in SshPairs, NEW s \in SshSides, NEW sent \in Nat, NEW from, NEW to \in Nat,
         sent <= to, from <= to, Parsed(s, from, sent),
         NEW I, I = CompleteFrom(s, from, to)
  PROVE  /\ SeenIn(s, to) = SeenIn(s, sent) \cup I
         /\ \A a \in SeenIn(s, sent), b \in I : a < b
<1>1. PICK D : D = DOMAIN ssh_stream[s].packets
  OBVIOUS
<1>2. /\ from \in Nat
      /\ \A i \in D : i \in Nat /\ PacketOf(s, i).at \in Nat /\ PacketEnd(s, i) \in Nat
                      /\ PacketOf(s, i).at < PacketEnd(s, i)
      /\ \A i, j \in D : i < j => PacketEnd(s, i) <= PacketOf(s, j).at
  BY <1>1, StreamType, PacketsInOrder DEF Parsed
<1>3. \A i \in SeenIn(s, sent) : i \in D /\ PacketEnd(s, i) <= from /\ PacketEnd(s, i) <= to
  BY <1>1, <1>2 DEF Parsed, SeenIn
<1>4. \A i \in I : i \in D /\ from <= PacketOf(s, i).at /\ PacketEnd(s, i) <= to
  BY <1>1 DEF CompleteFrom
<1>5. ASSUME NEW a \in SeenIn(s, sent), NEW b \in I PROVE a < b
  <2>1. a \in D /\ b \in D /\ PacketEnd(s, a) <= from /\ from <= PacketOf(s, b).at
    BY <1>3, <1>4
  <2>2. a \in Nat /\ b \in Nat /\ a # b /\ ~ (b < a)
    BY <1>2, <2>1
  <2> QED BY <2>2
<1>6. ASSUME NEW i \in SeenIn(s, to), i \notin I PROVE i \in SeenIn(s, sent)
  <2>1. i \in D /\ PacketEnd(s, i) <= to
    BY <1>1 DEF SeenIn
  <2>2. PacketOf(s, i).at < from
    BY <1>1, <1>2, <1>6, <2>1 DEF CompleteFrom
  <2>3. PacketEnd(s, i) <= sent
    BY <1>1, <2>1, <2>2 DEF Parsed
  <2> QED BY <1>1, <2>1, <2>3 DEF SeenIn
<1>7. \A i \in I : i \in SeenIn(s, to)
  BY <1>1, <1>4 DEF SeenIn
<1>8. \A i \in SeenIn(s, sent) : i \in SeenIn(s, to)
  BY <1>1, <1>3 DEF SeenIn
<1> QED BY <1>5, <1>6, <1>7, <1>8

\* What is left in the buffer begins with a packet that is not complete.
LEMMA RestIsParsed ==
  ASSUME ssh_stream \in SshPairs, NEW s \in SshSides, NEW sent \in Nat, NEW from, NEW to \in Nat,
         sent <= to, from <= to, Parsed(s, from, sent),
         NEW I, I = CompleteFrom(s, from, to), NEW b, b = KeepRest(s, I, from, to)
  PROVE  Parsed(s, b, to) /\ b <= to
<1>1. PICK D : D = DOMAIN ssh_stream[s].packets
  OBVIOUS
<1>2. /\ from \in Nat
      /\ \A i \in D : i \in Nat /\ PacketOf(s, i).at \in Nat /\ PacketEnd(s, i) \in Nat
                      /\ PacketOf(s, i).at < PacketEnd(s, i)
      /\ \A i, j \in D : i < j => PacketEnd(s, i) <= PacketOf(s, j).at
  BY <1>1, StreamType, PacketsInOrder DEF Parsed
<1>3. \A i : i \in I <=> i \in D /\ from <= PacketOf(s, i).at /\ PacketEnd(s, i) <= to
  BY <1>1 DEF CompleteFrom
<1>4. PICK E : E = {from} \cup {PacketEnd(s, i) : i \in I}
  OBVIOUS
<1>5. E \in SUBSET (0..to) /\ E # {}
  BY <1>2, <1>3, <1>4
<1>6. b \in E /\ \A y \in E : y <= b
  <2>1. b = Largest(E)
    BY <1>4 DEF KeepRest
  <2> QED BY <1>5, <2>1, LargestIs
<1>7. b \in Nat /\ b <= to /\ from <= b /\ \A i \in I : PacketEnd(s, i) <= b
  <2>1. from \in E /\ \A i \in I : PacketEnd(s, i) \in E
    BY <1>4
  <2>2. b \in 0..to
    BY <1>5, <1>6
  <2>3. from <= b /\ \A i \in I : PacketEnd(s, i) <= b
    BY <1>6, <2>1
  <2>4. b \in Nat /\ b <= to
    BY <2>2
  <2> QED BY <2>3, <2>4
<1>8. ASSUME NEW i \in D, PacketOf(s, i).at < b PROVE PacketEnd(s, i) <= b
  <2>1. CASE b = from
    BY <1>1, <1>8, <2>1 DEF Parsed
  <2>2. CASE b # from
    <3>1. PICK k \in I : b = PacketEnd(s, k)
      BY <1>4, <1>6, <2>2
    <3>2. k \in D /\ ~ (k < i)
      BY <1>2, <1>3, <1>8, <3>1
    <3>3. CASE i = k
      BY <1>7, <3>1, <3>3
    <3>4. CASE i # k
      <4>1. i < k
        BY <1>2, <3>2, <3>4
      <4>2. PacketEnd(s, i) <= PacketOf(s, k).at /\ PacketOf(s, k).at < PacketEnd(s, k)
        BY <1>2, <3>2, <4>1
      <4> QED BY <1>2, <3>1, <3>2, <4>2
    <3> QED BY <3>3, <3>4
  <2> QED BY <2>1, <2>2
<1>9. ASSUME NEW i \in D, PacketOf(s, i).at < b PROVE PacketEnd(s, i) <= to
  BY <1>2, <1>7, <1>8, <1>9
<1>10. ASSUME NEW i \in D, PacketEnd(s, i) <= to PROVE PacketEnd(s, i) <= b
  <2>1. CASE PacketOf(s, i).at < from
    <3>1. PacketEnd(s, i) <= from
      BY <1>1, <2>1 DEF Parsed
    <3> QED BY <1>2, <1>7, <3>1
  <2>2. CASE ~ (PacketOf(s, i).at < from)
    <3>1. from <= PacketOf(s, i).at
      BY <1>2, <2>2
    <3> QED BY <1>3, <1>7, <1>10, <3>1
  <2> QED BY <2>1, <2>2
<1> QED BY <1>1, <1>7, <1>8, <1>9, <1>10 DEF Parsed

SshTyped ==
  /\ ssh_stream \in SshPairs
  /\ ssh_sent \in [SshSides -> Nat] /\ buffer \in [SshSides -> Nat]
  /\ role \in [SshSides -> {"unknown", "client"}] /\ newkeys \in [SshSides -> BOOLEAN]
  /\ DOMAIN kexinit = SshSides /\ DOMAIN kex_msgs = SshSides

\* Encrypted bytes are kept only once NEWKEYS was found.
KexKept(s) ==
  IF newkeys[s]
  THEN \E n \in 0 .. MAX_SSH_KEX_MESSAGES :
         kex_msgs[s] = FirstMessages(<<>>, SeenKex(s)) \o Encrypted(n)
  ELSE kex_msgs[s] = FirstMessages(<<>>, SeenKex(s))

SideOK(s) ==
  /\ role[s] = "unknown" => ssh_sent[s] < ssh_stream[s].version.to /\ ~newkeys[s]
  /\ role[s] # "unknown" /\ ~newkeys[s] =>
       Parsed(s, buffer[s], ssh_sent[s]) /\ buffer[s] <= ssh_sent[s]
  /\ kexinit[s] = LowestOr(SeenInits(s), 0)
  /\ newkeys[s] <=> \E i \in Seen(s) : PacketOf(s, i).code = NEWKEYS
  /\ KexKept(s)

SshInv == SshTyped /\ \A s \in SshSides : SideOK(s)

LEMMA SeenByCode ==
  ASSUME NEW s
  PROVE  /\ Seen(s) = SeenIn(s, ssh_sent[s])
         /\ SeenInits(s) = Coded(s, Seen(s), {KEXINIT})
         /\ SeenKex(s) = Coded(s, Seen(s), KexCodes)
BY DEF Seen, SeenIn, SeenInits, SeenKex, Coded

LEMMA FirstMessagesSeq ==
  ASSUME NEW n \in Nat, NEW I \in SUBSET (1..n), NEW f, f = FirstMessages(<<>>, I)
  PROVE  /\ \E S : f \in Seq(S)
         /\ Len(f) \in 0 .. MAX_SSH_KEX_MESSAGES
         /\ f \o Encrypted(0) = f
<1>1. PICK x, c : x = Ascending(I) /\ c = Cardinality(I)
  OBVIOUS
<1>2. Listing(I, x, c)
  BY <1>1, AscendingLists
<1>3. PICK S : x \in Seq(S)
  BY <1>2 DEF Listing
<1>4. f = Kept(x)
  BY <1>1, <1>3, ConcatEmptySeq DEF FirstMessages
<1>5. f \in Seq(S) /\ Len(f) \in 0 .. MAX_SSH_KEX_MESSAGES
  BY <1>3, <1>4, KeptIs, SshAssumption
<1>6. Encrypted(0) = <<>>
  BY DEF Encrypted
<1> QED BY <1>5, <1>6, ConcatEmptySeq

LEMMA ParseKeeps ==
  ASSUME SshTyped, NEW s \in SshSides, SideOK(s), ~newkeys[s],
         NEW from, NEW to \in Nat, ssh_sent[s] <= to, from <= to, Parsed(s, from, ssh_sent[s]),
         ssh_parse(s, from, to), UNCHANGED ssh_stream,
         ssh_sent' = [ssh_sent EXCEPT ![s] = to], role' = [role EXCEPT ![s] = "client"]
  PROVE  SideOK(s)'
<1>1. PICK n \in Nat : /\ n = Len(ssh_stream[s].packets)
                       /\ \A t : SeenIn(s, t) \in SUBSET (1..n)
                       /\ \A f, t : CompleteFrom(s, f, t) \in SUBSET (1..n)
                       /\ \A I \in SUBSET (1..n) : \A c : Coded(s, I, c) \in SUBSET (1..n)
  BY SeenType DEF SshTyped
<1>2. PICK I, A, b : I = CompleteFrom(s, from, to) /\ A = SeenIn(s, ssh_sent[s]) /\ b = KeepRest(s, I, from, to)
  OBVIOUS
<1>3. ssh_sent[s] \in Nat /\ ssh_sent'[s] = to /\ role'[s] = "client"
  BY DEF SshTyped
<1>4. SeenIn(s, to) = A \cup I /\ \A x \in A, y \in I : x < y
  BY <1>2, <1>3, CompleteIsNew DEF SshTyped
<1>5. Parsed(s, b, to) /\ b <= to
  BY <1>2, <1>3, RestIsParsed DEF SshTyped
<1>6. /\ newkeys'[s] = \E i \in I : PacketOf(s, i).code = NEWKEYS
      /\ kexinit'[s] = IF kexinit[s] # 0 THEN kexinit[s] ELSE LowestOr(Coded(s, I, {KEXINIT}), 0)
      /\ \E msgs \in AfterNewKeys(s, I, FirstMessages(kex_msgs[s], Coded(s, I, KexCodes))) :
           kex_msgs'[s] = msgs
      /\ buffer'[s] = b
  <2>1. Coded(s, I, {KEXINIT}) = {i \in I : PacketOf(s, i).code = KEXINIT}
    BY DEF Coded
  <2>2. Coded(s, I, KexCodes) = {i \in I : PacketOf(s, i).code \in KexCodes}
    BY DEF Coded
  <2> QED BY <1>2, <2>1, <2>2 DEF ssh_parse, SshTyped
<1>7. /\ Seen(s)' = A \cup I
      /\ SeenInits(s)' = Coded(s, A \cup I, {KEXINIT}) /\ SeenKex(s)' = Coded(s, A \cup I, KexCodes)
      /\ \A i : PacketOf(s, i)' = PacketOf(s, i) /\ PacketEnd(s, i)' = PacketEnd(s, i)
  <2>1. \A i : PacketOf(s, i)' = PacketOf(s, i) /\ PacketEnd(s, i)' = PacketEnd(s, i)
    BY DEF PacketOf, PacketEnd
  <2>2. Seen(s)' = SeenIn(s, to)
    BY <1>3, <2>1 DEF Seen, SeenIn
  <2>3. SeenInits(s)' = Coded(s, A \cup I, {KEXINIT}) /\ SeenKex(s)' = Coded(s, A \cup I, KexCodes)
    BY <1>4, <2>1, <2>2 DEF SeenInits, SeenKex, Coded
  <2> QED BY <1>4, <2>1, <2>2, <2>3
\* What there was of a kind comes before what is new of it.
<1>8. \A c : /\ Coded(s, A \cup I, c) = Coded(s, A, c) \cup Coded(s, I, c)
             /\ \A x \in Coded(s, A, c), y \in Coded(s, I, c) : x < y
             /\ Coded(s, A, c) \in SUBSET (1..n) /\ Coded(s, I, c) \in SUBSET (1..n)
  BY <1>1, <1>2, <1>4 DEF Coded
<1>9. Seen(s) = A /\ SeenInits(s) = Coded(s, A, {KEXINIT}) /\ SeenKex(s) = Coded(s, A, KexCodes)
  BY <1>2, SeenByCode
<1>10. kexinit'[s] = LowestOr(SeenInits(s)', 0)
  <2>1. PICK X, Y : X = Coded(s, A, {KEXINIT}) /\ Y = Coded(s, I, {KEXINIT})
    OBVIOUS
  <2>2. LowestOr(X \cup Y, 0) = IF LowestOr(X, 0) # 0 THEN LowestOr(X, 0) ELSE LowestOr(Y, 0)
    <3>1. X \in SUBSET (1..n) /\ Y \in SUBSET (1..n) /\ \A x \in X, y \in Y : x < y
      BY <1>8, <2>1
    <3> QED BY <3>1, LowestOfUnion
  <2>3. kexinit[s] = LowestOr(X, 0)
    BY <1>9, <2>1 DEF SideOK
  <2> QED BY <1>6, <1>7, <1>8, <2>1, <2>2, <2>3
<1>11. newkeys'[s] <=> \E i \in Seen(s)' : PacketOf(s, i)'.code = NEWKEYS
  <2>1. ~ \E i \in A : PacketOf(s, i).code = NEWKEYS
    BY <1>9 DEF SideOK
  <2> QED BY <1>6, <1>7, <2>1
<1>12. PICK m : m = FirstMessages(<<>>, SeenKex(s)')
  OBVIOUS
<1>13. FirstMessages(kex_msgs[s], Coded(s, I, KexCodes)) = m
  <2>1. kex_msgs[s] = FirstMessages(<<>>, Coded(s, A, KexCodes))
    BY <1>9 DEF SideOK, KexKept
  <2>2. PICK X, Y : X = Coded(s, A, KexCodes) /\ Y = Coded(s, I, KexCodes)
    OBVIOUS
  <2>3. FirstMessages(FirstMessages(<<>>, X), Y) = FirstMessages(<<>>, X \cup Y)
    <3>1. X \in SUBSET (1..n) /\ Y \in SUBSET (1..n) /\ \A x \in X, y \in Y : x < y
      BY <1>8, <2>2
    <3> QED BY <3>1, FirstOfUnion
  <2> QED BY <1>7, <1>8, <1>12, <2>1, <2>2, <2>3
<1>14. kex_msgs'[s] \in AfterNewKeys(s, I, m)
  BY <1>6, <1>13
<1>15. KexKept(s)'
  <2>1. CASE newkeys'[s]
    <3>1. kex_msgs'[s] \in {m \o Encrypted(k) : k \in 0 .. MAX_SSH_KEX_MESSAGES - Len(m)}
      BY <1>6, <1>14, <2>1 DEF AfterNewKeys
    <3>2. PICK k \in 0 .. MAX_SSH_KEX_MESSAGES - Len(m) : kex_msgs'[s] = m \o Encrypted(k)
      BY <3>1
    <3>3. Len(m) \in 0 .. MAX_SSH_KEX_MESSAGES
      <4>1. A \cup I \in SUBSET (1..n)
        BY <1>1, <1>2
      <4>2. Coded(s, A \cup I, KexCodes) \in SUBSET (1..n)
        BY <1>1, <4>1
      <4> QED BY <1>7, <1>12, <4>2, FirstMessagesSeq
    <3>4. k \in 0 .. MAX_SSH_KEX_MESSAGES
      BY <3>3, SshAssumption
    <3> QED BY <1>12, <2>1, <3>2, <3>4 DEF KexKept, Encrypted
  <2>2. CASE ~newkeys'[s]
    <3>1. kex_msgs'[s] = m
      BY <1>6, <1>14, <2>2 DEF AfterNewKeys
    <3> QED BY <1>12, <2>2, <3>1 DEF KexKept
  <2> QED BY <2>1, <2>2
<1>16. Parsed(s, buffer[s], ssh_sent[s])' /\ buffer'[s] <= ssh_sent'[s]
  BY <1>3, <1>5, <1>6, <1>7 DEF Parsed
<1> QED BY <1>3, <1>10, <1>11, <1>15, <1>16 DEF SideOK

\* A segment of the other side changes nothing of this one.
LEMMA OtherSide ==
  ASSUME NEW s, SideOK(s), UNCHANGED ssh_stream,
         ssh_sent'[s] = ssh_sent[s], buffer'[s] = buffer[s], role'[s] = role[s],
         newkeys'[s] = newkeys[s], kexinit'[s] = kexinit[s], kex_msgs'[s] = kex_msgs[s]
  PROVE  SideOK(s)'
<1>1. \A i : PacketOf(s, i)' = PacketOf(s, i) /\ PacketEnd(s, i)' = PacketEnd(s, i)
  BY DEF PacketOf, PacketEnd
<1>2. Seen(s)' = Seen(s)
  BY <1>1 DEF Seen
<1>3. SeenInits(s)' = SeenInits(s) /\ SeenKex(s)' = SeenKex(s)
  BY <1>1, <1>2 DEF SeenInits, SeenKex
<1>4. Parsed(s, buffer[s], ssh_sent[s])' <=> Parsed(s, buffer[s], ssh_sent[s])
  BY <1>1 DEF Parsed
<1>5. KexKept(s)' <=> KexKept(s)
  BY <1>3 DEF KexKept, FirstMessages, Kept, Ascending, Encrypted
<1> QED BY <1>1, <1>2, <1>3, <1>4, <1>5 DEF SideOK, LowestOr

LEMMA UpdateKeeps ==
  ASSUME SshInv, NEW s \in SshSides, NEW n \in 1 .. ssh_stream[s].length, ssh_update(s, n)
  PROVE  SshInv'
<1>1. PICK to, v : to = ssh_sent[s] + n /\ v = ssh_stream[s].version.to
  OBVIOUS
<1>2. ssh_stream \in SshPairs /\ ssh_sent[s] \in Nat /\ n \in Nat /\ to \in Nat /\ ssh_sent[s] <= to /\ v \in Nat
  <2>1. ssh_stream \in SshPairs /\ ssh_sent[s] \in Nat
    BY DEF SshInv, SshTyped
  <2>2. ssh_stream[s].length \in Nat
    BY <2>1, SshPairsAssumption
  <2>3. v \in Nat
    BY <1>1, <2>1, StreamType
  <2> QED BY <1>1, <2>1, <2>2, <2>3
<1>3. UNCHANGED ssh_stream /\ ssh_sent' = [ssh_sent EXCEPT ![s] = to]
  BY <1>1 DEF ssh_update
<1>4. SideOK(s) /\ SshTyped
  BY DEF SshInv
<1>5. CASE newkeys[s]
  <2>1. UNCHANGED <<role, newkeys, kexinit, kex_msgs>> /\ buffer' = [buffer EXCEPT ![s] = to]
    BY <1>1, <1>5 DEF ssh_update
  <2>2. SshTyped'
    BY <1>2, <1>3, <1>4, <2>1 DEF SshTyped
  <2>3. ASSUME NEW t \in SshSides, t # s PROVE SideOK(t)'
    <3>1. SideOK(t)
      BY DEF SshInv
    <3>2. ssh_sent'[t] = ssh_sent[t] /\ buffer'[t] = buffer[t]
      BY <1>3, <1>4, <2>1, <2>3 DEF SshTyped
    <3> QED BY <1>3, <2>1, <3>1, <3>2, OtherSide
\* NEWKEYS is the last packet, all were seen.
  <2>4. Seen(s)' = Seen(s) /\ \A i : PacketOf(s, i)' = PacketOf(s, i)
    <3>1. PICK i \in Seen(s) : PacketOf(s, i).code = NEWKEYS
      BY <1>4, <1>5 DEF SideOK
    <3>2. PICK k : k = Len(ssh_stream[s].packets)
      OBVIOUS
    <3>3. k \in Nat /\ DOMAIN ssh_stream[s].packets = 1..k
      BY <1>2, <3>2, StreamType
    <3>4. i \in 1..k /\ PacketEnd(s, i) <= ssh_sent[s]
      BY <3>1, <3>3 DEF Seen
    <3>5. i = k
      BY <1>2, <3>1, <3>2, <3>3, <3>4, StreamType
    <3>6. ASSUME NEW j \in 1..k PROVE PacketEnd(s, j) <= ssh_sent[s] /\ PacketEnd(s, j) <= to
      <4>1. PacketEnd(s, j) \in Nat /\ PacketEnd(s, i) \in Nat /\ PacketOf(s, i).at \in Nat
            /\ PacketOf(s, i).at < PacketEnd(s, i)
        BY <1>2, <3>3, <3>4, StreamType
      <4>2. j = i \/ j < i
        BY <3>3, <3>5
      <4>3. j < i => PacketEnd(s, j) <= PacketOf(s, i).at
        BY <1>2, <3>3, <3>4, PacketsInOrder
      <4>4. PacketEnd(s, j) <= ssh_sent[s]
        BY <1>2, <3>4, <4>1, <4>2, <4>3
      <4> QED BY <1>2, <4>1, <4>4
    <3>7. \A j : PacketOf(s, j)' = PacketOf(s, j) /\ PacketEnd(s, j)' = PacketEnd(s, j)
      BY <1>3 DEF PacketOf, PacketEnd
    <3>8. ssh_sent'[s] = to
      BY <1>3, <1>4 DEF SshTyped
    <3>9. Seen(s) = 1..k
      BY <3>3, <3>6 DEF Seen
    <3>10. Seen(s)' = 1..k
      BY <1>3, <3>3, <3>6, <3>7, <3>8 DEF Seen
    <3> QED BY <3>7, <3>9, <3>10
  <2>5. SeenInits(s)' = SeenInits(s) /\ SeenKex(s)' = SeenKex(s)
    BY <2>4 DEF SeenInits, SeenKex
  <2>6. KexKept(s)'
    <3>1. PICK m : m = FirstMessages(<<>>, SeenKex(s))
      OBVIOUS
    <3>2. FirstMessages(<<>>, SeenKex(s)') = m
      BY <3>1, <2>5
    <3>3. newkeys'[s] = newkeys[s] /\ kex_msgs'[s] = kex_msgs[s] /\ KexKept(s)
      BY <1>4, <2>1 DEF SideOK
    <3> QED BY <3>1, <3>2, <3>3 DEF KexKept, Encrypted
  <2>7. kexinit'[s] = LowestOr(SeenInits(s)', 0)
    BY <1>4, <2>1, <2>5 DEF SideOK
  <2>8. role[s] # "unknown"
    BY <1>4, <1>5 DEF SideOK
  <2>9. SideOK(s)'
    BY <1>4, <1>5, <2>1, <2>4, <2>6, <2>7, <2>8 DEF SideOK
  <2> QED BY <2>2, <2>3, <2>9 DEF SshInv
<1>6. CASE ~newkeys[s] /\ role[s] = "unknown" /\ to < v
  <2>1. UNCHANGED <<buffer, role, newkeys, kexinit, kex_msgs>>
    BY <1>1, <1>6 DEF ssh_update
  <2>2. SshTyped'
    BY <1>2, <1>3, <1>4, <2>1 DEF SshTyped
  <2>3. ASSUME NEW t \in SshSides, t # s PROVE SideOK(t)'
    <3>1. SideOK(t)
      BY DEF SshInv
    <3>2. ssh_sent'[t] = ssh_sent[t]
      BY <1>3, <1>4, <2>3 DEF SshTyped
    <3> QED BY <1>3, <2>1, <3>1, <3>2, OtherSide
  <2>4. ssh_sent'[s] = to
    BY <1>3, <1>4 DEF SshTyped
  <2>5. \A i : PacketOf(s, i)' = PacketOf(s, i) /\ PacketEnd(s, i)' = PacketEnd(s, i)
    BY <1>3 DEF PacketOf, PacketEnd
  <2>6. \A i \in DOMAIN ssh_stream[s].packets : ~ (PacketEnd(s, i) <= to) /\ ~ (PacketEnd(s, i) <= ssh_sent[s])
    <3> SUFFICES ASSUME NEW i \in DOMAIN ssh_stream[s].packets
                 PROVE  ~ (PacketEnd(s, i) <= to) /\ ~ (PacketEnd(s, i) <= ssh_sent[s])
      OBVIOUS
    <3>1. /\ PacketEnd(s, i) \in Nat /\ PacketOf(s, i).at \in Nat
          /\ PacketOf(s, i).at < PacketEnd(s, i) /\ v <= PacketOf(s, i).at
      BY <1>1, <1>2, StreamType, PacketsInOrder
    <3> QED BY <1>2, <1>6, <3>1
  <2>7. Seen(s) = {} /\ Seen(s)' = {}
    BY <1>3, <2>4, <2>5, <2>6 DEF Seen
  <2>8. SeenInits(s)' = SeenInits(s) /\ SeenKex(s)' = SeenKex(s)
    BY <2>7 DEF SeenInits, SeenKex
  <2>9. KexKept(s)'
    <3>1. PICK m : m = FirstMessages(<<>>, SeenKex(s))
      OBVIOUS
    <3>2. FirstMessages(<<>>, SeenKex(s)') = m
      BY <3>1, <2>8
    <3>3. newkeys'[s] = newkeys[s] /\ kex_msgs'[s] = kex_msgs[s] /\ KexKept(s)
      BY <1>4, <2>1 DEF SideOK
    <3> QED BY <3>1, <3>2, <3>3 DEF KexKept, Encrypted
  <2>10. kexinit'[s] = LowestOr(SeenInits(s)', 0)
    BY <1>4, <2>1, <2>8 DEF SideOK
  <2>11. SideOK(s)'
    BY <1>1, <1>3, <1>4, <1>6, <2>1, <2>4, <2>7, <2>9, <2>10 DEF SideOK
  <2> QED BY <2>2, <2>3, <2>11 DEF SshInv
<1>7. CASE ~newkeys[s] /\ ~ (role[s] = "unknown" /\ to < v)
  <2>1. PICK from : from = IF role[s] = "unknown" THEN v ELSE buffer[s]
    OBVIOUS
  <2>2. role' = [role EXCEPT ![s] = "client"] /\ ssh_parse(s, from, to)
    BY <1>1, <1>7, <2>1 DEF ssh_update
  <2>3. Parsed(s, from, ssh_sent[s]) /\ from <= to
    <3>1. CASE role[s] = "unknown"
      <4>1. from = v /\ ssh_sent[s] < v
        BY <1>1, <1>4, <2>1, <3>1 DEF SideOK
      <4>2. \A i \in DOMAIN ssh_stream[s].packets : ~ (PacketOf(s, i).at < v) /\ ~ (PacketEnd(s, i) <= ssh_sent[s])
        <5> SUFFICES ASSUME NEW i \in DOMAIN ssh_stream[s].packets
                     PROVE  ~ (PacketOf(s, i).at < v) /\ ~ (PacketEnd(s, i) <= ssh_sent[s])
          OBVIOUS
        <5>1. /\ PacketEnd(s, i) \in Nat /\ PacketOf(s, i).at \in Nat
              /\ PacketOf(s, i).at < PacketEnd(s, i) /\ v <= PacketOf(s, i).at
          BY <1>1, <1>2, StreamType, PacketsInOrder
        <5> QED BY <1>2, <4>1, <5>1
      <4>3. Parsed(s, v, ssh_sent[s])
        BY <1>2, <4>2 DEF Parsed
      <4> QED BY <1>2, <1>7, <3>1, <4>1, <4>3
    <3>2. CASE role[s] # "unknown"
      <4>1. from = buffer[s] /\ Parsed(s, buffer[s], ssh_sent[s]) /\ buffer[s] <= ssh_sent[s]
        BY <1>4, <1>7, <2>1, <3>2 DEF SideOK
      <4>2. buffer[s] \in Nat
        BY <1>4 DEF SshTyped
      <4> QED BY <1>2, <4>1, <4>2
    <3> QED BY <3>1, <3>2
  <2>4. SideOK(s)'
    BY <1>2, <1>3, <1>4, <1>7, <2>2, <2>3, ParseKeeps
  <2>5. ASSUME NEW t \in SshSides, t # s PROVE SideOK(t)'
    <3>1. SideOK(t)
      BY DEF SshInv
    <3>2. /\ ssh_sent'[t] = ssh_sent[t] /\ buffer'[t] = buffer[t] /\ role'[t] = role[t]
          /\ newkeys'[t] = newkeys[t] /\ kexinit'[t] = kexinit[t] /\ kex_msgs'[t] = kex_msgs[t]
      BY <1>3, <1>4, <2>2, <2>5 DEF SshTyped, ssh_parse
    <3> QED BY <1>3, <3>1, <3>2, OtherSide
  <2>6. SshTyped'
    <3>1. PICK I, b : I = CompleteFrom(s, from, to) /\ b = KeepRest(s, I, from, to)
      OBVIOUS
    <3>2. b \in Nat
      BY <1>2, <2>3, <3>1, RestIsParsed DEF Parsed
    <3>3. buffer' = [buffer EXCEPT ![s] = b]
      BY <3>1 , <2>2 DEF ssh_parse
    <3>4. newkeys' \in [SshSides -> BOOLEAN] /\ DOMAIN kexinit' = SshSides /\ DOMAIN kex_msgs' = SshSides
      BY <1>4, <2>2 DEF ssh_parse, SshTyped
    <3> QED BY <1>2, <1>3, <1>4, <2>2, <3>2, <3>3, <3>4 DEF SshTyped
  <2> QED BY <2>4, <2>5, <2>6 DEF SshInv
<1> QED BY <1>5, <1>6, <1>7

LEMMA NothingKept == FirstMessages(<<>>, {}) = <<>>
<1>1. PICK x : x = <<>>
  OBVIOUS
<1>2. x \in Seq({}) /\ Len(x) = 0
  BY <1>1, EmptySeq
<1>3. x \o Ascending({}) = x
  BY <1>1, <1>2, AscendingEmpty, ConcatEmptySeq
<1>4. Kept(x) \in Seq({}) /\ Len(Kept(x)) = 0
  <2>1. /\ Kept(x) \in Seq({})
        /\ Len(Kept(x)) = IF Len(x) < MAX_SSH_KEX_MESSAGES THEN Len(x) ELSE MAX_SSH_KEX_MESSAGES
    BY <1>2, KeptIs
  <2> QED BY <1>2, <2>1, SshAssumption
<1>5. Kept(x) = <<>>
  BY <1>4, EmptySeq
<1> QED BY <1>1, <1>3, <1>5 DEF FirstMessages

LEMMA SshStarts == SshInit => SshInv
<1> SUFFICES ASSUME SshInit PROVE SshInv
  OBVIOUS
<1>1. SshTyped
  BY DEF SshInit, SshTyped
<1>2. ASSUME NEW s \in SshSides PROVE SideOK(s)
  <2>1. /\ ssh_sent[s] = 0 /\ role[s] = "unknown" /\ newkeys[s] = FALSE /\ kexinit[s] = 0 /\ kex_msgs[s] = <<>>
    BY DEF SshInit
  <2>2. 0 < ssh_stream[s].version.to
    BY <1>1, StreamType DEF SshTyped
  <2>3. Seen(s) = {}
    <3>1. \A i \in DOMAIN ssh_stream[s].packets : ~ (PacketEnd(s, i) <= 0)
      <4> SUFFICES ASSUME NEW i \in DOMAIN ssh_stream[s].packets PROVE ~ (PacketEnd(s, i) <= 0)
        OBVIOUS
      <4>1. PacketEnd(s, i) \in Nat /\ PacketOf(s, i).at \in Nat /\ PacketOf(s, i).at < PacketEnd(s, i)
        BY <1>1, StreamType DEF SshTyped
      <4> QED BY <4>1
    <3> QED BY <2>1, <3>1 DEF Seen
  <2>4. SeenInits(s) = {} /\ SeenKex(s) = {}
    BY <2>3 DEF SeenInits, SeenKex
  <2>5. LowestOr({}, 0) = 0
    BY DEF LowestOr
  <2>6. FirstMessages(<<>>, {}) = <<>>
    BY NothingKept
  <2>7. KexKept(s)
    BY <2>1, <2>4, <2>6 DEF KexKept
  <2> QED BY <2>1, <2>2, <2>3, <2>4, <2>5, <2>7 DEF SideOK
<1> QED BY <1>1, <1>2 DEF SshInv

LEMMA PrintKeeps ==
  ASSUME SshInv, UNCHANGED <<ssh_stream, ssh_sent, buffer, role, newkeys, kexinit, kex_msgs>>
  PROVE  SshInv'
<1>1. SshTyped'
  BY DEF SshInv, SshTyped
<1>2. ASSUME NEW s \in SshSides PROVE SideOK(s)'
  <2>1. SideOK(s)
    BY DEF SshInv
  <2> QED BY <2>1, OtherSide
<1> QED BY <1>1, <1>2 DEF SshInv

LEMMA SshStep == SshInv /\ [SshNext]_sshVars => SshInv'
<1> SUFFICES ASSUME SshInv, [SshNext]_sshVars PROVE SshInv'
  OBVIOUS
<1>1. ASSUME NEW s \in SshSides, NEW n \in 1 .. ssh_stream[s].length, ssh_update(s, n) PROVE SshInv'
  BY <1>1, UpdateKeeps
<1>2. CASE ssh_print_json
  BY <1>2, PrintKeeps DEF ssh_print_json
<1>3. CASE UNCHANGED sshVars
  BY <1>3, PrintKeeps DEF sshVars
<1> QED BY <1>1, <1>2, <1>3 DEF SshNext

LEMMA SshInvReassembled == SshInv => SshReassembled
<1> SUFFICES ASSUME SshInv, NEW s \in SshSides
             PROVE  /\ kexinit[s] = LowestOr(SeenInits(s), 0)
                    /\ newkeys[s] <=> \E i \in Seen(s) : PacketOf(s, i).code = NEWKEYS
                    /\ \E n \in 0 .. MAX_SSH_KEX_MESSAGES :
                         kex_msgs[s] = FirstMessages(<<>>, SeenKex(s)) \o Encrypted(n)
  BY DEF SshReassembled
<1>1. SideOK(s) /\ ssh_stream \in SshPairs
  BY DEF SshInv, SshTyped
<1>2. PICK n \in Nat : SeenKex(s) \in SUBSET (1..n)
  BY <1>1, SeenType, SeenByCode
<1>3. PICK f : f = FirstMessages(<<>>, SeenKex(s))
  OBVIOUS
<1>4. f \o Encrypted(0) = f
  BY <1>2, <1>3, FirstMessagesSeq
<1>5. \E k \in 0 .. MAX_SSH_KEX_MESSAGES : kex_msgs[s] = f \o Encrypted(k)
  <2>1. KexKept(s) /\ 0 \in 0 .. MAX_SSH_KEX_MESSAGES
    BY <1>1, SshAssumption DEF SideOK
  <2>2. CASE newkeys[s]
    BY <1>3, <2>1, <2>2 DEF KexKept
  <2>3. CASE ~newkeys[s]
    <3>1. kex_msgs[s] = f \o Encrypted(0)
      BY <1>3, <1>4, <2>1, <2>3 DEF KexKept
    <3> QED BY <2>1, <3>1
  <2> QED BY <2>2, <2>3
<1> QED BY <1>1, <1>3, <1>5 DEF SideOK

SshSpec == SshInit /\ [][SshNext]_sshVars

\* ssh_update finds the same in a stream however it is cut into segments and however the segments
\* of the two sides are interleaved: the first KEXINIT, the first messages of the key exchange, as
\* many as there is room for, and NEWKEYS.
THEOREM StreamsReassembled == SshSpec => []SshReassembled
<1>1. SshInit => SshInv
  BY SshStarts
<1>2. SshInv /\ [SshNext]_sshVars => SshInv'
  BY SshStep
<1>3. SshInv => SshReassembled
  BY SshInvReassembled
<1> QED BY <1>1, <1>2, <1>3, PTL DEF SshSpec

-----------------------------------------------------------------------------

(***************************************************************************)
(* The key exchange that is printed.                                       *)
(***************************************************************************)

\* Once a side has sent NEWKEYS all its messages were seen, so those that were
\* kept come before any encrypted bytes.
LEMMA KeptIsPacket ==
  ASSUME SshInv, NEW s \in SshSides, NEW m \in {1, 2},
         Len(kex_msgs[s]) \in Nat, m <= Len(kex_msgs[s]),
         LET p == ssh_stream[s].packets IN
         (\E i \in DOMAIN p : p[i].code = NEWKEYS) =>
           m <= Cardinality({i \in DOMAIN p : p[i].code \in KexCodes})
  PROVE  kex_msgs[s][m] # 0
<1>1. SideOK(s) /\ ssh_stream \in SshPairs
  BY DEF SshInv, SshTyped
<1>2. PICK n \in Nat : n = Len(ssh_stream[s].packets) /\ SeenKex(s) \in SUBSET (1..n)
                       /\ DOMAIN ssh_stream[s].packets = 1..n
  BY <1>1, SeenType, SeenByCode, StreamType
<1>3. PICK f : f = FirstMessages(<<>>, SeenKex(s))
  OBVIOUS
<1>4. \A k \in 1 .. Len(f) : f[k] \in SeenKex(s)
  BY <1>2, <1>3, KeptAreThere
<1>5. Len(f) \in Nat /\ \A k \in 1 .. Len(f) : f[k] # 0
  BY <1>2, <1>3, <1>4, FirstMessagesSeq, SshAssumption
<1>6. CASE newkeys[s]
  <2>1. PICK i \in Seen(s) : PacketOf(s, i).code = NEWKEYS
    BY <1>1, <1>6 DEF SideOK
  <2>2. i \in 1..n /\ PacketEnd(s, i) <= ssh_sent[s] /\ i = n
    BY <1>1, <1>2, <2>1, StreamType DEF Seen
  <2>3. ASSUME NEW j \in 1..n PROVE PacketEnd(s, j) <= ssh_sent[s]
    <3>1. /\ PacketEnd(s, j) \in Nat /\ PacketEnd(s, i) \in Nat /\ PacketOf(s, i).at \in Nat
          /\ PacketOf(s, i).at < PacketEnd(s, i) /\ ssh_sent[s] \in Nat
      BY <1>1, <1>2, <2>2, StreamType DEF SshInv, SshTyped
    <3>2. j = i \/ j < i
      BY <1>2, <2>2
    <3>3. j < i => PacketEnd(s, j) <= PacketOf(s, i).at
      BY <1>1, <1>2, <2>2, PacketsInOrder
    <3> QED BY <2>2, <3>1, <3>2, <3>3
  <2>4. SeenKex(s) = {j \in 1..n : ssh_stream[s].packets[j].code \in KexCodes}
    BY <1>2, <2>3 DEF SeenKex, Seen, PacketOf
  <2>5. m <= Cardinality(SeenKex(s))
    BY <1>2, <2>1, <2>2, <2>4 DEF PacketOf
  <2>6. m <= Len(f) /\ m \in 1 .. Len(f)
    <3>1. Len(f) = IF Cardinality(SeenKex(s)) < MAX_SSH_KEX_MESSAGES THEN Cardinality(SeenKex(s))
                   ELSE MAX_SSH_KEX_MESSAGES
      BY <1>2, <1>3, KeptAreThere
    <3>2. PICK c, M : c = Cardinality(SeenKex(s)) /\ M = MAX_SSH_KEX_MESSAGES
      OBVIOUS
    <3>3. c \in Nat /\ M \in Nat /\ 2 <= M /\ m <= c
      BY <1>2, <2>5, <3>2, SubsetsFinite, SshAssumption
    <3> QED BY <3>1, <3>2, <3>3
  <2>7. PICK k \in 0 .. MAX_SSH_KEX_MESSAGES : kex_msgs[s] = f \o Encrypted(k)
    BY <1>1, <1>3, <1>6 DEF SideOK, KexKept
  <2>8. PICK S : f \in Seq(S)
    BY <1>2, <1>3, FirstMessagesSeq
  <2>9. PICK T, e : T = S \cup {0} /\ e = Encrypted(k)
    OBVIOUS
  <2>10. k \in Nat
    BY <2>7, SshAssumption
  <2>11. f \in Seq(T) /\ e \in Seq(T) /\ Len(e) = k
    <3>1. e \in Seq(T) /\ Len(e) = k
      BY <2>9, <2>10 DEF Encrypted
    <3> QED BY <2>8, <2>9, <3>1
  <2>12. \A l \in 1 .. Len(f) + Len(e) : (f \o e)[l] = IF l <= Len(f) THEN f[l] ELSE e[l - Len(f)]
    BY <2>11, ConcatProperties
  <2>13. m \in 1 .. Len(f) + Len(e)
    BY <1>5, <2>6, <2>10, <2>11
  <2>14. kex_msgs[s][m] = f[m]
    BY <2>6, <2>7, <2>9, <2>12, <2>13
  <2> QED BY <1>5, <2>6, <2>14
<1>7. CASE ~newkeys[s]
  <2>1. kex_msgs[s] = f
    BY <1>1, <1>3, <1>7 DEF SideOK, KexKept
  <2>2. m \in 1 .. Len(f)
    BY <2>1
  <2> QED BY <1>5, <2>1, <2>2
<1> QED BY <1>6, <1>7

LEMMA KexLength ==
  ASSUME SshInv, NEW s \in SshSides
  PROVE  Len(kex_msgs[s]) \in Nat
<1>1. SshReassembled /\ ssh_stream \in SshPairs
  BY SshInvReassembled DEF SshInv, SshTyped
<1>2. PICK f, k : /\ k \in 0 .. MAX_SSH_KEX_MESSAGES /\ kex_msgs[s] = f \o Encrypted(k)
                  /\ f = FirstMessages(<<>>, SeenKex(s))
  BY <1>1 DEF SshReassembled
<1>3. PICK n \in Nat : SeenKex(s) \in SUBSET (1..n)
  BY <1>1, SeenType, SeenByCode
<1>4. PICK S : f \in Seq(S)
  BY <1>2, <1>3, FirstMessagesSeq
<1>5. PICK T, e : T = S \cup {0} /\ e = Encrypted(k)
  OBVIOUS
<1>6. k \in Nat
  BY <1>2, SshAssumption
<1>7. e \in Seq(T)
  BY <1>5, <1>6 DEF Encrypted
<1>8. f \in Seq(T)
  BY <1>4, <1>5
<1>9. f \o e \in Seq(T)
  BY <1>7, <1>8, ConcatProperties
<1> QED BY <1>2, <1>5, <1>9

LEMMA ExpectedFirstOrSecond ==
  ASSUME NEW method, NEW e \in Expected(method)
  PROVE  e[1] \in SshSides /\ e[2] \in {1, 2}
<1>1. CASE method = "gex"
  BY <1>1 DEF Expected, SshSides
<1>2. CASE method = "dh"
  BY <1>2 DEF Expected, SshSides
<1>3. CASE method = "rsa"
  BY <1>3 DEF Expected, SshSides
<1>4. CASE method \notin {"gex", "dh", "rsa"}
  BY <1>4 DEF Expected
<1> QED BY <1>1, <1>2, <1>3, <1>4

LEMMA NamesType ==
  ASSUME SshInv, NEW s \in SshSides
  PROVE  Names(s) \in Seq(DOMAIN Method)
<1>1. CASE kexinit[s] = 0
  BY <1>1 DEF Names
<1>2. CASE kexinit[s] # 0
  <2>1. SideOK(s) /\ ssh_stream \in SshPairs
    BY DEF SshInv, SshTyped
  <2>2. PICK n \in Nat : SeenInits(s) \in SUBSET (1..n) /\ DOMAIN ssh_stream[s].packets = 1..n
    BY <2>1, SeenType, SeenByCode, StreamType
  <2>3. kexinit[s] \in SeenInits(s)
    BY <1>2, <2>1, <2>2, LowestIs DEF SideOK
  <2>4. PacketOf(s, kexinit[s]) \in SshPackets
    BY <2>1, <2>2, <2>3, StreamType
  <2> QED BY <1>2, <2>4 DEF Names, SshPackets
<1> QED BY <1>1, <1>2

\* The lists as seen by the search: the least n that is found, and the least
\* that is common.
LEMMA SearchFinds ==
  ASSUME SshInv, NEW mine, NEW theirs, mine = Names("cli"), theirs = Names("srv"),
         NEW F, F = {n \in DOMAIN mine : mine[n] \in CopyLeft(n)},
         NEW C, C = {n \in DOMAIN mine : mine[n] \in AllNames(theirs)}
  PROVE  /\ F \in SUBSET C
         /\ F \in SUBSET (1 .. Len(mine)) /\ C \in SUBSET (1 .. Len(mine)) /\ Len(mine) \in Nat
         /\ \A n \in C : n = 1 \/ mine[n] \in FirstName(theirs) => n \in F
<1>1. mine \in Seq(DOMAIN Method) /\ theirs \in Seq(DOMAIN Method)
  BY NamesType DEF SshSides
<1>2. DOMAIN mine = 1 .. Len(mine) /\ Len(mine) \in Nat /\ DOMAIN theirs = 1 .. Len(theirs) /\ Len(theirs) \in Nat
  BY <1>1
<1>3. \A n : CopyLeft(n) \in SUBSET AllNames(theirs)
  BY DEF CopyLeft, AllNames
<1>4. CopyLeft(1) = AllNames(theirs)
  BY DEF CopyLeft, AllNames
<1>5. \A n : FirstName(theirs) \in SUBSET CopyLeft(n)
  BY DEF FirstName, CopyLeft
<1> QED BY <1>2, <1>3, <1>4, <1>5

LEMMA AlgorithmNamed ==
  ASSUME SshInv
  PROVE  /\ ssh_get_kex_algo # NoAlgorithm =>
              ssh_get_kex_algo \in AllNames(Names("cli")) \cap AllNames(Names("srv"))
         /\ Agreed \in FirstName(Names("cli")) \cup FirstName(Names("srv")) => ssh_get_kex_algo = Agreed
<1>1. PICK mine, theirs : mine = Names("cli") /\ theirs = Names("srv")
  OBVIOUS
<1>2. PICK F, C : /\ F = {n \in DOMAIN mine : mine[n] \in CopyLeft(n)}
                  /\ C = {n \in DOMAIN mine : mine[n] \in AllNames(theirs)}
  OBVIOUS
<1>3. /\ F \in SUBSET C
      /\ F \in SUBSET (1 .. Len(mine)) /\ C \in SUBSET (1 .. Len(mine)) /\ Len(mine) \in Nat
      /\ \A n \in C : n = 1 \/ mine[n] \in FirstName(theirs) => n \in F
  BY <1>1, <1>2, SearchFinds
<1>4. ssh_get_kex_algo = IF F = {} THEN NoAlgorithm ELSE mine[LowestOr(F, 0)]
  BY <1>1, <1>2 DEF ssh_get_kex_algo
<1>5. Agreed = IF C = {} THEN NoAlgorithm ELSE mine[LowestOr(C, 0)]
  BY <1>1, <1>2 DEF Agreed, FirstCommon
<1>6. ASSUME ssh_get_kex_algo # NoAlgorithm
      PROVE  ssh_get_kex_algo \in AllNames(mine) \cap AllNames(theirs)
  <2>1. F # {} /\ ssh_get_kex_algo = mine[LowestOr(F, 0)]
    BY <1>4, <1>6
  <2>2. LowestOr(F, 0) \in C
    BY <1>3, <2>1, LowestIs
  <2> QED BY <1>2, <2>1, <2>2 DEF AllNames
<1>7. ASSUME Agreed \in FirstName(mine) \cup FirstName(theirs)
      PROVE  ssh_get_kex_algo = Agreed
  <2>1. CASE C = {}
    BY <1>3, <1>4, <1>5, <2>1
  <2>2. CASE C # {}
    <3>1. PICK c : c = LowestOr(C, 0)
      OBVIOUS
    <3>2. c \in C /\ \A j \in C : c <= j
      BY <1>3, <2>2, <3>1, LowestIs
    <3>3. Agreed = mine[c]
      BY <1>5, <2>2, <3>1
    <3>4. c \in F
      <4>1. CASE mine[c] \in FirstName(theirs)
        BY <1>3, <3>2, <4>1
      <4>2. CASE mine[c] \in FirstName(mine)
        <5>1. 1 \in DOMAIN mine /\ mine[c] = mine[1]
          BY <4>2 DEF FirstName
        <5>2. 1 \in C
          BY <1>2, <3>2, <5>1
        <5>3. c = 1
          BY <1>3, <3>2, <5>2
        <5> QED BY <1>3, <3>2, <5>3
      <4> QED BY <1>7, <3>3, <4>1, <4>2
    <3>5. PICK l : l = LowestOr(F, 0)
      OBVIOUS
    <3>6. l \in F /\ \A j \in F : l <= j
      BY <1>3, <3>4, <3>5, LowestIs
    <3>7. l = c
      <4>1. l \in 1 .. Len(mine) /\ c \in 1 .. Len(mine) /\ l <= c /\ c <= l
        BY <1>3, <3>2, <3>4, <3>6
      <4> QED BY <1>3, <4>1
    <3> QED BY <1>4, <3>3, <3>4, <3>5, <3>7
  <2> QED BY <2>1, <2>2
<1> QED BY <1>1, <1>6, <1>7

LEMMA PrintGenuine ==
  ASSUME SshInv, ssh_print_json
  PROVE  SshKexGenuine'
<1>1. /\ Names("cli")' = Names("cli") /\ Names("srv")' = Names("srv") /\ Agreed' = Agreed
      /\ \A method : SentInFull(method)' <=> SentInFull(method)
  BY DEF ssh_print_json, Names, PacketOf, Agreed, SentInFull
<1>2. PICK algo, method : algo = ssh_get_kex_algo /\ method = MethodOf(algo)
  OBVIOUS
<1>3. kex_algo' = algo
  BY <1>2 DEF ssh_print_json
<1>4. PICK alike : decoded_kex' = ssh_process(algo, alike)
  BY <1>2 DEF ssh_print_json
<1>5. ASSUME SentInFull(method), NEW d \in decoded_kex' PROVE d[2] # 0
  <2>1. PICK e \in Expected(method) : /\ e[2] <= Len(kex_msgs[e[1]])
                                      /\ d = <<e[1], kex_msgs[e[1]][e[2]]>>
    BY <1>2, <1>4, <1>5 DEF ssh_process
  <2>2. e[1] \in SshSides /\ e[2] \in {1, 2}
    BY ExpectedFirstOrSecond
  <2>3. Len(kex_msgs[e[1]]) \in Nat
    BY <2>2, KexLength
  <2>4. LET p == ssh_stream[e[1]].packets IN
        (\E i \in DOMAIN p : p[i].code = NEWKEYS) =>
          e[2] <= Cardinality({i \in DOMAIN p : p[i].code \in KexCodes})
    BY <1>5 DEF SentInFull
  <2>5. kex_msgs[e[1]][e[2]] # 0
    BY <2>1, <2>2, <2>3, <2>4, KeptIsPacket
  <2> QED BY <2>1, <2>5
<1>6. /\ algo # NoAlgorithm => algo \in AllNames(Names("cli")) \cap AllNames(Names("srv"))
      /\ Agreed \in FirstName(Names("cli")) \cup FirstName(Names("srv")) => algo = Agreed
  BY <1>2, AlgorithmNamed
<1> QED BY <1>1, <1>2, <1>3, <1>5, <1>6 DEF SshKexGenuine

\* The algorithm that ssh_print_json prints is named by both sides, and is the one they agree on if
\* that is the first name of either; if it is the one they agree on, and each side sends its messages
\* before NEWKEYS, no encrypted bytes are decoded for it.
THEOREM KexIsGenuine == SshSpec => []SshKexGenuine
<1>1. SshInit => SshInv /\ SshKexGenuine
  BY SshStarts DEF SshInit, SshKexGenuine
<1>2. SshInv /\ SshKexGenuine /\ [SshNext]_sshVars => (SshInv /\ SshKexGenuine)'
  <2> SUFFICES ASSUME SshInv, SshKexGenuine, [SshNext]_sshVars PROVE SshKexGenuine'
    BY SshStep
  <2>1. CASE \E s \in SshSides : \E n \in 1 .. ssh_stream[s].length : ssh_update(s, n)
    <3>1. kex_algo' = NotPrinted
      BY <2>1 DEF ssh_update
    <3> QED BY <3>1 DEF SshKexGenuine
  <2>2. CASE ssh_print_json
    BY <2>2, PrintGenuine
  <2>3. CASE UNCHANGED sshVars
    <3>1. /\ Names("cli")' = Names("cli") /\ Names("srv")' = Names("srv") /\ Agreed' = Agreed
          /\ \A method : SentInFull(method)' <=> SentInFull(method)
      BY <2>3 DEF sshVars, Names, PacketOf, Agreed, SentInFull
    <3> QED BY <2>3, <3>1 DEF sshVars, SshKexGenuine
  <2> QED BY <2>1, <2>2, <2>3 DEF SshNext
<1> QED BY <1>1, <1>2, PTL DEF SshSpec

-----------------------------------------------------------------------------

(***************************************************************************)
(* The list of TLS records and handshake messages.                         *)
(*                                                                         *)
(* tls_update knows where the next header is, from the lengths of the      *)
(* headers it has read, and which bytes it has kept, from what the         *)
(* segments looked like.  The invariant relates both to the stream: the    *)
(* next header is that of the record after those listed, and up to the     *)
(* first record of another type the bytes kept are all that were seen.     *)
(***************************************************************************)

\* The position of the header of record i, or the end of the stream.
HeaderAt(i) == IF i <= Len(tls_stream) THEN tls_stream[i].at ELSE TlsLength

LEMMA TlsStreamType ==
  ASSUME tls_stream \in TlsStreams, NEW n, n = Len(tls_stream)
  PROVE  /\ n \in Nat \ {0} /\ DOMAIN tls_stream = 1..n
         /\ \A i \in 1..n : /\ tls_stream[i] \in Records
                            /\ tls_stream[i].at \in Nat /\ tls_stream[i].len \in Nat
                            /\ tls_stream[i].type \in {"handshake", "other"}
                            /\ HeaderAt(i) = tls_stream[i].at
                            /\ HeaderAt(i + 1) = EndOf(tls_stream[i])
                            /\ EndOf(tls_stream[i]) = tls_stream[i].at + TLS_HDR_LEN + tls_stream[i].len
         /\ HeaderAt(1) = 0 /\ HeaderAt(n + 1) = TlsLength /\ TlsLength \in Nat
<1>1. /\ tls_stream \in Seq(Records) /\ tls_stream # <<>> /\ tls_stream[1].at = 0
      /\ \A i \in DOMAIN tls_stream : i > 1 => tls_stream[i].at = EndOf(tls_stream[i - 1])
  BY TlsStreamsAssumption
<1>2. n \in Nat \ {0} /\ DOMAIN tls_stream = 1..n
  BY <1>1, EmptySeq
<1>3. ASSUME NEW i \in 1..n
      PROVE  /\ tls_stream[i] \in Records
             /\ tls_stream[i].at \in Nat /\ tls_stream[i].len \in Nat
             /\ tls_stream[i].type \in {"handshake", "other"}
  <2>1. tls_stream[i] \in Records
    BY <1>1, <1>2
  <2> QED BY <2>1 DEF Records
<1>4. TlsLength = EndOf(tls_stream[n]) /\ TlsLength \in Nat
  BY <1>2, <1>3, TlsAssumption DEF TlsLength, EndOf
<1>5. ASSUME NEW i \in 1..n
      PROVE  HeaderAt(i) = tls_stream[i].at /\ HeaderAt(i + 1) = EndOf(tls_stream[i])
  <2>1. CASE i = n
    BY <1>2, <1>4, <2>1 DEF HeaderAt
  <2>2. CASE i # n
    <3>1. i + 1 \in 1..n /\ i + 1 > 1 /\ (i + 1) - 1 = i
      BY <1>2, <2>2
    <3>2. tls_stream[i + 1].at = EndOf(tls_stream[i])
      BY <1>1, <1>2, <3>1
    <3> QED BY <1>2, <3>1, <3>2 DEF HeaderAt
  <2> QED BY <2>1, <2>2
<1>6. HeaderAt(1) = 0 /\ HeaderAt(n + 1) = TlsLength
  BY <1>1, <1>2 DEF HeaderAt
<1> QED BY <1>2, <1>3, <1>4, <1>5, <1>6 DEF EndOf

LEMMA HeadersInOrder ==
  ASSUME tls_stream \in TlsStreams, NEW n, n = Len(tls_stream)
  PROVE  /\ \A i \in 1 .. n + 1 : HeaderAt(i) \in Nat
         /\ \A i, j \in 1 .. n + 1 : i < j => HeaderAt(i) + TLS_HDR_LEN <= HeaderAt(j)
<1>1. /\ n \in Nat \ {0} /\ HeaderAt(n + 1) \in Nat
      /\ \A i \in 1..n : HeaderAt(i) \in Nat /\ HeaderAt(i) + TLS_HDR_LEN <= HeaderAt(i + 1)
  <2>1. n \in Nat \ {0} /\ HeaderAt(n + 1) \in Nat
    BY TlsStreamType
  <2>2. ASSUME NEW i \in 1..n
        PROVE  HeaderAt(i) \in Nat /\ HeaderAt(i) + TLS_HDR_LEN <= HeaderAt(i + 1)
    <3>1. /\ tls_stream[i].at \in Nat /\ tls_stream[i].len \in Nat
          /\ HeaderAt(i) = tls_stream[i].at
          /\ HeaderAt(i + 1) = tls_stream[i].at + TLS_HDR_LEN + tls_stream[i].len
      BY TlsStreamType
    <3> QED BY <3>1, TlsAssumption
  <2> QED BY <2>1, <2>2
<1>2. \A i \in 1 .. n + 1 : HeaderAt(i) \in Nat
  BY <1>1
<1> DEFINE S == {k \in 0 .. n + 1 : \A i \in 1 .. n + 1 : i < k => HeaderAt(i) + TLS_HDR_LEN <= HeaderAt(k)}
<1>3. 0 \in S
  BY <1>1
<1>4. ASSUME NEW k \in 0 .. (n + 1) - 1, k \in S PROVE k + 1 \in S
  <2>1. k + 1 \in 0 .. n + 1
    BY <1>1
  <2>2. ASSUME NEW i \in 1 .. n + 1, i < k + 1 PROVE HeaderAt(i) + TLS_HDR_LEN <= HeaderAt(k + 1)
    <3>1. k \in 1..n /\ HeaderAt(k) + TLS_HDR_LEN <= HeaderAt(k + 1)
      BY <1>1, <2>2
    <3>2. CASE i = k
      BY <3>1, <3>2
    <3>3. CASE i # k
      <4>1. HeaderAt(i) + TLS_HDR_LEN <= HeaderAt(k)
        BY <1>4, <2>2, <3>1, <3>3
      <4>2. HeaderAt(i) \in Nat /\ HeaderAt(k) \in Nat /\ HeaderAt(k + 1) \in Nat
        BY <1>2, <2>1, <3>1
      <4> QED BY <3>1, <4>1, <4>2, TlsAssumption
    <3> QED BY <3>2, <3>3
  <2> QED BY <2>1, <2>2
<1> HIDE DEF S
<1>5. \A k \in 0 .. n + 1 : k \in S
  <2>1. n + 1 \in Nat
    BY <1>1
  <2> QED BY <1>3, <1>4, <2>1, UpTo
<1>6. ASSUME NEW i \in 1 .. n + 1, NEW j \in 1 .. n + 1, i < j
      PROVE  HeaderAt(i) + TLS_HDR_LEN <= HeaderAt(j)
  <2>1. j \in 0 .. n + 1
    OBVIOUS
  <2>2. j \in S
    BY <1>5, <2>1
  <2> QED BY <1>6, <2>2 DEF S
<1> QED BY <1>2, <1>6

\* A position is the header of one record at most.
LEMMA RecordAtIs ==
  ASSUME tls_stream \in TlsStreams, NEW n, n = Len(tls_stream)
  PROVE  /\ \A i \in 1..n : RecordAt(HeaderAt(i)) = i
         /\ \A p : RecordAt(p) # 0 => RecordAt(p) \in 1..n /\ HeaderAt(RecordAt(p)) = p
<1>1. /\ n \in Nat \ {0} /\ DOMAIN tls_stream = 1..n
      /\ \A i \in 1..n : HeaderAt(i) = tls_stream[i].at
  BY TlsStreamType
<1>2. /\ \A i \in 1 .. n : HeaderAt(i) \in Nat
      /\ \A i, j \in 1 .. n : i < j => HeaderAt(i) + TLS_HDR_LEN <= HeaderAt(j)
  BY <1>1, HeadersInOrder
<1>3. \A i, j \in 1 .. n : HeaderAt(i) = HeaderAt(j) => i = j
  <2> SUFFICES ASSUME NEW i \in 1..n, NEW j \in 1..n, HeaderAt(i) = HeaderAt(j), i < j PROVE FALSE
    BY <1>1
  <2> QED BY <1>2, TlsAssumption
<1>4. \A p : RecordAt(p) # 0 => RecordAt(p) \in 1..n /\ HeaderAt(RecordAt(p)) = p
  BY <1>1 DEF RecordAt
<1>5. ASSUME NEW i \in 1..n PROVE RecordAt(HeaderAt(i)) = i
  <2>1. RecordAt(HeaderAt(i)) = CHOOSE k \in 1..n : tls_stream[k].at = HeaderAt(i)
    BY <1>1 DEF RecordAt
  <2>2. RecordAt(HeaderAt(i)) \in 1..n /\ tls_stream[RecordAt(HeaderAt(i))].at = HeaderAt(i)
    BY <1>1, <2>1
  <2> QED BY <1>1, <1>3, <2>2
<1> QED BY <1>4, <1>5

-----------------------------------------------------------------------------

\* The next header that tls_update will look at.
NextHeader == IF tls_busy THEN tls_data ELSE tls_sent + seg_offset

Placed ==
  /\ tls_op \in 0 .. Len(tls_stream)
  /\ tls_sent \in Nat /\ tls_data \in Nat /\ seg_offset \in Nat
  /\ tls_busy \in BOOLEAN /\ done_handshake \in BOOLEAN
  /\ tls_sent <= TlsLength /\ NextHeader = HeaderAt(tls_op + 1)
  /\ \A i \in 1 .. tls_op : HeaderAt(i) < tls_sent
  /\ tls_busy => tls_data < tls_sent /\ seg_offset = 0 /\ ~AwkwardCut(tls_sent)

StatsInOrder ==
  /\ tls_stats \in Seq(Nat)
  /\ Len(tls_stats) = IF tls_op < MAX_NUM_RCD_LEN THEN tls_op ELSE MAX_NUM_RCD_LEN
  /\ \A k \in 1 .. Len(tls_stats) : tls_stats[k] = k

StartsHandshake == tls_stream[1].type = "handshake"

\* What is kept of a stream that starts with a handshake.
HandshakeKept ==
  StartsHandshake /\ ~done_handshake =>
    /\ \A k \in 1 .. tls_op : tls_stream[k].type = "handshake"
    /\ tls_sent = 0 => handshake_buffer = <<>> /\ handshake_length = 0
    /\ tls_sent # 0 =>
         \E to \in Nat : /\ handshake_buffer = << <<0, to>> >> /\ handshake_length = to
                         /\ \/ to = tls_sent
                            \/ tls_busy /\ to = tls_data /\ tls_stream[tls_op + 1].type = "other"

HandshakeListed ==
  /\ StartsHandshake => \A h \in handshake_types : h.slot = h.record
  /\ IF done_handshake
     THEN \A i \in HandshakeRecords : \A j \in DOMAIN tls_stream[i].messages :
           LET m == tls_stream[i].messages[j] IN
           \/ [slot |-> i, record |-> i, message |-> j] \in handshake_types
           \/ m.len = 0 /\ i + 1 \notin HandshakeRecords /\ j = Len(tls_stream[i].messages)
           \/ j > MAX_TLS_HANDSHAKES \/ i > MAX_NUM_RCD_LEN
           \/ ParserLeft(i, j)
     ELSE handshake_types = {}

TlsInv ==
  /\ tls_stream \in TlsStreams /\ tls_awkward \in BOOLEAN
  /\ ~tls_awkward => Placed /\ StatsInOrder /\ HandshakeKept /\ HandshakeListed

LEMMA TlsStarts == TlsInit => TlsInv
<1> SUFFICES ASSUME TlsInit PROVE TlsInv
  OBVIOUS
<1>1. tls_stream \in TlsStreams
  BY DEF TlsInit
<1>2. PICK n : n = Len(tls_stream)
  OBVIOUS
<1>3. n \in Nat \ {0} /\ TlsLength \in Nat /\ HeaderAt(1) = 0
  BY <1>1, <1>2, TlsStreamType
<1>4. Placed
  <2>1. /\ tls_sent = 0 /\ tls_data = 0 /\ tls_busy = FALSE /\ seg_offset = 0 /\ tls_op = 0
        /\ done_handshake = FALSE
    BY DEF TlsInit
  <2>2. NextHeader = HeaderAt(tls_op + 1)
    <3>1. NextHeader = 0
      BY <2>1 DEF NextHeader
    <3>2. tls_op + 1 = 1
      BY <2>1
    <3> QED BY <1>3, <3>1, <3>2
  <2>3. tls_op \in 0 .. Len(tls_stream) /\ tls_sent <= TlsLength /\ 1 .. tls_op = {}
    BY <1>2, <1>3, <2>1
  <2> QED BY <2>1, <2>2, <2>3 DEF Placed
<1>5. StatsInOrder
  BY TlsAssumption DEF TlsInit, StatsInOrder
<1>6. HandshakeKept /\ HandshakeListed
  BY DEF TlsInit, HandshakeKept, HandshakeListed
<1> QED BY <1>1, <1>4, <1>5, <1>6 DEF TlsInv, TlsInit

\* A segment.
LEMMA TlsUpdateKeeps ==
  ASSUME TlsInv, NEW n \in 1 .. TlsLength, NEW looks \in BOOLEAN, tls_update(n, looks)
  PROVE  TlsInv'
<1>1. UNCHANGED <<tls_stream, done_handshake, tls_op, tls_stats, handshake_types>>
  BY DEF tls_update
<1>2. tls_stream \in TlsStreams /\ TlsLength \in Nat /\ n \in Nat /\ n # 0
  <2>1. tls_stream \in TlsStreams
    BY DEF TlsInv
  <2>2. PICK m : m = Len(tls_stream)
    OBVIOUS
  <2>3. TlsLength \in Nat
    BY <2>1, <2>2, TlsStreamType
  <2> QED BY <2>1, <2>3
<1>3. tls_awkward' \in BOOLEAN
  BY DEF tls_update, TlsInv
<1> SUFFICES ASSUME ~tls_awkward'
             PROVE  Placed' /\ StatsInOrder' /\ HandshakeKept' /\ HandshakeListed'
  BY <1>1, <1>2, <1>3 DEF TlsInv
<1>4. /\ ~tls_awkward /\ ~AwkwardCut(tls_sent + n) /\ ~Mistaken(looks)
      /\ Placed /\ StatsInOrder /\ HandshakeKept /\ HandshakeListed
  BY DEF tls_update, TlsInv
<1>5. /\ ~tls_busy /\ tls_sent' = tls_sent + n /\ tls_sent + n <= TlsLength
      /\ looks \in LooksLikeHandshake(tls_sent)
  BY <1>2 DEF tls_update
<1>6. /\ tls_sent \in Nat /\ seg_offset \in Nat /\ tls_data \in Nat
      /\ NextHeader = tls_sent + seg_offset /\ NextHeader = HeaderAt(tls_op + 1)
  BY <1>4, <1>5 DEF Placed, NextHeader
<1>7. IF seg_offset > n
      THEN seg_offset' = seg_offset - n /\ UNCHANGED <<tls_data, tls_busy>>
      ELSE seg_offset' = 0 /\ tls_data' = tls_sent + seg_offset /\ tls_busy' = (seg_offset < n)
  BY DEF tls_update
<1>8. \A i : HeaderAt(i)' = HeaderAt(i) /\ TlsLength' = TlsLength
  BY <1>1 DEF HeaderAt, TlsLength
<1>9. Placed'
  <2>1. /\ tls_sent' \in Nat /\ tls_data' \in Nat /\ seg_offset' \in Nat /\ tls_busy' \in BOOLEAN
        /\ NextHeader' = NextHeader
        /\ tls_busy' => tls_data' < tls_sent' /\ seg_offset' = 0
    <3>1. CASE seg_offset > n
      <4>1. seg_offset' = seg_offset - n /\ tls_data' = tls_data /\ tls_busy' = tls_busy
        BY <1>7, <3>1
      <4>2. ~tls_busy' /\ tls_busy' \in BOOLEAN
        BY <1>4, <1>5, <4>1 DEF Placed
      <4>3. NextHeader' = tls_sent' + seg_offset'
        BY <4>2 DEF NextHeader
      <4>4. tls_sent' + seg_offset' = tls_sent + seg_offset /\ tls_sent' \in Nat /\ seg_offset' \in Nat
        BY <1>2, <1>5, <1>6, <3>1, <4>1
      <4> QED BY <1>6, <4>1, <4>2, <4>3, <4>4
    <3>2. CASE ~ (seg_offset > n)
      <4>1. seg_offset' = 0 /\ tls_data' = tls_sent + seg_offset /\ tls_busy' = (seg_offset < n)
        BY <1>7, <3>2
      <4>2. tls_sent' \in Nat /\ tls_data' \in Nat /\ seg_offset' \in Nat
        BY <1>2, <1>5, <1>6, <4>1
      <4>3. CASE seg_offset < n
        <5>1. tls_busy' = TRUE
          BY <4>1, <4>3
        <5>2. NextHeader' = tls_data'
          BY <5>1 DEF NextHeader
        <5>3. tls_data' < tls_sent'
          BY <1>2, <1>5, <1>6, <4>1, <4>3
        <5> QED BY <1>6, <4>1, <4>2, <5>1, <5>2, <5>3
      <4>4. CASE ~ (seg_offset < n)
        <5>1. ~tls_busy' /\ tls_busy' \in BOOLEAN
          <6>1. (seg_offset < n) = FALSE
            BY <4>4
          <6>2. tls_busy' = FALSE
            BY <4>1, <6>1, Zenon
          <6> QED BY <6>2
        <5>2. NextHeader' = tls_sent' + seg_offset'
          BY <5>1 DEF NextHeader
        <5>3. tls_sent' + seg_offset' = tls_sent + seg_offset
          BY <1>2, <1>5, <1>6, <3>2, <4>1, <4>4
        <5> QED BY <1>6, <4>1, <4>2, <5>1, <5>2, <5>3
      <4> QED BY <4>3, <4>4
    <3> QED BY <3>1, <3>2
  <2>2. ~AwkwardCut(tls_sent)'
    BY <1>1, <1>4, <1>5 DEF AwkwardCut
  <2>3. \A i \in 1 .. tls_op : HeaderAt(i) < tls_sent'
    <3> SUFFICES ASSUME NEW i \in 1 .. tls_op PROVE HeaderAt(i) < tls_sent'
      OBVIOUS
    <3>1. HeaderAt(i) < tls_sent /\ tls_op \in 0 .. Len(tls_stream)
      BY <1>4 DEF Placed
    <3>2. Len(tls_stream) \in Nat
      BY <1>2, TlsStreamType
    <3>3. HeaderAt(i) \in Nat
      BY <1>2, <3>1, <3>2, HeadersInOrder
    <3> QED BY <1>2, <1>5, <1>6, <3>1, <3>3
  <2> QED BY <1>1, <1>4, <1>5, <1>6, <1>8, <2>1, <2>2, <2>3 DEF Placed
<1>10. StatsInOrder' /\ HandshakeListed'
  <2>1. \A a, b : ParserLeft(a, b)' <=> ParserLeft(a, b)
    BY <1>1 DEF ParserLeft, NotUnderstood, IsHello
  <2> QED BY <1>1, <1>4, <2>1 DEF StatsInOrder, HandshakeListed, HandshakeRecords, StartsHandshake
<1>11. HandshakeKept'
  <2> SUFFICES ASSUME StartsHandshake, ~done_handshake
               PROVE  \E to \in Nat :
                        /\ handshake_buffer' = << <<0, to>> >> /\ handshake_length' = to
                        /\ \/ to = tls_sent'
                           \/ tls_busy' /\ to = tls_data' /\ tls_stream[tls_op + 1].type = "other"
    BY <1>1, <1>2, <1>4, <1>5, <1>6 DEF HandshakeKept, StartsHandshake
  <2>1. IF looks
        THEN handshake_buffer' = Buffered(n) /\ handshake_length' = handshake_length + n
        ELSE UNCHANGED <<handshake_buffer, handshake_length>>
    BY DEF tls_update, Keep
  <2>2. CASE tls_sent = 0
    <3>1. handshake_buffer = <<>> /\ handshake_length = 0
      BY <1>4, <2>2 DEF HandshakeKept
    <3>2. RecordAt(0) = 1
      <4>1. PICK m : m = Len(tls_stream)
        OBVIOUS
      <4>2. 1 \in 1..m /\ HeaderAt(1) = 0
        BY <1>2, <4>1, TlsStreamType
      <4> QED BY <1>2, <4>1, <4>2, RecordAtIs
    <3>3. looks
      BY <1>5, <2>2, <3>2 DEF LooksLikeHandshake, StartsHandshake
    <3>4. Buffered(n) = << <<0, n>> >>
      BY <1>2, <2>2, <3>1 DEF Buffered
    <3> QED BY <1>2, <1>5, <2>1, <2>2, <3>1, <3>3, <3>4
  <2>3. CASE tls_sent # 0
    <3>1. handshake_buffer = << <<0, tls_sent>> >> /\ handshake_length = tls_sent
      BY <1>4, <1>5, <2>3 DEF HandshakeKept
    <3>2. CASE looks
      <4>1. Buffered(n) = << <<0, tls_sent + n>> >>
        BY <1>2, <1>6, <3>1 DEF Buffered
      <4> QED BY <1>2, <1>5, <1>6, <2>1, <3>1, <3>2, <4>1
    <3>3. CASE ~looks
      <4>1. PICK i : i = RecordAt(tls_sent)
        OBVIOUS
      <4>2. i # 0
        BY <1>4, <3>3, <4>1 DEF Mistaken
      <4>3. i \in 1 .. Len(tls_stream) /\ HeaderAt(i) = tls_sent
        BY <1>2, <4>1, <4>2, RecordAtIs
      <4>4. tls_stream[i].type = "other"
        <5>1. tls_stream[i].type # "handshake"
          BY <1>5, <3>3, <4>1, <4>2 DEF LooksLikeHandshake
        <5> QED BY <1>2, <4>3, <5>1, TlsStreamType
      <4>5. i = tls_op + 1
        <5>1. tls_op \in 0 .. Len(tls_stream) /\ Len(tls_stream) \in Nat
          BY <1>2, <1>4, TlsStreamType DEF Placed
        <5>2. ~ (i <= tls_op)
          BY <1>4, <1>6, <4>3, <5>1 DEF Placed
        <5>3. ~ (tls_op + 1 < i)
          <6>1. tls_op + 1 < i => HeaderAt(tls_op + 1) + TLS_HDR_LEN <= HeaderAt(i)
            BY <1>2, <4>3, <5>1, HeadersInOrder
          <6> QED BY <1>6, <4>3, <6>1, TlsAssumption
        <5> QED BY <4>3, <5>1, <5>2, <5>3
      <4>6. seg_offset = 0
        BY <1>6, <4>3, <4>5
      <4>7. tls_busy' /\ tls_data' = tls_sent
        <5>1. ~ (seg_offset > n) /\ seg_offset < n /\ tls_sent + seg_offset = tls_sent
          BY <1>2, <1>6, <4>6
        <5> QED BY <1>7, <5>1
      <4> QED BY <1>6, <2>1, <3>1, <3>3, <4>4, <4>5, <4>7
    <3> QED BY <3>2, <3>3
  <2> QED BY <2>2, <2>3
<1> QED BY <1>9, <1>10, <1>11

-----------------------------------------------------------------------------

LEMMA MessageType ==
  ASSUME tls_stream \in TlsStreams, NEW i \in DOMAIN tls_stream, NEW c, c = Len(tls_stream[i].messages)
  PROVE  /\ c \in Nat /\ DOMAIN tls_stream[i].messages = 1..c
         /\ \A j \in 1..c :
              LET m == tls_stream[i].messages[j] IN
              /\ m.at \in Nat /\ m.len \in Nat /\ EndOfMessage(m) = m.at + TLS_HANDSHAKE_HDR_LEN + m.len
              /\ tls_stream[i].at + TLS_HDR_LEN <= m.at /\ EndOfMessage(m) <= EndOf(tls_stream[i])
              /\ \A l \in 1..c : j < l => EndOfMessage(m) <= tls_stream[i].messages[l].at
<1>1. PICK n : n = Len(tls_stream)
  OBVIOUS
<1>2. tls_stream[i] \in Records
  BY <1>1, TlsStreamType
<1>3. PICK ms : ms = tls_stream[i].messages
  OBVIOUS
<1>4. ms \in Seq(Messages) /\ c \in Nat /\ DOMAIN ms = 1..c
  BY <1>2, <1>3 DEF Records
<1>5. \A j \in 1..c :
        /\ tls_stream[i].at + TLS_HDR_LEN <= ms[j].at /\ EndOfMessage(ms[j]) <= EndOf(tls_stream[i])
        /\ \A l \in 1..c : j < l => EndOfMessage(ms[j]) <= ms[l].at
  BY <1>3, <1>4, TlsStreamsAssumption
<1>6. ASSUME NEW j \in 1..c PROVE ms[j].at \in Nat /\ ms[j].len \in Nat
  <2>1. ms[j] \in Messages
    BY <1>4
  <2> QED BY <2>1 DEF Messages
<1> QED BY <1>3, <1>4, <1>5, <1>6 DEF EndOfMessage

\* In a buffer that goes on to the end of record n, and further if n is empty or ends with a message
\* that is, the parser gets to each message of the records up to n, unless it has left before.
LEMMA ParserGets ==
  ASSUME tls_stream \in TlsStreams,
         NEW n \in 1 .. Len(tls_stream), \A k \in 1..n : tls_stream[k].type = "handshake",
         NEW to \in Nat, handshake_buffer = << <<0, to>> >>, handshake_length = to,
         EndOf(tls_stream[n]) <= to,
         NEW i \in 1..n, NEW j \in DOMAIN tls_stream[i].messages,
         i < n \/ j < Len(tls_stream[i].messages) \/ tls_stream[i].messages[j].len > 0,
         ~ParserLeft(i, j)
  PROVE  GetsTo(1, i, j)
<1>1. PICK z : z = Len(tls_stream)
  OBVIOUS
<1>2. z \in Nat /\ DOMAIN tls_stream = 1..z /\ i \in 1..z /\ n \in 1..z
  BY <1>1, TlsStreamType
<1> SUFFICES ASSUME NEW k \in 1..i, NEW l \in DOMAIN tls_stream[k].messages, k < i \/ l <= j
             PROVE  LET m == tls_stream[k].messages[l] IN
                    CanOpen(tls_stream[k]) /\ CanList(m) /\ Reached(m)
  <2>1. \A k \in 1..i : \A l \in DOMAIN tls_stream[k].messages : k < i \/ l <= j => ~NotUnderstood(1, k, l)
    BY DEF ParserLeft
  <2> QED BY <2>1 DEF GetsTo
<1>3. PICK r : r = tls_stream[k]
  OBVIOUS
<1>4. PICK m : m = tls_stream[k].messages[l]
  OBVIOUS
<1>5. k \in 1..z /\ k \in 1..n
  BY <1>2
<1>6. PICK c : c = Len(tls_stream[k].messages)
  OBVIOUS
<1>7. /\ c \in Nat /\ l \in 1..c
      /\ m.at \in Nat /\ m.len \in Nat /\ EndOfMessage(m) = m.at + TLS_HANDSHAKE_HDR_LEN + m.len
      /\ r.at + TLS_HDR_LEN <= m.at /\ EndOfMessage(m) <= EndOf(r)
  BY <1>3, <1>4, <1>2, <1>5, <1>6, MessageType
<1>8. /\ r.at \in Nat /\ r.len \in Nat /\ EndOf(r) = r.at + TLS_HDR_LEN + r.len
      /\ EndOf(r) = HeaderAt(k + 1)
  BY <1>3, <1>1, <1>5, TlsStreamType
<1>9. PICK a, e, b, f, ml, rl, H, T : a = r.at /\ e = EndOf(r) /\ b = m.at /\ f = EndOfMessage(m)
                 /\ ml = m.len /\ rl = r.len /\ H = TLS_HDR_LEN /\ T = TLS_HANDSHAKE_HDR_LEN
  OBVIOUS
<1>10. /\ a \in Nat /\ b \in Nat /\ ml \in Nat /\ rl \in Nat /\ e \in Nat /\ f \in Nat
      /\ H \in Nat \ {0} /\ T \in Nat \ {0}
      /\ a + H <= b /\ f = b + T + ml /\ f <= e /\ e = a + H + rl
  <2>1. /\ a \in Nat /\ b \in Nat /\ ml \in Nat /\ rl \in Nat /\ H \in Nat \ {0} /\ T \in Nat \ {0}
        /\ a + H <= b /\ f = b + T + ml /\ f <= e /\ e = a + H + rl
    BY <1>9, <1>7, <1>8, TlsAssumption
  <2> QED BY <2>1
<1>11. EndOf(tls_stream[n]) = HeaderAt(n + 1) /\ HeaderAt(n + 1) \in Nat
  <2>1. EndOf(tls_stream[n]) = HeaderAt(n + 1)
    BY <1>1, <1>2, TlsStreamType
  <2>2. n + 1 \in 1 .. z + 1
    BY <1>2
  <2> QED BY <1>1, <2>1, <2>2, HeadersInOrder
<1>12. e <= to /\ (k < n => e < to)
  <2>1. CASE k = n
    BY <1>3, <1>9, <2>1
  <2>2. CASE k < n
    <3>1. k + 1 \in 1 .. z + 1 /\ n + 1 \in 1 .. z + 1 /\ k + 1 < n + 1
      BY <1>2, <1>5, <2>2
    <3>2. HeaderAt(k + 1) + H <= HeaderAt(n + 1)
      BY <1>1, <1>9, <3>1, HeadersInOrder
    <3>3. HeaderAt(k + 1) = e /\ HeaderAt(n + 1) <= to
      BY <1>8, <1>11, <1>9
    <3> QED BY <1>11, <1>10, <3>2, <3>3
  <2> QED BY <1>5, <2>1, <2>2
<1>13. b + T < to
  <2>1. CASE k < n \/ ml > 0
    BY <1>10, <1>12, <2>1
  <2>2. CASE ~ (k < n) /\ ~ (ml > 0)
    <3>1. i = n /\ k = i
      BY <1>2, <1>5, <2>2
    <3>2. j \in 1..c /\ l <= j
      BY <1>2, <1>5, <1>6, <3>1, MessageType
    <3>3. PICK x \in 1..c : l < x
      <4>1. CASE l = j
        <5>1. ~ (tls_stream[i].messages[j].len > 0)
          BY <1>4, <1>9, <2>2, <3>1, <4>1
        <5>2. j < c
          BY <1>6, <3>1, <5>1
        <5>3. c \in 1..c /\ l < c
          BY <1>7, <4>1, <5>2
        <5> QED BY <5>3
      <4>2. CASE l # j
        <5>1. l < j
          BY <1>7, <3>2, <4>2
        <5> QED BY <3>2, <5>1
      <4> QED BY <4>1, <4>2
    <3>4. PICK y : y = tls_stream[k].messages[x]
      OBVIOUS
    <3>5. /\ EndOfMessage(m) <= y.at /\ y.at \in Nat /\ y.len \in Nat
          /\ EndOfMessage(y) = y.at + TLS_HANDSHAKE_HDR_LEN + y.len /\ EndOfMessage(y) <= EndOf(r)
      BY <1>3, <1>4, <1>2, <1>5, <1>6, <1>7, <3>3, <3>4, MessageType
    <3>6. PICK ya, yl : ya = y.at /\ yl = y.len
      OBVIOUS
    <3>7. f <= ya /\ ya \in Nat /\ yl \in Nat /\ ya + T + yl <= e
      BY <1>9, <3>5, <3>6
    <3> QED BY <1>10, <1>12, <3>7
  <2> QED BY <2>1, <2>2
<1>15. \A p \in Nat : Left(p) = to - p
  BY DEF Left
<1>16. CanOpen(r)
  <2>1. Left(r.at) = to - a
    BY <1>9, <1>10, <1>15
  <2>2. to - a >= rl /\ to - a > H
    BY <1>10, <1>12
  <2> QED BY <1>9, <2>1, <2>2 DEF CanOpen
<1>17. CanList(m)
  <2>1. Left(m.at) = to - b
    BY <1>9, <1>10, <1>15
  <2>2. to - b > T
    BY <1>10, <1>13
  <2> QED BY <1>9, <2>1, <2>2 DEF CanList
<1>18. Reached(m)
  <2>1. handshake_buffer[1][2] = to /\ b + T <= to
    BY <1>10, <1>13
  <2> QED BY <1>9, <2>1 DEF Reached
<1> QED BY <1>3, <1>4, <1>16, <1>17, <1>18

\* What the loop finds: the next record, all of its header and, if it is complete, all of it.
LEMMA HeaderFound ==
  ASSUME tls_stream \in TlsStreams, Placed, tls_busy, NEW h \in Header, NEW i, i = tls_op + 1
  PROVE  /\ i \in 1 .. Len(tls_stream) /\ Len(tls_stream) \in Nat
         /\ tls_data = tls_stream[i].at /\ tls_data = HeaderAt(i) /\ tls_data < tls_sent
         /\ h.record = i /\ h.msg_len = tls_stream[i].len /\ h.other = (tls_stream[i].type = "other")
         /\ tls_stream[i].len \in Nat /\ seg_offset = 0
         /\ HeaderAt(i + 1) = tls_data + tls_stream[i].len + TLS_HDR_LEN
         /\ \/ HeaderAt(i + 1) <= tls_sent
            \/ tls_sent < tls_data + tls_stream[i].len
<1>1. PICK n : n = Len(tls_stream)
  OBVIOUS
<1>2. /\ n \in Nat \ {0} /\ DOMAIN tls_stream = 1..n
      /\ HeaderAt(n + 1) = TlsLength /\ TlsLength \in Nat
  BY <1>1, TlsStreamType
<1>3. /\ tls_op \in 0 .. n /\ tls_sent \in Nat /\ tls_data \in Nat /\ tls_sent <= TlsLength
      /\ tls_data = HeaderAt(i) /\ tls_data < tls_sent /\ seg_offset = 0
      /\ ~AwkwardCut(tls_sent)
  BY <1>1 DEF Placed, NextHeader
<1>4. i \in 1..n
  <2>1. i # n + 1
    <3> SUFFICES ASSUME i = n + 1 PROVE FALSE
      OBVIOUS
    <3>1. tls_data = TlsLength
      BY <1>2, <1>3
    <3> QED BY <1>2, <1>3, <3>1
  <2> QED BY <1>2, <1>3, <2>1
<1>5. /\ tls_data = tls_stream[i].at /\ tls_stream[i].len \in Nat
      /\ HeaderAt(i + 1) = EndOf(tls_stream[i])
      /\ EndOf(tls_stream[i]) = tls_stream[i].at + TLS_HDR_LEN + tls_stream[i].len
  BY <1>1, <1>3, <1>4, TlsStreamType
<1>6. RecordAt(tls_data) = i
  BY <1>1, <1>3, <1>4, RecordAtIs
<1>7. PICK len, H, e : len = tls_stream[i].len /\ H = TLS_HDR_LEN /\ e = EndOf(tls_stream[i])
  OBVIOUS
<1>8. len \in Nat /\ H \in Nat \ {0} /\ e = tls_data + len + H /\ e \in Nat
  <2>1. len \in Nat /\ H \in Nat \ {0} /\ e = tls_data + H + len
    BY <1>5, <1>7, TlsAssumption
  <2> QED BY <1>3, <2>1
<1>9. /\ ~ (tls_data < tls_sent /\ tls_sent < tls_data + H)
      /\ ~ (e - H <= tls_sent /\ tls_sent < e)
  BY <1>2, <1>3, <1>4, <1>5, <1>7 DEF AwkwardCut
<1>10. tls_sent - tls_data >= TLS_HDR_LEN
  BY <1>3, <1>7, <1>8, <1>9
<1>11. h = [record |-> i, msg_len |-> tls_stream[i].len, other |-> tls_stream[i].type = "other"]
  <2>1. i # 0
    BY <1>4
  <2> QED BY <1>6, <1>10, <2>1 DEF Header
<1>12. e <= tls_sent \/ tls_sent < tls_data + len
  BY <1>3, <1>8, <1>9
<1> QED BY <1>1, <1>2, <1>3, <1>4, <1>5, <1>7, <1>8, <1>11, <1>12

\* A record, in a stream cut where the code allows for it.
LEMMA TlsRecordKeeps ==
  ASSUME TlsInv, NEW known \in BOOLEAN, NEW h \in Header, tls_record(h, known)
  PROVE  TlsInv'
<1>1. UNCHANGED <<tls_stream, tls_sent>> /\ tls_busy
  BY DEF tls_record
<1>2. tls_stream \in TlsStreams
  BY DEF TlsInv
<1>3. tls_awkward' \in BOOLEAN /\ (tls_awkward => tls_awkward')
  BY DEF tls_record, TlsInv
<1> SUFFICES ASSUME ~tls_awkward'
             PROVE  Placed' /\ StatsInOrder' /\ HandshakeKept' /\ HandshakeListed'
  BY <1>1, <1>2, <1>3 DEF TlsInv
<1>4. Placed /\ StatsInOrder /\ HandshakeKept /\ HandshakeListed
  BY <1>3 DEF TlsInv
<1>5. PICK i : i = tls_op + 1
  OBVIOUS
<1>6. PICK n : n = Len(tls_stream)
  OBVIOUS
<1>7. PICK next, len : next = HeaderAt(i + 1) /\ len = tls_stream[i].len
  OBVIOUS
<1>8. /\ i \in 1..n /\ n \in Nat
      /\ tls_data = tls_stream[i].at /\ tls_data = HeaderAt(i) /\ tls_data < tls_sent
      /\ h.record = i /\ h.msg_len = len /\ h.other = (tls_stream[i].type = "other")
      /\ len \in Nat /\ seg_offset = 0
      /\ next = tls_data + len + TLS_HDR_LEN
      /\ next <= tls_sent \/ tls_sent < tls_data + len
  BY <1>1, <1>2, <1>4, <1>5, <1>6, <1>7, HeaderFound
<1>9. tls_op \in 0..n /\ tls_sent \in Nat /\ tls_data \in Nat /\ tls_sent <= TlsLength
      /\ done_handshake \in BOOLEAN /\ \A k \in 1 .. tls_op : HeaderAt(k) < tls_sent
  BY <1>4, <1>6 DEF Placed
<1>10. (\A k : HeaderAt(k)' = HeaderAt(k)) /\ TlsLength' = TlsLength
  BY <1>1 DEF HeaderAt, TlsLength
<1>11. next \in Nat
  <2>1. i + 1 \in 1 .. n + 1
    BY <1>8
  <2> QED BY <1>2, <1>6, <1>7, <2>1, HeadersInOrder
<1> DEFINE parse == ~done_handshake /\ handshake_buffer # <<>> /\ h.other
<1>12. IF parse
       THEN /\ tls_handshake_buffer_parse
            /\ handshake_buffer' = FreeBuffer /\ handshake_length' = 0
            /\ done_handshake' = TRUE
       ELSE UNCHANGED <<handshake_buffer, handshake_length, done_handshake, handshake_types, tls_version>>
  BY DEF tls_record
<1>13. /\ tls_write_message_stats(i)
       /\ tls_data' = next
       /\ tls_busy' = (next < tls_sent)
  <2>1. next = tls_data + h.msg_len + TLS_HDR_LEN
    BY <1>8
  <2> QED BY <1>8, <2>1 DEF tls_record
<1>14. /\ tls_op' = i
       /\ tls_stats' = IF tls_op < MAX_NUM_RCD_LEN THEN Append(tls_stats, i) ELSE tls_stats
  BY <1>5, <1>13 DEF tls_write_message_stats
<1>15. seg_offset' = IF len > tls_sent - tls_data THEN len - ((tls_sent - tls_data) - TLS_HDR_LEN) ELSE 0
  BY <1>8 DEF tls_record, Missing
<1>16. Placed'
  <2>1. PICK H : H = TLS_HDR_LEN /\ H \in Nat \ {0}
    BY TlsAssumption
  <2>2. (next < tls_sent) \in BOOLEAN
    OBVIOUS
  <2>3. tls_busy' \in BOOLEAN
    BY <1>13, <2>2, Zenon
  <2>4. tls_busy' <=> next < tls_sent
    BY <1>13
  <2>5. seg_offset' \in Nat /\ NextHeader' = next /\ (next < tls_sent => seg_offset' = 0)
    <3>1. CASE len > tls_sent - tls_data
      <4>1. seg_offset' = len - ((tls_sent - tls_data) - H)
        BY <1>15, <2>1, <3>1
      <4>2. tls_sent < tls_data + len
        BY <1>8, <1>9, <3>1
      <4>3. next = tls_data + len + H /\ ~ (next < tls_sent) /\ seg_offset' \in Nat /\ tls_sent + seg_offset' = next
        BY <1>8, <1>9, <2>1, <4>1, <4>2
      <4>4. ~tls_busy'
        BY <2>4, <4>3
      <4>5. NextHeader' = next
        BY <1>1, <4>3, <4>4 DEF NextHeader
      <4> QED BY <4>3, <4>4, <4>5
    <3>2. CASE ~ (len > tls_sent - tls_data)
      <4>1. seg_offset' = 0
        BY <1>15, <3>2
      <4>2. next <= tls_sent
        <5>1. ~ (tls_sent < tls_data + len)
          BY <1>8, <1>9, <3>2
        <5> QED BY <1>8, <5>1
      <4>3. CASE next < tls_sent
        <5>1. NextHeader' = next
          BY <1>13, <2>4, <4>3 DEF NextHeader
        <5> QED BY <4>1, <4>3, <5>1
      <4>4. CASE ~ (next < tls_sent)
        <5>1. next = tls_sent
          BY <1>9, <1>11, <4>2, <4>4
        <5>2. NextHeader' = tls_sent + 0
          BY <1>1, <2>4, <4>1, <4>4 DEF NextHeader
        <5>3. tls_sent + 0 = next
          BY <1>9, <5>1
        <5> QED BY <4>1, <4>4, <5>2, <5>3
      <4> QED BY <4>3, <4>4
    <3> QED BY <3>1, <3>2
  <2>6. ~AwkwardCut(tls_sent)'
    <3>1. ~AwkwardCut(tls_sent)
      BY <1>1, <1>4 DEF Placed
    <3> QED BY <1>1, <3>1 DEF AwkwardCut
  <2>7. \A k \in 1..i : HeaderAt(k) < tls_sent
    BY <1>5, <1>8, <1>9
  <2>8. /\ tls_op' \in 0 .. Len(tls_stream)' /\ tls_sent' \in Nat /\ tls_data' \in Nat
         /\ tls_sent' <= TlsLength' /\ NextHeader' = HeaderAt(tls_op + 1)'
    <3>1. HeaderAt(tls_op + 1)' = HeaderAt(i + 1)
      BY <1>1, <1>14 DEF HeaderAt, TlsLength
    <3> QED BY <1>1, <1>6, <1>7, <1>8, <1>9, <1>10, <1>11, <1>13, <1>14, <2>5, <3>1
  <2>9. \A k \in 1 .. tls_op' : HeaderAt(k)' < tls_sent'
    BY <1>1, <1>10, <1>14, <2>7
  <2>10. tls_busy' => tls_data' < tls_sent' /\ seg_offset' = 0
    BY <1>1, <1>13, <2>4, <2>5
  <2>11. done_handshake' \in BOOLEAN
    BY <1>9, <1>12
  <2> QED BY <2>3, <2>5, <2>6, <2>8, <2>9, <2>10, <2>11 DEF Placed
<1>17. StatsInOrder'
  <2>1. /\ tls_stats \in Seq(Nat) /\ i \in Nat /\ MAX_NUM_RCD_LEN \in Nat
        /\ Len(tls_stats) = IF tls_op < MAX_NUM_RCD_LEN THEN tls_op ELSE MAX_NUM_RCD_LEN
        /\ \A k \in 1 .. Len(tls_stats) : tls_stats[k] = k
    BY <1>4, <1>8, TlsAssumption DEF StatsInOrder
  <2>2. CASE tls_op < MAX_NUM_RCD_LEN
    <3>1. Len(tls_stats) = tls_op /\ tls_stats' = Append(tls_stats, i)
      BY <1>14, <2>1, <2>2
    <3>2. tls_stats' \in Seq(Nat) /\ Len(tls_stats') = i
      BY <1>5, <1>9, <2>1, <3>1
    <3>3. ASSUME NEW k \in 1..i PROVE tls_stats'[k] = k
      <4>1. CASE k = i
        BY <1>5, <1>9, <2>1, <3>1, <4>1
      <4>2. CASE k # i
        <5>1. k \in 1 .. Len(tls_stats)
          BY <1>5, <1>9, <3>1, <4>2
        <5> QED BY <2>1, <3>1, <5>1
      <4> QED BY <4>1, <4>2
    <3>4. i = IF i < MAX_NUM_RCD_LEN THEN i ELSE MAX_NUM_RCD_LEN
      BY <1>5, <1>9, <2>1, <2>2
    <3> QED BY <1>14, <3>2, <3>3, <3>4 DEF StatsInOrder
  <2>3. CASE ~ (tls_op < MAX_NUM_RCD_LEN)
    <3>1. tls_stats' = tls_stats /\ Len(tls_stats) = MAX_NUM_RCD_LEN /\ ~ (i < MAX_NUM_RCD_LEN)
      BY <1>5, <1>9, <1>14, <2>1, <2>3
    <3> QED BY <1>14, <2>1, <3>1 DEF StatsInOrder
  <2> QED BY <2>2, <2>3
<1>18. HandshakeKept'
  <2> SUFFICES ASSUME StartsHandshake, ~done_handshake'
               PROVE  /\ \A k \in 1..i : tls_stream[k].type = "handshake"
                      /\ tls_sent # 0
                      /\ \E to \in Nat : /\ handshake_buffer' = << <<0, to>> >> /\ handshake_length' = to
                                         /\ to = tls_sent
    <3>1. StartsHandshake' <=> StartsHandshake
      BY <1>1 DEF StartsHandshake
    <3> QED BY <1>1, <1>14, <3>1 DEF HandshakeKept
  <2>1. ~parse /\ ~done_handshake /\ handshake_buffer' = handshake_buffer /\ handshake_length' = handshake_length
    BY <1>12
  <2>2. tls_sent # 0
    BY <1>8, <1>9
  <2>3. PICK to \in Nat : /\ handshake_buffer = << <<0, to>> >> /\ handshake_length = to
                          /\ to = tls_sent \/ (to = tls_data /\ tls_stream[i].type = "other")
    BY <1>4, <1>5, <2>1, <2>2 DEF HandshakeKept
  <2>4. tls_stream[i].type # "other"
    <3>1. handshake_buffer # <<>>
      BY <2>3
    <3> QED BY <1>8, <2>1, <3>1
  <2>5. tls_stream[i].type = "handshake"
    BY <1>2, <1>6, <1>8, <2>4, TlsStreamType
  <2>6. \A k \in 1 .. tls_op : tls_stream[k].type = "handshake"
    BY <1>4, <2>1 DEF HandshakeKept
  <2>7. \A k \in 1..i : tls_stream[k].type = "handshake"
    BY <1>5, <1>9, <2>5, <2>6
  <2> QED BY <2>1, <2>2, <2>3, <2>4, <2>7
<1>19. HandshakeListed'
  <2>1. /\ (StartsHandshake' <=> StartsHandshake) /\ HandshakeRecords' = HandshakeRecords
        /\ \A a, b : ParserLeft(a, b)' <=> ParserLeft(a, b)
    BY <1>1 DEF StartsHandshake, HandshakeRecords, ParserLeft, NotUnderstood, IsHello
  <2>2. CASE ~parse
    <3>1. done_handshake' = done_handshake /\ handshake_types' = handshake_types
      BY <1>12, <2>2
    <3> QED BY <1>1, <1>4, <2>1, <3>1 DEF HandshakeListed
  <2>3. CASE parse /\ ~StartsHandshake
    <3>1. n \in Nat \ {0} /\ DOMAIN tls_stream = 1..n
      BY <1>2, <1>6, TlsStreamType
    <3>2. HandshakeRecords = {}
      <4>1. \A k \in 1..n : 1 \in 1..k
        OBVIOUS
      <4> QED BY <2>3, <3>1, <4>1 DEF HandshakeRecords, StartsHandshake
    <3>3. done_handshake'
      BY <1>12, <2>3
    <3> QED BY <2>1, <2>3, <3>2, <3>3 DEF HandshakeListed
  <2>4. CASE parse /\ StartsHandshake
    <3>1. done_handshake' = TRUE /\ handshake_types' = Listed
      BY <1>12, <2>4 DEF tls_handshake_buffer_parse
    <3>2. ~done_handshake /\ tls_stream[i].type = "other" /\ \A k \in 1 .. tls_op : tls_stream[k].type = "handshake"
      BY <1>4, <1>8, <2>4 DEF HandshakeKept
    <3>3. PICK to \in Nat : /\ handshake_buffer = << <<0, to>> >> /\ handshake_length = to
                            /\ to = tls_sent \/ to = tls_data
      <4>1. tls_sent # 0
        BY <1>8, <1>9
      <4> QED BY <1>4, <2>4, <3>2, <4>1 DEF HandshakeKept
    <3>4. tls_data <= to
      BY <1>8, <1>9, <3>3
    <3>5. n \in Nat \ {0} /\ DOMAIN tls_stream = 1..n /\ HeaderAt(1) = 0
      BY <1>2, <1>6, TlsStreamType
    <3>6. RecordAt(0) = 1
      BY <1>2, <1>6, <3>5, RecordAtIs
    <3>7. Listed = UNION {{[slot |-> Slot(1, r), record |-> r, message |-> j] :
                             j \in {j \in DOMAIN tls_stream[r].messages :
                                      j <= MAX_TLS_HANDSHAKES /\ GetsTo(1, r, j)}} :
                           r \in {r \in 1 .. n : Slot(1, r) <= MAX_NUM_RCD_LEN}}
      <4>1. handshake_buffer # <<>> /\ handshake_buffer[1][1] = 0
        BY <3>3
      <4>2. FirstRecord = 1
        BY <3>6, <4>1 DEF FirstRecord
      <4> QED BY <1>6, <4>2 DEF Listed
    <3>8. \A r \in 1..n : Slot(1, r) = r
      BY DEF Slot
    <3>9. \A g \in Listed : g.slot = g.record
      BY <3>7, <3>8
    <3>10. HandshakeRecords = 1 .. tls_op
      <4>1. ASSUME NEW k \in 1 .. tls_op PROVE k \in HandshakeRecords
        BY <1>9, <3>2, <3>5 DEF HandshakeRecords
      <4>2. ASSUME NEW k \in HandshakeRecords PROVE k \in 1 .. tls_op
        <5>1. k \in 1..n /\ \A l \in 1..k : tls_stream[l].type = "handshake"
          BY <3>5 DEF HandshakeRecords
        <5>2. ~ (i <= k)
          BY <1>8, <3>2, <5>1
        <5> QED BY <1>5, <1>8, <1>9, <5>1, <5>2
      <4> QED BY <4>1, <4>2
    <3>11. ASSUME NEW r \in HandshakeRecords, NEW j \in DOMAIN tls_stream[r].messages
           PROVE  \/ [slot |-> r, record |-> r, message |-> j] \in Listed
                  \/ tls_stream[r].messages[j].len = 0 /\ r + 1 \notin HandshakeRecords
                                                      /\ j = Len(tls_stream[r].messages)
                  \/ j > MAX_TLS_HANDSHAKES \/ r > MAX_NUM_RCD_LEN
                  \/ ParserLeft(r, j)
      <4> SUFFICES ASSUME ~ (/\ tls_stream[r].messages[j].len = 0 /\ r + 1 \notin HandshakeRecords
                             /\ j = Len(tls_stream[r].messages)),
                          ~ (j > MAX_TLS_HANDSHAKES), ~ (r > MAX_NUM_RCD_LEN), ~ParserLeft(r, j)
                   PROVE  [slot |-> r, record |-> r, message |-> j] \in Listed
        OBVIOUS
      <4>1. r \in 1 .. tls_op /\ r \in 1..n /\ tls_op \in 1..n /\ tls_op + 1 = i
        <5>1. r \in 1 .. tls_op
          BY <3>10
        <5> QED BY <1>5, <1>8, <1>9, <5>1
      <4>2. j \in 1 .. Len(tls_stream[r].messages) /\ tls_stream[r].messages[j].len \in Nat
            /\ Len(tls_stream[r].messages) \in Nat
        BY <1>2, <3>5, <4>1, MessageType
      <4>3. r < tls_op \/ j < Len(tls_stream[r].messages) \/ tls_stream[r].messages[j].len > 0
        BY <3>10, <4>1, <4>2
      <4>4. EndOf(tls_stream[tls_op]) <= to
        <5>1. EndOf(tls_stream[tls_op]) = tls_data
          BY <1>2, <1>6, <1>8, <4>1, TlsStreamType
        <5> QED BY <3>4, <5>1
      <4>5. GetsTo(1, r, j)
        BY <1>2, <1>6, <3>2, <3>3, <4>1, <4>3, <4>4, ParserGets
      <4>6. Slot(1, r) <= MAX_NUM_RCD_LEN /\ j <= MAX_TLS_HANDSHAKES /\ Slot(1, r) = r
        BY <3>8, <4>1, <4>2, TlsAssumption
      <4> QED BY <3>7, <4>1, <4>5, <4>6
    <3> QED BY <1>1, <2>1, <3>1, <3>9, <3>11 DEF HandshakeListed
  <2> QED BY <2>2, <2>3, <2>4
<1> QED BY <1>16, <1>17, <1>18, <1>19

LEMMA TlsStep == TlsInv /\ [TlsNext]_tlsVars => TlsInv'
<1> SUFFICES ASSUME TlsInv, [TlsNext]_tlsVars PROVE TlsInv'
  OBVIOUS
<1>1. ASSUME NEW n \in 1 .. TlsLength, NEW looks \in BOOLEAN, tls_update(n, looks) PROVE TlsInv'
  BY <1>1, TlsUpdateKeeps
<1>2. ASSUME NEW n \in 1 .. TlsLength, NEW looks \in BOOLEAN, tls_update_fails(n, looks) PROVE TlsInv'
  BY <1>2 DEF tls_update_fails, TlsInv
<1>3. ASSUME NEW known \in BOOLEAN, NEW h \in Header, tls_record(h, known) PROVE TlsInv'
  BY <1>3, TlsRecordKeeps
<1>4. CASE UNCHANGED tlsVars
  <2>1. \A a, b : ParserLeft(a, b)' <=> ParserLeft(a, b)
    BY <1>4 DEF tlsVars, ParserLeft, NotUnderstood, IsHello
  <2>2. HandshakeListed => HandshakeListed'
    BY <1>4, <2>1 DEF tlsVars, HandshakeListed, HandshakeRecords, StartsHandshake
  <2> QED BY <1>4, <2>2 DEF tlsVars, TlsInv, Placed, NextHeader, HeaderAt, TlsLength, AwkwardCut, StatsInOrder,
                            HandshakeKept, StartsHandshake
<1> QED BY <1>1, <1>2, <1>3, <1>4 DEF TlsNext

\* Between two segments the records listed are those whose header was seen.
LEMMA AllSeenListed ==
  ASSUME tls_stream \in TlsStreams, Placed, ~tls_busy
  PROVE  tls_op = Cardinality({i \in DOMAIN tls_stream : tls_stream[i].at < tls_sent})
<1>1. PICK n : n = Len(tls_stream)
  OBVIOUS
<1>2. /\ n \in Nat /\ DOMAIN tls_stream = 1..n
      /\ \A i \in 1..n : tls_stream[i].at = HeaderAt(i)
  BY <1>1, TlsStreamType
<1>3. /\ tls_op \in 0..n /\ tls_sent \in Nat /\ seg_offset \in Nat
      /\ tls_sent + seg_offset = HeaderAt(tls_op + 1)
      /\ \A i \in 1 .. tls_op : HeaderAt(i) < tls_sent
  BY <1>1 DEF Placed, NextHeader
<1>4. ASSUME NEW i \in 1..n, i > tls_op PROVE ~ (HeaderAt(i) < tls_sent)
  <2>1. i \in 1 .. n + 1 /\ tls_op + 1 \in 1 .. n + 1
    BY <1>2, <1>3
  <2>2. HeaderAt(i) \in Nat /\ HeaderAt(tls_op + 1) \in Nat
    BY <1>1, <2>1, HeadersInOrder
  <2>3. HeaderAt(tls_op + 1) <= HeaderAt(i)
    <3>1. CASE i = tls_op + 1
      BY <2>2, <3>1
    <3>2. CASE tls_op + 1 < i
      <4>1. HeaderAt(tls_op + 1) + TLS_HDR_LEN <= HeaderAt(i)
        BY <1>1, <2>1, <3>2, HeadersInOrder
      <4> QED BY <2>2, <4>1, TlsAssumption
    <3> QED BY <1>3, <1>4, <2>1, <3>1, <3>2
  <2> QED BY <1>3, <2>2, <2>3
<1>5. {i \in DOMAIN tls_stream : tls_stream[i].at < tls_sent} = 1 .. tls_op
  BY <1>2, <1>3, <1>4
<1>6. Cardinality(1 .. tls_op) = tls_op
  BY <1>3, FS_Interval
<1> QED BY <1>5, <1>6

LEMMA TlsInvListed == TlsInv => TlsListed
<1> SUFFICES ASSUME TlsInv, ~tls_awkward PROVE TlsListed
  BY DEF TlsListed
<1>1. tls_stream \in TlsStreams /\ Placed /\ StatsInOrder /\ HandshakeListed
  BY DEF TlsInv
<1>2. \A k \in DOMAIN tls_stats : tls_stats[k] = k
  BY <1>1 DEF StatsInOrder
<1>3. ~tls_busy => tls_op = Cardinality({i \in DOMAIN tls_stream : tls_stream[i].at < tls_sent})
  BY <1>1, AllSeenListed
<1> QED BY <1>1, <1>2, <1>3 DEF TlsListed, HandshakeListed, StartsHandshake

TlsSpec == TlsInit /\ [][TlsNext]_tlsVars

\* However tls_update is given the stream, except cut at the places AwkwardCut names, it lists each
\* record once, under its own number, and every message of the handshake with the record that
\* carried it, up to the first that the parser does not understand.
THEOREM RecordsListed == TlsSpec => []TlsListed
<1>1. TlsInit => TlsInv
  BY TlsStarts
<1>2. TlsInv /\ [TlsNext]_tlsVars => TlsInv'
  BY TlsStep
<1>3. TlsInv => TlsListed
  BY TlsInvListed
<1> QED BY <1>1, <1>2, <1>3, PTL DEF TlsSpec

-----------------------------------------------------------------------------

(***************************************************************************)
(* The messages of an IKE exchange are listed, for any number of datagrams *)
(* of either side in any order, and the complaint is about the last        *)
(* exchange.                                                               *)
(*                                                                         *)
(* While a side's datagrams are whole messages, its buffer holds those     *)
(* that are not listed yet, piece by piece: so each round finds a header   *)
(* where one is.  A single one may stay when the loop ends, as two headers *)
(* are more than the size of the structure.                                *)
(***************************************************************************)
IkeSpec == IkeInit /\ [][IkeNext]_ikeVars

IkeListing(s) ==
  LET n == Len(ike_messages[s])
      seen == ike_seen[s]
  IN  OnlyMessages(s) =>
        /\ ike_messages[s] \in Seq(IkeMessageSet)
        /\ n <= Len(seen) /\ n <= IKE_MAX_MESSAGES
        /\ \A i \in 1 .. n : ike_messages[s][i] = seen[i].of
        /\ ike_buffer[s] = SubSeq(seen, n + 1, Len(seen))
        /\ ike_busy # s =>
             \/ n = Len(seen) \/ n = IKE_MAX_MESSAGES
             \/ n = Len(seen) - 1 /\ seen[n + 1].len < SizeofIkeHeader

IkeShape ==
  /\ ike_seen \in [IkeSides -> Seq(Pieces)]
  /\ ike_buffer = [s \in IkeSides |-> ike_buffer[s]]
  /\ ike_messages = [s \in IkeSides |-> ike_messages[s]]

Reported == ike_complaint # "not printed" => ike_busy = "none" /\ ike_complaint = ike_process

IkeInv == IkeShape /\ (\A s \in IkeSides : IkeListing(s)) /\ Reported

LEMMA PieceType ==
  ASSUME NEW p \in Pieces
  PROVE  /\ p.len \in Nat \ {0} /\ p.of \in IkeMessageSet \cup {Bogus}
         /\ Whole(p) => p.len >= 28
<1>1. CASE \E x \in IkeMessageSet : p = [of |-> x, len |-> x.fragment]
  BY <1>1, IkeAssumption
<1>2. CASE \E n \in IkeForeign : p = [of |-> Bogus, len |-> n]
  BY <1>2, IkeAssumption DEF Whole
<1> QED BY <1>1, <1>2 DEF Pieces

\* The bytes in each prefix of a buffer.
IsBytes(b, p) ==
  /\ p \in [0 .. Len(b) -> Nat]
  /\ p[0] = 0
  /\ \A k \in 1 .. Len(b) : p[k] = p[k - 1] + b[k].len
  /\ \A k \in 0 .. Len(b) : BytesIn(SubSeq(b, 1, k)) = p[k]
  /\ BytesIn(b) = p[Len(b)]

LEMMA BytesOfPrefix ==
  ASSUME NEW b \in Seq(Pieces)
  PROVE  \E p : IsBytes(b, p)
<1> DEFINE n == Len(b)
           a == [i \in DOMAIN b |-> b[i].len]
<1>1. n \in Nat /\ DOMAIN b = 1 .. n /\ DOMAIN a = 1 .. n
  OBVIOUS
<1>2. \A i \in 1 .. n : a[i] \in Nat /\ a[i] = b[i].len
  <2> SUFFICES ASSUME NEW i \in 1 .. n PROVE a[i] \in Nat /\ a[i] = b[i].len
    OBVIOUS
  <2>1. b[i] \in Pieces
    OBVIOUS
  <2> QED BY <2>1, PieceType
<1>3. BytesIn(b) = SumOf(0, a)
  BY DEF BytesIn
<1>4. PICK q : IsPrefixSum(0, a, n, q) /\ SumOf(0, a) = q[n]
  <2> HIDE DEF n, a
  <2> QED BY <1>1, SumIsPrefix
<1> DEFINE p == [k \in 0 .. n |-> q[k]]
<1>5. p[0] = 0 /\ \A k \in 1 .. n : p[k] = p[k - 1] + a[k]
  <2> HIDE DEF a
  <2> QED BY <1>1, <1>4 DEF IsPrefixSum
<1>6. \A k \in 0 .. n : p[k] \in Nat
  <2> HIDE DEF p, a
  <2> DEFINE S == {k \in 0 .. n : p[k] \in Nat}
  <2>1. 0 \in S
    BY <1>5, <1>1
  <2>2. ASSUME NEW k \in 0 .. (n - 1), k \in S PROVE k + 1 \in S
    <3>1. k + 1 \in 1 .. n /\ (k + 1) - 1 = k
      BY <1>1
    <3>2. p[k + 1] = p[k] + a[k + 1] /\ a[k + 1] \in Nat
      BY <3>1, <1>2, <1>5
    <3> QED BY <2>2, <3>1, <3>2
  <2> HIDE DEF S, n
  <2>3. \A k \in 0 .. n : k \in S
    BY <1>1, <2>1, <2>2, UpTo
  <2> QED BY <2>3 DEF S
<1>7. ASSUME NEW k \in 0 .. n PROVE BytesIn(SubSeq(b, 1, k)) = p[k]
  <2> DEFINE c == SubSeq(b, 1, k)
             d == [i \in DOMAIN c |-> c[i].len]
  <2>1. DOMAIN c = 1 .. k /\ \A i \in 1 .. k : c[i] = b[i]
    OBVIOUS
  <2>2. DOMAIN d = 1 .. k /\ \A i \in 1 .. k : d[i] = a[i]
    BY <2>1, <1>1
  <2> DEFINE r == [j \in 0 .. k |-> p[j]]
  <2>3. IsPrefixSum(0, d, k, r)
    <3> HIDE DEF d, a, p, c
    <3>1. DOMAIN r = 0 .. k /\ r[0] = 0
      BY <1>5
    <3>2. ASSUME NEW j \in 1 .. k PROVE r[j] = r[j - 1] + d[j]
      <4>1. j \in 1 .. n /\ r[j] = p[j] /\ r[j - 1] = p[j - 1] /\ d[j] = a[j]
        BY <2>2, <1>1
      <4> QED BY <4>1, <1>5
    <3> HIDE DEF r
    <3> QED BY <3>1, <3>2 DEF IsPrefixSum
  <2>4. SumOf(0, d) = r[k]
    <3> HIDE DEF d, r, n
    <3>1. k \in Nat
      BY <1>1
    <3> QED BY <2>2, <2>3, <3>1, SumByPrefix
  <2>5. BytesIn(c) = SumOf(0, d)
    BY DEF BytesIn
  <2>6. r[k] = p[k]
    <3> HIDE DEF p, n
    <3> QED BY <1>1
  <2> QED BY <2>4, <2>5, <2>6
<1>8. p \in [0 .. n -> Nat] /\ p[n] = q[n]
  BY <1>6, <1>1
<1>9. IsBytes(b, p)
  <2> HIDE DEF p
  <2>1. \A k \in 1 .. n : p[k] = p[k - 1] + b[k].len
    BY <1>2, <1>5
  <2> QED BY <2>1, <1>3, <1>4, <1>5, <1>7, <1>8 DEF IsBytes
<1> QED BY <1>9

LEMMA BytesAtLeast ==
  ASSUME NEW b \in Seq(Pieces), b # <<>>
  PROVE  /\ BytesIn(SubSeq(b, 1, 1)) = b[1].len
         /\ b[1].len <= BytesIn(b)
         /\ Len(b) = 1 => BytesIn(b) = b[1].len
         /\ Len(b) > 1 => b[1].len + b[2].len <= BytesIn(b)
         /\ \A k \in 2 .. Len(b) : BytesIn(SubSeq(b, 1, k)) > b[1].len
<1> DEFINE n == Len(b)
<1>1. n \in Nat /\ n >= 1
  OBVIOUS
<1>2. PICK p : IsBytes(b, p)
  BY BytesOfPrefix
<1>3. \A k \in 1 .. n : b[k].len \in Nat \ {0}
  <2> SUFFICES ASSUME NEW k \in 1 .. n PROVE b[k].len \in Nat \ {0}
    OBVIOUS
  <2>1. b[k] \in Pieces
    OBVIOUS
  <2> QED BY <2>1, PieceType
<1> HIDE DEF n
<1>4. p \in [0 .. n -> Nat] /\ p[0] = 0 /\ \A k \in 1 .. n : p[k] = p[k - 1] + b[k].len
  BY <1>2 DEF IsBytes, n
<1>5. p[1] = b[1].len
  <2>1. p[1] = p[1 - 1] + b[1].len /\ b[1].len \in Nat
    BY <1>1, <1>3, <1>4
  <2> QED BY <2>1, <1>4
<1> DEFINE S == {k \in 0 .. n : k >= 2 => p[k] >= b[1].len + b[2].len}
<1>6. \A k \in 0 .. n : k \in S
  <2>1. 0 \in S
    BY <1>1
  <2>2. ASSUME NEW k \in 0 .. (n - 1), k \in S PROVE k + 1 \in S
    <3>1. k + 1 \in 1 .. n /\ (k + 1) - 1 = k /\ k \in 0 .. n
      BY <1>1
    <3>2. p[k + 1] = p[k] + b[k + 1].len /\ b[k + 1].len \in Nat /\ p[k] \in Nat
      BY <3>1, <1>3, <1>4
    <3>3. b[1].len \in Nat
      BY <1>1, <1>3
    <3>4. CASE k = 0
      BY <3>1, <3>4
    <3>5. CASE k = 1
      <4>1. p[k + 1] = b[1].len + b[2].len /\ k + 1 = 2
        BY <3>2, <3>5, <1>5
      <4>2. b[2].len \in Nat
        BY <3>2, <3>5
      <4>3. p[k + 1] >= b[1].len + b[2].len
        BY <3>3, <4>1, <4>2
      <4> QED BY <3>1, <4>3
    <3>6. CASE k >= 2
      <4>1. p[k] >= b[1].len + b[2].len
        BY <2>2, <3>6
      <4>2. b[2].len \in Nat
        BY <1>3, <3>1, <3>6, <1>1
      <4>3. p[k + 1] >= b[1].len + b[2].len
        BY <3>2, <3>3, <4>1, <4>2
      <4> QED BY <3>1, <4>3
    <3> QED BY <3>1, <3>4, <3>5, <3>6
  <2> HIDE DEF S
  <2> QED BY <1>1, <2>1, <2>2, UpTo
<1>7. \A k \in 2 .. n : p[k] >= b[1].len + b[2].len /\ b[2].len \in Nat \ {0} /\ b[1].len \in Nat
  BY <1>1, <1>3, <1>6
<1>8. \A k \in 0 .. n : BytesIn(SubSeq(b, 1, k)) = p[k]
  BY <1>2 DEF IsBytes, n
<1>9. BytesIn(b) = p[n]
  BY <1>2 DEF IsBytes, n
<1>10. \A k \in 2 .. n : p[k] \in Nat
  BY <1>4
<1>11. BytesIn(SubSeq(b, 1, 1)) = b[1].len
  BY <1>1, <1>5, <1>8
<1>12. \A k \in 2 .. n : BytesIn(SubSeq(b, 1, k)) > b[1].len
  BY <1>7, <1>8, <1>10
<1>13. n = 1 => BytesIn(b) = b[1].len
  BY <1>5, <1>9
<1>14. n > 1 => b[1].len + b[2].len <= BytesIn(b)
  BY <1>1, <1>7, <1>9, <1>10
<1>15. b[1].len <= BytesIn(b)
  <2>1. b[1].len \in Nat
    BY <1>1, <1>3
  <2>2. CASE n = 1
    BY <1>13, <2>1, <2>2
  <2>3. CASE n > 1
    <3>1. n \in 2 .. n
      BY <1>1, <2>3
    <3> QED BY <3>1, <1>7, <1>9, <1>10
  <2> QED BY <1>1, <2>2, <2>3
<1> QED BY <1>11, <1>12, <1>13, <1>14, <1>15 DEF n

\* Skipping the bytes of a piece drops it.
LEMMA SkipFirst ==
  ASSUME NEW b \in Seq(Pieces), b # <<>>
  PROVE  Skip(b, b[1].len) = SubSeq(b, 2, Len(b))
<1> DEFINE l == b[1].len
           past == {i \in DOMAIN b : BytesIn(SubSeq(b, 1, i)) <= l}
<1>1. l \in Nat
  BY PieceType
<1>2. past = {1}
  <2>1. 1 \in past
    BY BytesAtLeast, <1>1
  <2>2. \A k \in 2 .. Len(b) : ~ (BytesIn(SubSeq(b, 1, k)) <= l)
    <3> SUFFICES ASSUME NEW k \in 2 .. Len(b), BytesIn(SubSeq(b, 1, k)) <= l PROVE FALSE
      OBVIOUS
    <3>1. BytesIn(SubSeq(b, 1, k)) > l
      BY BytesAtLeast
    <3>2. BytesIn(SubSeq(b, 1, k)) \in Nat
      <4>1. PICK p : IsBytes(b, p)
        BY BytesOfPrefix
      <4>2. k \in 0 .. Len(b)
        OBVIOUS
      <4> QED BY <4>1, <4>2 DEF IsBytes
    <3> HIDE DEF l
    <3> QED BY <1>1, <3>1, <3>2
  <2>3. \A k \in DOMAIN b : k = 1 \/ k \in 2 .. Len(b)
    OBVIOUS
  <2> HIDE DEF l
  <2> QED BY <2>1, <2>2, <2>3
<1>3. Cardinality(past) = 1
  BY <1>2, FS_Singleton
<1>4. BytesIn(SubSeq(b, 1, 1)) = l
  BY BytesAtLeast
<1>5. l - BytesIn(SubSeq(b, 1, Cardinality(past))) = 0
  BY <1>1, <1>3, <1>4
<1>6. Cardinality(past) + 1 = 2
  BY <1>3
<1> QED BY <1>5, <1>6 DEF Skip

LEMMA RestIs ==
  ASSUME NEW S, NEW q \in Seq(S), NEW n \in Nat, n <= Len(q)
  PROVE  /\ SubSeq(q, n + 1, Len(q)) \in Seq(S)
         /\ Len(SubSeq(q, n + 1, Len(q))) = Len(q) - n
         /\ \A i \in 1 .. (Len(q) - n) : SubSeq(q, n + 1, Len(q))[i] = q[n + i]
<1>1. CASE n = Len(q)
  BY <1>1
<1>2. CASE n < Len(q)
  BY <1>2
<1> QED BY <1>1, <1>2

LEMMA AppendToRest ==
  ASSUME NEW S, NEW q \in Seq(S), NEW p \in S, NEW n \in Nat, n <= Len(q)
  PROVE  Append(SubSeq(q, n + 1, Len(q)), p) = SubSeq(Append(q, p), n + 1, Len(q) + 1)
<1> DEFINE r == SubSeq(q, n + 1, Len(q))
           l == Append(r, p)
           w == Append(q, p)
           u == SubSeq(w, n + 1, Len(w))
<1>1. r \in Seq(S) /\ Len(r) = Len(q) - n /\ \A i \in 1 .. (Len(q) - n) : r[i] = q[n + i]
  BY RestIs
<1>2. w \in Seq(S) /\ Len(w) = Len(q) + 1 /\ n <= Len(w)
  OBVIOUS
<1>3. u \in Seq(S) /\ Len(u) = Len(w) - n /\ \A i \in 1 .. (Len(w) - n) : u[i] = w[n + i]
  <2> HIDE DEF w
  <2> QED BY <1>2, RestIs
<1> HIDE DEF r, u
<1>4. l \in Seq(S) /\ Len(l) = Len(r) + 1 /\ (\A i \in 1 .. Len(r) : l[i] = r[i]) /\ l[Len(r) + 1] = p
  BY <1>1, AppendProperties
<1> HIDE DEF l
<1>5. ASSUME NEW i \in 1 .. Len(u) PROVE l[i] = u[i]
  <2>1. CASE i = Len(u)
    <3>1. i = Len(r) + 1 /\ n + i = Len(q) + 1 /\ i \in 1 .. (Len(w) - n)
      BY <1>1, <1>2, <1>3, <2>1
    <3>2. w[Len(q) + 1] = p
      OBVIOUS
    <3> HIDE DEF w
    <3> QED BY <1>3, <1>4, <3>1, <3>2
  <2>2. CASE i # Len(u)
    <3>1. i \in 1 .. (Len(q) - n) /\ n + i \in 1 .. Len(q)
      BY <1>2, <1>3, <2>2
    <3>2. i \in 1 .. Len(r) /\ i \in 1 .. (Len(w) - n)
      BY <1>1, <1>2, <3>1
    <3>3. w[n + i] = q[n + i]
      BY <3>1
    <3> HIDE DEF w
    <3> QED BY <1>1, <1>3, <1>4, <3>1, <3>2, <3>3
  <2> QED BY <2>1, <2>2
<1>6. l = u
  <2>1. Len(l) = Len(u)
    BY <1>1, <1>2, <1>3, <1>4
  <2> QED BY <1>3, <1>4, <1>5, <2>1, SeqEqual
<1>7. Append(r, p) = SubSeq(w, n + 1, Len(q) + 1)
  BY <1>2, <1>6 DEF l, u
<1> QED BY <1>7 DEF r

LEMMA RestOfRest ==
  ASSUME NEW S, NEW q \in Seq(S), NEW n \in Nat, n < Len(q)
  PROVE  LET r == SubSeq(q, n + 1, Len(q)) IN SubSeq(r, 2, Len(r)) = SubSeq(q, n + 2, Len(q))
<1> DEFINE r == SubSeq(q, n + 1, Len(q))
           u == SubSeq(r, 1 + 1, Len(r))
           w == SubSeq(q, (n + 1) + 1, Len(q))
<1>1. r \in Seq(S) /\ Len(r) = Len(q) - n /\ \A i \in 1 .. (Len(q) - n) : r[i] = q[n + i]
  <2>1. n <= Len(q)
    OBVIOUS
  <2> HIDE DEF r
  <2> QED BY <2>1, RestIs DEF r
<1> HIDE DEF r
<1>2. 1 <= Len(r) /\ 1 \in Nat
  BY <1>1
<1>3. u \in Seq(S) /\ Len(u) = Len(r) - 1 /\ \A i \in 1 .. (Len(r) - 1) : u[i] = r[1 + i]
  BY ONLY <1>1, <1>2, RestIs
<1>4. w \in Seq(S) /\ Len(w) = Len(q) - (n + 1) /\ \A i \in 1 .. (Len(q) - (n + 1)) : w[i] = q[(n + 1) + i]
  <2>1. n + 1 \in Nat /\ n + 1 <= Len(q)
    OBVIOUS
  <2> HIDE DEF w
  <2> QED BY <2>1, RestIs DEF w
<1> HIDE DEF u, w
<1>5. Len(u) = Len(w)
  BY <1>1, <1>3, <1>4
<1>6. ASSUME NEW i \in 1 .. Len(w) PROVE u[i] = w[i]
  <2>1. i \in 1 .. (Len(r) - 1) /\ 1 + i \in 1 .. (Len(q) - n) /\ n + (1 + i) = (n + 1) + i
    BY <1>1, <1>3, <1>4
  <2> QED BY <1>1, <1>3, <1>4, <2>1
<1>7. u = w
  BY <1>3, <1>4, <1>5, <1>6, SeqEqual
<1>8. (n + 1) + 1 = n + 2 /\ 1 + 1 = 2
  OBVIOUS
<1> QED BY <1>7, <1>8 DEF u, w, r

LEMMA IkeStarts == IkeInit => IkeInv
<1> SUFFICES ASSUME IkeInit PROVE IkeInv
  OBVIOUS
<1>1. ASSUME NEW s \in IkeSides PROVE IkeListing(s)
  <2>1. ike_seen[s] = <<>> /\ ike_buffer[s] = <<>> /\ ike_messages[s] = <<>>
    BY DEF IkeInit
  <2>2. Len(<<>>) = 0 /\ SubSeq(<<>>, 0 + 1, 0) = <<>> /\ IKE_MAX_MESSAGES \in Nat
    BY IkeAssumption
  <2> QED BY <2>1, <2>2 DEF IkeListing
<1>2. IkeShape
  <2>1. ike_seen \in [IkeSides -> Seq(Pieces)]
    <3>1. <<>> \in Seq(Pieces)
      OBVIOUS
    <3> QED BY <3>1 DEF IkeInit
  <2>2. ike_buffer = [s \in IkeSides |-> ike_buffer[s]]
    BY DEF IkeInit
  <2>3. ike_messages = [s \in IkeSides |-> ike_messages[s]]
    BY DEF IkeInit
  <2> QED BY <2>1, <2>2, <2>3 DEF IkeShape
<1>3. Reported
  BY DEF IkeInit, Reported
<1> QED BY <1>1, <1>2, <1>3 DEF IkeInv

\* A side whose part of the state is not touched.
LEMMA OtherListing ==
  ASSUME NEW t \in IkeSides, IkeListing(t), ike_busy # t,
         ike_seen'[t] = ike_seen[t], ike_buffer'[t] = ike_buffer[t], ike_messages'[t] = ike_messages[t]
  PROVE  IkeListing(t)'
<1>1. OnlyMessages(t)' <=> OnlyMessages(t)
  BY DEF OnlyMessages
<1> QED BY <1>1 DEF IkeListing

LEMMA UpdateKeepsIke ==
  ASSUME NEW s \in IkeSides, NEW p \in Pieces, IkeInv, ike_update(s, p)
  PROVE  IkeInv'
<1> DEFINE n == Len(ike_messages[s])
           seen == ike_seen[s]
           now == ike_seen'[s]
<1>1. /\ ike_seen' = [ike_seen EXCEPT ![s] = Append(@, p)]
      /\ ike_buffer' = [ike_buffer EXCEPT ![s] = Append(@, p)]
      /\ ike_busy = "none" /\ ike_busy' = s /\ ike_complaint = "not printed"
      /\ ike_messages' = ike_messages /\ ike_complaint' = ike_complaint
  BY DEF ike_update, Appended
<1>2. IkeShape
  BY DEF IkeInv
<1>3. IkeShape'
  <2>1. ike_seen' \in [IkeSides -> Seq(Pieces)]
    <3>1. Append(ike_seen[s], p) \in Seq(Pieces)
      BY <1>2 DEF IkeShape
    <3> QED BY <1>1, <1>2, <3>1 DEF IkeShape
  <2>2. ike_buffer' = [t \in IkeSides |-> ike_buffer'[t]]
    BY <1>1, <1>2 DEF IkeShape
  <2>3. ike_messages' = [t \in IkeSides |-> ike_messages'[t]]
    BY <1>1, <1>2 DEF IkeShape
  <2> QED BY <2>1, <2>2, <2>3 DEF IkeShape
<1>4. now = Append(seen, p) /\ ike_buffer'[s] = Append(ike_buffer[s], p)
  BY <1>1, <1>2 DEF IkeShape
<1>5. ASSUME NEW t \in IkeSides, t # s PROVE IkeListing(t)'
  <2>1. ike_seen'[t] = ike_seen[t] /\ ike_buffer'[t] = ike_buffer[t] /\ ike_messages'[t] = ike_messages[t]
    BY <1>1, <1>2, <1>5 DEF IkeShape
  <2>2. ike_busy # t /\ IkeListing(t)
    BY <1>1 DEF IkeInv, IkeSides
  <2> QED BY <2>1, <2>2, OtherListing
<1>6. seen \in Seq(Pieces)
  BY <1>2 DEF IkeShape
<1> HIDE DEF seen, now
<1>7. /\ Len(seen) \in Nat /\ Len(now) = Len(seen) + 1 /\ DOMAIN seen = 1 .. Len(seen)
      /\ DOMAIN now = 1 .. Len(now) /\ \A i \in 1 .. Len(seen) : now[i] = seen[i]
  BY <1>4, <1>6
<1>8. IkeListing(s)'
  <2>1. OnlyMessages(s)' => OnlyMessages(s)
    <3>1. \A i \in 1 .. Len(seen) : i \in 1 .. Len(now)
      BY <1>7
    <3> QED BY <1>7, <3>1 DEF OnlyMessages, seen, now
  <2> SUFFICES ASSUME OnlyMessages(s)' PROVE
        /\ ike_messages[s] \in Seq(IkeMessageSet)
        /\ n <= Len(now) /\ n <= IKE_MAX_MESSAGES
        /\ \A i \in 1 .. n : ike_messages[s][i] = now[i].of
        /\ ike_buffer'[s] = SubSeq(now, n + 1, Len(now))
    BY <1>1 DEF IkeListing, now
  <2>2. /\ ike_messages[s] \in Seq(IkeMessageSet)
        /\ n <= Len(seen) /\ n <= IKE_MAX_MESSAGES
        /\ \A i \in 1 .. n : ike_messages[s][i] = seen[i].of
        /\ ike_buffer[s] = SubSeq(seen, n + 1, Len(seen))
    BY <2>1 DEF IkeInv, IkeListing, seen
  <2>3. n \in Nat
    BY <2>2
  <2> HIDE DEF n
  <2>4. ike_buffer'[s] = SubSeq(now, n + 1, Len(now))
    BY <1>4, <1>6, <1>7, <2>2, <2>3, AppendToRest
  <2>5. \A i \in 1 .. n : i \in 1 .. Len(seen)
    BY <1>7, <2>2, <2>3
  <2>6. n <= Len(now)
    BY <1>7, <2>2, <2>3
  <2> QED BY <1>7, <2>2, <2>4, <2>5, <2>6
<1>9. Reported'
  BY <1>1 DEF Reported
<1> QED BY <1>3, <1>5, <1>8, <1>9 DEF IkeInv

\* What a round finds while there are only messages: the next of them.
LEMMA NextMessage ==
  ASSUME NEW s \in IkeSides, IkeInv, OnlyMessages(s), ike_buffer[s] # <<>>
  PROVE  LET n == Len(ike_messages[s])
             b == ike_buffer[s]
         IN  /\ b \in Seq(Pieces) /\ n + 1 \in 1 .. Len(ike_seen[s])
             /\ Head(b) = ike_seen[s][n + 1] /\ b[1] = Head(b) /\ Whole(Head(b))
             /\ Head(b).of \in IkeMessageSet
             /\ Len(b) = Len(ike_seen[s]) - n
             /\ b[1].len \in Nat \ {0} /\ b[1].len <= BytesIn(b)
             /\ ike_message_unmarshal(b) = IF BytesIn(b) < SizeofIkeHeader THEN {0} ELSE {b[1].len}
<1> DEFINE n == Len(ike_messages[s])
           b == ike_buffer[s]
           seen == ike_seen[s]
<1>1. seen \in Seq(Pieces) /\ Len(seen) \in Nat
  BY DEF IkeInv, IkeShape
<1>2. n <= Len(seen) /\ b = SubSeq(seen, n + 1, Len(seen)) /\ b # <<>> /\ n \in Nat
  <2>1. IkeListing(s)
    BY DEF IkeInv
  <2>2. ike_messages[s] \in Seq(IkeMessageSet)
    BY <2>1 DEF IkeListing
  <2>3. n \in Nat
    BY <2>2
  <2> QED BY <2>1, <2>3 DEF IkeListing
<1>3. \A i \in DOMAIN seen : Whole(seen[i])
  BY DEF OnlyMessages
<1> HIDE DEF n, seen, b
<1>4. b \in Seq(Pieces) /\ n + 1 \in 1 .. Len(seen) /\ b[1] = seen[n + 1] /\ Head(b) = b[1]
      /\ Len(b) = Len(seen) - n
  BY <1>1, <1>2
<1>5. Whole(b[1])
  BY <1>1, <1>3, <1>4
<1>6. b[1].len \in Nat \ {0} /\ b[1].len <= BytesIn(b)
  <2>1. b[1] \in Pieces
    BY <1>1, <1>4
  <2> QED BY <2>1, <1>2, <1>4, PieceType, BytesAtLeast
<1>7. ike_message_unmarshal(b) = IF BytesIn(b) < SizeofIkeHeader THEN {0} ELSE {b[1].len}
  BY <1>4, <1>5 DEF ike_message_unmarshal, Minimum
<1>8. b[1].of \in IkeMessageSet
  <2>1. b[1] \in Pieces
    BY <1>1, <1>4
  <2> QED BY <2>1, <1>5, PieceType DEF Whole
<1> QED BY <1>4, <1>5, <1>6, <1>7, <1>8 DEF n, b, seen

LEMMA MessageKeepsIke ==
  ASSUME NEW s \in IkeSides, NEW k, IkeInv, ike_message(s, k)
  PROVE  IkeInv'
<1> DEFINE n == Len(ike_messages[s])
           seen == ike_seen[s]
           b == ike_buffer[s]
<1>1. /\ ike_seen' = ike_seen /\ ike_complaint' = ike_complaint /\ ike_busy = s
      /\ b # <<>> /\ ~Full(ike_messages[s]) /\ k \in ike_message_unmarshal(b) /\ k # 0
  BY DEF ike_message
<1>2. \/ /\ k > BytesIn(b)
         /\ ike_buffer' = [ike_buffer EXCEPT ![s] = <<>>]
         /\ ike_messages' = ike_messages
      \/ /\ ~ (k > BytesIn(b)) /\ ike_busy' = ike_busy
         /\ ike_buffer' = [ike_buffer EXCEPT ![s] = Skip(b, k)]
         /\ ike_messages' = [ike_messages EXCEPT ![s] = Append(@, IF Whole(Head(b)) THEN Head(b).of ELSE Bogus)]
  BY DEF ike_message
<1>3. IkeShape
  BY DEF IkeInv
<1>4. IkeShape'
  <2>1. CASE k > BytesIn(b)
    BY <1>1, <1>2, <1>3, <2>1 DEF IkeShape
  <2>2. CASE ~ (k > BytesIn(b))
    BY <1>1, <1>2, <1>3, <2>2 DEF IkeShape
  <2> QED BY <2>1, <2>2
<1>5. ASSUME NEW t \in IkeSides, t # s PROVE IkeListing(t)'
  <2>1. ike_seen'[t] = ike_seen[t] /\ ike_buffer'[t] = ike_buffer[t] /\ ike_messages'[t] = ike_messages[t]
    BY <1>1, <1>2, <1>3, <1>5 DEF IkeShape
  <2>2. ike_busy # t /\ IkeListing(t)
    BY <1>1, <1>5 DEF IkeInv
  <2> QED BY <2>1, <2>2, OtherListing
<1>6. Reported'
  BY <1>1 DEF IkeInv, Reported, IkeSides
<1>7. IkeListing(s)'
  <2>1. OnlyMessages(s)' <=> OnlyMessages(s)
    BY <1>1 DEF OnlyMessages
  <2> SUFFICES ASSUME OnlyMessages(s)
               PROVE  /\ ike_messages'[s] \in Seq(IkeMessageSet)
                      /\ Len(ike_messages'[s]) <= Len(seen) /\ Len(ike_messages'[s]) <= IKE_MAX_MESSAGES
                      /\ \A i \in 1 .. Len(ike_messages'[s]) : ike_messages'[s][i] = seen[i].of
                      /\ ike_buffer'[s] = SubSeq(seen, Len(ike_messages'[s]) + 1, Len(seen))
                      /\ ike_busy' = s
    BY <1>1, <2>1 DEF IkeListing
  <2>2. /\ b \in Seq(Pieces) /\ n + 1 \in 1 .. Len(seen)
        /\ Head(b) = seen[n + 1] /\ b[1] = Head(b) /\ Whole(Head(b))
        /\ Head(b).of \in IkeMessageSet
        /\ b[1].len \in Nat \ {0} /\ b[1].len <= BytesIn(b)
        /\ ike_message_unmarshal(b) = IF BytesIn(b) < SizeofIkeHeader THEN {0} ELSE {b[1].len}
    BY <1>1, NextMessage
  <2>3. k = b[1].len
    BY <1>1, <2>2
  <2>4. BytesIn(b) \in Nat
    <3> HIDE DEF b
    <3>1. PICK p : IsBytes(b, p)
      BY <2>2, BytesOfPrefix
    <3>2. Len(b) \in 0 .. Len(b)
      BY <2>2
    <3> QED BY <3>1, <3>2 DEF IsBytes
  <2>5. ~ (k > BytesIn(b))
    <3> HIDE DEF b
    <3> QED BY <2>2, <2>3, <2>4
  <2>6. /\ ike_busy' = s
        /\ ike_buffer'[s] = SubSeq(b, 2, Len(b))
        /\ ike_messages'[s] = Append(ike_messages[s], seen[n + 1].of)
    <3>1. Skip(b, k) = SubSeq(b, 2, Len(b))
      <4> HIDE DEF b
      <4> QED BY <1>1, <2>2, <2>3, SkipFirst
    <3> QED BY <1>1, <1>2, <1>3, <2>2, <2>5, <3>1 DEF IkeShape
  <2>7. /\ ike_messages[s] \in Seq(IkeMessageSet) /\ n \in Nat
        /\ n <= Len(seen) /\ n <= IKE_MAX_MESSAGES /\ n # IKE_MAX_MESSAGES
        /\ \A i \in 1 .. n : ike_messages[s][i] = seen[i].of
        /\ b = SubSeq(seen, n + 1, Len(seen))
    <3>1. IkeListing(s)
      BY DEF IkeInv
    <3>2. ike_messages[s] \in Seq(IkeMessageSet)
      BY <3>1 DEF IkeListing
    <3>3. n \in Nat /\ n # IKE_MAX_MESSAGES
      BY <1>1, <3>2 DEF Full
    <3> QED BY <3>1, <3>2, <3>3 DEF IkeListing
  <2>8. seen \in Seq(Pieces) /\ seen[n + 1].of \in IkeMessageSet
    BY <1>3, <2>2 DEF IkeShape
  <2>9. SubSeq(b, 2, Len(b)) = SubSeq(seen, n + 2, Len(seen))
    <3> HIDE DEF n, seen, b
    <3>1. Len(seen) \in Nat
      BY <2>8
    <3>2. n < Len(seen)
      BY <2>2, <2>7, <3>1
    <3> QED BY <2>7, <2>8, <3>2, RestOfRest
  <2>10. /\ ike_messages'[s] \in Seq(IkeMessageSet) /\ Len(ike_messages'[s]) = n + 1
         /\ \A i \in 1 .. (n + 1) : ike_messages'[s][i] = seen[i].of
    <3> DEFINE m == ike_messages[s]
               m2 == ike_messages'[s]
    <3>1. m2 = Append(m, seen[n + 1].of) /\ m \in Seq(IkeMessageSet) /\ n = Len(m)
      BY <2>6, <2>7
    <3> HIDE DEF m, m2, n, seen
    <3>2. m2 \in Seq(IkeMessageSet) /\ Len(m2) = n + 1 /\ m2[n + 1] = seen[n + 1].of
          /\ \A i \in 1 .. n : m2[i] = m[i]
      BY <2>8, <3>1
    <3>3. \A i \in 1 .. (n + 1) : i = n + 1 \/ i \in 1 .. n
      BY <2>7
    <3>4. \A i \in 1 .. n : m[i] = seen[i].of
      BY <2>7 DEF m
    <3> QED BY <3>2, <3>3, <3>4 DEF m2
  <2>11. n + 1 <= Len(seen) /\ n + 1 <= IKE_MAX_MESSAGES /\ (n + 1) + 1 = n + 2
    <3> HIDE DEF n, seen
    <3> QED BY <2>2, <2>7, IkeAssumption
  <2> QED BY <2>6, <2>9, <2>10, <2>11
<1> QED BY <1>4, <1>5, <1>6, <1>7 DEF IkeInv

\* Two messages are more than the size of the structure.
LEMMA EndKeepsIke ==
  ASSUME NEW s \in IkeSides, IkeInv, vector_set(s)
  PROVE  IkeInv'
<1> DEFINE n == Len(ike_messages[s])
           seen == ike_seen[s]
           b == ike_buffer[s]
<1>1. /\ b = <<>> \/ Full(ike_messages[s]) \/ 0 \in ike_message_unmarshal(b)
      /\ ike_busy = s /\ ike_busy' = "none"
      /\ UNCHANGED <<ike_seen, ike_buffer, ike_messages, ike_complaint>>
  BY DEF vector_set
<1>2. IkeShape'
  BY <1>1 DEF IkeInv, IkeShape
<1>3. Reported'
  BY <1>1 DEF IkeInv, Reported, IkeSides
<1>4. ASSUME NEW t \in IkeSides, t # s PROVE IkeListing(t)'
  <2>1. ike_busy # t /\ IkeListing(t)
    BY <1>1, <1>4 DEF IkeInv
  <2> QED BY <1>1, <2>1, OtherListing
<1>5. ASSUME OnlyMessages(s)
      PROVE  \/ n = Len(seen) \/ n = IKE_MAX_MESSAGES
             \/ n = Len(seen) - 1 /\ seen[n + 1].len < SizeofIkeHeader
  <2>1. IkeListing(s) /\ seen \in Seq(Pieces) /\ Len(seen) \in Nat
    BY DEF IkeInv, IkeShape
  <2>2. ike_messages[s] \in Seq(IkeMessageSet) /\ n <= Len(seen) /\ b = SubSeq(seen, n + 1, Len(seen))
    BY <1>5, <2>1 DEF IkeListing
  <2>3. n \in Nat
    BY <2>2
  <2>4. CASE b = <<>>
    <3> HIDE DEF n, seen, b
    <3>1. n < Len(seen) => Len(SubSeq(seen, n + 1, Len(seen))) = Len(seen) - n
      BY <2>1, <2>3
    <3>2. Len(b) = 0
      BY <2>4
    <3>3. ~ (n < Len(seen))
      BY <2>1, <2>2, <2>3, <3>1, <3>2
    <3> QED BY <2>1, <2>2, <2>3, <3>3
  <2>5. CASE Full(ike_messages[s])
    BY <2>5 DEF Full
  <2>6. CASE b # <<>> /\ 0 \in ike_message_unmarshal(b)
    <3>1. /\ b \in Seq(Pieces) /\ b[1] = seen[n + 1] /\ Whole(b[1])
          /\ Len(b) = Len(seen) - n /\ b[1].len \in Nat \ {0}
          /\ ike_message_unmarshal(b) = IF BytesIn(b) < SizeofIkeHeader THEN {0} ELSE {b[1].len}
      BY <1>5, <2>6, NextMessage
    <3> HIDE DEF n, seen
    <3>2. \A i \in DOMAIN b : Whole(b[i]) /\ b[i] \in Pieces
      <4> SUFFICES ASSUME NEW i \in DOMAIN b PROVE Whole(b[i]) /\ b[i] \in Pieces
        OBVIOUS
      <4>1. b[i] = seen[n + i] /\ n + i \in DOMAIN seen
        <5> HIDE DEF b
        <5> QED BY <2>1, <2>2, <2>3, <3>1
      <4> QED BY <1>5, <3>1, <4>1 DEF OnlyMessages, seen
    <3> HIDE DEF b
    <3>3. BytesIn(b) < SizeofIkeHeader /\ SizeofIkeHeader \in 28 .. 32
      BY <2>6, <3>1, IkeAssumption
    <3>4. BytesIn(b) \in Nat
      <4>1. PICK p : IsBytes(b, p)
        BY <3>1, BytesOfPrefix
      <4>2. Len(b) \in 0 .. Len(b)
        BY <3>1
      <4> QED BY <4>1, <4>2 DEF IsBytes
    <3>5. Len(b) = 1
      <4> SUFFICES ASSUME Len(b) > 1 PROVE FALSE
        BY <2>6, <3>1
      <4>1. 1 \in DOMAIN b /\ 2 \in DOMAIN b
        BY <3>1
      <4>2. b[1].len \in Nat /\ b[2].len \in Nat /\ b[1].len >= 28 /\ b[2].len >= 28
        BY <3>2, <4>1, PieceType
      <4>3. b[1].len + b[2].len <= BytesIn(b)
        BY <2>6, <3>1, BytesAtLeast
      <4> QED BY <3>3, <3>4, <4>2, <4>3
    <3>6. BytesIn(b) = b[1].len
      BY <2>6, <3>1, <3>5, BytesAtLeast
    <3>7. n = Len(seen) - 1
      <4> DEFINE l == Len(seen)
                 k == Len(b)
      <4>1. l \in Nat /\ k = l - n /\ k = 1
        BY <2>1, <3>1, <3>5
      <4> HIDE DEF l, k
      <4>2. n = l - 1
        BY <2>3, <4>1
      <4> QED BY <4>2 DEF l
    <3>8. seen[n + 1].len < SizeofIkeHeader
      BY <3>1, <3>3, <3>6
    <3> QED BY <3>7, <3>8 DEF n, seen
  <2> QED BY <1>1, <2>4, <2>5, <2>6
<1>6. IkeListing(s)'
  <2>1. OnlyMessages(s)' <=> OnlyMessages(s)
    BY <1>1 DEF OnlyMessages
  <2>2. IkeListing(s)
    BY DEF IkeInv
  <2> QED BY <1>1, <1>5, <2>1, <2>2 DEF IkeListing
<1> QED BY <1>2, <1>3, <1>4, <1>6 DEF IkeInv

LEMMA IkePrintKeeps == IkeInv /\ ike_print_json => IkeInv'
<1> SUFFICES ASSUME IkeInv, ike_print_json PROVE IkeInv'
  OBVIOUS
<1>1. /\ ike_busy = "none" /\ ike_complaint' = ike_process
      /\ UNCHANGED <<ike_seen, ike_buffer, ike_messages, ike_busy>>
  BY DEF ike_print_json
<1>2. IkeShape' /\ \A s \in IkeSides : IkeListing(s)'
  <2>1. IkeShape'
    BY <1>1 DEF IkeInv, IkeShape
  <2>2. ASSUME NEW s \in IkeSides PROVE IkeListing(s)'
    <3>1. ike_busy # s /\ IkeListing(s)
      BY <1>1 DEF IkeInv, IkeSides
    <3> QED BY <1>1, <3>1, OtherListing
  <2> QED BY <2>1, <2>2
<1>3. Reported'
  BY <1>1 DEF Reported, ike_process
<1> QED BY <1>2, <1>3 DEF IkeInv

LEMMA IkeStep == IkeInv /\ [IkeNext]_ikeVars => IkeInv'
<1> SUFFICES ASSUME IkeInv, [IkeNext]_ikeVars PROVE IkeInv'
  OBVIOUS
<1>1. ASSUME NEW s \in IkeSides, NEW p \in Pieces, ike_update(s, p) PROVE IkeInv'
  BY <1>1, UpdateKeepsIke
<1>2. ASSUME NEW s \in IkeSides, NEW k, ike_message(s, k) PROVE IkeInv'
  BY <1>2, MessageKeepsIke
<1>3. ASSUME NEW s \in IkeSides, vector_set(s) PROVE IkeInv'
  BY <1>3, EndKeepsIke
<1>4. CASE ike_print_json
  BY <1>4, IkePrintKeeps
<1>5. CASE UNCHANGED ikeVars
  <2>1. IkeShape'
    BY <1>5 DEF IkeInv, IkeShape, ikeVars
  <2>2. ASSUME NEW s \in IkeSides PROVE IkeListing(s)'
    BY <1>5 DEF IkeInv, IkeListing, OnlyMessages, ikeVars
  <2>3. Reported'
    BY <1>5 DEF IkeInv, Reported, ike_process, ikeVars
  <2> QED BY <2>1, <2>2, <2>3 DEF IkeInv
<1> QED BY <1>1, <1>2, <1>3, <1>4, <1>5 DEF IkeNext

LEMMA IkeInvListed == IkeInv => IkeMessagesListed
<1> SUFFICES ASSUME IkeInv, NEW s \in IkeSides, OnlyMessages(s)
             PROVE  LET n == Len(ike_messages[s]) IN
                    /\ n <= Len(ike_seen[s]) /\ ike_messages[s] = SubSeq(MessagesOf(s), 1, n)
                    /\ (ike_busy # s /\ n < Len(ike_seen[s])) =>
                         \/ n = IKE_MAX_MESSAGES
                         \/ n = Len(ike_seen[s]) - 1 /\ ike_seen[s][n + 1].len < SizeofIkeHeader
  BY DEF IkeMessagesListed
<1> DEFINE m == ike_messages[s]
           n == Len(m)
           seen == ike_seen[s]
<1>1. IkeListing(s) /\ seen \in Seq(Pieces) /\ Len(seen) \in Nat
  BY DEF IkeInv, IkeShape
<1>2. m \in Seq(IkeMessageSet) /\ n <= Len(seen) /\ \A i \in 1 .. n : m[i] = seen[i].of
  BY <1>1 DEF IkeListing
<1>3. m = SubSeq(MessagesOf(s), 1, n)
  <2> DEFINE of == [i \in 1 .. Len(seen) |-> seen[i].of]
  <2>1. MessagesOf(s) = of
    BY <1>1 DEF MessagesOf
  <2> HIDE DEF m, seen
  <2>2. of \in Seq({seen[i].of : i \in 1 .. Len(seen)}) /\ Len(of) = Len(seen)
    BY <1>1
  <2>3. \A i \in 1 .. n : i \in 1 .. Len(seen) /\ of[i] = seen[i].of
    BY <1>1, <1>2
  <2> HIDE DEF of
  <2>4. m = SubSeq(of, 1, n)
    BY <1>1, <1>2, <2>2, <2>3
  <2> QED BY <2>1, <2>4
<1>4. n \in Nat
  BY <1>2
<1>5. (ike_busy # s /\ n < Len(seen)) =>
         \/ n = IKE_MAX_MESSAGES
         \/ n = Len(seen) - 1 /\ seen[n + 1].len < SizeofIkeHeader
  BY <1>1, <1>4 DEF IkeListing
<1> QED BY <1>2, <1>3, <1>5

\* Of a side that only sees whole messages, one message is listed for each
\* datagram, in order and up to the limit of the list; only a bare header may
\* wait.
THEOREM MessagesListed == IkeSpec => []IkeMessagesListed
<1>1. IkeSpec => []IkeInv
  BY IkeStarts, IkeStep, PTL DEF IkeSpec
<1> QED BY <1>1, IkeInvListed, PTL

LEMMA ListedAll ==
  ASSUME NEW s \in IkeSides, IkeInv, OnlyMessages(s), Len(ike_messages[s]) = Len(ike_seen[s])
  PROVE  /\ ike_messages[s] = MessagesOf(s)
         /\ DOMAIN MessagesOf(s) = 1 .. Len(ike_seen[s]) /\ Len(ike_seen[s]) \in Nat
<1> DEFINE m == ike_messages[s]
           seen == ike_seen[s]
<1>1. IkeListing(s) /\ seen \in Seq(Pieces)
  BY DEF IkeInv, IkeShape
<1>2. m \in Seq(IkeMessageSet) /\ Len(m) = Len(seen) /\ \A i \in 1 .. Len(m) : m[i] = seen[i].of
  BY <1>1 DEF IkeListing
<1>3. /\ DOMAIN m = 1 .. Len(seen) /\ m = [i \in 1 .. Len(seen) |-> m[i]]
      /\ Len(seen) \in Nat /\ DOMAIN seen = 1 .. Len(seen)
  <2> HIDE DEF m, seen
  <2>1. DOMAIN m = 1 .. Len(seen)
    BY <1>2
  <2>2. m = [i \in DOMAIN m |-> m[i]]
    BY <1>2
  <2>3. Len(seen) \in Nat /\ DOMAIN seen = 1 .. Len(seen)
    BY <1>1
  <2> QED BY <2>1, <2>2, <2>3
<1>4. MessagesOf(s) = [i \in 1 .. Len(seen) |-> seen[i].of]
  BY <1>3 DEF MessagesOf
<1> HIDE DEF m, seen
<1>5. m = [i \in 1 .. Len(seen) |-> seen[i].of]
  BY <1>2, <1>3
<1> QED BY <1>3, <1>4, <1>5 DEF m, seen

LEMMA SomeWithSA ==
  ASSUME NEW l \in Nat, NEW k \in Nat, NEW a, NEW b, DOMAIN a = 1 .. l, DOMAIN b = 1 .. k,
         WithSA(a) # {}, Cardinality(WithSA(a)) = Cardinality(WithSA(b))
  PROVE  WithSA(b) # {}
<1>1. IsFiniteSet(1 .. l)
  BY FS_Interval
<1>2. WithSA(a) \in SUBSET (1 .. l)
  BY DEF WithSA
<1>3. IsFiniteSet(WithSA(a))
  BY <1>1, <1>2, FS_Subset
<1>4. Cardinality(WithSA(a)) # 0
  BY <1>3, FS_EmptySet
<1> QED BY <1>4, FS_EmptySet

\* Of a connection whose exchanges are all answered, a mismatch is reported
\* exactly if the last answer chooses what was not offered last.
THEOREM ComplaintIsTrue == IkeSpec => []IkeComplaintTrue
<1>1. IkeInv => IkeComplaintTrue
  <2> DEFINE offers == MessagesOf("init")
             answers == MessagesOf("resp")
  <2> SUFFICES ASSUME IkeInv, ike_complaint # "not printed",
                      \A s \in IkeSides : OnlyMessages(s) /\ Len(ike_messages[s]) = Len(ike_seen[s]),
                      WithSA(offers) # {}, Cardinality(WithSA(offers)) = Cardinality(WithSA(answers))
               PROVE  (ike_complaint = "none")
                        <=> ike_sa_match(offers[Max(WithSA(offers))].sa, answers[Max(WithSA(answers))].sa)
    BY DEF IkeComplaintTrue
  <2>1. \A s \in IkeSides : /\ ike_messages[s] = MessagesOf(s)
                            /\ DOMAIN MessagesOf(s) = 1 .. Len(ike_seen[s]) /\ Len(ike_seen[s]) \in Nat
    <3> SUFFICES ASSUME NEW s \in IkeSides
                 PROVE  /\ ike_messages[s] = MessagesOf(s)
                        /\ DOMAIN MessagesOf(s) = 1 .. Len(ike_seen[s]) /\ Len(ike_seen[s]) \in Nat
      OBVIOUS
    <3> QED BY ListedAll
  <2>2. "init" \in IkeSides /\ "resp" \in IkeSides
    BY DEF IkeSides
  <2> HIDE DEF offers, answers
  <2>3. ike_messages["init"] = offers /\ ike_messages["resp"] = answers
    BY <2>1, <2>2 DEF offers, answers
  <2>4. PICK l \in Nat, k \in Nat : DOMAIN offers = 1 .. l /\ DOMAIN answers = 1 .. k
    BY <2>1, <2>2 DEF offers, answers
  <2>5. WithSA(offers) \in SUBSET (1 .. l) /\ WithSA(answers) \in SUBSET (1 .. k)
    BY <2>4 DEF WithSA
  <2>6. WithSA(answers) # {}
    BY <2>4, SomeWithSA
  <2>7. Max(WithSA(offers)) \in WithSA(offers) /\ Max(WithSA(answers)) \in WithSA(answers)
    BY <2>4, <2>5, <2>6, MaxOf
  <2>8. ike_sa_get(offers) = offers[Max(WithSA(offers))].sa /\ ike_sa_get(answers) = answers[Max(WithSA(answers))].sa
    BY <2>6 DEF ike_sa_get
  <2>9. ike_sa_get(offers) # NoSA /\ ike_sa_get(answers) # NoSA
    BY <2>7, <2>8 DEF WithSA
  <2>10. ike_complaint = ike_process
    BY DEF IkeInv, Reported
  <2>11. ike_process = IF ~ike_sa_match(ike_sa_get(offers), ike_sa_get(answers)) THEN "mismatch" ELSE "none"
    BY <2>3, <2>9 DEF ike_process
  <2> QED BY <2>8, <2>10, <2>11
<1>2. IkeSpec => []IkeInv
  BY IkeStarts, IkeStep, PTL DEF IkeSpec
<1> QED BY <1>1, <1>2, PTL

-----------------------------------------------------------------------------

(***************************************************************************)
(* Suffixes.                                                               *)
(***************************************************************************)
IsEndOf(t, s) == Len(t) <= Len(s) /\ \A i \in 1 .. Len(t) : t[i] = s[Len(s) - Len(t) + i]

LEMMA SuffixIs ==
  ASSUME NEW C, NEW s \in Seq(C), NEW t
  PROVE  t \in SuffixesOf(s) <=> t \in Seq(C) /\ IsEndOf(t, s)
<1> DEFINE l == Len(s)
<1>1. l \in Nat /\ \A i \in 1 .. l : s[i] \in C
  OBVIOUS
<1>2. ASSUME NEW n \in 1 .. l + 1
      PROVE  LET u == SubSeq(s, n, l) IN
             u \in Seq(C) /\ Len(u) = l - n + 1 /\ \A i \in 1 .. (l - n + 1) : u[i] = s[n + i - 1]
  <2>1. n \in Int /\ l \in Int /\ \A i \in n .. l : s[i] \in C
    BY <1>1
  <2> HIDE DEF l
  <2>2. /\ SubSeq(s, n, l) \in Seq(C) /\ Len(SubSeq(s, n, l)) = IF n <= l THEN l - n + 1 ELSE 0
        /\ \A i \in 1 .. l - n + 1 : SubSeq(s, n, l)[i] = s[n + i - 1]
    BY <2>1, SubSeqProperties
  <2>3. ~ (n <= l) => l - n + 1 = 0
    BY <1>1
  <2> QED BY <2>2, <2>3
<1>3. ASSUME t \in SuffixesOf(s) PROVE t \in Seq(C) /\ IsEndOf(t, s)
  <2>1. PICK n \in 1 .. l + 1 : t = SubSeq(s, n, l)
    BY <1>3 DEF SuffixesOf
  <2>2. t \in Seq(C) /\ Len(t) = l - n + 1 /\ \A i \in 1 .. (l - n + 1) : t[i] = s[n + i - 1]
    BY <1>2, <2>1
  <2> HIDE DEF l
  <2>3. Len(t) <= l /\ \A i \in 1 .. Len(t) : l - Len(t) + i = n + i - 1
    BY <1>1, <2>2
  <2> QED BY <2>2, <2>3 DEF IsEndOf, l
<1>4. ASSUME t \in Seq(C), IsEndOf(t, s) PROVE t \in SuffixesOf(s)
  <2> DEFINE n == l - Len(t) + 1
             u == SubSeq(s, n, l)
  <2>1. Len(t) \in Nat /\ n \in 1 .. l + 1 /\ l - n + 1 = Len(t)
    <3>1. Len(t) \in Nat /\ Len(t) <= l
      BY <1>4 DEF IsEndOf
    <3> HIDE DEF l
    <3> QED BY <1>1, <3>1
  <2>2. u \in Seq(C) /\ Len(u) = Len(t) /\ \A i \in 1 .. Len(t) : u[i] = s[n + i - 1]
    <3> HIDE DEF l
    <3> QED BY <1>2, <2>1
  <2>3. \A i \in 1 .. Len(t) : u[i] = t[i]
    <3> HIDE DEF u
    <3>1. \A i \in 1 .. Len(t) : n + i - 1 = l - Len(t) + i
      BY <2>1, <1>1
    <3> QED BY <2>2, <3>1, <1>4 DEF IsEndOf
  <2>4. t = u
    <3> HIDE DEF u
    <3> QED BY <1>4, <2>2, <2>3, SeqEqual
  <2> HIDE DEF n
  <2> QED BY <2>1, <2>4 DEF SuffixesOf
<1> QED BY <1>3, <1>4

LEMMA SuffixSelf ==
  ASSUME NEW C, NEW s \in Seq(C)
  PROVE  IsEndOf(s, s) /\ IsEndOf(<<>>, s)
<1>1. Len(s) \in Nat /\ Len(<<>>) = 0
  OBVIOUS
<1>2. \A i \in 1 .. Len(s) : Len(s) - Len(s) + i = i
  BY <1>1
<1> QED BY <1>1, <1>2 DEF IsEndOf

LEMMA SuffixTrans ==
  ASSUME NEW C, NEW s \in Seq(C), NEW t \in Seq(C), NEW u \in Seq(C), IsEndOf(t, s), IsEndOf(u, t)
  PROVE  IsEndOf(u, s)
<1> DEFINE l == Len(s) m == Len(t) n == Len(u)
<1>1. l \in Nat /\ m \in Nat /\ n \in Nat
  OBVIOUS
<1>2. m <= l /\ n <= m /\ (\A i \in 1 .. m : t[i] = s[l - m + i]) /\ (\A i \in 1 .. n : u[i] = t[m - n + i])
  BY DEF IsEndOf
<1> HIDE DEF l, m, n
<1>3. ASSUME NEW i \in 1 .. n PROVE u[i] = s[l - n + i]
  <2>1. m - n + i \in 1 .. m /\ l - m + (m - n + i) = l - n + i
    BY <1>1, <1>2
  <2> QED BY <1>2, <2>1
<1> QED BY <1>1, <1>2, <1>3 DEF IsEndOf, l, m, n

\* Of two suffixes, the shorter is one of the longer.
LEMMA SuffixOfLonger ==
  ASSUME NEW C, NEW s \in Seq(C), NEW t \in Seq(C), NEW u \in Seq(C), IsEndOf(t, s), IsEndOf(u, s),
         Len(u) <= Len(t)
  PROVE  IsEndOf(u, t)
<1> DEFINE l == Len(s) m == Len(t) n == Len(u)
<1>1. l \in Nat /\ m \in Nat /\ n \in Nat /\ n <= m
  OBVIOUS
<1>2. m <= l /\ n <= l /\ (\A i \in 1 .. m : t[i] = s[l - m + i]) /\ (\A i \in 1 .. n : u[i] = s[l - n + i])
  BY DEF IsEndOf
<1> HIDE DEF l, m, n
<1>3. ASSUME NEW i \in 1 .. n PROVE u[i] = t[m - n + i]
  <2>1. m - n + i \in 1 .. m /\ l - m + (m - n + i) = l - n + i
    BY <1>1, <1>2
  <2> QED BY <1>2, <2>1
<1> QED BY <1>1, <1>3 DEF IsEndOf, m, n

LEMMA SuffixSame ==
  ASSUME NEW C, NEW s \in Seq(C), NEW t \in Seq(C), IsEndOf(t, s), Len(t) = Len(s)
  PROVE  t = s
<1>1. Len(s) \in Nat /\ \A i \in 1 .. Len(s) : Len(s) - Len(t) + i = i
  OBVIOUS
<1>2. \A i \in 1 .. Len(t) : t[i] = s[i]
  BY <1>1 DEF IsEndOf
<1> QED BY <1>2, SeqEqual

LEMMA TailIs ==
  ASSUME NEW C, NEW s \in Seq(C), s # <<>>
  PROVE  Tail(s) \in Seq(C) /\ Len(Tail(s)) = Len(s) - 1 /\ Len(s) \in Nat \ {0}
         /\ \A i \in 1 .. (Len(s) - 1) : Tail(s)[i] = s[i + 1]
OBVIOUS

\* A proper suffix is one of the tail.
LEMMA SuffixOfTail ==
  ASSUME NEW C, NEW s \in Seq(C), NEW t \in Seq(C), s # <<>>
  PROVE  IsEndOf(t, s) <=> t = s \/ IsEndOf(t, Tail(s))
<1> DEFINE l == Len(s) n == Len(t) r == Tail(s)
<1>1. r \in Seq(C) /\ Len(r) = l - 1 /\ l \in Nat \ {0} /\ (\A i \in 1 .. (l - 1) : r[i] = s[i + 1]) /\ n \in Nat
  BY TailIs
<1>2. IsEndOf(s, s)
  BY SuffixSelf
<1> HIDE DEF r
<1>3. ASSUME IsEndOf(t, s), t # s PROVE IsEndOf(t, r)
  <2>1. n # l
    BY <1>3, SuffixSame
  <2>2. n <= l /\ \A i \in 1 .. n : t[i] = s[l - n + i]
    BY <1>3 DEF IsEndOf
  <2> HIDE DEF l, n
  <2>3. n <= l - 1
    BY <1>1, <2>1, <2>2
  <2>4. ASSUME NEW i \in 1 .. n PROVE t[i] = r[(l - 1) - n + i]
    <3>1. (l - 1) - n + i \in 1 .. (l - 1) /\ ((l - 1) - n + i) + 1 = l - n + i
      BY <1>1, <2>3
    <3> QED BY <1>1, <2>2, <3>1
  <2> QED BY <1>1, <2>3, <2>4 DEF IsEndOf, n
<1>4. ASSUME IsEndOf(t, r) PROVE IsEndOf(t, s)
  <2>2. n <= l - 1 /\ \A i \in 1 .. n : t[i] = r[(l - 1) - n + i]
    BY <1>1, <1>4 DEF IsEndOf
  <2> HIDE DEF l, n
  <2>4. ASSUME NEW i \in 1 .. n PROVE t[i] = s[l - n + i]
    <3>1. (l - 1) - n + i \in 1 .. (l - 1) /\ ((l - 1) - n + i) + 1 = l - n + i
      BY <1>1, <2>2
    <3> QED BY <1>1, <2>2, <3>1
  <2>5. n <= l
    BY <1>1, <2>2
  <2> QED BY <2>4, <2>5 DEF IsEndOf, n, l
<1> QED BY <1>2, <1>3, <1>4 DEF r

LEMMA AppendIs ==
  ASSUME NEW C, NEW s \in Seq(C), NEW c \in C
  PROVE  /\ Append(s, c) \in Seq(C) /\ Append(s, c) # <<>> /\ Len(s) \in Nat
         /\ Len(Append(s, c)) = Len(s) + 1
         /\ (\A i \in 1 .. Len(s) : Append(s, c)[i] = s[i]) /\ Append(s, c)[Len(s) + 1] = c
BY AppendProperties

LEMMA AppendSame ==
  ASSUME NEW C, NEW s \in Seq(C), NEW t \in Seq(C), NEW c \in C, NEW d \in C, Append(s, c) = Append(t, d)
  PROVE  s = t /\ c = d
<1> DEFINE x == Append(s, c) y == Append(t, d)
<1>1. Len(x) = Len(s) + 1 /\ Len(s) \in Nat /\ (\A i \in 1 .. Len(s) : x[i] = s[i]) /\ x[Len(s) + 1] = c
  BY AppendIs
<1>2. Len(y) = Len(t) + 1 /\ Len(t) \in Nat /\ (\A i \in 1 .. Len(t) : y[i] = t[i]) /\ y[Len(t) + 1] = d
  BY AppendIs
<1>3. x = y
  OBVIOUS
<1> HIDE DEF x, y
<1>4. Len(s) = Len(t)
  BY <1>1, <1>2, <1>3
<1>5. s = t
  BY <1>1, <1>2, <1>3, <1>4, SeqEqual
<1> QED BY <1>1, <1>2, <1>3, <1>5

LEMMA TailOfAppend ==
  ASSUME NEW C, NEW s \in Seq(C), NEW c \in C, s # <<>>
  PROVE  Tail(Append(s, c)) = Append(Tail(s), c)
<1> DEFINE l == Len(s) r == Tail(s) x == Append(s, c) a == Append(r, c) b == Tail(x)
<1>1. r \in Seq(C) /\ Len(r) = l - 1 /\ l \in Nat \ {0} /\ (\A i \in 1 .. (l - 1) : r[i] = s[i + 1])
  BY TailIs
<1>2. x \in Seq(C) /\ x # <<>> /\ Len(x) = l + 1 /\ (\A i \in 1 .. l : x[i] = s[i]) /\ x[l + 1] = c
  BY AppendIs
<1> HIDE DEF r, x, l
<1>3. a \in Seq(C) /\ Len(a) = l /\ (\A i \in 1 .. (l - 1) : a[i] = r[i]) /\ a[l] = c
  <2>1. a \in Seq(C) /\ Len(a) = Len(r) + 1 /\ (\A i \in 1 .. Len(r) : a[i] = r[i]) /\ a[Len(r) + 1] = c
    BY <1>1, AppendIs
  <2>2. Len(r) + 1 = l
    BY <1>1
  <2> HIDE DEF a
  <2> QED BY <1>1, <2>1, <2>2
<1>4. b \in Seq(C) /\ Len(b) = l /\ \A i \in 1 .. l : b[i] = x[i + 1]
  <2>1. b \in Seq(C) /\ Len(b) = Len(x) - 1 /\ \A i \in 1 .. (Len(x) - 1) : b[i] = x[i + 1]
    BY <1>2, TailIs
  <2>2. Len(x) - 1 = l
    BY <1>1, <1>2
  <2> QED BY <2>1, <2>2
<1> HIDE DEF a, b
<1>5. ASSUME NEW i \in 1 .. l PROVE a[i] = b[i]
  <2>1. CASE i = l
    BY <1>2, <1>3, <1>4, <2>1
  <2>2. CASE i # l
    <3>1. i \in 1 .. (l - 1) /\ i + 1 \in 1 .. l
      BY <1>1, <2>2
    <3> QED BY <1>1, <1>2, <1>3, <1>4, <3>1
  <2> QED BY <2>1, <2>2
<1>6. a = b
  BY <1>3, <1>4, <1>5, SeqEqual
<1> QED BY <1>6 DEF a, b, r, x

LEMMA SuffixOfAppend ==
  ASSUME NEW C, NEW s \in Seq(C), NEW c \in C, NEW t \in Seq(C)
  PROVE  /\ IsEndOf(Append(t, c), Append(s, c)) <=> IsEndOf(t, s)
         /\ IsEndOf(t, Append(s, c)) => t = <<>> \/ \E u \in Seq(C) : t = Append(u, c) /\ IsEndOf(u, s)
<1> DEFINE l == Len(s) x == Append(s, c)
<1>1. x \in Seq(C) /\ l \in Nat /\ Len(x) = l + 1 /\ (\A i \in 1 .. l : x[i] = s[i]) /\ x[l + 1] = c
  BY AppendIs
<1> HIDE DEF x
<1>2. ASSUME NEW u \in Seq(C) PROVE IsEndOf(Append(u, c), x) <=> IsEndOf(u, s)
  <2> DEFINE n == Len(u) y == Append(u, c)
  <2>1. y \in Seq(C) /\ n \in Nat /\ Len(y) = n + 1 /\ (\A i \in 1 .. n : y[i] = u[i]) /\ y[n + 1] = c
    BY AppendIs
  <2> HIDE DEF y, l, n
  <2>2. n + 1 <= l + 1 <=> n <= l
    BY <1>1, <2>1
  <2>3. \A i \in 1 .. n : l - n + i = (l + 1) - (n + 1) + i
    BY <1>1, <2>1
  <2>4. ASSUME n <= l, NEW i \in 1 .. n PROVE i \in 1 .. (n + 1) /\ l - n + i \in 1 .. l
    BY <1>1, <2>1, <2>4
  <2>5. ASSUME n <= l, \A i \in 1 .. n : u[i] = s[l - n + i], NEW i \in 1 .. (n + 1)
        PROVE  y[i] = x[(l + 1) - (n + 1) + i]
    <3>1. CASE i = n + 1
      <4>1. (l + 1) - (n + 1) + i = l + 1
        BY <1>1, <2>1, <3>1
      <4> QED BY <1>1, <2>1, <3>1, <4>1
    <3>2. CASE i \in 1 .. n
      BY <1>1, <2>1, <2>3, <2>4, <2>5, <3>2
    <3> QED BY <2>1, <3>1, <3>2
  <2>6. ASSUME n <= l, \A i \in 1 .. (n + 1) : y[i] = x[(l + 1) - (n + 1) + i], NEW i \in 1 .. n
        PROVE  u[i] = s[l - n + i]
    BY <1>1, <2>1, <2>3, <2>4, <2>6
  <2>7. IsEndOf(u, s) <=> n <= l /\ \A i \in 1 .. n : u[i] = s[l - n + i]
    BY DEF IsEndOf, l, n
  <2>8. IsEndOf(y, x) <=> n + 1 <= l + 1 /\ \A i \in 1 .. (n + 1) : y[i] = x[(l + 1) - (n + 1) + i]
    BY <1>1, <2>1 DEF IsEndOf
  <2> QED BY <2>2, <2>5, <2>6, <2>7, <2>8 DEF y
<1>3. ASSUME IsEndOf(t, x), t # <<>>
      PROVE  \E u \in Seq(C) : t = Append(u, c) /\ IsEndOf(u, s)
  <2> DEFINE n == Len(t) u == SubSeq(t, 1, n - 1)
  <2>1. n \in Nat \ {0} /\ \A i \in 1 .. n : t[i] \in C
    BY <1>3
  <2>2. n <= l + 1 /\ \A i \in 1 .. n : t[i] = x[(l + 1) - n + i]
    BY <1>1, <1>3 DEF IsEndOf
  <2>3. t[n] = c
    <3> HIDE DEF n, l
    <3>1. n \in 1 .. n /\ (l + 1) - n + n = l + 1
      BY <1>1, <2>1
    <3> QED BY <1>1, <2>2, <3>1
  <2>4. u \in Seq(C) /\ Len(u) = n - 1 /\ \A i \in 1 .. (n - 1) : u[i] = t[i]
    <3> HIDE DEF n
    <3>1. 1 \in Int /\ n - 1 \in Int /\ \A i \in 1 .. n - 1 : t[i] \in C
      BY <2>1
    <3>2. /\ u \in Seq(C) /\ Len(u) = IF 1 <= n - 1 THEN (n - 1) - 1 + 1 ELSE 0
          /\ \A i \in 1 .. (n - 1) - 1 + 1 : u[i] = t[1 + i - 1]
      BY <3>1, SubSeqProperties
    <3>3. (n - 1) - 1 + 1 = n - 1 /\ \A i \in 1 .. (n - 1) : 1 + i - 1 = i
      BY <2>1
    <3>4. ~ (1 <= n - 1) => n - 1 = 0
      BY <2>1
    <3> HIDE DEF u
    <3> QED BY <3>2, <3>3, <3>4
  <2> HIDE DEF u
  <2> DEFINE y == Append(u, c)
  <2>5. y \in Seq(C) /\ Len(y) = Len(u) + 1 /\ (\A i \in 1 .. Len(u) : y[i] = u[i]) /\ y[Len(u) + 1] = c
    BY <2>4, AppendIs
  <2> HIDE DEF y
  <2>6. Len(u) + 1 = n /\ Len(y) = n
    <3> HIDE DEF n
    <3> QED BY <2>1, <2>4, <2>5
  <2>7. ASSUME NEW i \in 1 .. n PROVE t[i] = y[i]
    <3> HIDE DEF n
    <3>1. i = n \/ i \in 1 .. (n - 1)
      BY <2>1
    <3> QED BY <2>3, <2>4, <2>5, <2>6, <3>1
  <2>8. t = y
    BY <2>5, <2>6, <2>7, SeqEqual
  <2> QED BY <1>2, <1>3, <2>4, <2>8 DEF y
<1> QED BY <1>2, <1>3 DEF x

-----------------------------------------------------------------------------

(***************************************************************************)
(* The longest suffix that is a state.                                     *)
(***************************************************************************)
Best(S, x) == LongestOf(S \cap SuffixesOf(x))

LEMMA LongestIs ==
  ASSUME NEW C, NEW S \in SUBSET Seq(C), <<>> \in S, NEW x \in Seq(C)
  PROVE  LET b == LongestOf(S \cap SuffixesOf(x)) IN
         b \in S /\ b \in Seq(C) /\ IsEndOf(b, x) /\ \A u \in S : IsEndOf(u, x) => Len(u) <= Len(b)
<1> DEFINE A == S \cap SuffixesOf(x)
           D == {Len(x) - Len(t) : t \in A}
<1>1. \A t : t \in A <=> t \in S /\ IsEndOf(t, x)
  BY SuffixIs
<1>2. <<>> \in A
  BY <1>1, SuffixSelf
<1> HIDE DEF A
<1>3. \A t \in A : Len(t) \in Nat /\ Len(t) <= Len(x)
  <2> SUFFICES ASSUME NEW t \in A PROVE Len(t) \in Nat /\ Len(t) <= Len(x)
    OBVIOUS
  <2>1. t \in Seq(C) /\ IsEndOf(t, x)
    BY <1>1
  <2> QED BY <2>1 DEF IsEndOf
<1>4. Len(x) \in Nat
  OBVIOUS
<1>5. D \in SUBSET Nat /\ D # {}
  BY <1>2, <1>3, <1>4
<1>6. PICK d \in D : \A e \in D : d <= e
  BY <1>5, LeastNatural
<1>7. PICK b \in A : d = Len(x) - Len(b)
  BY <1>6
<1>8. \A t \in A : Len(t) <= Len(b)
  <2> SUFFICES ASSUME NEW t \in A PROVE Len(t) <= Len(b)
    OBVIOUS
  <2>1. Len(x) - Len(b) <= Len(x) - Len(t)
    BY <1>6, <1>7
  <2> QED BY <1>3, <1>4, <2>1
<1>9. LongestOf(A) \in A /\ \A t \in A : Len(t) <= Len(LongestOf(A))
  BY <1>8 DEF LongestOf
<1> QED BY <1>1, <1>9 DEF A

LEMMA LongestUnique ==
  ASSUME NEW C, NEW S \in SUBSET Seq(C), <<>> \in S, NEW x \in Seq(C),
         NEW t \in S, IsEndOf(t, x), \A u \in S : IsEndOf(u, x) => Len(u) <= Len(t)
  PROVE  LongestOf(S \cap SuffixesOf(x)) = t
<1> DEFINE b == LongestOf(S \cap SuffixesOf(x))
<1>1. b \in S /\ b \in Seq(C) /\ IsEndOf(b, x) /\ \A u \in S : IsEndOf(u, x) => Len(u) <= Len(b)
  BY LongestIs
<1> HIDE DEF b
<1>2. t \in Seq(C)
  OBVIOUS
<1>3. Len(b) = Len(t)
  <2>1. Len(b) <= Len(t) /\ Len(t) <= Len(b)
    BY <1>1
  <2>2. Len(b) \in Nat /\ Len(t) \in Nat
    BY <1>1, <1>2
  <2> QED BY <2>1, <2>2
<1>4. IsEndOf(b, t)
  <2>1. Len(b) <= Len(t)
    BY <1>1
  <2> QED BY <1>1, <1>2, <2>1, SuffixOfLonger
<1>5. b = t
  BY <1>1, <1>2, <1>3, <1>4, SuffixSame
<1> QED BY <1>5 DEF b

-----------------------------------------------------------------------------

(***************************************************************************)
(* The states of the automaton: every prefix of a name.                    *)
(***************************************************************************)
PrefixClosed(S) ==
  /\ S \in SUBSET Seq(Characters) /\ <<>> \in S /\ FAIL \notin S
  /\ \A t \in Seq(Characters), c \in Characters : Append(t, c) \in S => t \in S
  /\ \A s \in S : s # <<>> => \E t \in S, c \in Characters : s = Append(t, c)

LEMMA PrefixOfSeq ==
  ASSUME NEW C, NEW p \in Seq(C), NEW n \in 0 .. Len(p)
  PROVE  LET u == SubSeq(p, 1, n) IN
         u \in Seq(C) /\ Len(u) = n /\ \A i \in 1 .. n : u[i] = p[i]
<1>1. Len(p) \in Nat /\ \A i \in 1 .. Len(p) : p[i] \in C
  OBVIOUS
<1>2. 1 \in Int /\ n \in Int /\ \A i \in 1 .. n : p[i] \in C
  BY <1>1
<1>3. /\ SubSeq(p, 1, n) \in Seq(C) /\ Len(SubSeq(p, 1, n)) = IF 1 <= n THEN n - 1 + 1 ELSE 0
      /\ \A i \in 1 .. n - 1 + 1 : SubSeq(p, 1, n)[i] = p[1 + i - 1]
  BY <1>2, SubSeqProperties
<1>4. n - 1 + 1 = n /\ (~ (1 <= n) => n = 0) /\ \A i \in 1 .. n : 1 + i - 1 = i
  BY <1>1
<1> QED BY <1>3, <1>4

LEMMA PrefixAppend ==
  ASSUME NEW C, NEW p \in Seq(C), NEW n \in 1 .. Len(p)
  PROVE  SubSeq(p, 1, n) = Append(SubSeq(p, 1, n - 1), p[n]) /\ p[n] \in C
<1> DEFINE u == SubSeq(p, 1, n) w == SubSeq(p, 1, n - 1) a == Append(w, p[n])
<1>1. p[n] \in C /\ Len(p) \in Nat /\ n \in 0 .. Len(p) /\ n - 1 \in 0 .. Len(p)
  OBVIOUS
<1>2. u \in Seq(C) /\ Len(u) = n /\ \A i \in 1 .. n : u[i] = p[i]
  BY <1>1, PrefixOfSeq
<1>3. w \in Seq(C) /\ Len(w) = n - 1 /\ \A i \in 1 .. (n - 1) : w[i] = p[i]
  BY <1>1, PrefixOfSeq
<1> HIDE DEF u, w
<1>4. a \in Seq(C) /\ Len(a) = n /\ (\A i \in 1 .. (n - 1) : a[i] = w[i]) /\ a[n] = p[n]
  <2>1. a \in Seq(C) /\ Len(a) = Len(w) + 1 /\ (\A i \in 1 .. Len(w) : a[i] = w[i]) /\ a[Len(w) + 1] = p[n]
    BY <1>1, <1>3, AppendIs
  <2>2. Len(w) + 1 = n
    BY <1>3
  <2> HIDE DEF a
  <2> QED BY <1>3, <2>1, <2>2
<1> HIDE DEF a
<1>5. \A i \in 1 .. n : u[i] = a[i]
  <2>1. \A i \in 1 .. n : i = n \/ i \in 1 .. (n - 1)
    OBVIOUS
  <2> QED BY <1>2, <1>3, <1>4, <2>1
<1>6. u = a
  BY <1>2, <1>4, <1>5, SeqEqual
<1> QED BY <1>1, <1>6 DEF u, w, a

LEMMA StatesArePrefixes ==
  ASSUME NEW list \in NameLists
  PROVE  /\ PrefixClosed(StatesFor(list))
         /\ \A i \in DOMAIN list : list[i] \in StatesFor(list) /\ list[i] \in Seq(Characters) \ {<<>>}
<1> DEFINE S == StatesFor(list)
<1>1. \A i \in DOMAIN list : list[i] \in Seq(Characters) /\ list[i] # <<>>
  BY MatchAssumption
<1>2. \A s : s \in S <=> s = <<>> \/ \E i \in DOMAIN list : \E n \in DOMAIN list[i] : s = SubSeq(list[i], 1, n)
  BY DEF StatesFor
<1> HIDE DEF S
<1>3. ASSUME NEW i \in DOMAIN list, NEW n \in 1 .. Len(list[i])
      PROVE  /\ SubSeq(list[i], 1, n) \in S
             /\ SubSeq(list[i], 1, n) = Append(SubSeq(list[i], 1, n - 1), list[i][n])
             /\ list[i][n] \in Characters
             /\ SubSeq(list[i], 1, n - 1) \in S /\ SubSeq(list[i], 1, n - 1) \in Seq(Characters)
  <2>1. list[i] \in Seq(Characters) /\ DOMAIN list[i] = 1 .. Len(list[i]) /\ Len(list[i]) \in Nat
    BY <1>1
  <2>2. n \in DOMAIN list[i] /\ n - 1 \in 0 .. Len(list[i])
    BY <2>1
  <2>3. SubSeq(list[i], 1, n - 1) \in Seq(Characters) /\ Len(SubSeq(list[i], 1, n - 1)) = n - 1
    BY <2>1, <2>2, PrefixOfSeq
  <2>4. CASE n = 1
    <3>1. SubSeq(list[i], 1, n - 1) = <<>>
      BY <2>3, <2>4
    <3> QED BY <1>2, <2>1, <2>2, <2>3, <3>1, PrefixAppend
  <2>5. CASE n # 1
    <3>1. n - 1 \in DOMAIN list[i]
      BY <2>1, <2>5
    <3> QED BY <1>2, <2>1, <2>2, <2>3, <3>1, PrefixAppend
  <2> QED BY <2>4, <2>5
<1>4. \A i \in DOMAIN list : DOMAIN list[i] = 1 .. Len(list[i]) /\ Len(list[i]) \in 1 .. Len(list[i])
      /\ list[i] = SubSeq(list[i], 1, Len(list[i]))
  <2> SUFFICES ASSUME NEW i \in DOMAIN list
               PROVE  DOMAIN list[i] = 1 .. Len(list[i]) /\ Len(list[i]) \in 1 .. Len(list[i])
                      /\ list[i] = SubSeq(list[i], 1, Len(list[i]))
    OBVIOUS
  <2> DEFINE p == list[i]
  <2>1. p \in Seq(Characters) /\ p # <<>>
    BY <1>1
  <2> HIDE DEF p
  <2>2. Len(p) \in Nat /\ Len(p) # 0 /\ DOMAIN p = 1 .. Len(p)
    BY <2>1
  <2>3. Len(p) \in 0 .. Len(p)
    BY <2>2
  <2>4. SubSeq(p, 1, Len(p)) \in Seq(Characters) /\ Len(SubSeq(p, 1, Len(p))) = Len(p)
        /\ \A j \in 1 .. Len(p) : SubSeq(p, 1, Len(p))[j] = p[j]
    BY <2>1, <2>3, PrefixOfSeq
  <2>5. SubSeq(p, 1, Len(p)) = p
    BY <2>1, <2>4, SeqEqual
  <2> QED BY <2>2, <2>5 DEF p
<1>5. S \in SUBSET Seq(Characters)
  <2> SUFFICES ASSUME NEW s \in S PROVE s \in Seq(Characters)
    OBVIOUS
  <2>1. CASE s = <<>>
    BY <2>1
  <2>2. ASSUME NEW i \in DOMAIN list, NEW n \in DOMAIN list[i], s = SubSeq(list[i], 1, n)
        PROVE  s \in Seq(Characters)
    <3>1. n \in 1 .. Len(list[i]) /\ n \in 0 .. Len(list[i]) /\ list[i] \in Seq(Characters)
      BY <1>1, <1>4
    <3> QED BY <2>2, <3>1, PrefixOfSeq
  <2> QED BY <1>2, <2>1, <2>2
<1>6. FAIL \notin S
  <2>1. FAIL[1] = "fail" /\ 1 \in 1 .. Len(FAIL)
    BY DEF FAIL
  <2>2. FAIL \notin Seq(Characters)
    <3> SUFFICES ASSUME FAIL \in Seq(Characters) PROVE FALSE
      OBVIOUS
    <3>1. FAIL[1] \in Characters
      BY <2>1
    <3> QED BY <2>1, <3>1, AsciiAssumption
  <2> QED BY <1>5, <2>2
<1>7. ASSUME NEW s \in S, s # <<>>
      PROVE  \E t \in S, c \in Characters : s = Append(t, c)
  <2>1. PICK i \in DOMAIN list : \E n \in DOMAIN list[i] : s = SubSeq(list[i], 1, n)
    BY <1>2, <1>7
  <2>2. PICK n \in DOMAIN list[i] : s = SubSeq(list[i], 1, n)
    BY <2>1
  <2>3. n \in 1 .. Len(list[i])
    BY <1>4
  <2> QED BY <1>3, <2>2, <2>3
<1>8. ASSUME NEW t \in Seq(Characters), NEW c \in Characters, Append(t, c) \in S
      PROVE  t \in S
  <2>1. Append(t, c) # <<>>
    BY AppendIs
  <2>2. PICK u \in S, d \in Characters : Append(t, c) = Append(u, d)
    BY <1>7, <1>8, <2>1
  <2>3. t = u
    BY <1>5, <2>2, AppendSame
  <2> QED BY <2>3
<1>9. <<>> \in S
  BY <1>2
<1>10. \A i \in DOMAIN list : list[i] \in S
  BY <1>3, <1>4
<1> QED BY <1>1, <1>5, <1>6, <1>7, <1>8, <1>9, <1>10 DEF PrefixClosed, S

\* What the state behind c is, from any x that leads to the same state.
LEMMA LongestBehind ==
  ASSUME NEW S, PrefixClosed(S), NEW x \in Seq(Characters), NEW c \in Characters
  PROVE  Best(S, Append(x, c)) = Best(S, Append(Best(S, x), c))
<1> DEFINE C == Characters
           b == Best(S, x)
<1>1. S \in SUBSET Seq(C) /\ <<>> \in S /\ \A t \in Seq(C) : Append(t, c) \in S => t \in S
  BY DEF PrefixClosed
<1>2. b \in S /\ b \in Seq(C) /\ IsEndOf(b, x) /\ \A u \in S : IsEndOf(u, x) => Len(u) <= Len(b)
  BY <1>1, LongestIs DEF Best
<1> HIDE DEF b
<1>3. Append(x, c) \in Seq(C) /\ Append(b, c) \in Seq(C)
  BY <1>2
<1>4. ASSUME NEW u \in S, IsEndOf(u, Append(x, c)) PROVE IsEndOf(u, Append(b, c))
  <2>1. u \in Seq(C)
    BY <1>1
  <2>2. CASE u = <<>>
    BY <1>3, <2>2, SuffixSelf
  <2>3. CASE u # <<>>
    <3>1. PICK t \in Seq(C) : u = Append(t, c) /\ IsEndOf(t, x)
      BY <1>4, <2>1, <2>3, SuffixOfAppend
    <3>2. t \in S /\ Len(t) <= Len(b)
      BY <1>1, <1>2, <3>1
    <3>3. IsEndOf(t, b)
      BY <1>2, <3>1, <3>2, SuffixOfLonger
    <3> QED BY <1>2, <3>1, <3>3, SuffixOfAppend
  <2> QED BY <2>2, <2>3
<1>5. IsEndOf(Append(b, c), Append(x, c))
  BY <1>2, SuffixOfAppend
<1>6. ASSUME NEW u \in S, IsEndOf(u, Append(b, c)) PROVE IsEndOf(u, Append(x, c))
  <2>1. u \in Seq(C)
    BY <1>1
  <2> QED BY <1>3, <1>5, <1>6, <2>1, SuffixTrans
<1>7. \A u \in S : IsEndOf(u, Append(x, c)) <=> IsEndOf(u, Append(b, c))
  BY <1>4, <1>6
<1> DEFINE y == Append(x, c)
           z == Append(b, c)
<1>8. Best(S, y) = Best(S, z)
  <2>1. y \in Seq(C) /\ z \in Seq(C)
    BY <1>3
  <2>2. \A u \in S : IsEndOf(u, y) <=> IsEndOf(u, z)
    BY <1>7
  <2>3. S \in SUBSET Seq(C)
    BY <1>1
  <2> HIDE DEF y, z, C
  <2>4. \A u \in S : u \in SuffixesOf(y) <=> IsEndOf(u, y)
    BY <2>1, <2>3, SuffixIs
  <2>5. \A u \in S : u \in SuffixesOf(z) <=> IsEndOf(u, z)
    BY <2>1, <2>3, SuffixIs
  <2>6. S \cap SuffixesOf(y) = S \cap SuffixesOf(z)
    BY <2>2, <2>4, <2>5
  <2> QED BY <2>6 DEF Best
<1> QED BY <1>8 DEF b, y, z

-----------------------------------------------------------------------------

(***************************************************************************)
(* The states behind a state, in the order of their characters.            *)
(***************************************************************************)
LEMMA ChildrenAre ==
  ASSUME NEW s \in Seq(Characters), NEW table
  PROVE  LET kids == Children(s, table) IN
         /\ kids \in Seq({t \in table : \E c \in Characters : t = Append(s, c)})
         /\ \A c \in Characters : Append(s, c) \in table => \E k \in 1 .. Len(kids) : kids[k] = Append(s, c)
         /\ \A k, l \in 1 .. Len(kids) : kids[k] = kids[l] => k = l
<1> DEFINE n == Len(Ascii)
           I == {i \in DOMAIN Ascii : Append(s, Ascii[i]) \in table}
           m == Cardinality(I)
           a == Ascending(I)
           kids == Children(s, table)
           T == {t \in table : \E c \in Characters : t = Append(s, c)}
<1>1. n \in Nat /\ DOMAIN Ascii = 1 .. n /\ (\A i \in 1 .. n : Ascii[i] \in Characters)
      /\ \A i, j \in 1 .. n : Ascii[i] = Ascii[j] => i = j
  BY AsciiAssumption
<1>2. \A c \in Characters : \E i \in 1 .. n : Ascii[i] = c
  BY <1>1 DEF Characters, ToSet
<1>3. I \in SUBSET (1 .. n)
  BY <1>1
<1>4. kids = [k \in 1 .. m |-> Append(s, Ascii[a[k]])]
  BY DEF Children
<1> HIDE DEF kids
<1>5. \A i \in I : i \in 1 .. n /\ Append(s, Ascii[i]) \in table
  BY <1>1
<1>6. \A i \in 1 .. n : Append(s, Ascii[i]) \in table => i \in I
  BY <1>1
<1> HIDE DEF I, n
<1>7. /\ m \in Nat /\ (\A k \in 1 .. m : a[k] \in I) /\ (\A i \in I : \E k \in 1 .. m : a[k] = i)
      /\ \A k, l \in 1 .. m : a[k] = a[l] => k = l
  BY <1>1, <1>3, AscendingOnto
<1> HIDE DEF m, a
<1>8. \A k \in 1 .. m : kids[k] = Append(s, Ascii[a[k]]) /\ kids[k] \in T
  BY <1>1, <1>4, <1>5, <1>7
<1>9. kids \in Seq(T) /\ Len(kids) = m
  <2> HIDE DEF T
  <2> QED BY <1>4, <1>7, <1>8
<1>10. ASSUME NEW c \in Characters, Append(s, c) \in table PROVE \E k \in 1 .. m : kids[k] = Append(s, c)
  <2>1. PICK i \in 1 .. n : Ascii[i] = c
    BY <1>2
  <2>2. PICK k \in 1 .. m : a[k] = i
    BY <1>6, <1>7, <1>10, <2>1
  <2> QED BY <1>8, <2>1, <2>2
<1>11. ASSUME NEW k \in 1 .. m, NEW l \in 1 .. m, kids[k] = kids[l] PROVE k = l
  <2>1. a[k] \in 1 .. n /\ a[l] \in 1 .. n
    BY <1>5, <1>7
  <2>2. Ascii[a[k]] \in Characters /\ Ascii[a[l]] \in Characters
    BY <1>1, <2>1
  <2>3. Append(s, Ascii[a[k]]) = Append(s, Ascii[a[l]])
    BY <1>8, <1>11
  <2>4. Ascii[a[k]] = Ascii[a[l]]
    BY <2>2, <2>3, AppendSame
  <2> QED BY <1>1, <1>7, <2>1, <2>4
<1> QED BY <1>9, <1>10, <1>11 DEF kids, T

-----------------------------------------------------------------------------

(***************************************************************************)
(* While the automaton is built: D are the states whose row is filled in,  *)
(* q is the queue.  States are taken from it in the order of their length, *)
(* so the failure state of a state, which is shorter, is in D before it.   *)
(***************************************************************************)
QueueOk(S, D, q) ==
  /\ D \subseteq S /\ <<>> \in D /\ q \in Seq(S)
  /\ \A i \in 1 .. Len(q) : q[i] \notin D /\ Len(q[i]) <= Len(q[1]) + 1
  /\ \A i, j \in 1 .. Len(q) : (q[i] = q[j] => i = j) /\ (i < j => Len(q[i]) <= Len(q[j]))
  /\ \A s \in S, c \in Characters :
       Append(s, c) \in S => (Append(s, c) \in D \cup ToSet(q) <=> s \in D)

RowsOk(S, D, next) ==
  \A s \in S, c \in Characters :
    next[<<s, c>>] = IF s \in D THEN Best(S, Append(s, c))
                     ELSE IF Append(s, c) \in S THEN Append(s, c) ELSE FAIL

FailsOk(S, K, fail) == \A s \in K : s # <<>> => fail[s] = Best(S, Tail(s))

ListsOk(S, K, N, lists) ==
  \A s \in S :
    /\ lists[s] \in Seq(N)
    /\ ToSet(lists[s]) = N \cap (IF s \in K THEN SuffixesOf(s) ELSE {s})
    /\ s \in N => Len(lists[s]) \in 1 .. Len(lists[s]) /\ lists[s][Len(lists[s])] = s

LEMMA ShorterDone ==
  ASSUME NEW S, PrefixClosed(S), NEW D, NEW q, QueueOk(S, D, q), NEW n \in Nat,
         \A i \in 1 .. Len(q) : n <= Len(q[i]),
         NEW s \in S, Len(s) < n
  PROVE  s \in D
<1> DEFINE P == {k \in 0 .. n : \A t \in S : Len(t) < k => t \in D}
<1>1. S \in SUBSET Seq(Characters) /\ \A t \in S : Len(t) \in Nat
  BY DEF PrefixClosed
<1>2. 0 \in P
  BY <1>1
<1>3. ASSUME NEW k \in 0 .. (n - 1), k \in P PROVE k + 1 \in P
  <2>1. k + 1 \in 0 .. n /\ k < n
    OBVIOUS
  <2> SUFFICES ASSUME NEW t \in S, Len(t) < k + 1 PROVE t \in D
    BY <2>1
  <2>2. CASE Len(t) < k
    BY <1>3, <2>2
  <2>3. CASE t = <<>>
    BY <2>3 DEF QueueOk
  <2>4. CASE Len(t) = k /\ t # <<>>
    <3>1. PICK u \in S, c \in Characters : t = Append(u, c)
      BY <2>4 DEF PrefixClosed
    <3>2. u \in Seq(Characters)
      BY <1>1
    <3>3. Len(u) < k
      <4>1. Len(t) = Len(u) + 1 /\ Len(u) \in Nat
        BY <3>1, <3>2, AppendIs
      <4> QED BY <2>4, <4>1
    <3>4. u \in D
      BY <1>3, <3>3
    <3>5. t \in D \cup ToSet(q)
      BY <3>1, <3>4 DEF QueueOk
    <3>6. t \notin ToSet(q)
      <4> SUFFICES ASSUME NEW i \in DOMAIN q, q[i] = t PROVE FALSE
        BY DEF ToSet
      <4>1. i \in 1 .. Len(q)
        BY DEF QueueOk
      <4>2. n <= Len(t)
        BY <4>1
      <4> QED BY <2>1, <2>4, <4>2
    <3> QED BY <3>5, <3>6
  <2>5. Len(t) \in Nat
    BY <1>1
  <2> QED BY <2>2, <2>3, <2>4, <2>5
<1> HIDE DEF P
<1>4. n \in 0 .. n /\ \A k \in 0 .. n : k \in P
  BY <1>2, <1>3, UpTo
<1> QED BY <1>4 DEF P

LEMMA HeadIs ==
  ASSUME NEW S, PrefixClosed(S), NEW D, NEW q, QueueOk(S, D, q), q # <<>>
  PROVE  /\ q[1] = Head(q) /\ q[1] \in S /\ q[1] \notin D /\ q[1] # <<>> /\ q[1] \in ToSet(q)
         /\ \A s \in S : Len(s) < Len(q[1]) => s \in D
<1>1. q \in Seq(S) /\ 1 \in 1 .. Len(q) /\ DOMAIN q = 1 .. Len(q)
  BY DEF QueueOk
<1>2. q[1] = Head(q) /\ q[1] \in S /\ q[1] \in ToSet(q)
  BY <1>1 DEF ToSet
<1>3. q[1] \notin D /\ q[1] # <<>>
  BY <1>1 DEF QueueOk
<1>4. \A s \in S : Len(s) \in Nat
  <2>1. S \in SUBSET Seq(Characters)
    BY DEF PrefixClosed
  <2> QED BY <2>1
<1>5. \A i \in 1 .. Len(q) : Len(q[1]) <= Len(q[i])
  <2> SUFFICES ASSUME NEW i \in 1 .. Len(q) PROVE Len(q[1]) <= Len(q[i])
    OBVIOUS
  <2>1. CASE i = 1
    BY <1>2, <1>4, <2>1
  <2>2. CASE i # 1
    <3>1. 1 < i
      BY <2>2
    <3> QED BY <1>1, <3>1 DEF QueueOk
  <2> QED BY <2>1, <2>2
<1>6. ASSUME NEW s \in S, Len(s) < Len(q[1]) PROVE s \in D
  <2>1. Len(q[1]) \in Nat
    BY <1>2, <1>4
  <2> QED BY <1>5, <1>6, <2>1, ShorterDone
<1> QED BY <1>2, <1>3, <1>6

LEMMA AllDone ==
  ASSUME NEW S, PrefixClosed(S), NEW D, QueueOk(S, D, <<>>), NEW s \in S
  PROVE  s \in D
<1>1. Len(s) \in Nat /\ Len(s) + 1 \in Nat /\ Len(s) < Len(s) + 1
  BY DEF PrefixClosed
<1>2. \A i \in 1 .. Len(<<>>) : Len(s) + 1 <= Len((<<>>)[i])
  OBVIOUS
<1> QED BY <1>1, <1>2, ShorterDone

\* The states behind the head of the queue.
Behind(S, r) == {k \in S : \E c \in Characters : k = Append(r, c)}

Kids(S, r, kids) ==
  /\ kids \in Seq(Behind(S, r))
  /\ \A c \in Characters : Append(r, c) \in S => \E k \in 1 .. Len(kids) : kids[k] = Append(r, c)
  /\ \A k, l \in 1 .. Len(kids) : kids[k] = kids[l] => k = l

LEMMA BehindLength ==
  ASSUME NEW S, PrefixClosed(S), NEW r \in S, NEW k \in Behind(S, r)
  PROVE  k \in S /\ Len(k) = Len(r) + 1 /\ Len(r) \in Nat /\ k # r
<1>1. PICK c \in Characters : k = Append(r, c) /\ k \in S
  BY DEF Behind
<1>2. r \in Seq(Characters)
  BY DEF PrefixClosed
<1>3. Len(k) = Len(r) + 1 /\ Len(r) \in Nat
  BY <1>1, <1>2, AppendIs
<1> QED BY <1>1, <1>3

LEMMA QueueStep ==
  ASSUME NEW S, PrefixClosed(S), NEW D, NEW q, QueueOk(S, D, q), q # <<>>,
         NEW kids, Kids(S, q[1], kids)
  PROVE  LET r == q[1] p == Tail(q) \o kids IN
         /\ QueueOk(S, D \cup {r}, p)
         /\ (D \cup {r}) \cup ToSet(p) = (D \cup ToSet(q)) \cup Behind(S, r)
         /\ Behind(S, r) \cap (D \cup ToSet(q)) = {}
<1> DEFINE r == q[1]
           B == Behind(S, r)
           n == Len(q)
           m == Len(kids)
           p == Tail(q) \o kids
<1>1. r \in S /\ r \notin D /\ r \in ToSet(q) /\ r # <<>>
  BY HeadIs
<1>2. q \in Seq(S) /\ n \in Nat \ {0} /\ DOMAIN q = 1 .. n /\ D \subseteq S /\ <<>> \in D
  BY DEF QueueOk
<1>3. kids \in Seq(B) /\ m \in Nat /\ \A k \in 1 .. m : kids[k] \in B
  BY DEF Kids
<1>4. /\ \A i \in 1 .. n : q[i] \in S /\ q[i] \notin D /\ Len(q[i]) <= Len(r) + 1
      /\ \A i, j \in 1 .. n : (q[i] = q[j] => i = j) /\ (i < j => Len(q[i]) <= Len(q[j]))
      /\ \A s \in S, c \in Characters : Append(s, c) \in S => (Append(s, c) \in D \cup ToSet(q) <=> s \in D)
  BY <1>2 DEF QueueOk
<1>5. \A k \in B : k \in S /\ Len(k) = Len(r) + 1 /\ k # r
  BY <1>1, BehindLength
<1>6. Len(r) \in Nat /\ \A s \in S : Len(s) \in Nat /\ s \in Seq(Characters)
  <2>1. S \in SUBSET Seq(Characters)
    BY DEF PrefixClosed
  <2> QED BY <1>1, <2>1
<1>7. ASSUME NEW k \in B PROVE k \notin D /\ k \notin ToSet(q)
  <2>1. PICK c \in Characters : k = Append(r, c) /\ k \in S
    BY DEF Behind
  <2>2. ~ (k \in D \cup ToSet(q))
    BY <1>1, <1>4, <2>1
  <2> QED BY <2>2
<1> DEFINE l == (n - 1) + m
<1>8. /\ p \in Seq(S) /\ Len(p) = l /\ l \in Nat
      /\ \A i \in 1 .. (n - 1) : p[i] = q[i + 1]
      /\ \A i \in 1 .. m : p[(n - 1) + i] = kids[i]
  <2> DEFINE t == Tail(q)
  <2>1. t \in Seq(S) /\ Len(t) = n - 1 /\ \A i \in 1 .. (n - 1) : t[i] = q[i + 1]
    BY <1>2, TailIs
  <2>2. kids \in Seq(S)
    <3>1. B \subseteq S
      BY <1>5
    <3> HIDE DEF B
    <3> QED BY <1>3, <3>1
  <2> HIDE DEF t
  <2>3. /\ t \o kids \in Seq(S) /\ Len(t \o kids) = Len(t) + m
        /\ \A i \in 1 .. Len(t) + m : (t \o kids)[i] = IF i <= Len(t) THEN t[i] ELSE kids[i - Len(t)]
    BY <2>1, <2>2, ConcatProperties
  <2>4. p = t \o kids
    BY DEF t
  <2> HIDE DEF n, m, p
  <2>5. ASSUME NEW i \in 1 .. (n - 1) PROVE p[i] = q[i + 1]
    <3>1. i \in 1 .. Len(t) + m /\ i <= Len(t)
      BY <1>2, <1>3, <2>1
    <3> QED BY <2>1, <2>3, <2>4, <3>1
  <2>6. ASSUME NEW i \in 1 .. m PROVE p[(n - 1) + i] = kids[i]
    <3>1. (n - 1) + i \in 1 .. Len(t) + m /\ ~ ((n - 1) + i <= Len(t)) /\ ((n - 1) + i) - Len(t) = i
      BY <1>2, <1>3, <2>1
    <3> QED BY <2>3, <2>4, <3>1
  <2>7. l \in Nat
    BY <1>2, <1>3
  <2> QED BY <2>1, <2>3, <2>4, <2>5, <2>6, <2>7
<1> HIDE DEF n, m, p, B
<1>9. \A i \in 1 .. l : i \in 1 .. (n - 1) \/ (i - (n - 1) \in 1 .. m /\ i = (n - 1) + (i - (n - 1)))
  BY <1>2, <1>3
<1>10. \A i \in 1 .. (n - 1) : i + 1 \in 1 .. n /\ i + 1 # 1 /\ p[i] = q[i + 1]
  BY <1>2, <1>8
<1>11. \A i \in 1 .. l : \/ i \in 1 .. (n - 1) /\ i + 1 \in 1 .. n /\ i + 1 # 1 /\ p[i] = q[i + 1] /\ p[i] \in ToSet(q)
                         \/ i - (n - 1) \in 1 .. m /\ p[i] = kids[i - (n - 1)] /\ p[i] \in B
  <2> SUFFICES ASSUME NEW i \in 1 .. l PROVE
         \/ i \in 1 .. (n - 1) /\ i + 1 \in 1 .. n /\ i + 1 # 1 /\ p[i] = q[i + 1] /\ p[i] \in ToSet(q)
         \/ i - (n - 1) \in 1 .. m /\ p[i] = kids[i - (n - 1)] /\ p[i] \in B
    OBVIOUS
  <2>1. CASE i \in 1 .. (n - 1)
    BY <1>2, <1>10, <2>1 DEF ToSet
  <2>2. CASE i - (n - 1) \in 1 .. m /\ i = (n - 1) + (i - (n - 1))
    BY <1>3, <1>8, <2>2
  <2> QED BY <1>9, <2>1, <2>2
<1>12. ASSUME NEW i \in 1 .. l PROVE p[i] \notin D \cup {r} /\ Len(p[i]) <= Len(r) + 1 /\ Len(r) <= Len(p[i]) /\ p[i] \in S
  <2>1. CASE i \in 1 .. (n - 1)
    <3>1. i + 1 \in 1 .. n /\ i + 1 # 1 /\ p[i] = q[i + 1] /\ 1 \in 1 .. n /\ 1 < i + 1
      BY <1>2, <1>10, <2>1
    <3> QED BY <1>4, <3>1
  <2>2. CASE p[i] \in B
    <3>1. Len(p[i]) = Len(r) + 1 /\ p[i] # r /\ p[i] \notin D /\ p[i] \in S
      BY <1>5, <1>7, <2>2
    <3> QED BY <1>6, <3>1
  <2> QED BY <1>11, <2>1, <2>2
<1>13. ASSUME NEW i \in 1 .. l, NEW j \in 1 .. l
       PROVE  (p[i] = p[j] => i = j) /\ (i < j => Len(p[i]) <= Len(p[j]))
  <2>1. CASE i \in 1 .. (n - 1) /\ j \in 1 .. (n - 1)
    <3>1. i + 1 \in 1 .. n /\ j + 1 \in 1 .. n /\ p[i] = q[i + 1] /\ p[j] = q[j + 1]
          /\ (i + 1 = j + 1 => i = j) /\ (i < j => i + 1 < j + 1)
      BY <1>10, <2>1
    <3> QED BY <1>4, <3>1
  <2>2. CASE p[j] \in B /\ i \in 1 .. (n - 1) /\ j - (n - 1) \in 1 .. m
    <3>1. p[i] \in ToSet(q) /\ p[i] # p[j]
      BY <1>2, <1>7, <1>10, <2>2 DEF ToSet
    <3>2. Len(p[i]) <= Len(p[j])
      BY <1>5, <1>12, <2>2
    <3> QED BY <3>1, <3>2
  <2>3. CASE p[i] \in B /\ j \in 1 .. (n - 1) /\ i - (n - 1) \in 1 .. m
    <3>1. p[j] \in ToSet(q) /\ p[i] # p[j]
      BY <1>2, <1>7, <1>10, <2>3 DEF ToSet
    <3>2. ~ (i < j)
      BY <1>2, <2>3
    <3> QED BY <3>1, <3>2
  <2>4. CASE i - (n - 1) \in 1 .. m /\ j - (n - 1) \in 1 .. m
             /\ p[i] = kids[i - (n - 1)] /\ p[j] = kids[j - (n - 1)]
    <3>1. p[i] \in B /\ p[j] \in B
      BY <1>3, <2>4
    <3>2. Len(p[i]) = Len(r) + 1 /\ Len(p[j]) = Len(r) + 1
      BY <1>5, <3>1
    <3>3. p[i] = p[j] => i - (n - 1) = j - (n - 1)
      BY <2>4 DEF Kids, m
    <3>4. i - (n - 1) = j - (n - 1) => i = j
      BY <1>2
    <3> QED BY <1>6, <3>2, <3>3, <3>4
  <2> QED BY <1>11, <2>1, <2>2, <2>3, <2>4
<1>14. DOMAIN p = 1 .. l
  BY <1>8
<1>15. ToSet(p) = (ToSet(q) \ {r}) \cup B
  <2>1. ASSUME NEW i \in 1 .. l PROVE p[i] \in (ToSet(q) \ {r}) \cup B
    BY <1>11, <1>12
  <2>2. ASSUME NEW x \in ToSet(q), x # r PROVE \E i \in 1 .. l : p[i] = x
    <3>1. PICK j \in 1 .. n : q[j] = x
      BY <1>2 DEF ToSet
    <3>2. j # 1
      BY <2>2, <3>1
    <3>3. j - 1 \in 1 .. (n - 1) /\ (j - 1) + 1 = j /\ j - 1 \in 1 .. l
      BY <1>2, <1>3, <3>2
    <3>4. p[j - 1] = q[(j - 1) + 1]
      BY <1>10, <3>3
    <3>5. p[j - 1] = x
      BY <3>1, <3>3, <3>4
    <3> QED BY <3>3, <3>5
  <2>3. ASSUME NEW x \in B PROVE \E i \in 1 .. l : p[i] = x
    <3>1. PICK c \in Characters : x = Append(r, c) /\ x \in S
      BY DEF B, Behind
    <3>2. PICK k \in 1 .. m : kids[k] = x
      BY <3>1 DEF Kids, m
    <3>3. (n - 1) + k \in 1 .. l
      BY <1>2, <1>3
    <3>4. p[(n - 1) + k] = x
      BY <1>8, <3>2
    <3> QED BY <3>3, <3>4
  <2>4. ToSet(p) = {p[i] : i \in 1 .. l}
    BY <1>14 DEF ToSet
  <2> HIDE DEF l
  <2> QED BY <2>1, <2>2, <2>3, <2>4
<1>16. (D \cup {r}) \cup ToSet(p) = (D \cup ToSet(q)) \cup B
  BY <1>1, <1>15
<1>17. ASSUME NEW s \in S, NEW c \in Characters, Append(s, c) \in S
       PROVE  Append(s, c) \in (D \cup ToSet(q)) \cup B <=> s \in D \cup {r}
  <2>1. CASE s = r
    BY <1>17, <2>1 DEF B, Behind
  <2>2. CASE s # r
    <3>1. Append(s, c) \notin B
      <4> SUFFICES ASSUME NEW d \in Characters, Append(s, c) = Append(r, d) PROVE FALSE
        BY DEF B, Behind
      <4>1. s \in Seq(Characters) /\ r \in Seq(Characters)
        BY <1>1, <1>6
      <4>2. s = r
        BY <4>1, AppendSame
      <4> QED BY <2>2, <4>2
    <3> QED BY <1>4, <1>17, <2>2, <3>1
  <2> QED BY <2>1, <2>2
<1>18. \A i \in 1 .. l : p[i] \notin D \cup {r} /\ Len(p[i]) <= Len(p[1]) + 1
  <2> SUFFICES ASSUME NEW i \in 1 .. l PROVE p[i] \notin D \cup {r} /\ Len(p[i]) <= Len(p[1]) + 1
    OBVIOUS
  <2>1. 1 \in 1 .. l
    <3>1. l \in Nat
      BY <1>8
    <3> HIDE DEF l
    <3> QED BY <3>1
  <2>2. Len(r) <= Len(p[1]) /\ Len(p[i]) <= Len(r) + 1 /\ p[i] \in S /\ p[1] \in S
    BY <1>12, <2>1
  <2>3. Len(p[1]) \in Nat /\ Len(p[i]) \in Nat
    BY <1>6, <2>2
  <2>4. Len(p[i]) <= Len(p[1]) + 1
    BY <1>6, <2>2, <2>3
  <2> QED BY <1>12, <2>4
<1>19. QueueOk(S, D \cup {r}, p)
  <2>1. D \cup {r} \subseteq S /\ <<>> \in D \cup {r} /\ p \in Seq(S) /\ Len(p) = l
    BY <1>1, <1>2, <1>8
  <2> HIDE DEF l, r
  <2> QED BY <1>13, <1>16, <1>17, <1>18, <2>1 DEF QueueOk
<1> QED BY <1>7, <1>16, <1>19 DEF p, B

-----------------------------------------------------------------------------

(***************************************************************************)
(* One round of the loop that builds the failure function.                 *)
(***************************************************************************)
\* The longest state that a string ends with is a state, and no shorter than another.
LEMMA BestIs ==
  ASSUME NEW S, PrefixClosed(S), NEW x \in Seq(Characters)
  PROVE  /\ Best(S, x) \in S /\ Best(S, x) \in Seq(Characters) /\ IsEndOf(Best(S, x), x)
         /\ Best(S, x) # FAIL /\ Len(Best(S, x)) \in Nat /\ Len(Best(S, x)) <= Len(x)
         /\ \A u \in S : IsEndOf(u, x) => Len(u) <= Len(Best(S, x))
<1>1. S \in SUBSET Seq(Characters) /\ <<>> \in S /\ FAIL \notin S
  BY DEF PrefixClosed
<1>2. /\ Best(S, x) \in S /\ Best(S, x) \in Seq(Characters) /\ IsEndOf(Best(S, x), x)
      /\ \A u \in S : IsEndOf(u, x) => Len(u) <= Len(Best(S, x))
  BY <1>1, LongestIs DEF Best
<1>3. Len(Best(S, x)) \in Nat /\ Len(Best(S, x)) <= Len(x)
  BY <1>2 DEF IsEndOf
<1> QED BY <1>1, <1>2, <1>3

LEMMA BestState ==
  ASSUME NEW S, PrefixClosed(S), NEW x \in S
  PROVE  Best(S, x) = x
<1>1. S \in SUBSET Seq(Characters) /\ <<>> \in S /\ x \in Seq(Characters)
  BY DEF PrefixClosed
<1>2. IsEndOf(x, x) /\ \A u \in S : IsEndOf(u, x) => Len(u) <= Len(x)
  BY <1>1, SuffixSelf DEF IsEndOf
<1> QED BY <1>1, <1>2, LongestUnique DEF Best

LEMMA BestNotState ==
  ASSUME NEW S, PrefixClosed(S), NEW x \in Seq(Characters), x \notin S, x # <<>>
  PROVE  Best(S, x) = Best(S, Tail(x))
<1>1. S \in SUBSET Seq(Characters) /\ <<>> \in S
  BY DEF PrefixClosed
<1>2. Tail(x) \in Seq(Characters)
  BY TailIs
<1>3. \A u \in S : IsEndOf(u, x) <=> IsEndOf(u, Tail(x))
  BY <1>1, SuffixOfTail
<1>4. /\ Best(S, Tail(x)) \in S /\ IsEndOf(Best(S, Tail(x)), Tail(x))
      /\ \A u \in S : IsEndOf(u, Tail(x)) => Len(u) <= Len(Best(S, Tail(x)))
  BY <1>2, BestIs
<1> QED BY <1>1, <1>3, <1>4, LongestUnique DEF Best

\* The states a string ends with are the string itself, if it is one, and
\* those its tail ends with, which are those its failure state ends with.
LEMMA NamesBehind ==
  ASSUME NEW S, PrefixClosed(S), NEW N \in SUBSET S, NEW x \in S, x # <<>>
  PROVE  N \cap SuffixesOf(x) = (N \cap SuffixesOf(Best(S, Tail(x)))) \cup (N \cap {x})
<1> DEFINE b == Best(S, Tail(x))
<1>1. S \in SUBSET Seq(Characters) /\ x \in Seq(Characters)
  BY DEF PrefixClosed
<1>2. Tail(x) \in Seq(Characters)
  BY <1>1, TailIs
<1>3. b \in Seq(Characters) /\ IsEndOf(b, Tail(x)) /\ \A u \in S : IsEndOf(u, Tail(x)) => Len(u) <= Len(b)
  BY <1>2, BestIs
<1> HIDE DEF b
<1>4. ASSUME NEW u \in N PROVE u \in SuffixesOf(x) <=> u \in SuffixesOf(b) \/ u = x
  <2>1. u \in Seq(Characters) /\ u \in S
    BY <1>1
  <2>2. u \in SuffixesOf(x) <=> u = x \/ IsEndOf(u, Tail(x))
    BY <1>1, <2>1, SuffixIs, SuffixOfTail
  <2>3. u \in SuffixesOf(b) <=> IsEndOf(u, b)
    BY <1>3, <2>1, SuffixIs
  <2>4. IsEndOf(u, Tail(x)) => IsEndOf(u, b)
    BY <1>2, <1>3, <2>1, SuffixOfLonger
  <2>5. IsEndOf(u, b) => IsEndOf(u, Tail(x))
    BY <1>2, <1>3, <2>1, SuffixTrans
  <2> QED BY <2>2, <2>3, <2>4, <2>5
<1>5. N \cap SuffixesOf(x) = (N \cap SuffixesOf(b)) \cup (N \cap {x})
  BY <1>4
<1> QED BY <1>5 DEF b

\* A list of names before another.
LEMMA ListsJoin ==
  ASSUME NEW N, NEW a \in Seq(N), NEW b \in Seq(N)
  PROVE  LET j == Reverse(a) \o b IN
         /\ j \in Seq(N) /\ ToSet(j) = ToSet(a) \cup ToSet(b)
         /\ Len(b) # 0 => Len(j) \in 1 .. Len(j) /\ j[Len(j)] = b[Len(b)]
<1> DEFINE m == Len(a) n == Len(b) r == Reverse(a) j == r \o b
<1>1. m \in Nat /\ n \in Nat /\ (\A i \in 1 .. m : a[i] \in N) /\ (\A i \in 1 .. n : b[i] \in N)
  OBVIOUS
<1>2. r = [i \in 1 .. m |-> a[(m - i) + 1]]
  BY DEF Reverse
<1>3. \A i \in 1 .. m : (m - i) + 1 \in 1 .. m
  BY <1>1
<1> HIDE DEF m, n
<1>4. r \in Seq(N) /\ Len(r) = m /\ \A i \in 1 .. m : r[i] = a[(m - i) + 1]
  BY <1>1, <1>2, <1>3
<1> HIDE DEF r
<1>5. j \in Seq(N) /\ Len(j) = m + n /\ (\A i \in 1 .. m : j[i] = r[i]) /\ \A i \in 1 .. n : j[m + i] = b[i]
  <2>1. j \in Seq(N) /\ Len(j) = m + n
    BY <1>4, ConcatProperties DEF j, n
  <2>2. ASSUME NEW i \in 1 .. m PROVE j[i] = r[i]
    BY <1>1, <1>4, <2>1 DEF n
  <2>3. ASSUME NEW i \in 1 .. n PROVE j[m + i] = b[i]
    <3>1. m + i \in 1 .. (m + n) /\ ~ (m + i <= m) /\ (m + i) - m = i
      BY <1>1
    <3> QED BY <1>4, <2>1, <3>1 DEF n
  <2> QED BY <2>1, <2>2, <2>3
<1> HIDE DEF j
<1>6. ToSet(j) = {j[k] : k \in 1 .. (m + n)}
  BY <1>5 DEF ToSet
<1>7. ToSet(a) = {a[k] : k \in 1 .. m} /\ ToSet(b) = {b[k] : k \in 1 .. n}
  BY DEF ToSet, m, n
<1>8. ASSUME NEW k \in 1 .. (m + n) PROVE j[k] \in ToSet(a) \cup ToSet(b)
  <2>1. CASE k <= m
    <3>1. k \in 1 .. m
      BY <1>1, <2>1
    <3>2. (m - k) + 1 \in 1 .. m /\ j[k] = a[(m - k) + 1]
      BY <1>3, <1>4, <1>5, <3>1
    <3> QED BY <1>7, <3>2
  <2>2. CASE k > m
    <3>1. k - m \in 1 .. n /\ m + (k - m) = k
      BY <1>1, <2>2
    <3> QED BY <1>5, <1>7, <3>1
  <2>3. k <= m \/ k > m
    BY <1>1
  <2> QED BY <2>1, <2>2, <2>3
<1>9. ASSUME NEW k \in 1 .. m PROVE a[k] \in ToSet(j)
  <2>1. (m - k) + 1 \in 1 .. m /\ (m - ((m - k) + 1)) + 1 = k /\ (m - k) + 1 \in 1 .. (m + n)
    BY <1>1
  <2>2. j[(m - k) + 1] = a[k]
    BY <1>4, <1>5, <2>1
  <2> QED BY <1>6, <2>1, <2>2
<1>10. ASSUME NEW k \in 1 .. n PROVE b[k] \in ToSet(j)
  BY <1>1, <1>5, <1>6
<1>11. ToSet(j) = ToSet(a) \cup ToSet(b)
  BY <1>6, <1>7, <1>8, <1>9, <1>10
<1>12. n # 0 => Len(j) \in 1 .. Len(j) /\ j[Len(j)] = b[n]
  BY <1>1, <1>5
<1> QED BY <1>5, <1>11, <1>12 DEF j, r, n

-----------------------------------------------------------------------------

(***************************************************************************)
(* The invariant of acsm_compile: D holds the states taken from the queue. *)
(* Their rows are final; the failure states and the lists of names are     *)
(* right in the queue as well.                                             *)
(***************************************************************************)
TablesOk(list, D, q, next, fail, lists) ==
  /\ list \in NameLists
  /\ DOMAIN next = StatesFor(list) \X Characters
  /\ DOMAIN fail = StatesFor(list) /\ DOMAIN lists = StatesFor(list)
  /\ QueueOk(StatesFor(list), D, q)
  /\ RowsOk(StatesFor(list), D, next)
  /\ FailsOk(StatesFor(list), D \cup ToSet(q), fail)
  /\ ListsOk(StatesFor(list), D \cup ToSet(q), ToSet(list), lists)

AutomatonInv ==
  \/ user_names = <<>> /\ work_queue = <<>>
  \/ \E D : TablesOk(user_names, D, work_queue, next_state, fail_state, match_list)

LEMMA NamesAreStates ==
  ASSUME NEW list \in NameLists
  PROVE  /\ PrefixClosed(StatesFor(list)) /\ list # <<>> /\ list \in Seq(Seq(Characters))
         /\ ToSet(list) \in SUBSET StatesFor(list) /\ <<>> \notin ToSet(list)
<1>1. PrefixClosed(StatesFor(list)) /\ \A i \in DOMAIN list : list[i] \in StatesFor(list) /\ list[i] # <<>>
  BY StatesArePrefixes
<1> QED BY <1>1, MatchAssumption DEF ToSet

LEMMA FollowIs ==
  ASSUME NEW s, NEW c, next_state[<<s, c>>] # FAIL
  PROVE  Follow(s, c) = next_state[<<s, c>>]
BY DEF Follow

\* The failure state of the head of the queue has a row, and so the one behind
\* a character is found there: that of what the state ends with and the character.
LEMMA FailOfHead ==
  ASSUME NEW list, NEW D, NEW q, NEW next, NEW fail, NEW lists,
         TablesOk(list, D, q, next, fail, lists), q # <<>>, NEW c \in Characters
  PROVE  LET S == StatesFor(list) r == q[1] IN
         /\ r \in S /\ fail[r] \in D
         /\ next[<<fail[r], c>>] = Best(S, Tail(Append(r, c)))
         /\ next[<<fail[r], c>>] # FAIL
<1> DEFINE S == StatesFor(list) r == q[1] t == Tail(r) b == Best(S, t)
<1>1. list \in NameLists /\ QueueOk(S, D, q) /\ RowsOk(S, D, next) /\ FailsOk(S, D \cup ToSet(q), fail)
  BY DEF TablesOk
<1>2. PrefixClosed(S)
  BY <1>1, NamesAreStates
<1> HIDE DEF S
<1>3. /\ r \in S /\ r # <<>> /\ r \in ToSet(q) /\ \A s \in S : Len(s) < Len(r) => s \in D
  BY <1>1, <1>2, HeadIs
<1>4. r \in Seq(Characters) /\ D \subseteq S
  BY <1>1, <1>2, <1>3 DEF PrefixClosed, QueueOk
<1> HIDE DEF r
<1>5. t \in Seq(Characters) /\ Len(t) = Len(r) - 1 /\ Len(r) \in Nat
  BY <1>3, <1>4, TailIs
<1>6. Tail(Append(r, c)) = Append(t, c)
  BY <1>3, <1>4, TailOfAppend
<1> HIDE DEF t
<1>7. fail[r] = b
  BY <1>1, <1>3 DEF FailsOk, t
<1>8. b \in S /\ b \in Seq(Characters) /\ Len(b) \in Nat /\ Len(b) <= Len(t)
  BY <1>2, <1>5, BestIs
<1>9. Len(b) < Len(r)
  BY <1>5, <1>8
<1>10. b \in D
  BY <1>3, <1>8, <1>9
<1>11. next[<<b, c>>] = Best(S, Append(b, c))
  BY <1>1, <1>8, <1>10 DEF RowsOk
<1>12. Best(S, Append(t, c)) = Best(S, Append(b, c))
  BY <1>2, <1>5, LongestBehind DEF b
<1>13. Append(b, c) \in Seq(Characters)
  BY <1>8, AppendIs
<1>14. Best(S, Append(b, c)) # FAIL
  BY <1>2, <1>13, BestIs
<1> QED BY <1>3, <1>6, <1>7, <1>10, <1>11, <1>12, <1>14 DEF r, S

\* A longest state behind a state that was reached was reached too.
LEMMA BestReached ==
  ASSUME NEW S, PrefixClosed(S), NEW D, NEW q, QueueOk(S, D, q), q # <<>>,
         NEW x \in Seq(Characters), Len(x) <= Len(q[1])
  PROVE  Best(S, x) \in D \cup ToSet(q)
<1> DEFINE b == Best(S, x)
<1>1. b \in S /\ b \in Seq(Characters) /\ Len(b) \in Nat /\ Len(b) <= Len(x)
  BY BestIs
<1> HIDE DEF b
<1>2. CASE b = <<>>
  BY <1>2 DEF QueueOk, b
<1>3. CASE b # <<>>
  <2>1. PICK t \in S, c \in Characters : b = Append(t, c)
    BY <1>1, <1>3 DEF PrefixClosed
  <2>2. q[1] \in S /\ \A s \in S : Len(s) < Len(q[1]) => s \in D
    BY HeadIs
  <2>3. t \in Seq(Characters) /\ q[1] \in Seq(Characters)
    BY <2>2 DEF PrefixClosed
  <2>4. Len(t) \in Nat /\ Len(b) = Len(t) + 1 /\ Len(q[1]) \in Nat /\ Len(x) \in Nat
    BY <2>1, <2>3, AppendIs
  <2>5. t \in D
    BY <1>1, <2>2, <2>4
  <2>6. b \in D \cup ToSet(q)
    BY <1>1, <2>1, <2>5 DEF QueueOk
  <2> QED BY <2>6 DEF b
<1> QED BY <1>2, <1>3

-----------------------------------------------------------------------------

LEMMA TablesStep ==
  ASSUME NEW list, NEW D, NEW q, NEW next, NEW fail, NEW lists,
         TablesOk(list, D, q, next, fail, lists), q # <<>>,
         NEW kids, Kids(StatesFor(list), q[1], kids),
         NEW next2, NEW fail2, NEW lists2,
         DOMAIN next2 = DOMAIN next, DOMAIN fail2 = DOMAIN fail, DOMAIN lists2 = DOMAIN lists,
         \A s \in StatesFor(list) : fail2[s] =
           IF s \in ToSet(kids) THEN next[<<fail[q[1]], s[Len(s)]>>] ELSE fail[s],
         \A s \in StatesFor(list) : lists2[s] =
           IF s \in ToSet(kids) THEN Reverse(lists[next[<<fail[q[1]], s[Len(s)]>>]]) \o lists[s] ELSE lists[s],
         \A s \in StatesFor(list), c \in Characters : next2[<<s, c>>] =
           IF s = q[1] /\ next[<<s, c>>] = FAIL THEN next[<<fail[q[1]], c>>] ELSE next[<<s, c>>]
  PROVE  TablesOk(list, D \cup {q[1]}, Tail(q) \o kids, next2, fail2, lists2)
<1> DEFINE S == StatesFor(list) N == ToSet(list) r == q[1] p == Tail(q) \o kids
           K == D \cup ToSet(q) B == Behind(S, r)
<1>1. /\ list \in NameLists /\ QueueOk(S, D, q) /\ RowsOk(S, D, next) /\ FailsOk(S, K, fail)
      /\ ListsOk(S, K, N, lists)
      /\ DOMAIN next = S \X Characters /\ DOMAIN fail = S /\ DOMAIN lists = S
  BY DEF TablesOk
<1>2. PrefixClosed(S) /\ N \in SUBSET S /\ S \in SUBSET Seq(Characters)
  BY <1>1, NamesAreStates DEF PrefixClosed
<1>3. \A c \in Characters : /\ r \in S /\ fail[r] \in D
                            /\ next[<<fail[r], c>>] = Best(S, Tail(Append(r, c)))
  BY FailOfHead
<1>4. r \in S /\ r \notin D /\ r \in Seq(Characters)
  BY <1>1, <1>2, HeadIs
<1>5. /\ QueueOk(S, D \cup {r}, p) /\ (D \cup {r}) \cup ToSet(p) = K \cup B /\ B \cap K = {}
  <2> HIDE DEF S, N, K
  <2>1. Kids(S, q[1], kids)
    BY DEF S
  <2>2. /\ QueueOk(S, D \cup {q[1]}, Tail(q) \o kids)
        /\ (D \cup {q[1]}) \cup ToSet(Tail(q) \o kids) = (D \cup ToSet(q)) \cup Behind(S, q[1])
        /\ Behind(S, q[1]) \cap (D \cup ToSet(q)) = {}
    BY <1>1, <1>2, <2>1, QueueStep
  <2> QED BY <2>2 DEF K
<1>6. ToSet(kids) = B
  <2>1. ToSet(kids) \subseteq B
    BY DEF Kids, ToSet
  <2>2. ASSUME NEW k \in B PROVE k \in ToSet(kids)
    <3>1. PICK c \in Characters : k = Append(r, c) /\ k \in S
      BY DEF Behind
    <3>2. \E i \in 1 .. Len(kids) : kids[i] = k
      BY <3>1 DEF Kids
    <3>3. ToSet(kids) = {kids[i] : i \in 1 .. Len(kids)}
      BY DEF Kids, ToSet
    <3> QED BY <3>2, <3>3
  <2> QED BY <2>1, <2>2
<1> HIDE DEF N
<1>7. ASSUME NEW k \in B
      PROVE  /\ k \in S /\ k # <<>> /\ fail2[k] = Best(S, Tail(k)) /\ fail2[k] \in K
             /\ lists2[k] = Reverse(lists[fail2[k]]) \o lists[k]
  <2>1. PICK c \in Characters : k = Append(r, c) /\ k \in S
    BY DEF Behind
  <2>2. k # <<>> /\ k \in Seq(Characters) /\ k[Len(k)] = c /\ Len(k) = Len(r) + 1 /\ Len(r) \in Nat
    <3> HIDE DEF r
    <3>1. /\ Append(r, c) \in Seq(Characters) /\ Append(r, c) # <<>> /\ Len(r) \in Nat
          /\ Len(Append(r, c)) = Len(r) + 1 /\ Append(r, c)[Len(r) + 1] = c
      BY <1>4, AppendIs
    <3> QED BY <2>1, <3>1
  <2>3. fail2[k] = next[<<fail[r], c>>] /\ lists2[k] = Reverse(lists[next[<<fail[r], c>>]]) \o lists[k]
    BY <1>6, <2>1, <2>2
  <2>4. fail2[k] = Best(S, Tail(k))
    BY <1>3, <2>1, <2>3
  <2>5. Tail(k) \in Seq(Characters) /\ Len(Tail(k)) = Len(r)
    BY <2>2, TailIs
  <2>6. Best(S, Tail(k)) \in K
    <3>1. Len(Tail(k)) <= Len(q[1])
      BY <2>2, <2>5
    <3> QED BY <1>1, <1>2, <2>5, <3>1, BestReached
  <2> QED BY <2>1, <2>2, <2>3, <2>4, <2>6
<1> HIDE DEF S, r, p, K, B
<1>8. RowsOk(S, D \cup {r}, next2)
  <2> SUFFICES ASSUME NEW s \in S, NEW c \in Characters
               PROVE  next2[<<s, c>>] = IF s \in D \cup {r} THEN Best(S, Append(s, c))
                                        ELSE IF Append(s, c) \in S THEN Append(s, c) ELSE FAIL
    BY DEF RowsOk
  <2>1. next[<<s, c>>] = IF s \in D THEN Best(S, Append(s, c))
                         ELSE IF Append(s, c) \in S THEN Append(s, c) ELSE FAIL
    BY <1>1 DEF RowsOk
  <2>2. next2[<<s, c>>] = IF s = r /\ next[<<s, c>>] = FAIL THEN next[<<fail[r], c>>] ELSE next[<<s, c>>]
    BY DEF S, r
  <2>3. CASE s # r
    BY <2>1, <2>2, <2>3
  <2>4. CASE s = r /\ Append(s, c) \in S
    <3>1. Append(s, c) # FAIL
      BY <1>2, <2>4 DEF PrefixClosed
    <3>2. Best(S, Append(s, c)) = Append(s, c)
      BY <1>2, <2>4, BestState
    <3> QED BY <1>4, <2>1, <2>2, <2>4, <3>1, <3>2
  <2>5. CASE s = r /\ Append(s, c) \notin S
    <3>1. next2[<<s, c>>] = Best(S, Tail(Append(r, c)))
      BY <1>3, <1>4, <2>1, <2>2, <2>5
    <3>2. Append(r, c) \in Seq(Characters) /\ Append(r, c) # <<>>
      BY <1>4, AppendIs
    <3>3. Best(S, Append(r, c)) = Best(S, Tail(Append(r, c)))
      BY <1>2, <2>5, <3>2, BestNotState
    <3> QED BY <2>5, <3>1, <3>3
  <2> QED BY <2>3, <2>4, <2>5
<1>9. FailsOk(S, K \cup B, fail2)
  <2> SUFFICES ASSUME NEW s \in K \cup B, s # <<>> PROVE fail2[s] = Best(S, Tail(s))
    BY DEF FailsOk
  <2>1. CASE s \in B
    BY <1>7, <2>1
  <2>2. CASE s \notin B
    <3>1. s \in K /\ s \in S
      BY <1>1, <2>2 DEF QueueOk, ToSet, K
    <3>2. fail2[s] = fail[s]
      BY <1>6, <2>2, <3>1 DEF S, r
    <3> QED BY <1>1, <3>1, <3>2 DEF FailsOk
  <2> QED BY <2>1, <2>2
<1>10. ListsOk(S, K \cup B, N, lists2)
  <2> SUFFICES ASSUME NEW s \in S
               PROVE  /\ lists2[s] \in Seq(N)
                      /\ ToSet(lists2[s]) = N \cap (IF s \in K \cup B THEN SuffixesOf(s) ELSE {s})
                      /\ s \in N => Len(lists2[s]) \in 1 .. Len(lists2[s]) /\ lists2[s][Len(lists2[s])] = s
    BY DEF ListsOk
  <2>1. /\ lists[s] \in Seq(N) /\ ToSet(lists[s]) = N \cap (IF s \in K THEN SuffixesOf(s) ELSE {s})
        /\ s \in N => Len(lists[s]) \in 1 .. Len(lists[s]) /\ lists[s][Len(lists[s])] = s
    BY <1>1 DEF ListsOk
  <2>2. CASE s \notin B
    <3>1. lists2[s] = lists[s]
      BY <1>6, <2>2 DEF S, r
    <3> QED BY <2>1, <2>2, <3>1
  <2>3. CASE s \in B
    <3> DEFINE f == Best(S, Tail(s))
    <3>1. s # <<>> /\ f \in K /\ lists2[s] = Reverse(lists[f]) \o lists[s] /\ s \notin K
      BY <1>5, <1>7, <2>3
    <3>2. f \in S
      BY <1>1, <3>1 DEF QueueOk, ToSet, K
    <3>3. N \cap SuffixesOf(s) = (N \cap SuffixesOf(f)) \cup (N \cap {s})
      BY <1>2, <3>1, NamesBehind
    <3> HIDE DEF f
    <3>4. lists[f] \in Seq(N) /\ ToSet(lists[f]) = N \cap SuffixesOf(f)
      BY <1>1, <3>1, <3>2 DEF ListsOk
    <3>5. /\ lists2[s] \in Seq(N) /\ ToSet(lists2[s]) = ToSet(lists[f]) \cup ToSet(lists[s])
          /\ Len(lists[s]) # 0 => /\ Len(lists2[s]) \in 1 .. Len(lists2[s])
                                  /\ lists2[s][Len(lists2[s])] = lists[s][Len(lists[s])]
      <4> DEFINE a == lists[f] b == lists[s] j == lists2[s]
      <4>1. a \in Seq(N) /\ b \in Seq(N) /\ j = Reverse(a) \o b
        BY <2>1, <3>1, <3>4
      <4> HIDE DEF a, b, j
      <4>2. /\ j \in Seq(N) /\ ToSet(j) = ToSet(a) \cup ToSet(b)
            /\ Len(b) # 0 => Len(j) \in 1 .. Len(j) /\ j[Len(j)] = b[Len(b)]
        BY <4>1, ListsJoin
      <4> QED BY <4>2 DEF a, b, j
    <3>6. ToSet(lists2[s]) = N \cap SuffixesOf(s)
      BY <2>1, <3>1, <3>3, <3>4, <3>5
    <3>7. s \in N => Len(lists[s]) # 0
      BY <2>1
    <3> QED BY <2>1, <2>3, <3>5, <3>6, <3>7
  <2> QED BY <2>2, <2>3
<1>11. DOMAIN next2 = S \X Characters /\ DOMAIN fail2 = S /\ DOMAIN lists2 = S
  BY <1>1
<1> QED BY <1>1, <1>5, <1>8, <1>9, <1>10, <1>11 DEF TablesOk, S, N, r, p

-----------------------------------------------------------------------------

(***************************************************************************)
(* The tables when the names are read, and the invariant.                  *)
(***************************************************************************)
LEMMA CopiesAre ==
  ASSUME NEW list \in NameLists, NEW s
  PROVE  /\ Copies(list, s) \in Seq(ToSet(list)) /\ ToSet(Copies(list, s)) = ToSet(list) \cap {s}
         /\ s \in ToSet(list) => /\ Len(Copies(list, s)) \in 1 .. Len(Copies(list, s))
                                 /\ Copies(list, s)[Len(Copies(list, s))] = s
<1> DEFINE I == {i \in DOMAIN list : list[i] = s} n == Cardinality(I) N == ToSet(list)
<1>1. list \in Seq(Seq(Characters)) /\ DOMAIN list = 1 .. Len(list) /\ Len(list) \in Nat
  BY MatchAssumption
<1>2. I \in SUBSET (1 .. Len(list))
  BY <1>1
<1>3. IsFiniteSet(I) /\ n \in Nat
  BY <1>1, <1>2, SubsetsFinite
<1>4. n = 0 <=> I = {}
  BY <1>3, FS_EmptySet
<1>5. s \in N <=> I # {}
  BY DEF ToSet
<1>6. Copies(list, s) = [k \in 1 .. n |-> s]
  BY DEF Copies
<1> HIDE DEF I, n, N
<1>7. n # 0 <=> s \in N
  BY <1>4, <1>5
<1>8. Len([k \in 1 .. n |-> s]) = n /\ DOMAIN [k \in 1 .. n |-> s] = 1 .. n
  BY <1>3
<1>9. [k \in 1 .. n |-> s] \in Seq(N)
  BY <1>3, <1>7
<1>10. ToSet([k \in 1 .. n |-> s]) = N \cap {s}
  <2>1. ToSet([k \in 1 .. n |-> s]) = {s : k \in 1 .. n}
    BY <1>8 DEF ToSet
  <2>2. n # 0 => 1 \in 1 .. n
    BY <1>3
  <2>3. n = 0 => 1 .. n = {}
    BY <1>3
  <2> QED BY <1>7, <2>1, <2>2, <2>3
<1>11. s \in N => n \in 1 .. n
  BY <1>3, <1>7
<1> QED BY <1>6, <1>8, <1>9, <1>10, <1>11 DEF N

LEMMA TablesStart ==
  ASSUME NEW list \in NameLists, NEW next, NEW fail, NEW lists,
         next = [e \in StatesFor(list) \X Characters |->
                   IF Append(e[1], e[2]) \in StatesFor(list) THEN Append(e[1], e[2])
                   ELSE IF e[1] = <<>> THEN <<>> ELSE FAIL],
         fail = [s \in StatesFor(list) |-> <<>>],
         lists = [s \in StatesFor(list) |-> Copies(list, s)]
  PROVE  TablesOk(list, {<<>>}, Children(<<>>, StatesFor(list)), next, fail, lists)
<1> DEFINE S == StatesFor(list) N == ToSet(list) kids == Children(<<>>, S) B == Behind(S, <<>>)
<1>1. PrefixClosed(S) /\ N \in SUBSET S /\ S \in SUBSET Seq(Characters) /\ <<>> \in S /\ <<>> \notin N
  BY NamesAreStates DEF PrefixClosed
<1>2. /\ kids \in Seq(B) /\ \A c \in Characters : Append(<<>>, c) \in S => \E k \in 1 .. Len(kids) : kids[k] = Append(<<>>, c)
      /\ \A k, l \in 1 .. Len(kids) : kids[k] = kids[l] => k = l
  <2>1. <<>> \in Seq(Characters)
    OBVIOUS
  <2> HIDE DEF S
  <2> QED BY <2>1, ChildrenAre DEF Behind
<1>3. DOMAIN next = S \X Characters /\ DOMAIN fail = S /\ DOMAIN lists = S
  OBVIOUS
<1>4. \A s \in S, c \in Characters : next[<<s, c>>] =
        IF Append(s, c) \in S THEN Append(s, c) ELSE IF s = <<>> THEN <<>> ELSE FAIL
  OBVIOUS
<1>5. \A s \in S : fail[s] = <<>> /\ lists[s] = Copies(list, s)
  OBVIOUS
<1> HIDE DEF S, N, kids
<1>6. ASSUME NEW k \in B
      PROVE  k \in S /\ k # <<>> /\ k \in Seq(Characters) /\ Len(k) = 1 /\ Tail(k) = <<>>
  <2>1. PICK c \in Characters : k = Append(<<>>, c) /\ k \in S
    BY DEF Behind
  <2>2. k \in Seq(Characters) /\ k # <<>> /\ Len(k) = 1
    BY <1>1, <2>1, BehindLength
  <2>3. Len(Tail(k)) = 0 /\ Tail(k) \in Seq(Characters)
    BY <2>2, TailIs
  <2> QED BY <2>1, <2>2, <2>3
<1> DEFINE l == Len(kids)
<1>7. l \in Nat /\ \A i \in 1 .. l : kids[i] \in B
  BY <1>2
<1>8. ToSet(kids) = B
  <2>1. ToSet(kids) = {kids[i] : i \in 1 .. l}
    BY <1>2 DEF ToSet
  <2>2. ASSUME NEW k \in B PROVE \E i \in 1 .. l : kids[i] = k
    BY <1>2 DEF Behind
  <2> QED BY <1>7, <2>1, <2>2
<1>9. QueueOk(S, {<<>>}, kids)
  <2>1. \A i \in 1 .. l : kids[i] \in S /\ kids[i] # <<>> /\ Len(kids[i]) = 1
    BY <1>6, <1>7
  <2>2. \A i \in 1 .. l : kids[i] \notin {<<>>} /\ Len(kids[i]) <= Len(kids[1]) + 1
    <3> SUFFICES ASSUME NEW i \in 1 .. l PROVE kids[i] \notin {<<>>} /\ Len(kids[i]) <= Len(kids[1]) + 1
      OBVIOUS
    <3>1. 1 \in 1 .. l
      BY <1>7
    <3> QED BY <2>1, <3>1
  <2>3. \A i, j \in 1 .. l : (kids[i] = kids[j] => i = j) /\ (i < j => Len(kids[i]) <= Len(kids[j]))
    BY <1>2, <2>1
  <2>4. ASSUME NEW s \in S, NEW c \in Characters, Append(s, c) \in S
        PROVE  Append(s, c) \in {<<>>} \cup B <=> s \in {<<>>}
    <3>1. s \in Seq(Characters) /\ Append(s, c) # <<>>
      BY <1>1, AppendIs
    <3>2. ASSUME NEW d \in Characters, Append(s, c) = Append(<<>>, d) PROVE s = <<>>
      <4>1. <<>> \in Seq(Characters)
        OBVIOUS
      <4> QED BY <3>1, <3>2, <4>1, AppendSame
    <3>3. Append(s, c) \in B <=> s = <<>>
      BY <2>4, <3>2 DEF Behind
    <3> QED BY <3>1, <3>3
  <2>5. kids \in Seq(S)
    BY <1>7, <1>2, <2>1
  <2> HIDE DEF l, B
  <2>6. \A s \in S, c \in Characters :
          Append(s, c) \in S => (Append(s, c) \in {<<>>} \cup ToSet(kids) <=> s \in {<<>>})
    BY <1>8, <2>4
  <2> QED BY <1>1, <2>2, <2>3, <2>5, <2>6 DEF QueueOk, l
<1>10. \A x \in Seq(Characters) : x = <<>> => Best(S, x) = <<>>
  BY <1>1, BestState
<1>11. RowsOk(S, {<<>>}, next)
  <2> SUFFICES ASSUME NEW s \in S, NEW c \in Characters
               PROVE  next[<<s, c>>] = IF s \in {<<>>} THEN Best(S, Append(s, c))
                                       ELSE IF Append(s, c) \in S THEN Append(s, c) ELSE FAIL
    BY DEF RowsOk
  <2>1. CASE s # <<>>
    BY <1>4, <2>1
  <2>2. CASE Append(s, c) \in S
    <3>1. Best(S, Append(s, c)) = Append(s, c)
      BY <1>1, <2>2, BestState
    <3> QED BY <1>4, <2>2, <3>1
  <2>3. CASE s = <<>> /\ Append(s, c) \notin S
    <3> DEFINE x == Append(s, c)
    <3>1. x \in Seq(Characters) /\ x # <<>> /\ Len(x) = Len(s) + 1 /\ Len(s) = 0
      BY <1>1, <2>3, AppendIs
    <3> HIDE DEF x
    <3>2. Tail(x) \in Seq(Characters) /\ Len(Tail(x)) = 0
      BY <3>1, TailIs
    <3>3. Tail(x) = <<>>
      <4> DEFINE y == Tail(x)
      <4>1. y \in Seq(Characters) /\ Len(y) = 0
        BY <3>2
      <4> HIDE DEF y
      <4>2. y = <<>>
        BY <4>1
      <4> QED BY <4>2 DEF y
    <3>4. Best(S, x) = <<>>
      BY <1>1, <1>10, <2>3, <3>1, <3>2, <3>3, BestNotState DEF x
    <3> QED BY <1>4, <2>3, <3>4 DEF x
  <2> QED BY <2>1, <2>2, <2>3
<1>12. FailsOk(S, {<<>>} \cup B, fail)
  <2> SUFFICES ASSUME NEW s \in B PROVE fail[s] = Best(S, Tail(s))
    BY DEF FailsOk
  <2>1. <<>> \in Seq(Characters)
    OBVIOUS
  <2> QED BY <1>5, <1>6, <1>10, <2>1
<1>13. ListsOk(S, {<<>>} \cup B, N, lists)
  <2> SUFFICES ASSUME NEW s \in S
               PROVE  /\ lists[s] \in Seq(N)
                      /\ ToSet(lists[s]) = N \cap (IF s \in {<<>>} \cup B THEN SuffixesOf(s) ELSE {s})
                      /\ s \in N => Len(lists[s]) \in 1 .. Len(lists[s]) /\ lists[s][Len(lists[s])] = s
    BY DEF ListsOk
  <2>1. /\ lists[s] \in Seq(N) /\ ToSet(lists[s]) = N \cap {s}
        /\ s \in N => Len(lists[s]) \in 1 .. Len(lists[s]) /\ lists[s][Len(lists[s])] = s
    BY <1>5, CopiesAre DEF N
  <2>2. SuffixesOf(<<>>) = {<<>>}
    <3>1. Len(<<>>) = 0 /\ 1 .. (0 + 1) = {1} /\ SubSeq(<<>>, 1, 0) = <<>>
      OBVIOUS
    <3> QED BY <3>1 DEF SuffixesOf
  <2>3. ASSUME s \in B PROVE N \cap SuffixesOf(s) = N \cap {s}
    <3>1. s # <<>> /\ Tail(s) = <<>>
      BY <1>6, <2>3
    <3>2. <<>> \in Seq(Characters)
      OBVIOUS
    <3>3. N \cap SuffixesOf(s) = (N \cap SuffixesOf(<<>>)) \cup (N \cap {s})
      <4>1. Best(S, Tail(s)) = <<>>
        BY <1>10, <3>1, <3>2
      <4>2. N \cap SuffixesOf(s) = (N \cap SuffixesOf(Best(S, Tail(s)))) \cup (N \cap {s})
        BY <1>1, <3>1, NamesBehind
      <4> QED BY <4>1, <4>2
    <3> QED BY <1>1, <2>2, <3>3
  <2>4. s = <<>> => N \cap SuffixesOf(s) = N \cap {s}
    BY <2>2
  <2> QED BY <2>1, <2>3, <2>4
<1> QED BY <1>3, <1>8, <1>9, <1>11, <1>12, <1>13 DEF TablesOk, S, N, kids

-----------------------------------------------------------------------------

\* Reading the names, and each round of the loop, keep the tables right.
LEMMA AutomatonStep == AutomatonInv /\ [MatchNext]_matchVars => AutomatonInv'
<1> SUFFICES ASSUME AutomatonInv, [MatchNext]_matchVars PROVE AutomatonInv'
  OBVIOUS
<1>1. ASSUME NEW list \in NameLists, str_match_ctx_init_from_file(list) PROVE AutomatonInv'
  <2>1. TablesOk(list, {<<>>}, Children(<<>>, StatesFor(list)), next_state', fail_state', match_list')
    <3>1. /\ next_state' = [e \in StatesFor(list) \X Characters |->
                 IF Append(e[1], e[2]) \in StatesFor(list) THEN Append(e[1], e[2])
                 ELSE IF e[1] = <<>> THEN <<>> ELSE FAIL]
          /\ fail_state' = [s \in StatesFor(list) |-> <<>>]
          /\ match_list' = [s \in StatesFor(list) |-> Copies(list, s)]
      BY <1>1 DEF str_match_ctx_init_from_file
    <3> QED BY <3>1, TablesStart
  <2>2. user_names' = list /\ work_queue' = Children(<<>>, StatesFor(list))
    BY <1>1 DEF str_match_ctx_init_from_file
  <2> QED BY <2>1, <2>2 DEF AutomatonInv
<1>2. ASSUME acsm_compile_step PROVE AutomatonInv'
  <2> DEFINE r == work_queue[1] kids == Children(r, DOMAIN fail_state) S == StatesFor(user_names)
  <2>1. PICK D : TablesOk(user_names, D, work_queue, next_state, fail_state, match_list)
    BY <1>2 DEF AutomatonInv, acsm_compile_step
  <2>2. /\ user_names \in NameLists /\ QueueOk(S, D, work_queue) /\ PrefixClosed(S)
        /\ DOMAIN fail_state = S /\ DOMAIN match_list = S /\ DOMAIN next_state = S \X Characters
    BY <2>1, NamesAreStates DEF TablesOk
  <2>3. work_queue # <<>>
    BY <1>2 DEF acsm_compile_step
  <2>4. r = Head(work_queue) /\ r \in S
    BY <2>2, <2>3, HeadIs
  <2>5. r \in Seq(Characters)
    BY <2>2, <2>4 DEF PrefixClosed
  <2> HIDE DEF S, r
  <2>6. Kids(S, r, kids)
    <3>1. kids = Children(r, S)
      BY <2>2
    <3> HIDE DEF kids
    <3>2. /\ kids \in Seq({t \in S : \E c \in Characters : t = Append(r, c)})
          /\ \A c \in Characters : Append(r, c) \in S => \E k \in 1 .. Len(kids) : kids[k] = Append(r, c)
          /\ \A k, l \in 1 .. Len(kids) : kids[k] = kids[l] => k = l
      BY <2>5, <3>1, ChildrenAre
    <3> QED BY <3>2 DEF Kids, Behind
  <2>7. ASSUME NEW k \in ToSet(kids)
        PROVE  FailBehind(r, k[Len(k)]) = next_state[<<fail_state[r], k[Len(k)]>>]
    <3>1. PICK c \in Characters : k = Append(r, c)
      BY <2>6 DEF Kids, Behind, ToSet
    <3>2. k[Len(k)] = c
      BY <2>5, <3>1, AppendIs
    <3>3. next_state[<<fail_state[r], c>>] # FAIL
      BY <2>1, <2>3, FailOfHead DEF r
    <3> QED BY <3>2, <3>3, FollowIs DEF FailBehind
  <2> HIDE DEF kids
  <2>8. /\ DOMAIN next_state' = DOMAIN next_state /\ DOMAIN fail_state' = DOMAIN fail_state
        /\ DOMAIN match_list' = DOMAIN match_list
        /\ user_names' = user_names /\ work_queue' = Tail(work_queue) \o kids
    BY <1>2, <2>4 DEF acsm_compile_step, kids
  <2>9. ASSUME NEW s \in S
        PROVE  /\ fail_state'[s] = IF s \in ToSet(kids) THEN next_state[<<fail_state[r], s[Len(s)]>>]
                                   ELSE fail_state[s]
               /\ match_list'[s] = IF s \in ToSet(kids)
                    THEN Reverse(match_list[next_state[<<fail_state[r], s[Len(s)]>>]]) \o match_list[s]
                    ELSE match_list[s]
    <3>1. /\ fail_state'[s] = IF s \in ToSet(kids) THEN FailBehind(r, s[Len(s)]) ELSE fail_state[s]
          /\ match_list'[s] = IF s \in ToSet(kids)
               THEN Reverse(match_list[FailBehind(r, s[Len(s)])]) \o match_list[s] ELSE match_list[s]
      BY <1>2, <2>2, <2>4 DEF acsm_compile_step, kids
    <3> QED BY <2>7, <3>1
  <2>10. ASSUME NEW s \in S, NEW c \in Characters
         PROVE  next_state'[<<s, c>>] = IF s = r /\ next_state[<<s, c>>] = FAIL
                                        THEN next_state[<<fail_state[r], c>>] ELSE next_state[<<s, c>>]
    <3>1. <<s, c>> \in DOMAIN next_state
      BY <2>2
    <3> QED BY <1>2, <2>4, <3>1 DEF acsm_compile_step
  <2>11. TablesOk(user_names, D \cup {r}, Tail(work_queue) \o kids, next_state', fail_state', match_list')
    BY <2>1, <2>3, <2>6, <2>8, <2>9, <2>10, TablesStep DEF r, S
  <2> QED BY <2>8, <2>11 DEF AutomatonInv
<1>3. ASSUME UNCHANGED <<user_names, work_queue, next_state, fail_state, match_list>> PROVE AutomatonInv'
  BY <1>3 DEF AutomatonInv
<1>4. ASSUME NEW c \in Characters, find_all_longest(c) PROVE AutomatonInv'
  BY <1>3, <1>4 DEF find_all_longest
<1>5. ASSUME add_pattern PROVE AutomatonInv'
  BY <1>3, <1>5 DEF add_pattern
<1>6. ASSUME anon_print_string PROVE AutomatonInv'
  BY <1>3, <1>6 DEF anon_print_string
<1>7. ASSUME http_print_message PROVE AutomatonInv'
  BY <1>3, <1>7 DEF http_print_message
<1>8. ASSUME UNCHANGED matchVars PROVE AutomatonInv'
  BY <1>3, <1>8 DEF matchVars
<1> QED BY <1>1, <1>2, <1>4, <1>5, <1>6, <1>7, <1>8 DEF MatchNext

LEMMA AutomatonInvImplies == AutomatonInv => AutomatonFinds
<1> SUFFICES ASSUME AutomatonInv, Compiled PROVE Automaton
  BY DEF AutomatonFinds
<1> DEFINE S == StatesFor(user_names)
<1>1. PICK D : TablesOk(user_names, D, <<>>, next_state, fail_state, match_list)
  BY DEF AutomatonInv, Compiled
<1>2. /\ PrefixClosed(S) /\ QueueOk(S, D, <<>>) /\ RowsOk(S, D, next_state)
      /\ ListsOk(S, D \cup ToSet(<<>>), ToSet(user_names), match_list)
  BY <1>1, NamesAreStates DEF TablesOk
<1> SUFFICES ASSUME NEW s \in S
             PROVE  /\ ToSet(match_list[s]) = NameSet \cap SuffixesOf(s)
                    /\ \A c \in Characters : next_state[<<s, c>>] = LongestOf(S \cap SuffixesOf(Append(s, c)))
  BY DEF Automaton
<1>3. s \in D
  BY <1>2, AllDone
<1>4. ToSet(match_list[s]) = ToSet(user_names) \cap SuffixesOf(s)
  BY <1>2, <1>3 DEF ListsOk
<1>5. \A c \in Characters : next_state[<<s, c>>] = Best(S, Append(s, c))
  BY <1>2, <1>3 DEF RowsOk
<1> QED BY <1>4, <1>5 DEF NameSet, Best

MatchSpec == MatchInit /\ [][MatchNext]_matchVars

\* Aho and Corasick's automaton is what acsm_compile builds, whatever the names.
THEOREM AutomatonIsRight == MatchSpec => []AutomatonFinds
<1>1. MatchInit => AutomatonInv
  BY DEF MatchInit, AutomatonInv
<1> QED BY <1>1, AutomatonStep, AutomatonInvImplies, PTL DEF MatchSpec

-----------------------------------------------------------------------------

(***************************************************************************)
(* Where the names are in a text u.                                        *)
(***************************************************************************)
Occ(u, N) == {o \in [start : 0 .. Len(u) - 1, stop : 0 .. Len(u) - 1] : SubSeq(u, o.start + 1, o.stop + 1) \in N}

SpecialAt(u, i) == i = Len(u) \/ u[i + 1] \in Special

Hide(u, o) == (o.start = 0 \/ SpecialAt(u, o.start - 1)) /\ SpecialAt(u, o.stop + 1)

LEMMA OccIs ==
  ASSUME NEW C, NEW u \in Seq(C), NEW N \in SUBSET Seq(C), <<>> \notin N, NEW o \in Occ(u, N)
  PROVE  LET w == SubSeq(u, o.start + 1, o.stop + 1) IN
         /\ o.start \in Nat /\ o.stop \in Nat /\ o.start <= o.stop /\ o.stop < Len(u) /\ Len(u) \in Nat
         /\ o = [start |-> o.start, stop |-> o.stop]
         /\ w \in N /\ w \in Seq(C) /\ Len(w) = (o.stop - o.start) + 1
         /\ \A i \in 1 .. Len(w) : w[i] = u[o.start + i]
<1> DEFINE a == o.start b == o.stop l == Len(u) w == SubSeq(u, a + 1, b + 1)
<1>1. a \in 0 .. l - 1 /\ b \in 0 .. l - 1 /\ o = [start |-> a, stop |-> b] /\ w \in N /\ l \in Nat
  BY DEF Occ
<1>2. a + 1 \in Int /\ b + 1 \in Int /\ \A i \in a + 1 .. b + 1 : u[i] \in C
  BY <1>1
<1> HIDE DEF a, b, l
<1>3. /\ w \in Seq(C) /\ Len(w) = IF a + 1 <= b + 1 THEN (b + 1) - (a + 1) + 1 ELSE 0
      /\ \A i \in 1 .. ((b + 1) - (a + 1) + 1) : w[i] = u[(a + 1) + i - 1]
  BY <1>2, SubSeqProperties
<1> HIDE DEF w
<1>4. w # <<>>
  BY <1>1
<1>5. Len(w) # 0
  BY <1>3, <1>4
<1>6. a <= b /\ Len(w) = (b - a) + 1
  BY <1>1, <1>3, <1>5
<1>7. ASSUME NEW i \in 1 .. Len(w) PROVE w[i] = u[a + i]
  <2>1. i \in 1 .. ((b + 1) - (a + 1) + 1) /\ (a + 1) + i - 1 = a + i
    BY <1>1, <1>6
  <2> QED BY <1>3, <2>1
<1> QED BY <1>1, <1>3, <1>6, <1>7 DEF a, b, l, w

\* A name the text ends with.
LEMMA NameAtEnd ==
  ASSUME NEW C, NEW u \in Seq(C), NEW w \in Seq(C), w # <<>>, IsEndOf(w, u), NEW N, w \in N
  PROVE  LET o == [start |-> Len(u) - Len(w), stop |-> Len(u) - 1] IN
         o \in Occ(u, N) /\ SubSeq(u, o.start + 1, o.stop + 1) = w
<1> DEFINE l == Len(u) m == Len(w) o == [start |-> l - m, stop |-> l - 1] v == SubSeq(u, (l - m) + 1, (l - 1) + 1)
<1>1. l \in Nat /\ m \in Nat /\ m # 0 /\ m <= l /\ \A i \in 1 .. m : w[i] = u[l - m + i]
  BY DEF IsEndOf
<1>2. (l - m) + 1 \in Int /\ (l - 1) + 1 \in Int /\ \A i \in (l - m) + 1 .. (l - 1) + 1 : u[i] \in C
  BY <1>1
<1> HIDE DEF l, m
<1>3. /\ v \in Seq(C) /\ Len(v) = IF (l - m) + 1 <= (l - 1) + 1 THEN ((l - 1) + 1) - ((l - m) + 1) + 1 ELSE 0
      /\ \A i \in 1 .. (((l - 1) + 1) - ((l - m) + 1) + 1) : v[i] = u[((l - m) + 1) + i - 1]
  BY <1>2, SubSeqProperties
<1> HIDE DEF v
<1>4. Len(v) = m
  BY <1>1, <1>3
<1>5. ASSUME NEW i \in 1 .. m PROVE v[i] = w[i]
  <2>1. i \in 1 .. (((l - 1) + 1) - ((l - m) + 1) + 1) /\ ((l - m) + 1) + i - 1 = l - m + i
    BY <1>1
  <2> QED BY <1>1, <1>3, <2>1
<1>6. v = w
  BY <1>3, <1>4, <1>5, SeqEqual DEF m
<1>7. l - m \in 0 .. l - 1 /\ l - 1 \in 0 .. l - 1
  BY <1>1
<1> QED BY <1>6, <1>7 DEF Occ, v, l, m

LEMMA EndIsName ==
  ASSUME NEW C, NEW u \in Seq(C), NEW N \in SUBSET Seq(C), <<>> \notin N, NEW o \in Occ(u, N), o.stop = Len(u) - 1
  PROVE  LET w == SubSeq(u, o.start + 1, o.stop + 1) IN
         w \in N /\ w \in Seq(C) /\ IsEndOf(w, u) /\ Len(w) = Len(u) - o.start /\ w # <<>>
<1> DEFINE a == o.start l == Len(u) w == SubSeq(u, a + 1, o.stop + 1)
<1>1. /\ a \in Nat /\ l \in Nat /\ o.stop = l - 1 /\ a <= o.stop
      /\ w \in N /\ w \in Seq(C) /\ Len(w) = (o.stop - a) + 1
      /\ \A i \in 1 .. Len(w) : w[i] = u[a + i]
  BY OccIs
<1> HIDE DEF a, l, w
<1>2. Len(w) = l - a /\ Len(w) <= l /\ l - Len(w) = a
  BY <1>1
<1>3. IsEndOf(w, u)
  BY <1>1, <1>2 DEF IsEndOf, l
<1>4. w # <<>>
  BY <1>1
<1> QED BY <1>1, <1>2, <1>3, <1>4 DEF a, l, w

\* A part of the text is still there when the text goes on.
LEMMA OccGrows ==
  ASSUME NEW C, NEW u \in Seq(C), NEW c \in C, NEW N,
         NEW o \in [start : Nat, stop : Nat], o.start < Len(u), o.stop < Len(u)
  PROVE  o \in Occ(u, N) <=> o \in Occ(Append(u, c), N)
<1> DEFINE a == o.start b == o.stop l == Len(u) x == Append(u, c)
           v == SubSeq(u, a + 1, b + 1) w == SubSeq(x, a + 1, b + 1)
<1>1. a \in Nat /\ b \in Nat /\ a < l /\ b < l /\ l \in Nat
  OBVIOUS
<1>2. x \in Seq(C) /\ Len(x) = l + 1 /\ \A i \in 1 .. l : x[i] = u[i]
  BY AppendIs
<1> HIDE DEF x
<1>3. a + 1 \in Int /\ b + 1 \in Int /\ \A i \in a + 1 .. b + 1 : i \in 1 .. l
  BY <1>1
<1>4. \A i \in a + 1 .. b + 1 : u[i] \in C /\ x[i] \in C
  BY <1>2, <1>3
<1> HIDE DEF a, b, l
<1> DEFINE n == (b + 1) - (a + 1) + 1
<1>5. /\ v \in Seq(C) /\ Len(v) = IF a + 1 <= b + 1 THEN n ELSE 0
      /\ \A i \in 1 .. n : v[i] = u[(a + 1) + i - 1]
  BY <1>3, <1>4, SubSeqProperties
<1>6. /\ w \in Seq(C) /\ Len(w) = IF a + 1 <= b + 1 THEN n ELSE 0
      /\ \A i \in 1 .. n : w[i] = x[(a + 1) + i - 1]
  BY <1>3, <1>4, SubSeqProperties
<1> HIDE DEF v, w
<1>7. Len(v) = Len(w)
  BY <1>5, <1>6
<1>8. ASSUME NEW i \in 1 .. Len(v) PROVE v[i] = w[i]
  <2>1. a + 1 <= b + 1 /\ i \in 1 .. n /\ (a + 1) + i - 1 \in 1 .. l
    BY <1>1, <1>5
  <2> QED BY <1>2, <1>5, <1>6, <2>1
<1>9. v = w
  BY <1>5, <1>6, <1>7, <1>8, SeqEqual
<1>10. o \in Occ(u, N) <=> v \in N
  <2>1. a \in 0 .. l - 1 /\ b \in 0 .. l - 1
    BY <1>1
  <2>2. o = [start |-> a, stop |-> b]
    BY DEF a, b
  <2> QED BY <2>1, <2>2 DEF Occ, v, a, b, l
<1>11. o \in Occ(x, N) <=> w \in N
  <2>1. a \in 0 .. Len(x) - 1 /\ b \in 0 .. Len(x) - 1
    BY <1>1, <1>2
  <2>2. o = [start |-> a, stop |-> b]
    BY DEF a, b
  <2> QED BY <2>1, <2>2 DEF Occ, w, a, b
<1> QED BY <1>9, <1>10, <1>11 DEF x

LEMMA OccFinite ==
  ASSUME NEW C, NEW u \in Seq(C), NEW N
  PROVE  IsFiniteSet(Occ(u, N)) /\ Cardinality(Occ(u, N)) \in Nat
<1> DEFINE I == 0 .. Len(u) - 1 P == I \X I R == [start : I, stop : I]
           f == [p \in P |-> [start |-> p[1], stop |-> p[2]]]
<1>1. IsFiniteSet(I)
  BY FS_Interval
<1>2. IsFiniteSet(P)
  <2> HIDE DEF I
  <2> QED BY <1>1, FS_Product
<1>3. f \in Surjection(P, R)
  <2> HIDE DEF I
  <2>1. f \in [P -> R]
    OBVIOUS
  <2>2. ASSUME NEW o \in R PROVE \E p \in P : f[p] = o
    <3>1. <<o.start, o.stop>> \in P /\ f[<<o.start, o.stop>>] = [start |-> o.start, stop |-> o.stop]
      OBVIOUS
    <3> QED BY <3>1
  <2> HIDE DEF f, P, R
  <2> QED BY <2>1, <2>2 DEF Surjection
<1> HIDE DEF f, P
<1>4. IsFiniteSet(R)
  BY <1>2, <1>3, FS_Surjection
<1>5. Occ(u, N) \in SUBSET R
  BY DEF Occ
<1> HIDE DEF R
<1> QED BY <1>4, <1>5, FS_Subset, FS_CardinalityType

-----------------------------------------------------------------------------

(***************************************************************************)
(* What the search keeps: the matches are names in the text, apart from    *)
(* one another, and all that are to be hidden, but for those at the end    *)
(* while the names of the state are not all added.                         *)
(***************************************************************************)
FoundOk(N, u, add, found) ==
  /\ found \in Seq(Occ(u, N))
  /\ \A i, j \in 1 .. Len(found) : i < j => found[i].stop < found[j].start
  /\ Cardinality(Occ(u, N)) <= MATCH_ARRAY_LEN =>
       \A o \in Occ(u, N) : (Hide(u, o) /\ (o.stop = Len(u) - 1 => add = <<>>))
                            => \E k \in 1 .. Len(found) : found[k] = o

\* No state has a special character in it, if no name has.
LEMMA PlainStates ==
  ASSUME NEW list \in NameLists, \A p \in ToSet(list) : ToSet(p) \cap Special = {},
         NEW s \in StatesFor(list), NEW j \in 1 .. Len(s)
  PROVE  s[j] \notin Special
<1>1. CASE s = <<>>
  BY <1>1
<1>2. CASE s # <<>>
  <2>1. PICK i \in DOMAIN list : \E n \in DOMAIN list[i] : s = SubSeq(list[i], 1, n)
    BY <1>2 DEF StatesFor
  <2> DEFINE p == list[i]
  <2> PICK n \in DOMAIN p : s = SubSeq(p, 1, n)
    BY <2>1
  <2>2. p \in Seq(Characters) /\ p \in ToSet(list)
    BY MatchAssumption DEF ToSet
  <2>3. n \in 1 .. Len(p) /\ DOMAIN p = 1 .. Len(p) /\ Len(p) \in Nat
    BY <2>2
  <2> HIDE DEF p
  <2>4. n \in 0 .. Len(p)
    BY <2>3
  <2>5. SubSeq(p, 1, n) \in Seq(Characters) /\ Len(SubSeq(p, 1, n)) = n /\ \A k \in 1 .. n : SubSeq(p, 1, n)[k] = p[k]
    BY <2>2, <2>4, PrefixOfSeq
  <2>7. j \in 1 .. n /\ s[j] = p[j] /\ j \in DOMAIN p
    BY <2>3, <2>5
  <2>6. p[j] \in ToSet(p)
    BY <2>7 DEF ToSet
  <2> QED BY <2>2, <2>6, <2>7
<1> QED BY <1>1, <1>2

\* One more character: what was not to be hidden before is not now.
LEMMA ReadChar ==
  ASSUME NEW S, PrefixClosed(S), NEW N \in SUBSET S, <<>> \notin N, NEW u \in Seq(Characters), NEW c \in Characters,
         NEW found, FoundOk(N, u, <<>>, found),
         NEW add \in Seq(N), ToSet(add) = N \cap SuffixesOf(Best(S, Append(u, c)))
  PROVE  FoundOk(N, Append(u, c), add, found)
<1> DEFINE x == Append(u, c) l == Len(u)
<1>1. x \in Seq(Characters) /\ Len(x) = l + 1 /\ l \in Nat /\ (\A i \in 1 .. l : x[i] = u[i]) /\ x[l + 1] = c
  BY AppendIs
<1>2. S \in SUBSET Seq(Characters) /\ N \in SUBSET Seq(Characters)
  BY DEF PrefixClosed
<1> HIDE DEF x
<1>3. ASSUME NEW o \in Occ(u, N) PROVE o \in Occ(x, N)
  <2>1. o \in [start : Nat, stop : Nat] /\ o.start < Len(u) /\ o.stop < Len(u)
    BY <1>2, OccIs
  <2> QED BY <2>1, OccGrows DEF x
<1>4. ASSUME NEW o \in Occ(x, N), o.stop # l PROVE o \in Occ(u, N) /\ o.stop < l
  <2>1. o \in [start : Nat, stop : Nat] /\ o.start <= o.stop /\ o.stop < l + 1
    BY <1>1, <1>2, OccIs
  <2>2. o.start < l /\ o.stop < l
    BY <1>1, <1>4, <2>1
  <2> QED BY <2>1, <2>2, OccGrows DEF x
<1> HIDE DEF l
<1>5. ASSUME NEW o \in Occ(x, N), o.stop # l, Hide(x, o) PROVE Hide(u, o)
  <2>1. o \in Occ(u, N) /\ o.stop < l
    BY <1>4, <1>5
  <2>2. o.start \in Nat /\ o.stop \in Nat /\ o.start <= o.stop
    BY <1>2, <2>1, OccIs
  <2>3. ASSUME NEW i \in Nat, i <= l, SpecialAt(x, i) PROVE SpecialAt(u, i)
    <3>1. CASE i = l
      BY <3>1 DEF SpecialAt, l
    <3>2. CASE i # l
      <4>1. i + 1 \in 1 .. l /\ i # Len(x)
        BY <1>1, <2>3, <3>2
      <4> QED BY <1>1, <2>3, <4>1 DEF SpecialAt
    <3> QED BY <3>1, <3>2
  <2>4. o.stop + 1 \in Nat /\ o.stop + 1 <= l
    BY <1>1, <2>1, <2>2
  <2>5. o.start # 0 => o.start - 1 \in Nat /\ o.start - 1 <= l
    BY <1>1, <2>1, <2>2
  <2> QED BY <1>5, <2>3, <2>4, <2>5 DEF Hide
<1>6. ASSUME NEW o \in Occ(x, N), o.stop = l PROVE add # <<>>
  <2> DEFINE w == SubSeq(x, o.start + 1, o.stop + 1)
  <2>1. o.stop = Len(x) - 1
    BY <1>1, <1>6
  <2>2. w \in N /\ w \in Seq(Characters) /\ IsEndOf(w, x)
    BY <1>1, <1>2, <2>1, EndIsName
  <2> HIDE DEF w
  <2>3. /\ Best(S, x) \in Seq(Characters) /\ IsEndOf(Best(S, x), x)
        /\ Len(w) <= Len(Best(S, x))
    BY <1>1, <2>2, BestIs
  <2>4. IsEndOf(w, Best(S, x))
    BY <1>1, <2>2, <2>3, SuffixOfLonger
  <2>5. w \in SuffixesOf(Best(S, x))
    BY <2>2, <2>3, <2>4, SuffixIs
  <2>6. w \in ToSet(add)
    BY <2>2, <2>5 DEF x
  <2> QED BY <2>6 DEF ToSet
<1>7. found \in Seq(Occ(x, N))
  <2>1. Occ(u, N) \subseteq Occ(x, N)
    BY <1>3
  <2>2. found \in Seq(Occ(u, N))
    BY DEF FoundOk
  <2> QED BY <2>1, <2>2
<1>8. ASSUME Cardinality(Occ(x, N)) <= MATCH_ARRAY_LEN PROVE Cardinality(Occ(u, N)) <= MATCH_ARRAY_LEN
  <2>1. IsFiniteSet(Occ(x, N)) /\ Cardinality(Occ(x, N)) \in Nat /\ Cardinality(Occ(u, N)) \in Nat
    BY <1>1, OccFinite
  <2>2. Occ(u, N) \in SUBSET Occ(x, N)
    BY <1>3
  <2>3. Cardinality(Occ(u, N)) <= Cardinality(Occ(x, N))
    BY <2>1, <2>2, FS_Subset
  <2> QED BY <1>8, <2>1, <2>3, MatchAssumption
<1>9. ASSUME Cardinality(Occ(x, N)) <= MATCH_ARRAY_LEN,
             NEW o \in Occ(x, N), Hide(x, o), o.stop = Len(x) - 1 => add = <<>>
      PROVE  \E k \in 1 .. Len(found) : found[k] = o
  <2>1. o.stop # l
    <3>1. Len(x) - 1 = l
      BY <1>1
    <3> QED BY <1>6, <1>9, <3>1
  <2>2. o \in Occ(u, N) /\ Hide(u, o)
    BY <1>4, <1>5, <1>9, <2>1
  <2> QED BY <1>8, <1>9, <2>2 DEF FoundOk
<1>10. \A i, j \in 1 .. Len(found) : i < j => found[i].stop < found[j].start
  BY DEF FoundOk
<1>11. FoundOk(N, x, add, found)
  BY <1>7, <1>9, <1>10 DEF FoundOk
<1> QED BY <1>11 DEF x

\* Matches apart from one another are as many as occurrences: when the list
\* is full, and there is room for all, it has them all.
LEMMA FoundFull ==
  ASSUME NEW N \in SUBSET Seq(Characters), <<>> \notin N, NEW u \in Seq(Characters), NEW add, NEW found,
         FoundOk(N, u, add, found), Len(found) >= MATCH_ARRAY_LEN, Cardinality(Occ(u, N)) <= MATCH_ARRAY_LEN,
         NEW o \in Occ(u, N)
  PROVE  \E k \in 1 .. Len(found) : found[k] = o
<1> DEFINE T == Occ(u, N) n == Len(found)
<1>1. /\ found \in Seq(T) /\ \A i, j \in 1 .. n : i < j => found[i].stop < found[j].start
      /\ n \in Nat
  BY DEF FoundOk
<1>2. IsFiniteSet(T) /\ Cardinality(T) \in Nat
  BY OccFinite
<1>3. \A x \in T : x.start \in Nat /\ x.stop \in Nat /\ x.start <= x.stop
  BY OccIs
<1> HIDE DEF T
<1>4. found \in [1 .. n -> T]
  BY <1>1
<1> HIDE DEF n
<1>5. ASSUME NEW i \in 1 .. n, NEW j \in 1 .. n, i < j PROVE found[i] # found[j]
  <2>1. found[i] \in T /\ found[i].stop < found[j].start
    BY <1>1, <1>4, <1>5
  <2>2. found[i].start <= found[i].stop /\ found[i].start \in Nat /\ found[i].stop \in Nat
    BY <1>3, <2>1
  <2> QED BY <2>1, <2>2
<1>6. ASSUME NEW i \in 1 .. n, NEW j \in 1 .. n, found[i] = found[j] PROVE i = j
  BY <1>1, <1>5, <1>6
<1>7. found \in Injection(1 .. n, T)
  BY <1>4, <1>6 DEF Injection, IsInjective
<1>8. Cardinality(1 .. n) = n
  BY <1>1, FS_Interval
<1>9. Cardinality(1 .. n) <= Cardinality(T) /\ (Cardinality(1 .. n) = Cardinality(T) <=> found \in Surjection(1 .. n, T))
  BY <1>2, <1>7, FS_Injection
<1>10. Cardinality(1 .. n) = Cardinality(T)
  BY <1>1, <1>2, <1>8, <1>9, MatchAssumption DEF n, T
<1>11. found \in Surjection(1 .. n, T)
  BY <1>9, <1>10
<1> QED BY <1>11 DEF Surjection, n, T

LEMMA DisjointIs ==
  ASSUME NEW T, NEW found \in Seq(T), NEW start
  PROVE  LET d == Disjoint(found, start) IN
         /\ d \in 0 .. Len(found) /\ (d # 0 => start > found[d].stop)
         /\ \A i \in 1 .. Len(found) : start > found[i].stop => i <= d
<1> DEFINE n == Len(found) before == {i \in DOMAIN found : start > found[i].stop} d == Disjoint(found, start)
<1>1. n \in Nat /\ DOMAIN found = 1 .. n /\ before \in SUBSET (1 .. n)
  OBVIOUS
<1>2. \A i \in 1 .. n : start > found[i].stop <=> i \in before
  BY <1>1
<1>3. d = IF before = {} THEN 0 ELSE CHOOSE i \in before : \A j \in before : j <= i
  BY DEF Disjoint
<1> HIDE DEF d
<1>4. CASE before = {}
  <2> HIDE DEF before, n
  <2> QED BY <1>1, <1>2, <1>3, <1>4 DEF d, n
<1>5. CASE before # {}
  <2> HIDE DEF before, n
  <2>1. \E i \in before : \A j \in before : j <= i
    <3>1. Max(before) \in before /\ \A j \in before : Max(before) >= j
      BY <1>1, <1>5, MaxOf
    <3>2. \A j \in before : j \in Nat
      BY <1>1
    <3> QED BY <3>1, <3>2
  <2>2. d \in before /\ \A j \in before : j <= d
    BY <1>3, <1>5, <2>1
  <2>3. d \in 1 .. n /\ start > found[d].stop
    BY <1>1, <1>2, <2>2
  <2>4. \A i \in 1 .. n : start > found[i].stop => i <= d
    BY <1>2, <2>2
  <2> QED BY <1>1, <2>3, <2>4 DEF d, n
<1> QED BY <1>4, <1>5

LEMMA ModSmall ==
  ASSUME NEW i, NEW a, NEW k \in Nat \ {0}, a \in 0 .. (k - 1), i = a
  PROVE  i % k = a
OBVIOUS

\* One name of the list of the state is added.  What it overlaps, and removes,
\* ends before the end of the text, so that a special character is behind it:
\* it was not to be hidden, or the name added would have that character in it.
LEMMA AddPattern ==
  ASSUME NEW list \in NameLists, \A p \in ToSet(list) : ToSet(p) \cap Special = {},
         NEW u \in Seq(Characters), Len(u) <= MaxUri,
         NEW add \in Seq(ToSet(list)), add # <<>>,
         \A i \in 1 .. Len(add) : IsEndOf(add[i], Best(StatesFor(list), u)),
         Best(StatesFor(list), u) \in ToSet(list) => add[Len(add)] = Best(StatesFor(list), u),
         NEW found, FoundOk(ToSet(list), u, add, found)
  PROVE  FoundOk(ToSet(list), u, Tail(add), matches_add(found, Len(u) - 1, Len(Head(add))))
<1> DEFINE S == StatesFor(list) N == ToSet(list) b == Best(S, u) h == add[1] l == Len(u) m == Len(h)
           new == [start |-> l - m, stop |-> l - 1] d == Disjoint(found, l - m)
           kept == SubSeq(found, 1, d) n == Len(found)
<1>1. PrefixClosed(S) /\ N \in SUBSET S /\ <<>> \notin N /\ N \in SUBSET Seq(Characters)
  BY NamesAreStates DEF PrefixClosed
<1>2. /\ b \in S /\ b \in Seq(Characters) /\ IsEndOf(b, u) /\ \A s \in S : IsEndOf(s, u) => Len(s) <= Len(b)
      /\ Len(b) \in Nat /\ Len(b) <= l
  BY <1>1, BestIs
<1>3. Len(add) \in Nat /\ 1 \in 1 .. Len(add) /\ h = Head(add) /\ h \in N
  OBVIOUS
<1>4. /\ found \in Seq(Occ(u, N)) /\ \A i, j \in 1 .. n : i < j => found[i].stop < found[j].start
      /\ n \in Nat
  BY DEF FoundOk
<1>5. \A i \in 1 .. Len(add) : IsEndOf(add[i], b) /\ (b \in N => add[Len(add)] = b)
  OBVIOUS
<1>6. \A s \in S : \A j \in 1 .. Len(s) : s[j] \notin Special
  BY PlainStates
<1> HIDE DEF S, N, b, h, n
<1>7. h \in Seq(Characters) /\ h # <<>> /\ IsEndOf(h, u) /\ h \in S
  <2>1. h \in Seq(Characters) /\ h # <<>> /\ IsEndOf(h, b) /\ h \in S
    BY <1>1, <1>3, <1>5 DEF h
  <2>2. u \in Seq(Characters)
    OBVIOUS
  <2> QED BY <1>2, <2>1, <2>2, SuffixTrans
<1>8. new \in Occ(u, N) /\ SubSeq(u, new.start + 1, new.stop + 1) = h
  <2>1. u \in Seq(Characters) /\ h \in Seq(Characters) /\ h # <<>> /\ IsEndOf(h, u) /\ h \in N
    BY <1>3, <1>7
  <2> QED BY ONLY <2>1, NameAtEnd
<1>9. l \in Nat /\ m \in Nat /\ m # 0 /\ m <= l
  BY <1>7 DEF IsEndOf
<1>10. matches_add(found, l - 1, m) = IF n >= MATCH_ARRAY_LEN THEN found ELSE Append(kept, new)
  <2>1. ((l - 1) - m + 1) % SizeMod = l - m
    <3>1. (l - 1) - m + 1 = l - m /\ l - m \in 0 .. (SizeMod - 1) /\ SizeMod \in Nat \ {0}
      BY <1>9, MatchAssumption
    <3> HIDE DEF l, m
    <3> QED BY ONLY <3>1, ModSmall
  <2> QED BY <2>1 DEF matches_add, n
<1>11. CASE n >= MATCH_ARRAY_LEN
  <2>1. \A o \in Occ(u, N) : Cardinality(Occ(u, N)) <= MATCH_ARRAY_LEN => \E k \in 1 .. n : found[k] = o
    BY <1>1, <1>11, FoundFull DEF N, n
  <2>2. FoundOk(N, u, Tail(add), found)
    BY <1>4, <2>1 DEF FoundOk, n
  <2> QED BY <1>3, <1>10, <1>11, <2>2 DEF N, h
<1>12. CASE ~ (n >= MATCH_ARRAY_LEN)
  <2> DEFINE more == Append(kept, new) T == Occ(u, N)
  <2>1. d \in 0 .. n /\ (d # 0 => l - m > found[d].stop) /\ \A i \in 1 .. n : l - m > found[i].stop => i <= d
    BY <1>4, DisjointIs DEF n
  <2> HIDE DEF d
  <2>2. kept \in Seq(T) /\ Len(kept) = d /\ \A i \in 1 .. d : kept[i] = found[i]
    BY <1>4, <2>1, PrefixOfSeq DEF n
  <2> HIDE DEF kept, new
  <2>3. /\ more \in Seq(T) /\ Len(more) = d + 1 /\ more[d + 1] = new
        /\ \A i \in 1 .. d : more[i] = found[i]
    <3> HIDE DEF T
    <3>1. new \in T
      BY <1>8 DEF T
    <3> QED BY <2>2, <3>1, AppendProperties
  <2> HIDE DEF more
  <2>4. \A o \in T : o.start \in Nat /\ o.stop \in Nat /\ o.start <= o.stop /\ o.stop < l
    BY <1>1, OccIs
  <2>5. new.start = l - m /\ new.stop = l - 1
    BY DEF new
  <2>6. ASSUME NEW i \in 1 .. d + 1, NEW j \in 1 .. d + 1, i < j
        PROVE  more[i].stop < more[j].start
    <3>1. i \in 1 .. d /\ d # 0 /\ d \in 1 .. n /\ i \in 1 .. n
      BY <1>4, <2>1, <2>6
    <3>2. CASE j \in 1 .. d
      <4>1. j \in 1 .. n /\ more[i] = found[i] /\ more[j] = found[j]
        BY <1>4, <2>1, <2>3, <3>1, <3>2
      <4> QED BY <1>4, <2>6, <3>1, <4>1
    <3>3. CASE j = d + 1
      <4>1. more[i].stop = found[i].stop /\ more[j].start = l - m
        BY <2>3, <2>5, <3>1, <3>3
      <4>2. found[d].stop < l - m
        BY <1>4, <1>9, <2>1, <2>4, <3>1
      <4>3. CASE i = d
        BY <4>1, <4>2, <4>3
      <4>4. CASE i # d
        <5>1. found[i].stop < found[d].start
          <6>1. i < d /\ d \in 1 .. n
            BY <1>4, <3>1, <4>4
          <6> QED BY <1>4, <3>1, <6>1
        <5>2. found[i] \in T /\ found[d] \in T
          BY <1>4, <3>1 DEF n
        <5>3. /\ found[i].stop \in Nat /\ found[d].start \in Nat /\ found[d].stop \in Nat
              /\ found[d].start <= found[d].stop
          BY <2>4, <5>2
        <5> HIDE DEF l, m
        <5> QED BY <1>9, <4>1, <4>2, <5>1, <5>3
      <4> QED BY <4>3, <4>4
    <3>4. j \in 1 .. d \/ j = d + 1
      BY <2>1
    <3> QED BY <3>2, <3>3, <3>4
  <2>7. ASSUME Cardinality(T) <= MATCH_ARRAY_LEN,
               NEW o \in T, Hide(u, o), o.stop = l - 1 => Tail(add) = <<>>
        PROVE  \E k \in 1 .. d + 1 : more[k] = o
    <3> DEFINE w == SubSeq(u, o.start + 1, o.stop + 1)
    <3>1. /\ o.start \in Nat /\ o.stop \in Nat /\ o.start <= o.stop /\ o.stop < l
          /\ o = [start |-> o.start, stop |-> o.stop] /\ w \in N /\ w \in Seq(Characters)
      BY <1>1, OccIs
    <3> HIDE DEF w
    <3>2. CASE o.stop # l - 1
      <4>1. PICK k \in 1 .. n : found[k] = o
        BY <2>7, <3>2 DEF FoundOk, n, N
      <4>2. l - m > o.stop
        <5> SUFFICES ASSUME ~ (l - m > o.stop) PROVE FALSE
          OBVIOUS
        <5> DEFINE j == (o.stop + 2) - (l - m)
        <5>1. j \in 1 .. m /\ l - m + j = o.stop + 2 /\ o.stop + 1 # l
          <6>1. \A x, y, z \in Nat : (y <= x /\ z < x /\ z # x - 1 /\ ~ (x - y > z)) =>
                  (z + 2) - (x - y) \in 1 .. y /\ x - y + ((z + 2) - (x - y)) = z + 2 /\ z + 1 # x
            OBVIOUS
          <6>2. l \in Nat /\ m \in Nat /\ o.stop \in Nat /\ m <= l /\ o.stop < l /\ o.stop # l - 1
            BY <1>9, <3>1, <3>2
          <6> HIDE DEF l, m
          <6> QED BY <6>1, <6>2
        <5>2. u[o.stop + 2] \in Special
          <6>1. (o.stop + 1) + 1 = o.stop + 2
            BY <3>1
          <6> QED BY <2>7, <5>1, <6>1 DEF Hide, SpecialAt
        <5>3. h[j] = u[o.stop + 2]
          BY <1>7, <5>1 DEF IsEndOf
        <5> HIDE DEF j
        <5> QED BY <1>6, <1>7, <5>1, <5>2, <5>3
      <4>3. k \in 1 .. d /\ k \in 1 .. d + 1
        BY <2>1, <4>1, <4>2
      <4> QED BY <2>3, <4>1, <4>3
    <3>3. CASE o.stop = l - 1
      <4>1. w \in N /\ w \in Seq(Characters) /\ IsEndOf(w, u) /\ Len(w) = l - o.start
        BY <1>1, <3>3, EndIsName DEF w
      <4>2. Len(w) <= Len(b) /\ Len(w) \in Nat
        BY <1>1, <1>2, <4>1
      <4>3. Len(w) = Len(b)
        <5> SUFFICES ASSUME Len(w) # Len(b) PROVE FALSE
          OBVIOUS
        <5> DEFINE j == Len(b) - Len(w)
        <5>1. o.start # 0 /\ j \in 1 .. Len(b) /\ l - Len(b) + j = o.start
          BY <1>2, <1>9, <3>1, <4>1, <4>2
        <5>2. u[o.start] \in Special
          <6>1. (o.start - 1) + 1 = o.start /\ o.start - 1 # l
            BY <3>1, <1>9
          <6> QED BY <2>7, <5>1, <6>1 DEF Hide, SpecialAt
        <5>3. b[j] = u[o.start]
          BY <1>2, <5>1 DEF IsEndOf
        <5> HIDE DEF j
        <5> QED BY <1>2, <1>6, <5>1, <5>2, <5>3
      <4>4. w = b
        <5>1. u \in Seq(Characters)
          OBVIOUS
        <5>2. IsEndOf(w, b)
          BY <1>2, <4>1, <4>2, <5>1, SuffixOfLonger
        <5> QED BY <1>2, <4>1, <4>3, <5>2, SuffixSame
      <4>5. h = b
        <5>1. Tail(add) = <<>>
          BY <2>7, <3>3
        <5>2. Len(add) = 1
          <6> DEFINE r == Tail(add)
          <6>1. Len(r) = Len(add) - 1
            BY TailIs
          <6>2. r = <<>>
            BY <5>1
          <6> HIDE DEF r
          <6>3. Len(r) = 0
            BY <6>2
          <6> QED BY <1>3, <6>1, <6>3
        <5> QED BY <1>3, <1>5, <4>1, <4>4, <5>2 DEF h
      <4>6. o.start = l - m
        <5>1. m = l - o.start
          BY <4>1, <4>4, <4>5
        <5> HIDE DEF l, m
        <5> QED BY <1>9, <3>1, <5>1
      <4>7. o = new
        BY <3>1, <3>3, <4>6 DEF new
      <4>8. d + 1 \in 1 .. d + 1
        BY <2>1
      <4> QED BY <2>3, <4>7, <4>8
    <3> QED BY <3>2, <3>3
  <2>8. FoundOk(N, u, Tail(add), more)
    BY <2>3, <2>6, <2>7 DEF FoundOk
  <2> QED BY <1>3, <1>10, <1>12, <2>8 DEF N, h, more
<1> QED BY <1>11, <1>12

-----------------------------------------------------------------------------

(***************************************************************************)
(* The pieces that are printed, for matches apart from one another.        *)
(***************************************************************************)
LEMMA HalfOf ==
  ASSUME NEW n \in Nat, NEW k \in 1 .. 2 * n + 1
  PROVE  LET h == k \div 2 IN
         /\ h \in 0 .. n /\ (k % 2 = 0 \/ k % 2 = 1)
         /\ k % 2 = 0 => h # 0 /\ (k - 1) % 2 # 0 /\ (k - 1) \div 2 = h - 1
         /\ k % 2 # 0 => /\ (k = 1 <=> h = 0) /\ (k = 2 * n + 1 <=> h = n)
                         /\ k # 1 => (k - 1) % 2 = 0 /\ (k - 1) \div 2 = h
<1>1. k = 2 * (k \div 2) + (k % 2) /\ k % 2 \in {0, 1} /\ k \div 2 \in Int
  OBVIOUS
<1>2. CASE k % 2 = 0
  <2>1. k - 1 = 2 * (k \div 2 - 1) + 1
    BY <1>1, <1>2
  <2>2. (k - 1) % 2 = 1 /\ (k - 1) \div 2 = k \div 2 - 1
    BY <1>1, <2>1
  <2> QED BY <1>1, <1>2, <2>2
<1>3. CASE k % 2 = 1
  <2>1. k - 1 = 2 * (k \div 2)
    BY <1>1, <1>3
  <2>2. (k - 1) % 2 = 0 /\ (k - 1) \div 2 = k \div 2
    BY <1>1, <2>1
  <2> QED BY <1>1, <1>3, <2>2
<1> QED BY <1>1, <1>2, <1>3

LEMMA PieceIs ==
  ASSUME NEW from, NEW to, NEW hidden, NEW shown
  PROVE  /\ Piece(from, to, hidden, shown).from = from /\ Piece(from, to, hidden, shown).to = to
         /\ Piece(from, to, hidden, shown).hidden = hidden /\ Piece(from, to, hidden, shown).shown = shown
BY DEF Piece

PiecesRight(p, n, found, length) ==
  /\ Len(p) = 2 * n + 1 /\ DOMAIN p = 1 .. 2 * n + 1
  /\ \A k \in 1 .. 2 * n + 1 : k % 2 = 0 =>
       /\ p[k].from = found[k \div 2].start /\ p[k].to = found[k \div 2].stop
       /\ p[k].hidden = ToHide(found[k \div 2])
  /\ \A k \in 1 .. 2 * n + 1 : k % 2 # 0 =>
       /\ p[k].from = IF k = 1 THEN 0 ELSE found[k \div 2].stop + 1
       /\ p[k].to = IF k = 2 * n + 1 THEN length - 1 ELSE found[k \div 2 + 1].start - 1
       /\ p[k].hidden = FALSE
  /\ \A k \in 1 .. 2 * n + 1 : p[k].shown \/ (k # 2 * n + 1 /\ ~ Fits(p[k].from, p[k].to))

LEMMA PiecesAre ==
  ASSUME NEW length, NEW found, NEW n \in Nat, n = Len(found), NEW p, p = PiecesOf(found, length)
  PROVE  PiecesRight(p, n, found, length)
<1> DEFINE From(k) == IF k = 1 THEN 0 ELSE found[k \div 2].stop + 1
           To(k) == found[k \div 2 + 1].start - 1
           Match(o) == Piece(o.start, o.stop, ToHide(o), Fits(o.start, o.stop))
           P(k) == IF k % 2 = 0 THEN Match(found[k \div 2])
                   ELSE IF k = 2 * n + 1 THEN Piece(From(k), length - 1, FALSE, TRUE)
                   ELSE Piece(From(k), To(k), FALSE, Fits(From(k), To(k)))
<1>1. p = [k \in 1 .. 2 * n + 1 |-> P(k)]
  BY DEF PiecesOf
<1>2. DOMAIN p = 1 .. 2 * n + 1 /\ \A k \in 1 .. 2 * n + 1 : p[k] = P(k)
  BY <1>1
<1>3. Len(p) = 2 * n + 1
  <2> HIDE DEF P
  <2>1. 2 * n + 1 \in Nat
    OBVIOUS
  <2> QED BY <1>1, <2>1
<1>4. ASSUME NEW k \in 1 .. 2 * n + 1, k % 2 = 0
      PROVE  /\ p[k].from = found[k \div 2].start /\ p[k].to = found[k \div 2].stop
             /\ p[k].hidden = ToHide(found[k \div 2])
             /\ p[k].shown \/ (k # 2 * n + 1 /\ ~ Fits(p[k].from, p[k].to))
  <2> DEFINE a == found[k \div 2].start b == found[k \div 2].stop h == ToHide(found[k \div 2]) f == Fits(a, b)
  <2>1. p[k] = Piece(a, b, h, f)
    BY <1>2, <1>4
  <2> HIDE DEF a, b, h, f
  <2>2. p[k].from = a /\ p[k].to = b /\ p[k].hidden = h /\ p[k].shown = f
    BY <2>1, PieceIs
  <2>3. f = Fits(a, b)
    BY DEF f
  <2>4. k # 2 * n + 1
    BY <1>4
  <2>5. p[k].shown \/ (k # 2 * n + 1 /\ ~ Fits(p[k].from, p[k].to))
    BY ONLY <2>2, <2>3, <2>4
  <2> QED BY <2>2, <2>5 DEF a, b, h
<1>5. ASSUME NEW k \in 1 .. 2 * n + 1, k % 2 # 0
      PROVE  /\ p[k].from = IF k = 1 THEN 0 ELSE found[k \div 2].stop + 1
             /\ p[k].to = IF k = 2 * n + 1 THEN length - 1 ELSE found[k \div 2 + 1].start - 1
             /\ p[k].hidden = FALSE
             /\ p[k].shown \/ (k # 2 * n + 1 /\ ~ Fits(p[k].from, p[k].to))
  <2> DEFINE a == From(k) b == IF k = 2 * n + 1 THEN length - 1 ELSE To(k)
             c == FALSE f == IF k = 2 * n + 1 THEN TRUE ELSE Fits(a, b)
  <2>1. p[k] = Piece(a, b, c, f)
    BY <1>2, <1>5
  <2>2. a = IF k = 1 THEN 0 ELSE found[k \div 2].stop + 1
    OBVIOUS
  <2>3. b = IF k = 2 * n + 1 THEN length - 1 ELSE found[k \div 2 + 1].start - 1
    OBVIOUS
  <2> HIDE DEF a, b, c, f
  <2>4. p[k].from = a /\ p[k].to = b /\ p[k].hidden = c /\ p[k].shown = f
    BY <2>1, PieceIs
  <2>5. f = IF k = 2 * n + 1 THEN TRUE ELSE Fits(a, b)
    BY DEF f
  <2>6. p[k].shown \/ (k # 2 * n + 1 /\ ~ Fits(p[k].from, p[k].to))
    BY ONLY <2>4, <2>5
  <2> QED BY <2>2, <2>3, <2>4, <2>6 DEF c
<1>6. \A k \in 1 .. 2 * n + 1 : k % 2 = 0 \/ k % 2 # 0
  OBVIOUS
<1> QED BY <1>2, <1>3, <1>4, <1>5, <1>6 DEF PiecesRight

LEMMA PiecesCover ==
  ASSUME NEW length \in Nat, NEW found \in Seq([start : Nat, stop : Nat]),
         \A i \in 1 .. Len(found) : found[i].start <= found[i].stop /\ found[i].stop < length,
         \A i, j \in 1 .. Len(found) : i < j => found[i].stop < found[j].start
  PROVE  LET p == PiecesOf(found, length) IN
         /\ {Span(q) : q \in {q \in ToSet(p) : q.hidden}} = {o \in ToSet(found) : ToHide(o)}
         /\ p[1].from = 0 /\ Last(p).to = length - 1
         /\ \A i \in DOMAIN p : p[i].from <= p[i].to + 1
         /\ \A i \in 2 .. Len(p) : p[i].from = p[i - 1].to + 1
         /\ \A i \in DOMAIN p : p[i].shown \/ (i # Len(p) /\ p[i].to - p[i].from + 1 >= TmpLen)
<1> DEFINE p == PiecesOf(found, length) n == Len(found)
<1>1. n \in Nat /\ \A i \in 1 .. n : /\ found[i].start \in Nat /\ found[i].stop \in Nat
                                     /\ found[i] = [start |-> found[i].start, stop |-> found[i].stop]
  <2> DEFINE R == [start : Nat, stop : Nat]
  <2>1. n \in Nat /\ found \in Seq(R)
    OBVIOUS
  <2> HIDE DEF R
  <2>2. \A i \in 1 .. n : found[i] \in R
    BY <2>1
  <2> HIDE DEF n
  <2>3. ASSUME NEW o \in R
        PROVE  o.start \in Nat /\ o.stop \in Nat /\ o = [start |-> o.start, stop |-> o.stop]
    BY DEF R
  <2> QED BY <2>1, <2>2, <2>3
<1>2. /\ \A i \in 1 .. n : found[i].start <= found[i].stop /\ found[i].stop < length
      /\ \A i, j \in 1 .. n : i < j => found[i].stop < found[j].start
  OBVIOUS
<1>3. DOMAIN found = 1 .. n
  OBVIOUS
<1>4. PiecesRight(p, n, found, length)
  <2>1. n = Len(found) /\ p = PiecesOf(found, length)
    OBVIOUS
  <2> HIDE DEF n, p
  <2> QED BY <1>1, <2>1, PiecesAre
<1> HIDE DEF n, p
<1>5. /\ Len(p) = 2 * n + 1 /\ DOMAIN p = 1 .. 2 * n + 1
      /\ \A k \in 1 .. 2 * n + 1 : k % 2 = 0 =>
           /\ p[k].from = found[k \div 2].start /\ p[k].to = found[k \div 2].stop
           /\ p[k].hidden = ToHide(found[k \div 2])
  BY <1>4 DEF PiecesRight
<1>6. \A k \in 1 .. 2 * n + 1 : k % 2 # 0 =>
        /\ p[k].from = IF k = 1 THEN 0 ELSE found[k \div 2].stop + 1
        /\ p[k].to = IF k = 2 * n + 1 THEN length - 1 ELSE found[k \div 2 + 1].start - 1
        /\ p[k].hidden = FALSE
  BY <1>4 DEF PiecesRight
<1>7. \A k \in 1 .. 2 * n + 1 :
         /\ k \div 2 \in 0 .. n /\ (k % 2 = 0 \/ k % 2 = 1)
         /\ k % 2 = 0 => k \div 2 # 0 /\ (k - 1) % 2 # 0 /\ (k - 1) \div 2 = k \div 2 - 1
         /\ k % 2 # 0 => /\ (k = 1 <=> k \div 2 = 0) /\ (k = 2 * n + 1 <=> k \div 2 = n)
                         /\ k # 1 => (k - 1) % 2 = 0 /\ (k - 1) \div 2 = k \div 2
  BY <1>1, HalfOf
<1>8. p[1].from = 0
  <2>1. 1 \in 1 .. 2 * n + 1 /\ 1 % 2 # 0
    BY <1>1
  <2> QED BY <1>6, <2>1
<1>9. Last(p).to = length - 1
  <2>1. 2 * n + 1 \in 1 .. 2 * n + 1 /\ (2 * n + 1) % 2 # 0
    BY <1>1
  <2>2. Last(p) = p[2 * n + 1]
    BY <1>5 DEF Last
  <2> QED BY <1>6, <2>1, <2>2
<1>10. ASSUME NEW k \in 1 .. 2 * n + 1 PROVE p[k].from <= p[k].to + 1
  <2> DEFINE h == k \div 2 a == p[k].from b == p[k].to
  <2>1. h \in 0 .. n
    BY <1>7
  <2>2. CASE k % 2 = 0
    <3>1. h \in 1 .. n /\ a = found[h].start /\ b = found[h].stop
      BY <1>1, <1>5, <1>7, <2>2
    <3> HIDE DEF a, b, h
    <3>2. found[h].start <= found[h].stop /\ found[h].start \in Nat /\ found[h].stop \in Nat
      BY <1>1, <1>2, <3>1
    <3>3. a <= b + 1
      BY <3>1, <3>2
    <3> QED BY <3>3 DEF a, b
  <2>3. CASE k % 2 # 0
    <3>1. a = (IF h = 0 THEN 0 ELSE found[h].stop + 1) /\ b = IF h = n THEN length - 1 ELSE found[h + 1].start - 1
      BY <1>6, <1>7, <2>3
    <3> HIDE DEF a, b, h
    <3>2. ASSUME h = 0 /\ h = n PROVE a <= b + 1
      BY <3>1, <3>2
    <3>3. ASSUME h = 0 /\ h # n PROVE a <= b + 1
      <4>1. h + 1 \in 1 .. n
        BY <1>1, <3>3
      <4>2. found[h + 1].start \in Nat
        BY <1>1, <4>1
      <4>3. a = 0 /\ b = found[h + 1].start - 1
        BY <3>1, <3>3
      <4> QED BY <4>2, <4>3
    <3>4. ASSUME h # 0 /\ h = n PROVE a <= b + 1
      <4>1. h \in 1 .. n
        BY <1>1, <3>4
      <4>2. found[h].stop \in Nat /\ found[h].stop < length
        BY <1>1, <1>2, <4>1
      <4>3. a = found[h].stop + 1 /\ b = length - 1
        BY <3>1, <3>4
      <4> QED BY <4>2, <4>3
    <3>5. ASSUME h # 0 /\ h # n PROVE a <= b + 1
      <4>1. h \in 1 .. n /\ h + 1 \in 1 .. n /\ h < h + 1
        BY <1>1, <2>1, <3>5
      <4>2. found[h].stop < found[h + 1].start
        BY <1>2, <4>1
      <4>3. found[h].stop \in Nat /\ found[h + 1].start \in Nat
        BY <1>1, <4>1
      <4>4. a = found[h].stop + 1 /\ b = found[h + 1].start - 1
        BY <3>1, <3>5
      <4>5. \A x, y \in Nat : x < y => x + 1 <= (y - 1) + 1
        OBVIOUS
      <4> QED BY <4>2, <4>3, <4>4, <4>5
    <3>6. a <= b + 1
      BY <3>2, <3>3, <3>4, <3>5
    <3> QED BY <3>6 DEF a, b
  <2> QED BY <2>2, <2>3
<1>11. ASSUME NEW k \in 2 .. 2 * n + 1 PROVE p[k].from = p[k - 1].to + 1
  <2>1. /\ k \in 1 .. 2 * n + 1 /\ k - 1 \in 1 .. 2 * n + 1 /\ k # 1 /\ k - 1 # 2 * n + 1
    BY <1>1
  <2>2. CASE k % 2 = 0
    <3>1. k \div 2 \in 1 .. n /\ (k - 1) % 2 # 0 /\ (k - 1) \div 2 + 1 = k \div 2
      BY <1>1, <1>7, <2>1, <2>2
    <3>2. p[k].from = found[k \div 2].start
      BY <1>5, <2>1, <2>2
    <3>3. p[k - 1].to = found[(k - 1) \div 2 + 1].start - 1
      BY <1>6, <2>1, <3>1
    <3>4. found[k \div 2].start \in Nat
      BY <1>1, <3>1
    <3> QED BY <3>1, <3>2, <3>3, <3>4
  <2>3. CASE k % 2 # 0
    <3>1. (k - 1) % 2 = 0 /\ (k - 1) \div 2 = k \div 2
      BY <1>7, <2>1, <2>3
    <3>2. p[k].from = found[k \div 2].stop + 1
      BY <1>6, <2>1, <2>3
    <3>3. p[k - 1].to = found[(k - 1) \div 2].stop
      BY <1>5, <2>1, <3>1
    <3> QED BY <3>1, <3>2, <3>3
  <2> QED BY <2>2, <2>3
<1>12. {Span(q) : q \in {q \in ToSet(p) : q.hidden}} = {o \in ToSet(found) : ToHide(o)}
  <2>1. ASSUME NEW k \in 1 .. 2 * n + 1, p[k].hidden PROVE Span(p[k]) \in {o \in ToSet(found) : ToHide(o)}
    <3> DEFINE h == k \div 2
    <3>1. k % 2 = 0
      BY <1>6, <2>1
    <3>2. h \in 1 .. n
      BY <1>1, <1>7, <3>1
    <3>3. p[k].from = found[h].start /\ p[k].to = found[h].stop /\ p[k].hidden = ToHide(found[h])
      BY <1>5, <3>1
    <3> HIDE DEF h
    <3>4. Span(p[k]) = found[h]
      BY <1>1, <3>2, <3>3 DEF Span
    <3>5. ToHide(found[h])
      BY <2>1, <3>3
    <3> QED BY <1>3, <3>2, <3>4, <3>5 DEF ToSet
  <2>2. ASSUME NEW j \in 1 .. n, ToHide(found[j])
        PROVE  \E k \in 1 .. 2 * n + 1 : p[k].hidden /\ Span(p[k]) = found[j]
    <3> DEFINE k == 2 * j
    <3>1. k \in 1 .. 2 * n + 1 /\ k % 2 = 0 /\ k \div 2 = j
      BY <1>1
    <3> HIDE DEF k
    <3>2. p[k].from = found[j].start /\ p[k].to = found[j].stop /\ p[k].hidden = ToHide(found[j])
      BY <1>5, <3>1
    <3>3. Span(p[k]) = found[j]
      BY <1>1, <3>2 DEF Span
    <3>4. p[k].hidden
      BY <2>2, <3>2
    <3> QED BY <3>1, <3>3, <3>4
  <2>3. ToSet(p) = {p[k] : k \in 1 .. 2 * n + 1} /\ ToSet(found) = {found[j] : j \in 1 .. n}
    BY <1>3, <1>5 DEF ToSet
  <2>4. ASSUME NEW x \in {Span(q) : q \in {q \in ToSet(p) : q.hidden}} PROVE x \in {o \in ToSet(found) : ToHide(o)}
    <3>1. PICK q \in ToSet(p) : q.hidden /\ x = Span(q)
      OBVIOUS
    <3>2. PICK k \in 1 .. 2 * n + 1 : q = p[k]
      BY <2>3
    <3> QED BY <2>1, <3>1, <3>2
  <2>5. ASSUME NEW o \in {o \in ToSet(found) : ToHide(o)} PROVE o \in {Span(q) : q \in {q \in ToSet(p) : q.hidden}}
    <3>1. PICK j \in 1 .. n : o = found[j] /\ ToHide(o)
      BY <2>3
    <3>2. PICK k \in 1 .. 2 * n + 1 : p[k].hidden /\ Span(p[k]) = found[j]
      BY <2>2, <3>1
    <3>3. p[k] \in {q \in ToSet(p) : q.hidden}
      BY <2>3, <3>2
    <3> QED BY <3>1, <3>2, <3>3
  <2> QED BY <2>4, <2>5
<1>13. ASSUME NEW k \in 1 .. 2 * n + 1
       PROVE  p[k].shown \/ (k # 2 * n + 1 /\ p[k].to - p[k].from + 1 >= TmpLen)
  <2>1. p[k].shown \/ (k # 2 * n + 1 /\ ~ Fits(p[k].from, p[k].to))
    BY <1>4 DEF PiecesRight
  <2>2. p[k].from \in Int /\ p[k].to \in Int
    <3>1. k \div 2 \in 0 .. n /\ (k % 2 = 0 => k \div 2 # 0) /\ (k % 2 # 0 /\ k # 1 => k \div 2 # 0)
          /\ (k % 2 # 0 /\ k # 2 * n + 1 => k \div 2 # n)
      BY <1>7
    <3>2. CASE k % 2 = 0
      <4>1. k \div 2 \in 1 .. n
        BY <1>1, <3>1, <3>2
      <4>2. p[k].from = found[k \div 2].start /\ p[k].to = found[k \div 2].stop
        BY <1>5, <3>2
      <4>3. found[k \div 2].start \in Nat /\ found[k \div 2].stop \in Nat
        BY <1>1, <4>1
      <4> QED BY ONLY <4>2, <4>3
    <3>3. CASE k % 2 # 0
      <4>1. p[k].from \in Int
        <5>1. CASE k = 1
          <6>1. p[k].from = 0
            BY <1>6, <3>3, <5>1
          <6> QED BY ONLY <6>1
        <5>2. CASE k # 1
          <6>1. k \div 2 \in 1 .. n
            BY <1>1, <3>1, <3>3, <5>2
          <6>2. p[k].from = found[k \div 2].stop + 1
            BY <1>6, <3>3, <5>2
          <6>3. found[k \div 2].stop \in Nat
            BY <1>1, <6>1
          <6> QED BY ONLY <6>2, <6>3
        <5> QED BY <5>1, <5>2
      <4>2. p[k].to \in Int
        <5>1. CASE k = 2 * n + 1
          <6>1. p[k].to = length - 1
            BY <1>6, <3>3, <5>1
          <6>2. length \in Nat
            OBVIOUS
          <6> QED BY ONLY <6>1, <6>2
        <5>2. CASE k # 2 * n + 1
          <6>1. k \div 2 + 1 \in 1 .. n
            BY <1>1, <3>1, <3>3, <5>2
          <6>2. p[k].to = found[k \div 2 + 1].start - 1
            BY <1>6, <3>3, <5>2
          <6>3. found[k \div 2 + 1].start \in Nat
            BY <1>1, <6>1
          <6> QED BY ONLY <6>2, <6>3
        <5> QED BY <5>1, <5>2
      <4> QED BY <4>1, <4>2
    <3> QED BY <3>2, <3>3
  <2>3. \A x, y \in Int : ~ Fits(x, y) => y - x + 1 >= TmpLen
    BY MatchAssumption DEF Fits
  <2> QED BY <2>1, <2>2, <2>3
<1> QED BY <1>5, <1>8, <1>9, <1>10, <1>11, <1>12, <1>13 DEF p

-----------------------------------------------------------------------------

(***************************************************************************)
(* The search and the printing of a URI.                                   *)
(***************************************************************************)
ScanOk(S, N, u, add, found, state) ==
  /\ FoundOk(N, u, add, found)
  /\ u # <<>> => state = Best(S, u)
  /\ add \in Seq(N) /\ \A i \in 1 .. Len(add) : IsEndOf(add[i], state)
  /\ add # <<>> /\ state \in N => add[Len(add)] = state

Printed == IF \E i \in DOMAIN matches : matches[i].start > matches[i].stop
           THEN OutOfBounds ELSE PiecesOf(matches, Len(uri))

Idle == /\ scan_state = <<>> /\ uri = <<>> /\ to_add = <<>> /\ matches = <<>>
        /\ carried = <<>> /\ uri_printed = NotYet

ScanInv ==
  /\ ~ Compiled => Idle
  /\ Compiled =>
       /\ scan_state \in StatesFor(user_names) /\ uri \in Seq(Characters) /\ Len(uri) <= MaxUri
       /\ uri = <<>> => carried = scan_state /\ to_add = <<>> /\ matches = <<>>
       /\ uri_printed # NotYet => to_add = <<>> /\ uri_printed = Printed
       /\ NoSpecialInNames /\ BeginsAfresh =>
            ScanOk(StatesFor(user_names), NameSet, uri, to_add, matches, scan_state)

LEMMA TablesRight ==
  ASSUME AutomatonInv, Compiled
  PROVE  LET S == StatesFor(user_names) IN
         /\ user_names \in NameLists /\ PrefixClosed(S) /\ NameSet \in SUBSET S /\ <<>> \notin NameSet
         /\ \A s \in S, c \in Characters : Follow(s, c) = Best(S, Append(s, c))
         /\ \A s \in S : /\ match_list[s] \in Seq(NameSet) /\ ToSet(match_list[s]) = NameSet \cap SuffixesOf(s)
                         /\ s \in NameSet => match_list[s][Len(match_list[s])] = s
<1> DEFINE S == StatesFor(user_names)
<1>1. PICK D : TablesOk(user_names, D, <<>>, next_state, fail_state, match_list)
  BY DEF AutomatonInv, Compiled
<1>2. /\ PrefixClosed(S) /\ QueueOk(S, D, <<>>) /\ RowsOk(S, D, next_state)
      /\ ListsOk(S, D \cup ToSet(<<>>), ToSet(user_names), match_list) /\ user_names \in NameLists
      /\ ToSet(user_names) \in SUBSET S /\ <<>> \notin ToSet(user_names)
  BY <1>1, NamesAreStates DEF TablesOk
<1>3. \A s \in S : s \in D
  BY <1>2, AllDone
<1> HIDE DEF S
<1>4. ASSUME NEW s \in S, NEW c \in Characters PROVE Follow(s, c) = Best(S, Append(s, c))
  <2>1. next_state[<<s, c>>] = Best(S, Append(s, c))
    BY <1>2, <1>3 DEF RowsOk
  <2>2. Append(s, c) \in Seq(Characters)
    BY <1>2, AppendIs DEF PrefixClosed
  <2>3. next_state[<<s, c>>] # FAIL
    BY <1>2, <2>1, <2>2, BestIs
  <2> QED BY <2>1, <2>3, FollowIs
<1>5. ASSUME NEW s \in S
      PROVE  /\ match_list[s] \in Seq(NameSet) /\ ToSet(match_list[s]) = NameSet \cap SuffixesOf(s)
             /\ s \in NameSet => match_list[s][Len(match_list[s])] = s
  BY <1>2, <1>3 DEF ListsOk, NameSet
<1> QED BY <1>2, <1>4, <1>5 DEF S, NameSet

LEMMA NothingFound ==
  ASSUME NEW S, NEW N, NEW state
  PROVE  ScanOk(S, N, <<>>, <<>>, <<>>, state)
<1>1. Occ(<<>>, N) = {}
  BY DEF Occ
<1>2. FoundOk(N, <<>>, <<>>, <<>>)
  BY <1>1 DEF FoundOk
<1> QED BY <1>2 DEF ScanOk

\* A special character leads to the root.
LEMMA SpecialBest ==
  ASSUME NEW list \in NameLists, \A p \in ToSet(list) : ToSet(p) \cap Special = {},
         NEW y \in Seq(Characters), NEW c \in Characters, c \in Special
  PROVE  Best(StatesFor(list), Append(y, c)) = <<>>
<1> DEFINE S == StatesFor(list) x == Append(y, c) b == Best(S, x)
<1>1. PrefixClosed(S)
  BY NamesAreStates
<1>2. x \in Seq(Characters) /\ Len(x) = Len(y) + 1 /\ Len(y) \in Nat /\ x[Len(y) + 1] = c
  BY AppendIs
<1> HIDE DEF S, x
<1>3. b \in S /\ b \in Seq(Characters) /\ IsEndOf(b, x) /\ Len(b) \in Nat
  BY <1>1, <1>2, BestIs
<1> HIDE DEF b
<1>4. ASSUME b # <<>> PROVE FALSE
  <2>1. Len(b) \in 1 .. Len(b)
    BY <1>3, <1>4
  <2>2. b[Len(b)] = x[(Len(x) - Len(b)) + Len(b)]
    BY <1>3, <2>1 DEF IsEndOf
  <2>3. (Len(x) - Len(b)) + Len(b) = Len(y) + 1
    BY <1>2, <1>3
  <2>4. b[Len(b)] \in Special
    BY <1>2, <2>2, <2>3
  <2> QED BY <1>3, <2>1, <2>4, PlainStates DEF S
<1> QED BY <1>4 DEF b, x, S

LEMMA ScanChar ==
  ASSUME AutomatonInv, ScanInv, NEW c \in Characters, find_all_longest(c)
  PROVE  ScanInv'
<1> DEFINE S == StatesFor(user_names) N == NameSet x == Append(uri, c) b == scan_state d == Follow(b, c)
<1>1. /\ Compiled /\ uri_printed = NotYet /\ to_add = <<>> /\ Len(uri) < MaxUri
      /\ uri' = x /\ scan_state' = d /\ to_add' = match_list[d] /\ matches' = matches
      /\ carried' = carried /\ uri_printed' = uri_printed /\ user_names' = user_names /\ work_queue' = work_queue
  BY DEF find_all_longest
<1>2. /\ user_names \in NameLists /\ PrefixClosed(S) /\ N \in SUBSET S /\ <<>> \notin N
      /\ \A s \in S, e \in Characters : Follow(s, e) = Best(S, Append(s, e))
      /\ \A s \in S : /\ match_list[s] \in Seq(N) /\ ToSet(match_list[s]) = N \cap SuffixesOf(s)
                      /\ s \in N => match_list[s][Len(match_list[s])] = s
  BY <1>1, TablesRight
<1>3. /\ b \in S /\ uri \in Seq(Characters) /\ (uri = <<>> => carried = b /\ matches = <<>>)
      /\ NoSpecialInNames /\ BeginsAfresh => ScanOk(S, N, uri, to_add, matches, b)
  BY <1>1 DEF ScanInv
<1>4. b \in Seq(Characters) /\ \A s \in S : s \in Seq(Characters)
  BY <1>2, <1>3 DEF PrefixClosed
<1>5. x \in Seq(Characters) /\ Len(x) = Len(uri) + 1 /\ Len(uri) \in Nat /\ x # <<>>
      /\ \A i \in 1 .. Len(uri) : x[i] = uri[i]
  BY <1>3, AppendIs
<1>6. d = Best(S, Append(b, c)) /\ Append(b, c) \in Seq(Characters)
  BY <1>2, <1>3, <1>4, AppendIs
<1>7. d \in S /\ d \in Seq(Characters)
  <2> HIDE DEF S, d
  <2> QED BY <1>2, <1>6, BestIs
<1>8. Compiled' /\ StatesFor(user_names)' = S /\ NameSet' = N /\ NoSpecialInNames' = NoSpecialInNames
  BY <1>1 DEF Compiled, StatesFor, NameSet, NoSpecialInNames
<1>9. Len(x) <= MaxUri
  BY <1>1, <1>5, MatchAssumption
<1>10. ASSUME NoSpecialInNames, BeginsAfresh' PROVE ScanOk(S, N, x, match_list[d], matches, d)
  <2>1. BeginsAfresh /\ (uri = <<>> => b = <<>> \/ c \in Special)
    <3>1. carried = <<>> \/ x[1] \in Special
      BY <1>1, <1>5, <1>10 DEF BeginsAfresh
    <3>2. CASE uri = <<>>
      <4>1. x[1] = c
        BY <3>2
      <4> QED BY <1>3, <3>1, <3>2, <4>1 DEF BeginsAfresh
    <3>3. CASE uri # <<>>
      <4>1. 1 \in 1 .. Len(uri)
        BY <1>3, <3>3
      <4>2. x[1] = uri[1]
        BY <1>5, <4>1
      <4> QED BY <3>1, <3>3, <4>2 DEF BeginsAfresh
    <3> QED BY <3>2, <3>3
  <2>2. ScanOk(S, N, uri, to_add, matches, b)
    BY <1>3, <1>10, <2>1
  <2> HIDE DEF S, d, x
  <2>3. d = Best(S, x)
    <3>1. CASE uri # <<>>
      <4>1. b = Best(S, uri)
        BY <2>2, <3>1 DEF ScanOk
      <4> HIDE DEF b
      <4> QED BY <1>2, <1>3, <1>6, <4>1, LongestBehind DEF x
    <3>2. CASE uri = <<>> /\ b = <<>>
      BY <1>6, <3>2 DEF x
    <3>3. CASE uri = <<>> /\ c \in Special
      <4>1. \A p \in ToSet(user_names) : ToSet(p) \cap Special = {}
        BY <1>10 DEF NoSpecialInNames, NameSet
      <4>2. Best(S, Append(b, c)) = <<>> /\ Best(S, Append(uri, c)) = <<>>
        BY <1>2, <1>3, <1>4, <3>3, <4>1, SpecialBest DEF S
      <4> QED BY <1>6, <4>2 DEF x
    <3> QED BY <2>1, <3>1, <3>2, <3>3
  <2> HIDE DEF N
  <2>4. FoundOk(N, uri, <<>>, matches)
    BY <1>1, <2>2 DEF ScanOk
  <2> DEFINE add == match_list[d]
  <2>5. add \in Seq(N) /\ ToSet(add) = N \cap SuffixesOf(d) /\ (d \in N => add[Len(add)] = d)
    BY <1>2, <1>7
  <2> HIDE DEF add
  <2>6. FoundOk(N, x, add, matches)
    BY <1>2, <1>3, <2>3, <2>4, <2>5, ReadChar DEF x
  <2>7. ASSUME NEW i \in 1 .. Len(add) PROVE IsEndOf(add[i], d)
    <3>1. add[i] \in ToSet(add)
      BY <2>5 DEF ToSet
    <3> QED BY <1>7, <2>5, <3>1, SuffixIs
  <2>8. ScanOk(S, N, x, add, matches, d)
    BY <2>3, <2>5, <2>6, <2>7 DEF ScanOk
  <2> QED BY <2>8 DEF add
<1> HIDE DEF S, N, x, d
<1> QED BY <1>1, <1>5, <1>7, <1>8, <1>9, <1>10 DEF ScanInv

LEMMA ScanName ==
  ASSUME AutomatonInv, ScanInv, add_pattern
  PROVE  ScanInv'
<1> DEFINE S == StatesFor(user_names) N == NameSet b == scan_state add == to_add
           found2 == matches_add(matches, Len(uri) - 1, Len(Head(add)))
<1>1. /\ add # <<>> /\ matches' = found2 /\ to_add' = Tail(add)
      /\ uri' = uri /\ scan_state' = b
      /\ carried' = carried /\ uri_printed' = uri_printed /\ user_names' = user_names /\ work_queue' = work_queue
  BY DEF add_pattern
<1>2. Compiled
  BY <1>1 DEF ScanInv, Idle
<1>3. user_names \in NameLists /\ PrefixClosed(S) /\ N = ToSet(user_names)
  BY <1>2, TablesRight DEF NameSet
<1>4. /\ b \in S /\ uri \in Seq(Characters) /\ Len(uri) <= MaxUri /\ uri # <<>> /\ uri_printed = NotYet
      /\ NoSpecialInNames /\ BeginsAfresh => ScanOk(S, N, uri, add, matches, b)
  BY <1>1, <1>2 DEF ScanInv
<1>5. /\ Compiled' /\ StatesFor(user_names)' = S /\ NameSet' = N /\ NoSpecialInNames' = NoSpecialInNames
      /\ BeginsAfresh' = BeginsAfresh
  BY <1>1, <1>2 DEF Compiled, StatesFor, NameSet, NoSpecialInNames, BeginsAfresh
<1> HIDE DEF S, N, found2
<1>6. ASSUME NoSpecialInNames, BeginsAfresh PROVE ScanOk(S, N, uri, Tail(add), found2, b)
  <2>1. \A p \in ToSet(user_names) : ToSet(p) \cap Special = {}
    BY <1>6 DEF NoSpecialInNames, NameSet
  <2>2. /\ FoundOk(N, uri, add, matches) /\ b = Best(S, uri) /\ add \in Seq(N)
        /\ \A i \in 1 .. Len(add) : IsEndOf(add[i], b)
        /\ b \in N => add[Len(add)] = b
    BY <1>1, <1>4, <1>6 DEF ScanOk
  <2> HIDE DEF add, b
  <2>3. FoundOk(N, uri, Tail(add), found2)
    BY <1>1, <1>3, <1>4, <2>1, <2>2, AddPattern DEF S, found2
  <2>4. Tail(add) \in Seq(N) /\ Len(Tail(add)) = Len(add) - 1 /\ Len(add) \in Nat \ {0}
        /\ \A i \in 1 .. (Len(add) - 1) : Tail(add)[i] = add[i + 1]
    BY <1>1, <2>2, TailIs
  <2>5. ASSUME NEW i \in 1 .. Len(Tail(add)) PROVE IsEndOf(Tail(add)[i], b)
    <3>1. i + 1 \in 1 .. Len(add) /\ i \in 1 .. (Len(add) - 1)
      BY <2>4
    <3> QED BY <2>2, <2>4, <3>1
  <2>6. ASSUME Tail(add) # <<>>, b \in N PROVE Tail(add)[Len(Tail(add))] = b
    <3>1. Len(Tail(add)) # 0
      BY <2>4, <2>6
    <3>2. Len(add) - 1 \in 1 .. (Len(add) - 1) /\ (Len(add) - 1) + 1 = Len(add)
      BY <2>4, <3>1
    <3> QED BY <2>2, <2>4, <2>6, <3>2
  <2> QED BY <2>2, <2>3, <2>4, <2>5, <2>6 DEF ScanOk
<1> QED BY <1>1, <1>4, <1>5, <1>6 DEF ScanInv

\* Each step of the search, and of the printing, keeps what was found right.
LEMMA ScanStep == AutomatonInv /\ AutomatonInv' /\ ScanInv /\ [MatchNext]_matchVars => ScanInv'
<1> SUFFICES ASSUME AutomatonInv, AutomatonInv', ScanInv, [MatchNext]_matchVars PROVE ScanInv'
  OBVIOUS
<1>1. ASSUME ~ Compiled, UNCHANGED <<scan_state, uri, to_add, matches, uri_printed, carried>> PROVE ScanInv'
  <2>1. Idle /\ Idle'
    BY <1>1 DEF ScanInv, Idle
  <2>2. ASSUME Compiled'
        PROVE  <<>> \in StatesFor(user_names)' /\ <<>> \in Seq(Characters) /\ 0 <= MaxUri
               /\ ScanOk(StatesFor(user_names)', NameSet', <<>>, <<>>, <<>>, <<>>)
    BY NothingFound, MatchAssumption DEF StatesFor
  <2> QED BY <2>1, <2>2 DEF ScanInv, Idle
<1>2. ASSUME NEW list \in NameLists, str_match_ctx_init_from_file(list) PROVE ScanInv'
  BY <1>1, <1>2 DEF str_match_ctx_init_from_file, Compiled
<1>3. ASSUME acsm_compile_step PROVE ScanInv'
  BY <1>1, <1>3 DEF acsm_compile_step, Compiled
<1>4. ASSUME NEW c \in Characters, find_all_longest(c) PROVE ScanInv'
  BY <1>4, ScanChar
<1>5. ASSUME add_pattern PROVE ScanInv'
  BY <1>5, ScanName
<1>6. ASSUME anon_print_string PROVE ScanInv'
  <2>1. /\ Compiled /\ to_add = <<>> /\ uri_printed' = Printed
        /\ UNCHANGED <<user_names, work_queue, scan_state, uri, to_add, matches, carried>>
    BY <1>6 DEF anon_print_string, Printed
  <2>2. /\ Compiled' /\ StatesFor(user_names)' = StatesFor(user_names) /\ NameSet' = NameSet
        /\ NoSpecialInNames' = NoSpecialInNames /\ BeginsAfresh' = BeginsAfresh /\ Printed' = Printed
    BY <2>1 DEF Compiled, StatesFor, NameSet, NoSpecialInNames, BeginsAfresh, Printed, PiecesOf, Fits, ToHide, is_special
  <2> QED BY <2>1, <2>2 DEF ScanInv
<1>7. ASSUME http_print_message PROVE ScanInv'
  <2>1. /\ uri_printed # NotYet /\ uri' = <<>> /\ matches' = <<>> /\ uri_printed' = NotYet /\ carried' = scan_state
        /\ UNCHANGED <<user_names, work_queue, scan_state, to_add>>
    BY <1>7 DEF http_print_message
  <2>2. Compiled /\ to_add = <<>> /\ scan_state \in StatesFor(user_names)
    BY <2>1 DEF ScanInv, Idle
  <2>3. Compiled' /\ StatesFor(user_names)' = StatesFor(user_names) /\ NameSet' = NameSet
    BY <2>1, <2>2 DEF Compiled, StatesFor, NameSet
  <2>4. ScanOk(StatesFor(user_names), NameSet, <<>>, <<>>, <<>>, scan_state)
    BY NothingFound
  <2>5. <<>> \in Seq(Characters) /\ Len(<<>>) <= MaxUri
    BY MatchAssumption
  <2> QED BY <2>1, <2>2, <2>3, <2>4, <2>5 DEF ScanInv
<1>8. ASSUME UNCHANGED matchVars PROVE ScanInv'
  <2>1. UNCHANGED <<user_names, work_queue, scan_state, uri, to_add, matches, carried, uri_printed>>
    BY <1>8 DEF matchVars
  <2>2. /\ Compiled' = Compiled /\ StatesFor(user_names)' = StatesFor(user_names) /\ NameSet' = NameSet
        /\ NoSpecialInNames' = NoSpecialInNames /\ BeginsAfresh' = BeginsAfresh /\ Printed' = Printed /\ Idle' = Idle
    BY <2>1 DEF Compiled, StatesFor, NameSet, NoSpecialInNames, BeginsAfresh, Printed, PiecesOf, Fits, ToHide, is_special, Idle
  <2> QED BY <2>1, <2>2 DEF ScanInv
<1> QED BY <1>2, <1>3, <1>4, <1>5, <1>6, <1>7, <1>8 DEF MatchNext

LEMMA ScanInvImplies == AutomatonInv /\ ScanInv => UserNamesHidden
<1> SUFFICES ASSUME AutomatonInv, ScanInv, uri_printed # NotYet, NoSpecialInNames, BeginsAfresh,
                    Cardinality(Occurrences) <= MATCH_ARRAY_LEN
             PROVE  /\ uri_printed # OutOfBounds
                    /\ {Span(p) : p \in {p \in ToSet(uri_printed) : p.hidden}} = {o \in Occurrences : ToHide(o)}
                    /\ uri_printed[1].from = 0 /\ Last(uri_printed).to = Len(uri) - 1
                    /\ \A i \in DOMAIN uri_printed : uri_printed[i].from <= uri_printed[i].to + 1
                    /\ \A i \in 2 .. Len(uri_printed) : uri_printed[i].from = uri_printed[i - 1].to + 1
                    /\ \A i \in DOMAIN uri_printed :
                         \/ uri_printed[i].shown
                         \/ i # Len(uri_printed) /\ uri_printed[i].to - uri_printed[i].from + 1 >= TmpLen
  BY AutomatonInvImplies DEF UserNamesHidden
<1> DEFINE N == NameSet T == Occ(uri, N) p == PiecesOf(matches, Len(uri))
<1>1. Compiled
  BY DEF ScanInv, Idle
<1>2. user_names \in NameLists /\ N \in SUBSET Seq(Characters) /\ <<>> \notin N
  BY <1>1, TablesRight DEF PrefixClosed
<1>3. /\ uri \in Seq(Characters) /\ to_add = <<>> /\ uri_printed = Printed
      /\ FoundOk(N, uri, <<>>, matches)
  BY <1>1 DEF ScanInv, ScanOk
<1>4. Occurrences = T /\ \A o : ToHide(o) = Hide(uri, o)
  BY DEF Occurrences, Occ, ToHide, Hide, is_special, SpecialAt
<1>5. ASSUME NEW o \in T
      PROVE  o \in [start : Nat, stop : Nat] /\ o.start <= o.stop /\ o.stop < Len(uri)
  BY <1>2, <1>3, <1>5, OccIs
<1>6. /\ matches \in Seq(T) /\ Len(uri) \in Nat
      /\ \A i, j \in 1 .. Len(matches) : i < j => matches[i].stop < matches[j].start
      /\ \A o \in T : Hide(uri, o) => \E k \in 1 .. Len(matches) : matches[k] = o
  BY <1>3, <1>4 DEF FoundOk
<1> HIDE DEF T, N, p
<1>7. /\ matches \in Seq([start : Nat, stop : Nat]) /\ DOMAIN matches = 1 .. Len(matches)
      /\ \A i \in 1 .. Len(matches) : matches[i] \in T
      /\ \A i \in 1 .. Len(matches) : matches[i].start <= matches[i].stop /\ matches[i].stop < Len(uri)
  <2>1. \A o \in T : o \in [start : Nat, stop : Nat] /\ o.start <= o.stop /\ o.stop < Len(uri)
    BY <1>5
  <2>2. DOMAIN matches = 1 .. Len(matches) /\ \A i \in 1 .. Len(matches) : matches[i] \in T
    BY <1>6
  <2> DEFINE R == [start : Nat, stop : Nat]
  <2>3. T \subseteq R
    BY <2>1
  <2>4. matches \in Seq(T)
    BY <1>6
  <2> HIDE DEF R
  <2>5. matches \in Seq(R)
    BY <2>3, <2>4
  <2> QED BY <2>1, <2>2, <2>5 DEF R
<1>8. uri_printed = p
  <2>1. ASSUME NEW i \in DOMAIN matches PROVE ~ (matches[i].start > matches[i].stop)
    <3>1. i \in 1 .. Len(matches)
      BY <1>7
    <3>2. matches[i].start \in Nat /\ matches[i].stop \in Nat
      BY <1>5, <1>7, <3>1
    <3>3. matches[i].start <= matches[i].stop
      BY <1>7, <3>1
    <3> QED BY <3>2, <3>3
  <2> QED BY <1>3, <2>1 DEF Printed, p
<1>9. /\ {Span(q) : q \in {q \in ToSet(p) : q.hidden}} = {o \in ToSet(matches) : ToHide(o)}
      /\ p[1].from = 0 /\ Last(p).to = Len(uri) - 1
      /\ \A i \in DOMAIN p : p[i].from <= p[i].to + 1
      /\ \A i \in 2 .. Len(p) : p[i].from = p[i - 1].to + 1
      /\ \A i \in DOMAIN p : p[i].shown \/ (i # Len(p) /\ p[i].to - p[i].from + 1 >= TmpLen)
  BY <1>6, <1>7, PiecesCover DEF p
<1>10. {o \in ToSet(matches) : ToHide(o)} = {o \in Occurrences : ToHide(o)}
  <2>1. ToSet(matches) = {matches[k] : k \in 1 .. Len(matches)}
    BY <1>7 DEF ToSet
  <2>2. \A o \in ToSet(matches) : o \in T
    BY <1>7, <2>1
  <2>3. \A o \in T : ToHide(o) => o \in ToSet(matches)
    BY <1>4, <1>6, <2>1
  <2> QED BY <1>4, <2>2, <2>3
<1>11. p # OutOfBounds
  <2>1. OutOfBounds[1] = Piece(-1, -1, FALSE, TRUE)
    BY DEF OutOfBounds
  <2> DEFINE m == -1
  <2>2. OutOfBounds[1] = Piece(m, m, FALSE, TRUE)
    BY <2>1
  <2> HIDE DEF m
  <2>3. OutOfBounds[1].from = m
    BY ONLY <2>2 DEF Piece
  <2>4. p[1].from = 0
    BY <1>9
  <2>5. m # 0
    BY DEF m
  <2> QED BY ONLY <2>3, <2>4, <2>5
<1> QED BY <1>8, <1>9, <1>10, <1>11

\* Whatever the names, and whatever was searched before: each name between
\* special characters is hidden and nothing else, and only pieces too long for
\* the buffer are left out, as UserNamesHidden says.
THEOREM NamesAreHidden == MatchSpec => []UserNamesHidden
<1>1. MatchInit => AutomatonInv /\ ScanInv
  <2> SUFFICES ASSUME MatchInit PROVE AutomatonInv /\ ScanInv
    OBVIOUS
  <2>1. ~ Compiled /\ Idle /\ AutomatonInv
    BY DEF MatchInit, Compiled, Idle, AutomatonInv
  <2> QED BY <2>1 DEF ScanInv
<1>2. AutomatonInv /\ ScanInv /\ [MatchNext]_matchVars => AutomatonInv' /\ ScanInv'
  BY AutomatonStep, ScanStep
<1> QED BY <1>1, <1>2, ScanInvImplies, PTL DEF MatchSpec

=============================================================================
