----------------------------- MODULE IkeMessages -----------------------------
(***************************************************************************)
(* The IKE feature of the two records of a UDP connection                  *)
(* (joy/src/ike.c).  ike_update appends each datagram to a buffer and lists *)
(* the messages it can unmarshal from its front, one in each round of its  *)
(* loop; ike_process compares the security associations of the two records *)
(* when they are printed.                                                  *)
(*                                                                         *)
(* On ports 500 and 4500 whole messages arrive, the first fragment of a    *)
(* message (process_packet keeps the other fragments from the record of    *)
(* the ports), and datagrams that are no messages: keepalives and ESP.     *)
(***************************************************************************)
EXTENDS Integers, Sequences, FiniteSets, Sums

CONSTANTS
  IkeMessageSet,       \* messages [side, len, fragment, encrypted, sa]
  IkeForeign,          \* lengths of datagrams that are no messages
  IKE_MAX_MESSAGES,
  SizeofIkeHeader,     \* sizeof(ike_header_t), more than the 28 bytes of a header
  IkeMisread,          \* lengths that bytes that are no message are taken for (a bound)
  MaxDatagrams,        \* datagrams that are observed (a bound)
  NoSA

\* `fragment' is the length of the part of the message that arrives; it is
\* `len' for a whole message.  An SA is a sequence of proposals [num, protocol,
\* transforms], a transform is [type, id, attributes].
IkeSides == {"init", "resp"}

ASSUME IkeAssumption ==
  /\ \A x \in IkeMessageSet :
       x.side \in IkeSides /\ x.len \in Nat /\ x.fragment \in 28 .. x.len
  /\ IkeForeign \subseteq Nat \ {0}
  /\ IKE_MAX_MESSAGES \in Nat \ {0} /\ SizeofIkeHeader \in 28 .. 32

VARIABLES
  ike_seen,            \* history: the datagrams of each side, in order
  ike_buffer,          \* ike->buffer: pieces [of, len], the first may be cut
  ike_messages,        \* ike->messages: what each was made of
  ike_busy,            \* the side whose datagram ike_update is at, or "none"
  ike_overrun,         \* a message longer than the buffer was skipped
  ike_complaint        \* what ike_process reported, once printed

ikeVars == <<ike_seen, ike_buffer, ike_messages, ike_busy, ike_overrun, ike_complaint>>

\* Bytes that are no message, or not recognized as one.
Bogus == [side |-> "none", len |-> 0, fragment |-> 0, encrypted |-> FALSE, sa |-> NoSA]

(***************************************************************************)
(* ike_update.                                                             *)
(***************************************************************************)
BytesIn(b) == SumOf(0, [i \in DOMAIN b |-> b[i].len])

Whole(p) == p.of # Bogus /\ p.len = p.of.len

\* ike_header_unmarshal wants the size of its structure, with the padding.
Minimum(b) == SizeofIkeHeader

\* What ike_message_unmarshal may return for a buffer, 0 for a failure.  When
\* the rest of a message is missing, what follows in the buffer is taken for
\* it; bytes that are no message may look like one of any length.
ike_message_unmarshal(b) ==
  LET p == Head(b) IN
  IF BytesIn(b) < Minimum(b) THEN {0}
  ELSE IF Whole(p) THEN {p.len}
  ELSE IF p.of = Bogus THEN {0} \cup {n \in IkeMisread : n <= BytesIn(b)}
  ELSE IF p.of.encrypted THEN {p.of.len}
  ELSE IF p.of.len > BytesIn(b) THEN {0} ELSE {0, p.of.len}

\* The buffer from its n-th byte on; what is left of a piece is not recognized.
Skip(b, n) ==
  LET gone == Cardinality({i \in DOMAIN b : BytesIn(SubSeq(b, 1, i)) <= n})
      cut == n - BytesIn(SubSeq(b, 1, gone))
  IN  IF cut = 0 THEN SubSeq(b, gone + 1, Len(b))
      ELSE <<[of |-> Bogus, len |-> b[gone + 1].len - cut]>> \o SubSeq(b, gone + 2, Len(b))

Full(msgs) == Len(msgs) = IKE_MAX_MESSAGES

OnlyThis(b, p) == <<p>>

\* What was left of the last datagrams comes first.
Appended(b, p) == Append(b, p)

Pieces == {[of |-> x, len |-> x.fragment] : x \in IkeMessageSet}
            \cup {[of |-> Bogus, len |-> n] : n \in IkeForeign}

\* A datagram comes, and the loop begins.
ike_update(s, p) ==
  /\ ike_busy = "none" /\ ike_complaint = "not printed" /\ ~ike_overrun[s]
  /\ Len(ike_seen["init"]) + Len(ike_seen["resp"]) < MaxDatagrams
  /\ p.of # Bogus => p.of.side = s
  /\ ike_seen' = [ike_seen EXCEPT ![s] = Append(@, p)]
  /\ ike_buffer' = [ike_buffer EXCEPT ![s] = Appended(@, p)]
  /\ ike_busy' = s
  /\ UNCHANGED <<ike_messages, ike_overrun, ike_complaint>>

\* One round: n bytes are taken for a message.
ike_message(s, n) ==
  LET b == ike_buffer[s] IN
  /\ ike_busy = s /\ b # <<>> /\ ~Full(ike_messages[s])
  /\ n \in ike_message_unmarshal(b) /\ n # 0
  /\ IF n > BytesIn(b)
     THEN /\ ike_buffer' = [ike_buffer EXCEPT ![s] = <<>>]
          /\ ike_overrun' = [ike_overrun EXCEPT ![s] = TRUE]
          /\ ike_busy' = "none"
          /\ UNCHANGED ike_messages
     ELSE /\ ike_buffer' = [ike_buffer EXCEPT ![s] = Skip(b, n)]
          /\ ike_messages' = [ike_messages EXCEPT ![s] = Append(@, IF Whole(Head(b)) THEN Head(b).of ELSE Bogus)]
          /\ UNCHANGED <<ike_overrun, ike_busy>>
  /\ UNCHANGED <<ike_seen, ike_complaint>>

\* The end of the loop; the rest of the buffer stays.
vector_set(s) ==
  LET b == ike_buffer[s] IN
  /\ ike_busy = s
  /\ b = <<>> \/ Full(ike_messages[s]) \/ 0 \in ike_message_unmarshal(b)
  /\ ike_busy' = "none"
  /\ UNCHANGED <<ike_seen, ike_buffer, ike_messages, ike_overrun, ike_complaint>>

(***************************************************************************)
(* ike_process, called by ike_print_json.                                  *)
(***************************************************************************)
\* Each attribute of the response was offered, and none twice.
ike_transform_match(offered, chosen) ==
  /\ offered.type = chosen.type /\ offered.id = chosen.id
  /\ chosen.attributes \subseteq offered.attributes
  /\ \A a, b \in chosen.attributes : a.type = b.type => a = b

ike_proposal_match(offered, chosen) ==
  /\ offered.num = chosen.num /\ offered.protocol = chosen.protocol
  /\ \A t, u \in chosen.transforms : t.type = u.type => t = u
  /\ \A t \in chosen.transforms : \E o \in offered.transforms : ike_transform_match(o, t)

ike_sa_match(offered, chosen) ==
  /\ Len(chosen) = 1
  /\ \E i \in DOMAIN offered : ike_proposal_match(offered[i], chosen[1])

WithSA(msgs) == {i \in DOMAIN msgs : msgs[i].sa # NoSA}

ike_sa_get_first(msgs) == IF WithSA(msgs) = {} THEN NoSA ELSE msgs[Min(WithSA(msgs))].sa

\* The most recent one.
ike_sa_get(msgs) == IF WithSA(msgs) = {} THEN NoSA ELSE msgs[Max(WithSA(msgs))].sa

ike_process ==
  LET init_sa == ike_sa_get(ike_messages["init"])
      resp_sa == ike_sa_get(ike_messages["resp"])
  IN  IF NoSA \notin {init_sa, resp_sa} /\ ~ike_sa_match(init_sa, resp_sa) THEN "mismatch" ELSE "none"

ike_print_json ==
  /\ ike_busy = "none" /\ ike_complaint = "not printed"
  /\ TRUE \notin {ike_overrun[s] : s \in IkeSides}
  /\ ike_complaint' = ike_process
  /\ UNCHANGED <<ike_seen, ike_buffer, ike_messages, ike_busy, ike_overrun>>

IkeInit ==
  /\ ike_seen = [s \in IkeSides |-> <<>>]
  /\ ike_buffer = [s \in IkeSides |-> <<>>] /\ ike_messages = [s \in IkeSides |-> <<>>]
  /\ ike_busy = "none" /\ ike_overrun = [s \in IkeSides |-> FALSE] /\ ike_complaint = "not printed"

IkeNext ==
  \/ \E s \in IkeSides : \E p \in Pieces : ike_update(s, p)
  \/ \E s \in IkeSides : \E n \in ike_message_unmarshal(ike_buffer[s]) : ike_message(s, n)
  \/ \E s \in IkeSides : vector_set(s)
  \/ ike_print_json

(***************************************************************************)
(* Properties.                                                             *)
(***************************************************************************)
OnlyMessages(s) == \A i \in DOMAIN ike_seen[s] : Whole(ike_seen[s][i])
MessagesOf(s) == [i \in DOMAIN ike_seen[s] |-> ike_seen[s][i].of]

\* As long as a side's datagrams are whole messages, all of them are listed, in
\* order, up to the limit; only one that is a header and nothing else waits for
\* the next.  One keepalive or one fragment, and nothing can be said any more.
IkeMessagesListed ==
  \A s \in IkeSides : OnlyMessages(s) =>
    LET n == Len(ike_messages[s]) IN
    /\ n <= Len(ike_seen[s]) /\ ike_messages[s] = SubSeq(MessagesOf(s), 1, n)
    /\ (ike_busy # s /\ n < Len(ike_seen[s])) =>
         \/ n = IKE_MAX_MESSAGES
         \/ n = Len(ike_seen[s]) - 1 /\ ike_seen[s][n + 1].len < SizeofIkeHeader

\* Of a connection whose exchanges are all answered, a mismatch is reported
\* exactly if the last answer chooses what was not offered last.
IkeComplaintTrue ==
  LET offers == MessagesOf("init")
      answers == MessagesOf("resp")
  IN  (/\ ike_complaint # "not printed"
       /\ \A s \in IkeSides : OnlyMessages(s) /\ Len(ike_messages[s]) = Len(ike_seen[s])
       /\ WithSA(offers) # {} /\ Cardinality(WithSA(offers)) = Cardinality(WithSA(answers)))
      => LET offered == offers[Max(WithSA(offers))].sa
             chosen == answers[Max(WithSA(answers))].sa
         IN  (ike_complaint = "none") <=> ike_sa_match(offered, chosen)
=============================================================================
