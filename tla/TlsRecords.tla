----------------------------- MODULE TlsRecords -----------------------------
(***************************************************************************)
(* One direction of a TLS connection as tls_update sees it (joy/src/tls.c): *)
(* segments of the byte stream come in order, each seen once, cut at any   *)
(* place.  The list of records (content type, length, time) is written as  *)
(* they pass; whole segments that begin like a handshake are kept, and     *)
(* parsed when the first record of another type comes by.                  *)
(*                                                                         *)
(* A byte is its position in the stream.  What a position means is known   *)
(* at the start of a record; a header read anywhere else has a type and a  *)
(* length that nobody meant.                                               *)
(***************************************************************************)
EXTENDS Integers, Sequences, FiniteSets

CONSTANTS
  TlsStreams,          \* what a side may send: records [at, type, len, messages]
  TlsCuts,             \* the positions at which a segment may end (a bound)
  TLS_HDR_LEN, TLS_HANDSHAKE_HDR_LEN,
  MAX_NUM_RCD_LEN,     \* number of records with statistics
  MAX_TLS_HANDSHAKES,  \* messages listed for one of them
  MAX_HANDSHAKE_LENGTH,
  Misread              \* lengths found where no header is

\* Positions count from 0 and include the headers.  VALID stands for the handshake types
\* tls.c knows, other types are what the first byte of an encrypted message happens to be.
\* Of a ClientHello or ServerHello, `supported' says whether tls.c knows its version.
ValidTypes == (0 .. 4) \cup (11 .. 16) \cup (20 .. 23)
Hellos == {1, 2}

Messages == [at : Nat, type : Nat, len : Nat, supported : BOOLEAN]
Records == [at : Nat, type : {"handshake", "other"}, len : Nat, messages : Seq(Messages)]

EndOf(r) == r.at + TLS_HDR_LEN + r.len
EndOfMessage(m) == m.at + TLS_HANDSHAKE_HDR_LEN + m.len

ASSUME TlsAssumption ==
  /\ {TLS_HDR_LEN, TLS_HANDSHAKE_HDR_LEN} \subseteq Nat \ {0}
  /\ {MAX_NUM_RCD_LEN, MAX_TLS_HANDSHAKES} \subseteq Nat

\* The records follow one another, and so do the messages in each.
ASSUME TlsStreamsAssumption == \A s \in TlsStreams :
  /\ s \in Seq(Records) /\ s # <<>> /\ s[1].at = 0
  /\ \A i \in DOMAIN s : i > 1 => s[i].at = EndOf(s[i - 1])
  /\ \A i \in DOMAIN s : \A j \in DOMAIN s[i].messages :
       /\ s[i].at + TLS_HDR_LEN <= s[i].messages[j].at
       /\ EndOfMessage(s[i].messages[j]) <= EndOf(s[i])
       /\ \A l \in DOMAIN s[i].messages :
            j < l => EndOfMessage(s[i].messages[j]) <= s[i].messages[l].at

VARIABLES
  tls_stream,          \* the stream that is sent
  tls_sent,            \* bytes of it that were observed
  tls_data,            \* `data' in tls_update: the next header, when busy
  tls_busy,            \* between two rounds of the loop of tls_update
  seg_offset,
  handshake_buffer,    \* the bytes kept: <<from, to>> for each run of positions
  handshake_length,
  done_handshake,
  tls_op,              \* r->op
  tls_stats,           \* r->msg_stats and lengths: the record each stands for
  handshake_types,     \* [slot, record, message] listed by the parser
  tls_version,         \* where r->version comes from
  tls_awkward          \* history: a cut or a lack of memory nobody provided for

tlsVars == <<tls_stream, tls_sent, tls_data, tls_busy, seg_offset, handshake_buffer,
             handshake_length, done_handshake, tls_op, tls_stats, handshake_types, tls_version, tls_awkward>>

TlsLength == EndOf(tls_stream[Len(tls_stream)])

\* The record whose header is at a position, 0 if there is none.
RecordAt(p) ==
  IF \E i \in DOMAIN tls_stream : tls_stream[i].at = p
  THEN CHOOSE i \in DOMAIN tls_stream : tls_stream[i].at = p ELSE 0

(***************************************************************************)
(* tls_handshake_buffer_parse.                                             *)
(***************************************************************************)
\* data_len when the parser has got to position p.
Left(p) == handshake_length - (p - handshake_buffer[1][1])

\* The parser leaves at a message whose header, or whose body's first byte, is
\* not there.
CanList(m) == Left(m.at) > TLS_HANDSHAKE_HDR_LEN

CanOpen(r) == Left(r.at) >= r.len /\ Left(r.at) > TLS_HDR_LEN

\* Behind a gap no message is recognized.
Reached(m) == m.at + TLS_HANDSHAKE_HDR_LEN <= handshake_buffer[1][2]

IsHello(i, j) == tls_stream[i].messages[j].type \in Hellos

\* It also leaves, for good, at a message of an unknown type, and at a hello of a version that is
\* not supported, unless the version was in a hello before.
NotUnderstood(first, i, j) ==
  \/ tls_stream[i].messages[j].type \notin ValidTypes
  \/ /\ IsHello(i, j) /\ ~tls_stream[i].messages[j].supported
     /\ \A k \in first .. i : \A l \in DOMAIN tls_stream[k].messages : k < i \/ l < j => ~IsHello(k, l)

\* The slot of a message: records of other types in the buffer count too.
HandshakeSlot(first, i) ==
  1 + Cardinality({k \in first .. i - 1 : tls_stream[k].type = "handshake"})

Slot(first, i) == i - first + 1

\* The parser lists message j of record i, or finds no room for it.
GetsTo(first, i, j) ==
  \A k \in first .. i : \A l \in DOMAIN tls_stream[k].messages :
    k < i \/ l <= j => LET m == tls_stream[k].messages[l] IN
      CanOpen(tls_stream[k]) /\ CanList(m) /\ Reached(m) /\ ~NotUnderstood(first, k, l)

\* The first record in the buffer, 0 if it begins with something else.
FirstRecord == IF handshake_buffer = <<>> THEN 0 ELSE RecordAt(handshake_buffer[1][1])

Listed ==
  UNION {{[slot |-> Slot(FirstRecord, i), record |-> i, message |-> j] :
            j \in {j \in DOMAIN tls_stream[i].messages :
                     j <= MAX_TLS_HANDSHAKES /\ GetsTo(FirstRecord, i, j)}} :
         i \in {i \in FirstRecord .. Len(tls_stream) :
                  FirstRecord # 0 /\ Slot(FirstRecord, i) <= MAX_NUM_RCD_LEN}}

\* A hello gives the version whether there is room for it in the list or not.
HelloRead ==
  \E i \in DOMAIN tls_stream : \E j \in DOMAIN tls_stream[i].messages :
    0 < FirstRecord /\ FirstRecord <= i /\ IsHello(i, j) /\ GetsTo(FirstRecord, i, j)

tls_handshake_buffer_parse ==
  /\ handshake_types' = Listed
  /\ tls_version' = IF HelloRead THEN "hello" ELSE "header"

(***************************************************************************)
(* tls_update.                                                             *)
(***************************************************************************)
\* A segment that starts inside a record can look like a handshake or not.
LooksLikeHandshake(p) ==
  IF RecordAt(p) = 0 THEN BOOLEAN ELSE {tls_stream[RecordAt(p)].type = "handshake"}

Buffered(n) ==
  LET last == Len(handshake_buffer) IN
  IF last # 0 /\ handshake_buffer[last][2] = tls_sent
  THEN [handshake_buffer EXCEPT ![last][2] = @ + n]
  ELSE Append(handshake_buffer, <<tls_sent, tls_sent + n>>)

Keep(n, looks) ==
  IF ~done_handshake /\ looks
  THEN handshake_buffer' = Buffered(n) /\ handshake_length' = handshake_length + n
  ELSE UNCHANGED <<handshake_buffer, handshake_length>>

\* A cut the code does not allow for: the segment ends inside a header, or in
\* the last TLS_HDR_LEN bytes of a record.
AwkwardCut(p) == \E i \in DOMAIN tls_stream :
  \/ tls_stream[i].at < p /\ p < tls_stream[i].at + TLS_HDR_LEN
  \/ EndOf(tls_stream[i]) - TLS_HDR_LEN <= p /\ p < EndOf(tls_stream[i])

\* The rest of a handshake record that is not taken for one is not kept.
Mistaken(looks) == ~done_handshake /\ RecordAt(tls_sent) = 0 /\ ~looks

NoRoom(n) == n >= MAX_HANDSHAKE_LENGTH - handshake_length

\* The segment is dropped: the buffer is full, or cannot be enlarged.
tls_update_fails(n, looks) ==
  /\ ~tls_busy /\ tls_sent + n \in (TlsCuts \cap 1 .. TlsLength) \cup {TlsLength}
  /\ looks \in LooksLikeHandshake(tls_sent)
  /\ ~done_handshake /\ looks
  /\ tls_sent' = tls_sent + n
  /\ tls_awkward' = TRUE
  /\ UNCHANGED <<tls_stream, tls_data, tls_busy, seg_offset, handshake_buffer,
                 handshake_length, done_handshake, tls_op, tls_stats, handshake_types, tls_version>>

tls_update(n, looks) ==
  /\ ~tls_busy /\ tls_sent + n \in (TlsCuts \cap 1 .. TlsLength) \cup {TlsLength}
  /\ looks \in LooksLikeHandshake(tls_sent)
  /\ ~done_handshake /\ looks => ~NoRoom(n)
  /\ tls_sent' = tls_sent + n
  /\ Keep(n, looks)
  /\ tls_awkward' = (tls_awkward \/ AwkwardCut(tls_sent + n) \/ Mistaken(looks))
  /\ IF seg_offset > n
     THEN seg_offset' = seg_offset - n /\ UNCHANGED <<tls_data, tls_busy>>
     ELSE /\ seg_offset' = 0
          /\ tls_data' = tls_sent + seg_offset
          /\ tls_busy' = (seg_offset < n)
  /\ UNCHANGED <<tls_stream, done_handshake, tls_op, tls_stats, handshake_types, tls_version>>

\* The bytes of the record that are still to come.
Missing(msg_len, rem_len) == msg_len - (rem_len - TLS_HDR_LEN)

tls_write_message_stats(i) ==
  /\ tls_op' = tls_op + 1
  /\ tls_stats' = IF tls_op < MAX_NUM_RCD_LEN THEN Append(tls_stats, i) ELSE tls_stats

\* What the loop finds at tls_data: [record, msg_len, other], record 0 when the
\* position means something else or the header is cut.
Header ==
  LET i == RecordAt(tls_data) IN
  IF i # 0 /\ tls_sent - tls_data >= TLS_HDR_LEN
  THEN {[record |-> i, msg_len |-> tls_stream[i].len, other |-> tls_stream[i].type = "other"]}
  ELSE [record: {0}, msg_len: Misread, other: BOOLEAN]

FreeBuffer == <<>>

\* One round.  The version in the header of the record may be unknown; then
\* the rest of the segment is left.
tls_record(h, known) ==
  LET rem_len == tls_sent - tls_data
      next == tls_data + h.msg_len + TLS_HDR_LEN
      parse == ~done_handshake /\ handshake_buffer # <<>> /\ h.other
  IN  /\ tls_busy
      /\ seg_offset' = IF h.msg_len > rem_len THEN Missing(h.msg_len, rem_len) ELSE seg_offset
      /\ IF parse
         THEN /\ tls_handshake_buffer_parse
              /\ handshake_buffer' = FreeBuffer /\ handshake_length' = 0
              /\ done_handshake' = TRUE
         ELSE UNCHANGED <<handshake_buffer, handshake_length, done_handshake, handshake_types, tls_version>>
      /\ IF parse /\ tls_version' = "header" /\ ~known
         THEN tls_busy' = FALSE /\ tls_awkward' = TRUE /\ UNCHANGED <<tls_data, tls_op, tls_stats>>
         ELSE /\ tls_write_message_stats(h.record)
              /\ tls_data' = next
              /\ tls_busy' = (next < tls_sent)
              /\ UNCHANGED tls_awkward
      /\ UNCHANGED <<tls_stream, tls_sent>>

TlsInit ==
  /\ tls_stream \in TlsStreams
  /\ tls_sent = 0 /\ tls_data = 0 /\ tls_busy = FALSE /\ seg_offset = 0
  /\ handshake_buffer = <<>> /\ handshake_length = 0 /\ done_handshake = FALSE
  /\ tls_op = 0 /\ tls_stats = <<>> /\ handshake_types = {} /\ tls_version = "none"
  /\ tls_awkward = FALSE

TlsNext ==
  \/ \E n \in 1 .. TlsLength, looks \in BOOLEAN : tls_update(n, looks) \/ tls_update_fails(n, looks)
  \/ \E known \in BOOLEAN : \E h \in Header : tls_record(h, known)

(***************************************************************************)
(* Properties.                                                             *)
(***************************************************************************)

HandshakeRecords == {i \in DOMAIN tls_stream : \A k \in 1 .. i : tls_stream[k].type = "handshake"}

\* There is a message at or before this one that the parser does not understand.
ParserLeft(i, j) ==
  \E k \in 1 .. i : \E l \in DOMAIN tls_stream[k].messages : (k < i \/ l <= j) /\ NotUnderstood(1, k, l)

\* However the stream is cut into segments, away from the places AwkwardCut
\* names:
\* - every record whose header was seen is listed, in order, and no other;
\* - the handshake types are stored with the record that carried them, although
\*   one index counts the records that pass and the other those in the buffer;
\* - when the handshake is over all its messages are listed, whether they share
\*   records and segments or not, except an empty one at the end of the buffer,
\*   and except from the first one on that the parser does not understand: of an
\*   unknown type, or a hello of a version that is not supported.
TlsListed ==
  ~tls_awkward =>
    /\ \A k \in DOMAIN tls_stats : tls_stats[k] = k
    /\ ~tls_busy => tls_op = Cardinality({i \in DOMAIN tls_stream : tls_stream[i].at < tls_sent})
    /\ tls_stream[1].type = "handshake" =>
         \A h \in handshake_types : h.slot <= Len(tls_stats) + 1 => h.slot = h.record
    /\ done_handshake =>
         \A i \in HandshakeRecords : \A j \in DOMAIN tls_stream[i].messages :
           LET m == tls_stream[i].messages[j] IN
           \/ [slot |-> i, record |-> i, message |-> j] \in handshake_types
           \/ m.len = 0 /\ i + 1 \notin HandshakeRecords /\ j = Len(tls_stream[i].messages)
           \/ j > MAX_TLS_HANDSHAKES \/ i > MAX_NUM_RCD_LEN
           \/ ParserLeft(i, j)
=============================================================================
