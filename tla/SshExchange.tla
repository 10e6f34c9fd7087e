----------------------------- MODULE SshExchange -----------------------------
(***************************************************************************)
(* An SSH key exchange as seen in the two records of a connection          *)
(* (joy/src/ssh.c): ssh_update gathers the segments of one side until      *)
(* SSH_MSG_NEWKEYS and takes the complete packets out of its buffer;       *)
(* ssh_print_json works out which key exchange it was and decodes its      *)
(* messages.                                                               *)
(*                                                                         *)
(* A byte is its position in the stream of its side.  Each stream is the   *)
(* lines up to the version line, then packets, then encrypted bytes, whose *)
(* packet lengths and message codes are whatever they happen to be: how    *)
(* many pass for messages is chosen when they are parsed, and which of     *)
(* them pass for the message that is expected when they are decoded.       *)
(***************************************************************************)
EXTENDS Integers, Sequences, FiniteSets, Ascending

CONSTANTS
  SshPairs,            \* the streams of client and server, see below
  SshCuts,             \* the positions at which a segment may end (a bound)
  Method,              \* of an algorithm: "gex", "dh", "rsa" or "none"
  MAX_SSH_KEX_MESSAGES,
  NoAlgorithm

SshSides == {"cli", "srv"}

\* A stream is [version, packets, length], the version line [from, to]; `names' is the list of
\* algorithms of a KEXINIT packet.  NEWKEYS is the last packet, what follows it is encrypted.
KEXINIT == 20
NEWKEYS == 21
KexCodes == 30 .. 49

SshPackets == [at : Nat, len : Nat \ {0}, code : Nat, names : Seq(DOMAIN Method)]

\* No method has more than two messages of a side.
ASSUME SshAssumption == MAX_SSH_KEX_MESSAGES \in Nat /\ MAX_SSH_KEX_MESSAGES >= 2

ASSUME SshPairsAssumption == \A pair \in SshPairs : \A side \in SshSides :
  LET s == pair[side] IN
  /\ s.version.from \in Nat /\ s.version.to \in Nat /\ s.length \in Nat
  /\ s.version.from < s.version.to /\ s.version.to <= s.length
  /\ s.packets \in Seq(SshPackets)
  /\ \A i \in DOMAIN s.packets :
       /\ s.packets[i].at = IF i = 1 THEN s.version.to
                            ELSE s.packets[i - 1].at + s.packets[i - 1].len
       /\ s.packets[i].code = NEWKEYS => i = Len(s.packets)

VARIABLES
  ssh_stream,          \* the stream of each side
  ssh_sent,            \* bytes of it that were observed
  buffer,              \* position of the first byte in ssh->buffer
  role,                \* ssh->role
  newkeys,             \* ssh->newkeys
  kexinit,             \* the packet whose name lists were copied, or 0
  kex_msgs,            \* ssh->kex_msgs: packets, 0 for encrypted bytes
  kex_algo,            \* the result of ssh_get_kex_algo, when printed
  decoded_kex          \* the key exchange messages decoded, when printed

sshVars == <<ssh_stream, ssh_sent, buffer, role, newkeys, kexinit, kex_msgs,
             kex_algo, decoded_kex>>

NotPrinted == "not printed"

PacketOf(s, i) == ssh_stream[s].packets[i]
PacketEnd(s, i) == PacketOf(s, i).at + PacketOf(s, i).len

(***************************************************************************)
(* ssh_update.                                                             *)
(***************************************************************************)
\* The packets taken out of the buffer by this call, which is read from `from'
\* up to `to': all that are complete; after NEWKEYS too, if more was buffered.
CompleteFrom(s, from, to) ==
  {i \in DOMAIN ssh_stream[s].packets : from <= PacketOf(s, i).at /\ PacketEnd(s, i) <= to}

\* There is room for the first messages only.
Kept(all) ==
  SubSeq(all, 1, IF Len(all) < MAX_SSH_KEX_MESSAGES THEN Len(all) ELSE MAX_SSH_KEX_MESSAGES)

FirstMessages(kept, I) == Kept(kept \o Ascending(I))

LowestOr(I, none) == IF I = {} THEN none ELSE CHOOSE i \in I : \A j \in I : i <= j

Largest(S) == CHOOSE x \in S : \A y \in S : y <= x

\* Encrypted bytes that pass for messages of the key exchange.
Encrypted(n) == [m \in 1 .. n |-> 0]

AfterNewKeys(s, I, kept) ==
  IF \E i \in I : PacketOf(s, i).code = NEWKEYS
  THEN {kept \o Encrypted(n) : n \in 0 .. MAX_SSH_KEX_MESSAGES - Len(kept)}
  ELSE {kept}

DropBuffer(s, I, from, to) == to

\* What is left is kept for the next call.
KeepRest(s, I, from, to) == Largest({from} \cup {PacketEnd(s, i) : i \in I})

\* Bytes from `from' on have been searched for the version line.
ssh_parse(s, from, to) ==
  LET I == CompleteFrom(s, from, to)
      kex == {i \in I : PacketOf(s, i).code \in KexCodes}
      inits == {i \in I : PacketOf(s, i).code = KEXINIT}
  IN  /\ newkeys' = [newkeys EXCEPT ![s] = @ \/ \E i \in I : PacketOf(s, i).code = NEWKEYS]
      /\ kexinit' = [kexinit EXCEPT ![s] = IF @ # 0 THEN @ ELSE LowestOr(inits, 0)]
      /\ \E msgs \in AfterNewKeys(s, I, FirstMessages(kex_msgs[s], kex)) :
           kex_msgs' = [kex_msgs EXCEPT ![s] = msgs]
      /\ buffer' = [buffer EXCEPT ![s] = KeepRest(s, I, from, to)]

ssh_update(s, n) ==
  LET v == ssh_stream[s].version
      to == ssh_sent[s] + n
  IN  /\ kex_algo = NotPrinted
      /\ to \in SshCuts \cup {ssh_stream[s].length} /\ to <= ssh_stream[s].length
      /\ ssh_sent' = [ssh_sent EXCEPT ![s] = to]
      /\ IF newkeys[s]
         THEN UNCHANGED <<role, newkeys, kexinit, kex_msgs>> /\ buffer' = [buffer EXCEPT ![s] = to]
         ELSE IF role[s] = "unknown" /\ to < v.to
         THEN UNCHANGED <<buffer, role, newkeys, kexinit, kex_msgs>>
         ELSE /\ role' = [role EXCEPT ![s] = "client"]
              /\ ssh_parse(s, IF role[s] = "unknown" THEN v.to ELSE buffer[s], to)
      /\ UNCHANGED <<ssh_stream, kex_algo, decoded_kex>>

(***************************************************************************)
(* ssh_print_json, when the flow is reported.                              *)
(***************************************************************************)
Names(s) == IF kexinit[s] = 0 THEN <<>> ELSE PacketOf(s, kexinit[s]).names

AllNames(names) == {names[i] : i \in DOMAIN names}

FirstCommon(mine, theirs) ==
  LET common == {i \in DOMAIN mine : mine[i] \in AllNames(theirs)} IN
  IF common = {} THEN NoAlgorithm ELSE mine[LowestOr(common, 0)]

\* What the two sides agree on (RFC 4253, 7.1).
Agreed == FirstCommon(Names("cli"), Names("srv"))

ServerPrefers == FirstCommon(Names("srv"), Names("cli"))

\* The names of the server that the n-th name of the client is compared with:
\* strtok_r cuts the copy of the list into names in the first round, and begins
\* again at the same copy, which then ends behind its first name.
CopyLeft(n) ==
  LET theirs == Names("srv") IN
  {theirs[i] : i \in {i \in DOMAIN theirs : n = 1 \/ i = 1}}

ssh_get_kex_algo ==
  LET mine == Names("cli")
      found == {n \in DOMAIN mine : mine[n] \in CopyLeft(n)}
  IN  IF found = {} THEN NoAlgorithm ELSE mine[LowestOr(found, 0)]

\* <<side, n, codes>>: message n of that side is decoded if its code is one of
\* `codes'.
Expected(method) ==
  CASE method = "gex" -> {<<"cli", 1, {30, 34}>>, <<"srv", 1, {31}>>,
                          <<"cli", 2, {32}>>, <<"srv", 2, {33}>>}
    [] method = "dh" -> {<<"cli", 1, {30}>>, <<"srv", 1, {31}>>}
    [] method = "rsa" -> {<<"srv", 1, {30}>>, <<"cli", 1, {31}>>, <<"srv", 2, {32}>>}
    [] OTHER -> {}

MethodOf(algorithm) == IF algorithm = NoAlgorithm THEN "none" ELSE Method[algorithm]

\* Encrypted bytes are taken for the message expected in their place if they
\* happen to have one of its codes, as those in `alike' do.
IsMessage(e, alike) ==
  LET i == kex_msgs[e[1]][e[2]] IN
  IF i = 0 THEN e \in alike ELSE PacketOf(e[1], i).code \in e[3]

ssh_process(algorithm, alike) ==
  {<<e[1], kex_msgs[e[1]][e[2]]>> :
     e \in {e \in Expected(MethodOf(algorithm)) : e[2] <= Len(kex_msgs[e[1]]) /\ IsMessage(e, alike)}}

\* The record that is printed first is taken for the client's.
ssh_print_json ==
  /\ kex_algo = NotPrinted
  /\ role["cli"] # "unknown"
  /\ kex_algo' = ssh_get_kex_algo
  /\ \E alike \in SUBSET Expected(MethodOf(ssh_get_kex_algo)) :
       decoded_kex' = ssh_process(ssh_get_kex_algo, alike)
  /\ UNCHANGED <<ssh_stream, ssh_sent, buffer, role, newkeys, kexinit, kex_msgs>>

SshInit ==
  /\ ssh_stream \in SshPairs
  /\ ssh_sent = [s \in SshSides |-> 0] /\ buffer = [s \in SshSides |-> 0]
  /\ role = [s \in SshSides |-> "unknown"] /\ newkeys = [s \in SshSides |-> FALSE]
  /\ kexinit = [s \in SshSides |-> 0] /\ kex_msgs = [s \in SshSides |-> <<>>]
  /\ kex_algo = NotPrinted /\ decoded_kex = {}

SshNext ==
  \/ \E s \in SshSides : \E n \in 1 .. ssh_stream[s].length : ssh_update(s, n)
  \/ ssh_print_json

(***************************************************************************)
(* Properties.                                                             *)
(***************************************************************************)
Seen(s) == {i \in DOMAIN ssh_stream[s].packets : PacketEnd(s, i) <= ssh_sent[s]}
SeenInits(s) == {i \in Seen(s) : PacketOf(s, i).code = KEXINIT}
SeenKex(s) == {i \in Seen(s) : PacketOf(s, i).code \in KexCodes}

\* What was taken from a side depends on the bytes seen, not on the segments
\* they came in: the first KEXINIT, the first messages of the key exchange, and
\* NEWKEYS, as soon as each is complete.  Encrypted bytes only come after them.
SshReassembled ==
  \A s \in SshSides :
    /\ kexinit[s] = LowestOr(SeenInits(s), 0)
    /\ newkeys[s] <=> \E i \in Seen(s) : PacketOf(s, i).code = NEWKEYS
    /\ \E n \in 0 .. MAX_SSH_KEX_MESSAGES :
         kex_msgs[s] = FirstMessages(<<>>, SeenKex(s)) \o Encrypted(n)

\* Each side that sends NEWKEYS has sent its messages of the method before.
SentInFull(method) ==
  \A e \in Expected(method) :
    LET p == ssh_stream[e[1]].packets IN
    (\E i \in DOMAIN p : p[i].code = NEWKEYS) =>
      e[2] <= Cardinality({i \in DOMAIN p : p[i].code \in KexCodes})

FirstName(names) == {names[i] : i \in DOMAIN names \cap {1}}

\* The algorithm that is printed is one that both sides have named, and it is
\* the one they agree on if that is the first name of either, although the list
\* is cut to pieces during the search.  If it is the one they agree on, what is
\* decoded for it are messages of the exchange, although encrypted bytes can
\* end up among those that were kept and can have the codes of messages.
SshKexGenuine ==
  kex_algo # NotPrinted =>
    /\ kex_algo # NoAlgorithm => kex_algo \in AllNames(Names("cli")) \cap AllNames(Names("srv"))
    /\ Agreed \in FirstName(Names("cli")) \cup FirstName(Names("srv")) => kex_algo = Agreed
    /\ kex_algo = Agreed /\ SentInFull(MethodOf(Agreed)) => \A d \in decoded_kex : d[2] # 0
=============================================================================
