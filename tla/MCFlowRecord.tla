---------------------------- MODULE MCFlowRecord ----------------------------
(***************************************************************************)
(* The parts of a flow record and of its report, one at a time: no part    *)
(* reads or writes the state of another, so the states of the record are   *)
(* not multiplied.  process_tcp and the report are there for every flow;   *)
(* the port decides whether tls, ssh or ike has data; the labels come from *)
(* a trie that is built before the first flow.                             *)
(***************************************************************************)
EXTENDS TcpFlow, FlowReport, TlsRecords, SshExchange, IkeMessages, RadixTrie, StrMatch

CONSTANT MaxSubnets      \* subnets that are added (a bound)

VARIABLE part            \* the part of the record that is looked at

vars == <<part, tcpVars, reportVars, tlsVars, sshVars, ikeVars, trieVars, matchVars>>

\* TCP: a SYN, the bare ACK of the handshake, the first data segment, a longer
\* retransmission of it, and two more.
Segment(syn, seq, len) == [syn |-> syn, seq |-> seq, len |-> len]
MCSegments == {
  Segment(TRUE, 3, 0), Segment(FALSE, 4, 0), Segment(FALSE, 4, 1),
  Segment(FALSE, 4, 2), Segment(FALSE, 5, 1), Segment(FALSE, 6, 1)}

MCTimes == {1, 3}

\* TLS: a server's half of a handshake with its messages spread over records, a client's that begins
\* with an alert, and two with hellos of a version that is not supported, before and behind one that is.
TlsMessage(at, type, len) == [at |-> at, type |-> type, len |-> len, supported |-> TRUE]
TlsOldHello(at, len) == [at |-> at, type |-> 1, len |-> len, supported |-> FALSE]
TlsRecord(at, type, len, messages) == [at |-> at, type |-> type, len |-> len, messages |-> messages]
TlsServer == <<
  TlsRecord(0, "handshake", 6, <<TlsMessage(5, 2, 2)>>),
  TlsRecord(11, "handshake", 9, <<TlsMessage(16, 11, 1), TlsMessage(21, 14, 0)>>),
  TlsRecord(25, "other", 1, <<>>),
  TlsRecord(31, "handshake", 4, <<TlsMessage(36, 4, 0)>>),
  TlsRecord(40, "other", 12, <<>>)>>
TlsAlert == <<
  TlsRecord(0, "other", 2, <<>>),
  TlsRecord(7, "handshake", 15, <<TlsMessage(12, 1, 1), TlsMessage(17, 11, 0), TlsMessage(21, 16, 2)>>),
  TlsRecord(27, "other", 1, <<>>)>>
TlsOld == <<
  TlsRecord(0, "handshake", 9, <<TlsMessage(5, 0, 0), TlsOldHello(9, 1)>>),
  TlsRecord(14, "handshake", 6, <<TlsMessage(19, 1, 2)>>),
  TlsRecord(25, "other", 1, <<>>)>>
TlsAgain == <<
  TlsRecord(0, "handshake", 9, <<TlsMessage(5, 1, 1), TlsOldHello(10, 0)>>),
  TlsRecord(14, "handshake", 6, <<TlsMessage(19, 16, 2)>>),
  TlsRecord(25, "other", 1, <<>>)>>
MCTlsStreams == {TlsServer, TlsAlert, TlsOld, TlsAgain}
MCTlsCuts == {11, 14, 17, 20, 25, 31, 37, 46}
MCTlsMisread == {0, 3}

\* SSH: a plain, a group and an unfinished key exchange, and one in which another name is
\* found than the one agreed on, so that a message is expected where there is encrypted data.
SshPacket(at, len, code, names) == [at |-> at, len |-> len, code |-> code, names |-> names]
SshSide(from, to, pkts, length) ==
  [version |-> [from |-> from, to |-> to], packets |-> pkts, length |-> length]
Dh == [cli |-> SshSide(0, 4, <<SshPacket(4, 6, 20, <<"dh", "gex">>), SshPacket(10, 5, 30, <<>>),
                               SshPacket(15, 4, 21, <<>>)>>, 25),
       srv |-> SshSide(3, 6, <<SshPacket(6, 6, 20, <<"gex", "dh">>), SshPacket(12, 5, 31, <<>>),
                               SshPacket(17, 3, 21, <<>>)>>, 25)]
Gex == [cli |-> SshSide(0, 4, <<SshPacket(4, 4, 20, <<"gex">>), SshPacket(8, 3, 34, <<>>),
                                SshPacket(11, 4, 32, <<>>), SshPacket(15, 4, 21, <<>>)>>, 25),
        srv |-> SshSide(3, 6, <<SshPacket(6, 4, 20, <<"gex", "dh">>), SshPacket(10, 3, 31, <<>>),
                                SshPacket(13, 4, 33, <<>>), SshPacket(17, 3, 21, <<>>)>>, 25)]
Many == [cli |-> SshSide(0, 4, <<SshPacket(4, 4, 20, <<"gex">>), SshPacket(8, 3, 34, <<>>),
                                 SshPacket(11, 4, 34, <<>>), SshPacket(15, 4, 32, <<>>)>>, 19),
         srv |-> SshSide(3, 6, <<SshPacket(6, 4, 20, <<"gex">>)>>, 10)]
Unagreed == [cli |-> SshSide(0, 4, <<SshPacket(4, 6, 20, <<"rsa", "dh", "gex">>), SshPacket(10, 5, 30, <<>>),
                                     SshPacket(15, 4, 21, <<>>)>>, 25),
             srv |-> SshSide(3, 6, <<SshPacket(6, 6, 20, <<"gex", "dh">>), SshPacket(12, 5, 31, <<>>),
                                     SshPacket(17, 3, 21, <<>>)>>, 25)]
MCSshPairs == {Dh, Gex, Many, Unagreed}
MCSshCuts == {2, 4, 7, 11, 13, 17, 19, 20}
MCMethod == [a \in {"dh", "gex", "rsa"} |-> a]

\* IKE: two offers and answers to them, good and bad, with and without fragments.
Transform(type, id, attributes) == [type |-> type, id |-> id, attributes |-> attributes]
KeyLength(n) == {[type |-> "keylen", value |-> n]}
Proposal(num, transforms) == [num |-> num, protocol |-> "ike", transforms |-> transforms]
Sha == Transform("prf", "sha", {})
Aes128 == Transform("enc", "aes", KeyLength(128))
Aes256 == Transform("enc", "aes", KeyLength(256))
Des == Transform("enc", "des", {})
Offer == <<Proposal(1, {Aes256, Aes128, Sha}), Proposal(2, {Des, Sha})>>
Good == <<Proposal(1, {Aes128, Sha})>>
SecondOffer == <<Proposal(1, {Des, Sha})>>
Mixed == <<Proposal(2, {Aes128, Sha})>>
IkeMessage(side, len, fragment, encrypted, sa) ==
  [side |-> side, len |-> len, fragment |-> fragment, encrypted |-> encrypted, sa |-> sa]
MCIkeMessages == {
  IkeMessage("init", 60, 60, FALSE, Offer), IkeMessage("init", 50, 50, FALSE, SecondOffer),
  IkeMessage("resp", 50, 50, FALSE, Good), IkeMessage("resp", 45, 45, FALSE, SecondOffer),
  IkeMessage("resp", 48, 48, FALSE, Mixed), IkeMessage("init", 28, 28, FALSE, NoSA),
  IkeMessage("resp", 90, 48, TRUE, NoSA), IkeMessage("init", 70, 48, FALSE, NoSA),
  IkeMessage("resp", 40, 40, TRUE, NoSA)}
MCIkeForeign == {1, 40}
MCIkeMisread == {28}

\* User names: one in another at its start, its end and inside, one that overlaps
\* two others, and one with a special character in it.
MCAscii == <<"/", "a", "b">>
MCNameLists == {
  <<<<"a">>>>, <<<<"a", "b">>, <<"b">>>>, <<<<"a">>, <<"a", "b", "a">>>>,
  <<<<"b">>, <<"a", "b", "a">>, <<"b", "a", "b">>>>,
  <<<<"a", "b", "b", "b">>, <<"b">>, <<"b", "b">>, <<"a", "b", "b">>>>,
  <<<<"a", "b">>, <<"b", "/", "a">>>>}

Fewer == Cardinality(subnets) < MaxSubnets

\* A part that is not looked at stays in one of its initial states.
Init ==
  /\ part \in {"tcp", "report", "tls", "ssh", "ike", "labels", "names"}
  /\ TcpInit /\ ReportInit /\ IkeInit /\ TrieInit /\ MatchInit
  /\ TlsInit /\ (part # "tls" => tls_stream = TlsServer)
  /\ SshInit /\ (part # "ssh" => ssh_stream = Dh)

Report(A) == part = "report" /\ A /\ UNCHANGED <<part, tcpVars, tlsVars, sshVars, ikeVars, trieVars, matchVars>>

Next ==
  \/ part = "tcp" /\ TcpNext /\ UNCHANGED <<part, reportVars, tlsVars, sshVars, ikeVars, trieVars, matchVars>>
  \/ Report(ReportNext)
  \/ part = "tls" /\ TlsNext /\ UNCHANGED <<part, tcpVars, reportVars, sshVars, ikeVars, trieVars, matchVars>>
  \/ part = "ssh" /\ SshNext /\ UNCHANGED <<part, tcpVars, reportVars, tlsVars, ikeVars, trieVars, matchVars>>
  \/ part = "ike" /\ IkeNext /\ UNCHANGED <<part, tcpVars, reportVars, tlsVars, sshVars, trieVars, matchVars>>
  \/ /\ part = "labels" /\ Fewer /\ TrieNext
     /\ UNCHANGED <<part, tcpVars, reportVars, tlsVars, sshVars, ikeVars, matchVars>>
  \/ /\ part = "names" /\ MatchNext
     /\ UNCHANGED <<part, tcpVars, reportVars, tlsVars, sshVars, ikeVars, trieVars>>

Spec == Init /\ [][Next]_vars /\ WF_vars(Report(PrintStep))
=============================================================================
