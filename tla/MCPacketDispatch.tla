-------------------------- MODULE MCPacketDispatch --------------------------
(***************************************************************************)
(* A small instance of PacketDispatch: packets of one TCP connection, two  *)
(* NetFlow v9 exporters that use the same template id, one of which comes  *)
(* back to a flow after another, has an empty template or Lengths that are *)
(* wrong, and an IPFIX exporter that reports the flow of its own messages. *)
(***************************************************************************)
EXTENDS PacketDispatch, TLC

Tuple(sa, da, sp, dp, prot) == [sa |-> sa, da |-> da, sp |-> sp, dp |-> dp, prot |-> prot]

A == Tuple(1, 2, 3, 4, 6)
E == Tuple(1, 2, 5, 9, 17)
MCKeys == {A, E, WithoutPorts(A), FragmentKey(A)}
MCMix(n) == n % 2
MCTimes == {1, 5}
MCExported == {<<1, 5>>}
MCCounts == {1}
MCLayout(exporter, id) == IF id = 300 THEN <<>> ELSE exporter
MCZeroSize == {<<>>}

MCPackets == [kind: {"tcp", "tcp_retrans", "tcp_malformed", "fragment"}, key: {A}]

Template(ids) == [type |-> "template", length |-> 8, ids |-> ids]
Other(length) == [type |-> "other", length |-> length]
Data(id, flows) == [type |-> "data", length |-> 8, id |-> id, flows |-> flows]
Datagram(version, source, left, sets) ==
  [key |-> E, version |-> version, source |-> source, left |-> left, sets |-> sets]

\* Whose templates and flows are read: an exporter that sends the data first,
\* one that reports its own flow.
MCSources ==
  {Datagram(9, 1, 16, <<Template(<<256>>), Data(256, <<A, A>>)>>),
   Datagram(9, 2, 16, <<Data(256, <<A>>), Template(<<256>>)>>),
   Datagram(10, 3, 8, <<Data(256, <<E>>)>>)}

\* How flows are counted: records of one flow next to each other and apart.
MCRepeats ==
  {Datagram(9, 1, 24, <<Template(<<256>>), Data(256, <<A, A, WithoutPorts(A)>>), Data(256, <<A>>)>>),
   Datagram(10, 3, 8, <<Data(256, <<A>>)>>)}

\* How the loop over the sets ends: templates known, unknown and empty, Lengths
\* that stop before the message does, go beyond it, or are 0.
MCLengths ==
  {Datagram(9, 1, 24, <<Template(<<256, 300>>), Other(8), Data(256, <<A, A>>)>>),
   Datagram(9, 1, 22, <<Other(2), Data(300, <<A>>), Data(256, <<A>>)>>),
   Datagram(9, 1, 8, <<Other(12)>>), Datagram(9, 1, 16, <<Other(0), Template(<<256>>)>>),
   Datagram(10, 3, 14, <<Data(256, <<A>>), Other(4)>>), Datagram(10, 3, 8, <<Other(12)>>)}
MCSorts == [sources |-> MCSources, repeats |-> MCRepeats, lengths |-> MCLengths]
MCMessages == UNION {MCSorts[sort] : sort \in DOMAIN MCSorts}
MCBehind == {Other(0), Other(9)}

\* The three sorts of datagrams arrive in different behaviours, malformed
\* packets and fragments with the second.
VARIABLE part

Arrives(d) ==
  datagram' = [key |-> d.key, version |-> d.version, source |-> d.source,
               left |-> d.left, sets |-> d.sets, ts |-> datagram'.ts]

MCInit == DispatchInit /\ part \in DOMAIN MCSorts
MCNext ==
  /\ DispatchNext
  /\ carrier = NULL /\ carrier' # NULL => \E d \in MCSorts[part] : Arrives(d)
  /\ part # "repeats" => \A r \in Rid : key'[r] \in {A, E, NULL}
  /\ UNCHANGED part
MCSpec == MCInit /\ [][MCNext]_<<dispatchVars, part>>

Symmetry == Permutations(Rid)
=============================================================================
