----------------------------- MODULE MCFlowTable -----------------------------
(***************************************************************************)
(* Small instances of FlowTable.  The keys are a conversation in both      *)
(* directions, a flow that is its own reverse (ICMP between an address and *)
(* itself: sp = dp = 0), and an unrelated one; the near-match instance     *)
(* adds the reverse direction as a NAT rewrote it.                         *)
(***************************************************************************)
EXTENDS FlowTable, TLC

Tuple(sa, da, sp, dp) == [sa |-> sa, da |-> da, sp |-> sp, dp |-> dp, prot |-> 6]

ExactKeys ==
  {Tuple(1, 2, 3, 4), Tuple(2, 1, 4, 3), Tuple(1, 1, 0, 0), Tuple(1, 5, 3, 4)}
NearKeys == {Tuple(1, 2, 3, 4), Tuple(2, 1, 4, 3), Tuple(2, 9, 4, 3)}

MCMix(n) == n % 2
MCTimes == {1, 2, 4}
NearTimes == {1, 4}
NoExport == {}
SomeExport == {<<0, 0>>, <<1, 4>>}

Symmetry == Permutations(Rid)
=============================================================================
