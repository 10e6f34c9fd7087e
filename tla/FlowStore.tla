------------------------------ MODULE FlowStore ------------------------------
(***************************************************************************)
(* What the flow table promises its users (the remarks in                  *)
(* joy/src/include/p2f.h): the traffic is reported as a set of flows, each *)
(* with a forward key and at most one reverse key; no key is in two flows  *)
(* at a time; a flow is reported, or dropped, as a whole.                  *)
(***************************************************************************)
CONSTANTS
  Key,              \* 5-tuples
  NULL,
  TwinOf(_, _),     \* TwinOf(a, b): a flow with key a may be the reverse of b
  Stitch,           \* bidirectional flows are tracked
  AlwaysStitch      \* a flow that can be stitched always is

VARIABLE flows

Init == flows = {}

Known(k) == \E f \in flows : k \in {f.fwd, f.rev}

Joinable(S, k) == {f \in S : Stitch /\ f.rev = NULL /\ TwinOf(k, f.fwd)}

\* S2 is S with the key k added to it, as a reverse key or as a new flow.
Added(S, k, S2) ==
  \/ \E f \in Joinable(S, k) : S2 = (S \ {f}) \cup {[f EXCEPT !.rev = k]}
  \/ /\ AlwaysStitch => Joinable(S, k) = {}
     /\ S2 = S \cup {[fwd |-> k, rev |-> NULL]}

Observe(k) == ~Known(k) /\ Added(flows, k, flows')

Report(f) == flows' = flows \ {f}

ReportAndReopen(f) == Added(flows \ {f}, f.fwd, flows')

DropAll == flows' = {}

Next ==
  \/ \E k \in Key : Observe(k)
  \/ \E f \in flows : Report(f) \/ ReportAndReopen(f)
  \/ DropAll

Spec == Init /\ [][Next]_flows
=============================================================================
