---------------------------- MODULE MCFlowReport ----------------------------
(***************************************************************************)
(* A small instance of FlowReport: up to four packets with data, more than *)
(* num_pkts of them in one direction.                                      *)
(***************************************************************************)
EXTENDS FlowReport

MCTimes == {1, 3}
=============================================================================
