------------------------------ MODULE Ascending ------------------------------
(***************************************************************************)
(* A finite set of indexes as the sequence in which a loop over an array   *)
(* meets them.                                                             *)
(***************************************************************************)
EXTENDS Integers, FiniteSets

Ascending(I) == [n \in 1 .. Cardinality(I) |->
  CHOOSE i \in I : Cardinality({j \in I : j < i}) = n - 1]
=============================================================================
