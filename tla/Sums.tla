-------------------------------- MODULE Sums ---------------------------------
(***************************************************************************)
(* The sum of a sequence of numbers: what a counter that is added to item  *)
(* by item ought to be.                                                    *)
(***************************************************************************)
EXTENDS Integers, SequencesExt

\* base + a[1] + ... + a[Len(a)]
SumOf(base, a) == FoldLeft(LAMBDA sum, x : sum + x, base, a)
=============================================================================
