-------------------------------- MODULE Sums --------------------------------
(* The sum of a function's values over a finite set. *)
EXTENDS Integers, FiniteSets, FiniteSetsExt

SumOn(f, S) == MapThenSumSet(LAMBDA x : f[x], S)
=============================================================================
