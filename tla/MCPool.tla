------------------------------- MODULE MCPool -------------------------------
(***************************************************************************)
(* Pool with one block of height 1, two of height 2 and one of height 3.   *)
(***************************************************************************)
EXTENDS Pool, TLC

CONSTANTS genesis, rivalA, rivalB, high

MCBlocks == {genesis, rivalA, rivalB, high}
MCHeightOf ==
  [b \in MCBlocks |->
     CASE b = genesis -> 1 [] b \in {rivalA, rivalB} -> 2 [] b = high -> 3]
MCHeights == 2 .. 4

\* Daemons, times and the two rivals are interchangeable.
MCSymmetry ==
  Permutations(Daemons) \union Permutations(Times) \union Permutations({rivalA, rivalB})
=============================================================================
