----------------------------- MODULE MCPayments -----------------------------
(***************************************************************************)
(* Payments with two blocks that may be of one height and one above them,  *)
(* and two names of one address beside a name that has its own.            *)
(***************************************************************************)
EXTENDS Payments, TLC

CONSTANTS first, rival, next, key, address, other

MCBlocks == {first, rival, next}
MCHeightOf == [b \in MCBlocks |-> IF b = next THEN 2 ELSE 1]
MCWorkers == {key, address, other}
MCAddressOf == [w \in MCWorkers |-> IF w = other THEN "own" ELSE "shared"]
MCSymmetry ==
  Permutations(Runs) \union Permutations({first, rival}) \union Permutations({key, address})
=============================================================================
