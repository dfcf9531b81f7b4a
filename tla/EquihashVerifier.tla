--------------------------- MODULE EquihashVerifier ---------------------------
(***************************************************************************)
(* The puzzle that miners solve, and the pool's verifier of solutions       *)
(* (equihashverify, equi210.cpp), at any number of rounds and size of       *)
(* digits.                                                                 *)
(*                                                                         *)
(* A hash is the sequence of its digits; one more stands for the bits that  *)
(* fill up its last byte, which the solvers keep and no one else looks at.  *)
(* (The last word also holds the end of the last digit but one.)           *)
(***************************************************************************)
EXTENDS Naturals, Sequences, FiniteSets, Functions

CONSTANTS
  K,          \* rounds, an odd number
  RestSize,   \* values of the rest bits of a digit
  NBUCKETS,   \* values of its bucket bits
  NHASHES,    \* number of hashes
  XorDigits   \* the xor of digits

Buckets == 0 .. NBUCKETS - 1
Digits  == 0 .. RestSize * NBUCKETS - 1
Leaves  == 0 .. NHASHES - 1
Hashes  == [1 .. K + 2 -> Digits]
Tables  == [Leaves -> Hashes]

\* Of the xor only this is used: its arguments can be exchanged, and it is zero when
\* they are the same digit, and only then.
ASSUME PuzzleAssumption ==
  /\ K \in Nat /\ K % 2 = 1
  /\ RestSize \in Nat \ {0} /\ NBUCKETS \in Nat \ {0}
  /\ NHASHES \in Nat
  /\ XorDigits \in [Digits -> [Digits -> Digits]]
  /\ \A d, e \in Digits : /\ XorDigits[d][e] = XorDigits[e][d]
                          /\ XorDigits[d][e] = 0 <=> d = e

VARIABLE hashes   \* of the header and nonce being solved

XorHash(g, h) == [i \in DOMAIN g |-> XorDigits[g[i]][h[i]]]

Bucket(d) == d \div RestSize
Rest(d)   == d % RestSize

----------------------------------------------------------------------------
(* The pool's verifier.                                                    *)

\* 1 << K indices make a solution.
ProofSize[r \in 0 .. K] == IF r = 0 THEN 1 ELSE 2 * ProofSize[r - 1]

\* IndicesBefore: memcmp of the lists.
IndicesBefore(a, c) ==
  \E i \in DOMAIN a : a[i] < c[i] /\ \A j \in 1 .. i - 1 : a[j] = c[j]

\* HasCollision, IndicesBefore, DistinctIndices
PairIsValid(x, y) ==
  /\ Head(x.hash) = Head(y.hash)
  /\ ~IndicesBefore(y.indices, x.indices)
  /\ Range(x.indices) \intersect Range(y.indices) = {}

Merge(x, y) == [hash |-> Tail(XorHash(x.hash, y.hash)), indices |-> x.indices \o y.indices]

\* One pass of the loop: every pair is valid and merged, or nothing is left.
Pass(rows) ==
  LET n == Len(rows) \div 2
  IN IF \A i \in 1 .. n : PairIsValid(rows[2 * i - 1], rows[2 * i])
       THEN [i \in 1 .. n |-> Merge(rows[2 * i - 1], rows[2 * i])]
       ELSE <<>>

\* The digits of each index's hash, without the filling.
FirstRows(p) ==
  [i \in 1 .. Len(p) |-> [hash |-> SubSeq(hashes[p[i]], 1, K + 1), indices |-> <<p[i]>>]]

\* IsValidSolution: the rows are merged until one is left, whose last digit must be
\* zero.
IsValidSolution(p) ==
  /\ Len(p) = ProofSize[K]
  /\ LET X[r \in 0 .. K] == IF r = 0 THEN FirstRows(p) ELSE Pass(X[r - 1])
     IN X[K] # <<>> /\ X[K][1].hash = <<0>>

----------------------------------------------------------------------------
(* The puzzle itself.                                                      *)

\* equal: what solvers drop for a repeat.  The last word is the last digit and the
\* filling.
TakenForRepeat(xor) == xor[K + 1] = 0 /\ xor[K + 2] = 0

\* Trees over distinct indices whose hashes xor to r zero digits at height r,
\* the smaller first index on the left.
Zeros(h, r) == \A i \in 1 .. r : h[i] = 0

Trees[r \in 0 .. K] ==
  IF r = 0 THEN {[indices |-> <<i>>, hash |-> hashes[i], repeat |-> FALSE] : i \in Leaves}
  ELSE {[indices |-> p[1].indices \o p[2].indices,
         hash |-> XorHash(p[1].hash, p[2].hash),
         repeat |-> \/ p[1].repeat \/ p[2].repeat
                    \/ r < K /\ TakenForRepeat(XorHash(p[1].hash, p[2].hash))] :
        p \in {q \in Trees[r - 1] \X Trees[r - 1] :
                 /\ q[1].indices[1] < q[2].indices[1]
                 /\ Zeros(XorHash(q[1].hash, q[2].hash), r)
                 /\ Range(q[1].indices) \intersect Range(q[2].indices) = {}}}

Solutions == {t \in Trees[K] : t.hash[K + 1] = 0}
=============================================================================
