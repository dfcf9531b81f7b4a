--------------------------- MODULE EquihashProofs ---------------------------
(***************************************************************************)
(* Both solvers are correct for every number of rounds, size of digits,    *)
(* size of buckets and table of hashes: what they report is what the pool's*)
(* verifier accepts, and they find every solution that there is room for.  *)
(*                                                                         *)
(* CPU: AcceptOK relates each slot of the heap to the row that the         *)
(* verifier's loop would make of the slot's indices; CompleteOK relates    *)
(* each tree of the puzzle to a slot of the heap.  CUDA: SlotsOK and       *)
(* CudaCompleteOK do the same for the slots of the solve that runs, among  *)
(* those that older solves left.                                           *)
(***************************************************************************)
EXTENDS EquihashSolvers, SumTheorems, FiniteSetTheorems, SequenceTheorems, TLAPS

----------------------------------------------------------------------------
(* Numbers and digits.                                                     *)

\* Every set of numbers that has a member has a smallest one.
LEMMA Smallest ==
  ASSUME NEW B, B \subseteq Nat, B # {}
  PROVE  \E m \in B : \A k \in Nat : k < m => k \notin B
<1>1. PICK n \in B : TRUE  OBVIOUS
<1>2. IsWellFoundedOn(OpToRel(<, Nat), Nat)  BY NatLessThanWellFounded
<1>3. PICK m \in B : \A y \in B : ~(<<y, m>> \in OpToRel(<, Nat))
  BY <1>2, WFMin
<1>4. ASSUME NEW k \in Nat, k < m PROVE k \notin B
  BY <1>3, <1>4 DEF OpToRel
<1> QED BY <1>4

\* A tree of a round has twice as many leaves as one of the round before.
LEMMA SizeFacts ==
  /\ ProofSize[0] = 1
  /\ \A r \in 1 .. K : ProofSize[r] = 2 * ProofSize[r - 1]
  /\ \A r \in 0 .. K : ProofSize[r] \in Nat \ {0}
<1> DEFINE Def(f, n) == f = [r \in 0 .. n |-> IF r = 0 THEN 1 ELSE 2 * f[r - 1]]
           B == {n \in Nat : ~\E f : Def(f, n)}
<1>1. B = {}
  <2> SUFFICES ASSUME B # {} PROVE FALSE
    OBVIOUS
  <2>1. PICK n \in B : \A k \in Nat : k < n => k \notin B
    <3>1. B \subseteq Nat  OBVIOUS
    <3> HIDE DEF B
    <3> QED BY <3>1, Smallest
  <2>2. n # 0
    <3>1. Def([r \in 0 .. 0 |-> 1], 0)  OBVIOUS
    <3> QED BY <2>1, <3>1
  <2>3. PICK f : Def(f, n - 1)  BY <2>1, <2>2
  <2> DEFINE g == [r \in 0 .. n |-> IF r = 0 THEN 1 ELSE 2 * f[r - 1]]
  <2>4. ASSUME NEW r \in 1 .. n PROVE f[r - 1] = g[r - 1]
    <3> HIDE DEF Def
    <3>1. r - 1 \in 0 .. n - 1 /\ r - 1 \in 0 .. n  BY <2>1, <2>4
    <3>2. f[r - 1] = IF r - 1 = 0 THEN 1 ELSE 2 * f[r - 1 - 1]
      BY <2>3, <3>1 DEF Def
    <3> QED BY <3>1, <3>2
  <2>5. g = [r \in 0 .. n |-> IF r = 0 THEN 1 ELSE 2 * g[r - 1]]
    <3>1. ASSUME NEW r \in 0 .. n
          PROVE  (IF r = 0 THEN 1 ELSE 2 * f[r - 1]) = IF r = 0 THEN 1 ELSE 2 * g[r - 1]
      <4>1. CASE r = 0  BY <4>1
      <4>2. CASE r # 0
        <5> HIDE DEF g
        <5> QED BY <2>1, <2>4, <3>1, <4>2
      <4> QED BY <4>1, <4>2
    <3> QED BY <3>1, Zenon
  <2> QED BY <2>1, <2>5
<1>2. K \in Nat  BY PuzzleAssumption
<1>3. Def(ProofSize, K)
  <2>1. \E f : Def(f, K)  BY <1>1, <1>2
  <2>2. ProofSize = CHOOSE f : Def(f, K)  BY DEF ProofSize
  <2> HIDE DEF Def
  <2> QED BY <2>1, <2>2
<1>4. ProofSize[0] = 1 /\ \A r \in 1 .. K : ProofSize[r] = 2 * ProofSize[r - 1]
  BY <1>2, <1>3
<1> DEFINE C == {r \in 0 .. K : ProofSize[r] \notin Nat \ {0}}
<1>5. C = {}
  <2> SUFFICES ASSUME C # {} PROVE FALSE
    OBVIOUS
  <2>1. PICK n \in C : \A k \in Nat : k < n => k \notin C
    <3>1. C \subseteq Nat  BY <1>2
    <3> HIDE DEF C
    <3> QED BY <3>1, Smallest
  <2>2. n # 0  BY <1>4
  <2>3. n - 1 \in 0 .. K /\ n - 1 < n /\ n - 1 \in Nat  BY <1>2, <2>1, <2>2
  <2>4. ProofSize[n - 1] \in Nat \ {0}  BY <2>1, <2>3
  <2>5. ProofSize[n] = 2 * ProofSize[n - 1]  BY <1>4, <2>1, <2>2, <2>3
  <2> QED BY <2>1, <2>4, <2>5
<1> QED BY <1>4, <1>5

\* A digit is its bucket and its rest bits.
LEMMA DigitFacts ==
  /\ \A d \in Digits : Bucket(d) \in Buckets
  /\ \A d, e \in Digits : Bucket(d) = Bucket(e) /\ Rest(d) = Rest(e) => d = e
  /\ 0 \in Digits
<1>1. RestSize \in Nat \ {0} /\ NBUCKETS \in Nat \ {0}  BY PuzzleAssumption
<1>2. \A a \in Nat : a = RestSize * (a \div RestSize) + (a % RestSize)  BY <1>1
<1>3. \A a \in Nat : a < RestSize * NBUCKETS => a \div RestSize \in 0 .. NBUCKETS - 1
  BY <1>1
<1>4. Digits \subseteq Nat /\ \A d \in Digits : d < RestSize * NBUCKETS
  BY <1>1 DEF Digits
<1>5. RestSize * NBUCKETS >= 1  BY <1>1
<1>6. 0 \in Digits  BY <1>1, <1>5 DEF Digits
<1> QED BY <1>2, <1>3, <1>4, <1>6 DEF Bucket, Rest, Buckets

\* The xor of hashes is a hash, whatever their order; its zeros are where they agree.
LEMMA XorFacts ==
  ASSUME NEW g \in Hashes, NEW h \in Hashes
  PROVE  /\ XorHash(g, h) \in Hashes
         /\ XorHash(g, h) = XorHash(h, g)
         /\ \A i \in 1 .. K + 2 : XorHash(g, h)[i] = 0 <=> g[i] = h[i]
<1> DEFINE X(d, e) == XorDigits[d][e]
<1>1. DOMAIN g = 1 .. K + 2 /\ DOMAIN h = 1 .. K + 2  BY DEF Hashes
<1>2. \A i \in 1 .. K + 2 : g[i] \in Digits /\ h[i] \in Digits  BY DEF Hashes
<1>3. \A d, e \in Digits : X(d, e) \in Digits
  BY PuzzleAssumption
<1>4. \A d, e \in Digits : X(d, e) = X(e, d)
  BY PuzzleAssumption
<1>5. \A d, e \in Digits : X(d, e) = 0 <=> d = e
  BY PuzzleAssumption
<1>6. XorHash(g, h) = [i \in 1 .. K + 2 |-> X(g[i], h[i])]
  BY <1>1 DEF XorHash
<1>7. XorHash(h, g) = [i \in 1 .. K + 2 |-> X(h[i], g[i])]
  BY <1>1 DEF XorHash
<1> HIDE DEF X
<1>8. \A i \in 1 .. K + 2 : X(g[i], h[i]) \in Digits  BY <1>2, <1>3
<1>9. \A i \in 1 .. K + 2 : X(g[i], h[i]) = X(h[i], g[i])  BY <1>2, <1>4
<1>10. \A i \in 1 .. K + 2 : X(g[i], h[i]) = 0 <=> g[i] = h[i]  BY <1>2, <1>5
<1>11. XorHash(g, h) \in Hashes  BY <1>6, <1>8 DEF Hashes
<1>12. XorHash(g, h) = XorHash(h, g)  BY <1>6, <1>7, <1>9
<1> QED BY <1>6, <1>10, <1>11, <1>12

----------------------------------------------------------------------------
(* Lists of indices.                                                       *)

\* Two lists one after the other: the ranges are joined, and an index that
\* occurs twice in either, or in both, occurs twice in the whole.
LEMMA Concatenation ==
  ASSUME NEW S, NEW n \in Nat, NEW a \in Seq(S), NEW c \in Seq(S),
         Len(a) = n, Len(c) = n
  PROVE  /\ a \o c \in Seq(S) /\ Len(a \o c) = 2 * n
         /\ \A i \in 1 .. 2 * n : (a \o c)[i] = IF i <= n THEN a[i] ELSE c[i - n]
         /\ Range(a \o c) = Range(a) \union Range(c)
         /\ IsInjective(a \o c) <=>
              IsInjective(a) /\ IsInjective(c) /\ Range(a) \intersect Range(c) = {}
<1> DEFINE l == a \o c
<1>1. /\ l \in Seq(S) /\ Len(l) = 2 * n
      /\ \A i \in 1 .. 2 * n : l[i] = IF i <= n THEN a[i] ELSE c[i - n]
  BY ConcatProperties
<1>2. DOMAIN a = 1 .. n /\ DOMAIN c = 1 .. n /\ DOMAIN l = 1 .. 2 * n
  BY <1>1
<1> HIDE DEF l
<1>3. \A i \in 1 .. n : i \in 1 .. 2 * n /\ l[i] = a[i]  BY <1>1
<1>4. \A i \in 1 .. n : i + n \in 1 .. 2 * n /\ l[i + n] = c[i]  BY <1>1
<1>5. \A i \in 1 .. 2 * n : i \in 1 .. n \/ \E j \in 1 .. n : i = j + n
  <2> TAKE i \in 1 .. 2 * n
  <2>1. CASE i <= n  BY <2>1
  <2>2. CASE i > n
    <3>1. i - n \in 1 .. n /\ i = (i - n) + n  BY <2>2
    <3> QED BY <3>1
  <2> QED BY <2>1, <2>2
<1>6. Range(l) = Range(a) \union Range(c)
  <2>1. ASSUME NEW i \in 1 .. 2 * n PROVE l[i] \in Range(a) \union Range(c)
    BY <1>2, <1>3, <1>4, <1>5 DEF Range
  <2>2. ASSUME NEW i \in 1 .. n PROVE a[i] \in Range(l) /\ c[i] \in Range(l)
    BY <1>2, <1>3, <1>4 DEF Range
  <2> QED BY <1>2, <2>1, <2>2 DEF Range
<1>7. ASSUME IsInjective(l)
      PROVE  IsInjective(a) /\ IsInjective(c) /\ Range(a) \intersect Range(c) = {}
  <2>1. IsInjective(a)  BY <1>2, <1>3, <1>7 DEF IsInjective
  <2>2. IsInjective(c)
    <3> SUFFICES ASSUME NEW i \in 1 .. n, NEW j \in 1 .. n, c[i] = c[j] PROVE i = j
      BY <1>2 DEF IsInjective
    <3>1. i + n = j + n  BY <1>2, <1>4, <1>7 DEF IsInjective
    <3> QED BY <3>1
  <2>3. Range(a) \intersect Range(c) = {}
    <3> SUFFICES ASSUME NEW i \in 1 .. n, NEW j \in 1 .. n, a[i] = c[j] PROVE FALSE
      BY <1>2 DEF Range
    <3>1. i = j + n  BY <1>2, <1>3, <1>4, <1>7 DEF IsInjective
    <3> QED BY <3>1
  <2> QED BY <2>1, <2>2, <2>3
<1>8. ASSUME IsInjective(a), IsInjective(c), Range(a) \intersect Range(c) = {}
      PROVE  IsInjective(l)
  <2> SUFFICES ASSUME NEW i \in 1 .. 2 * n, NEW j \in 1 .. 2 * n, l[i] = l[j] PROVE i = j
    BY <1>2 DEF IsInjective
  <2>1. \A k, m \in 1 .. n : a[k] # c[m]  BY <1>2, <1>8 DEF Range
  <2>2. CASE i \in 1 .. n /\ j \in 1 .. n  BY <1>2, <1>3, <1>8, <2>2 DEF IsInjective
  <2>3. CASE i \in 1 .. n /\ \E k \in 1 .. n : j = k + n  BY <1>3, <1>4, <2>1, <2>3
  <2>4. CASE j \in 1 .. n /\ \E k \in 1 .. n : i = k + n  BY <1>3, <1>4, <2>1, <2>4
  <2>5. CASE (\E k \in 1 .. n : i = k + n) /\ \E k \in 1 .. n : j = k + n
    <3>1. PICK k \in 1 .. n : i = k + n  BY <2>5
    <3>2. PICK m \in 1 .. n : j = m + n  BY <2>5
    <3>3. c[k] = c[m]  BY <1>4, <3>1, <3>2
    <3>4. k = m  BY <1>2, <1>8, <3>3 DEF IsInjective
    <3> QED BY <3>1, <3>2, <3>4
  <2> QED BY <1>5, <2>2, <2>3, <2>4, <2>5
<1> QED BY <1>1, <1>6, <1>7, <1>8 DEF l

\* orderindices gives one list after the other, the smaller first index first.
LEMMA OrderedFacts ==
  ASSUME NEW n \in Nat \ {0}, NEW a \in Seq(Leaves), NEW c \in Seq(Leaves),
         Len(a) = n, Len(c) = n
  PROVE  /\ Ordered(a, c) \in Seq(Leaves) /\ Len(Ordered(a, c)) = 2 * n
         /\ Range(Ordered(a, c)) = Range(a) \union Range(c)
         /\ IsInjective(Ordered(a, c)) =>
              /\ IsInjective(a) /\ IsInjective(c)
              /\ Range(a) \intersect Range(c) = {}
         /\ a[1] \in Leaves /\ c[1] \in Leaves
         /\ a[1] \in Range(a) /\ c[1] \in Range(c)
<1>1. a[1] \in Leaves /\ c[1] \in Leaves /\ a[1] \in Range(a) /\ c[1] \in Range(c)
  <2>1. 1 \in 1 .. Len(a) /\ 1 \in 1 .. Len(c) /\ DOMAIN a = 1 .. Len(a) /\ DOMAIN c = 1 .. Len(c)
    OBVIOUS
  <2> QED BY <2>1, ElementOfSeq DEF Range
<1>2. CASE a[1] > c[1]  BY <1>1, <1>2, Concatenation DEF Ordered
<1>3. CASE ~(a[1] > c[1])  BY <1>1, <1>3, Concatenation DEF Ordered
<1> QED BY <1>1, <1>2, <1>3


----------------------------------------------------------------------------
(* The order of nodes.                                                     *)

\* Tree nodes, whatever they stand for.
Nodes == Nat \X Nat \X Nat

\* InOrder lists each node of a finite set once.
LEMMA InOrderFacts ==
  ASSUME NEW S, S \subseteq Nodes, IsFiniteSet(S)
  PROVE  /\ Cardinality(S) \in Nat
         /\ InOrder(S) = [n \in 1 .. Cardinality(S) |-> InOrder(S)[n]]
         /\ \A n \in 1 .. Cardinality(S) : InOrder(S)[n] \in S
         /\ \A t \in S : \E n \in 1 .. Cardinality(S) : InOrder(S)[n] = t
<1> DEFINE N == Cardinality(S)
           Below(t) == {u \in S : Before(u, t)}
           Rank(t) == Cardinality(Below(t))
<1>1. N \in Nat  BY FS_CardinalityType
<1>2. ASSUME NEW t \in S
      PROVE  IsFiniteSet(Below(t)) /\ Rank(t) \in Nat /\ Rank(t) < N
  <2>1. t \notin Below(t)  BY <1>2 DEF Before, Nodes
  <2>2. Below(t) \in SUBSET S /\ Below(t) # S  BY <1>2, <2>1
  <2> HIDE DEF Below
  <2>3. IsFiniteSet(Below(t)) /\ Rank(t) <= N /\ Rank(t) # N  BY <2>2, FS_Subset
  <2>4. Rank(t) \in Nat  BY <2>3, FS_CardinalityType
  <2> QED BY <1>1, <2>3, <2>4
<1>3. ASSUME NEW t \in S, NEW u \in S, Before(t, u)
      PROVE  Rank(t) < Rank(u)
  <2>1. Below(t) \subseteq Below(u)
    <3> SUFFICES ASSUME NEW v \in S, Before(v, t) PROVE Before(v, u)
      OBVIOUS
    <3>1. v \in Nodes /\ t \in Nodes /\ u \in Nodes  OBVIOUS
    <3> QED BY <3>1, <1>3 DEF Before, Nodes
  <2>2. t \in Below(u) /\ t \notin Below(t)
    BY <1>3 DEF Before, Nodes
  <2>3. Below(t) \in SUBSET Below(u) /\ Below(t) # Below(u)  BY <2>1, <2>2
  <2>4. IsFiniteSet(Below(u)) /\ Rank(t) \in Nat /\ Rank(u) \in Nat  BY <1>2, <1>3
  <2> HIDE DEF Below
  <2>5. Rank(t) <= Rank(u) /\ Rank(t) # Rank(u)  BY <2>3, <2>4, FS_Subset
  <2> QED BY <2>4, <2>5
<1>4. ASSUME NEW t \in S, NEW u \in S, Rank(t) = Rank(u) PROVE t = u
  <2> SUFFICES ASSUME t # u PROVE FALSE
    OBVIOUS
  <2>1. t \in Nodes /\ u \in Nodes  OBVIOUS
  <2>2. Before(t, u) \/ Before(u, t)
    <3>1. t = <<t[1], t[2], t[3]>> /\ u = <<u[1], u[2], u[3]>>  BY <2>1 DEF Nodes
    <3>2. t[1] # u[1] \/ t[2] # u[2] \/ t[3] # u[3]  BY <3>1
    <3>3. t[1] \in Nat /\ t[2] \in Nat /\ t[3] \in Nat /\ u[1] \in Nat /\ u[2] \in Nat /\ u[3] \in Nat
      BY <2>1 DEF Nodes
    <3> QED BY <3>2, <3>3 DEF Before
  <2>3. Rank(t) \in Nat /\ Rank(u) \in Nat  BY <1>2
  <2> HIDE DEF Rank
  <2> QED BY <1>3, <1>4, <2>2, <2>3
<1>5. \A t \in S : Rank(t) \in Nat /\ Rank(t) < N
  <2> HIDE DEF Rank, N
  <2> QED BY <1>2
<1> HIDE DEF Rank, N
<1> DEFINE f == [t \in S |-> Rank(t) + 1]
<1>6. f \in Injection(S, 1 .. N)
  <2>1. \A t \in S : Rank(t) + 1 \in 1 .. N  BY <1>1, <1>5
  <2>2. f \in [S -> 1 .. N]  BY <2>1
  <2>3. \A t, u \in S : f[t] = f[u] => t = u  BY <1>4, <1>5
  <2>4. IsInjective(f)  BY <2>3 DEF IsInjective
  <2> QED BY <2>2, <2>4 DEF Injection
<1>7. f \in Surjection(S, 1 .. N)
  <2>1. IsFiniteSet(1 .. N) /\ Cardinality(1 .. N) = N  BY <1>1, FS_Interval
  <2> HIDE DEF f
  <2> QED BY <1>6, <2>1, FS_Injection DEF N
<1>8. \A n \in 1 .. N : \E t \in S : Rank(t) = n - 1
  <2> TAKE n \in 1 .. N
  <2>1. PICK t \in S : f[t] = n  BY <1>7 DEF Surjection
  <2>2. Rank(t) + 1 = n /\ Rank(t) \in Nat  BY <1>5, <2>1
  <2> QED BY <2>2
<1>9. InOrder(S) = [n \in 1 .. N |-> CHOOSE t \in S : Rank(t) = n - 1]
  BY DEF InOrder, Rank, N
<1>10. \A n \in 1 .. N : InOrder(S)[n] \in S /\ Rank(InOrder(S)[n]) = n - 1
  BY <1>8, <1>9
<1>11. \A t \in S : \E n \in 1 .. N : InOrder(S)[n] = t
  <2> TAKE t \in S
  <2>1. Rank(t) \in Nat /\ Rank(t) + 1 \in 1 .. N  BY <1>1, <1>5
  <2>2. Rank(InOrder(S)[Rank(t) + 1]) = Rank(t)  BY <1>10, <2>1
  <2>3. InOrder(S)[Rank(t) + 1] \in S  BY <1>10, <2>1
  <2> QED BY <1>4, <2>1, <2>2, <2>3
<1>12. InOrder(S) = [n \in 1 .. N |-> InOrder(S)[n]]  BY <1>9
<1> QED BY <1>1, <1>10, <1>11, <1>12 DEF N


----------------------------------------------------------------------------
(* Recursive functions.                                                    *)

\* The pair of two trees.
TreeOf(r, p, q) ==
  [indices |-> p.indices \o q.indices,
   hash |-> XorHash(p.hash, q.hash),
   repeat |-> \/ p.repeat \/ q.repeat
              \/ r < K /\ TakenForRepeat(XorHash(p.hash, q.hash))]

\* The lists of a round are made of those of the round before.
IndicesOver(r, nodes, t, below) ==
  LET a == below[t[1]][t[2]]
      c == below[t[1]][t[3]]
  IN [indices |-> Ordered(a.indices, c.indices),
      dup |-> \/ r % 2 = 0 /\ ~ProbDisjoint(nodes[t[1]][t[2]], nodes[t[1]][t[3]])
              \/ a.dup \/ c.dup \/ a.indices[1] = c.indices[1]]

\* The lists of a level over those below it.
ListsOver(r, nodes, level, below) ==
  [b \in Buckets |-> [s \in DOMAIN level[b] |-> IndicesOver(r, nodes, level[b][s], below)]]

\* The list of one node of a level.
LEMMA ListsOverAt ==
  ASSUME NEW r, NEW nodes, NEW level, NEW below, NEW b \in Buckets, NEW s \in DOMAIN level[b]
  PROVE  ListsOver(r, nodes, level, below)[b][s] = IndicesOver(r, nodes, level[b][s], below)
BY DEF ListsOver

\* listindices1 reads the nodes of the round before.
LEMMA ListIndicesOver ==
  ASSUME NEW r, NEW t, NEW below
  PROVE  ListIndices(r, t, below) = IndicesOver(r, tree[r - 1], t, below)
BY DEF ListIndices, IndicesOver

\* The lists of the leaves, and those of each round from the round before.
ListsByRound ==
  /\ Lists[0] = [b \in Buckets |-> [s \in DOMAIN tree[0][b] |->
                  [indices |-> <<tree[0][b][s][1]>>, dup |-> FALSE]]]
  /\ \A r \in 1 .. K - 1 :
       Lists[r] = ListsOver(r, tree[r - 1], tree[r], Lists[r - 1])

\* The recursive definition of the lists means what it says.
LEMMA ListsFacts == ListsByRound
<1> DEFINE Level(r, below) ==
             [b \in Buckets |-> [s \in DOMAIN tree[r][b] |->
                IF r = 0 THEN [indices |-> <<tree[r][b][s][1]>>, dup |-> FALSE]
                ELSE IndicesOver(r, tree[r - 1], tree[r][b][s], below)]]
           Def(f, n) == f = [r \in 0 .. n |-> Level(r, f[r - 1])]
           B == {n \in Nat : ~\E f : Def(f, n)}
<1>1. K - 1 \in Nat
  BY PuzzleAssumption
<1>2. Lists = CHOOSE f : Def(f, K - 1)
  BY DEF Lists, ListIndices, IndicesOver
<1>3. Level(0, TRUE) = Level(0, FALSE)  OBVIOUS
<1>4. \A x, y : Level(0, x) = Level(0, y)  OBVIOUS
<1> HIDE DEF Level
<1>5. B = {}
  <2> SUFFICES ASSUME B # {} PROVE FALSE
    OBVIOUS
  <2>1. PICK n \in B : \A k \in Nat : k < n => k \notin B
    <3>1. B \subseteq Nat  OBVIOUS
    <3> HIDE DEF B
    <3> QED BY <3>1, Smallest
  <2>2. n # 0
    <3> DEFINE f == [r \in 0 .. 0 |-> Level(0, TRUE)]
    <3>1. ASSUME NEW r \in 0 .. 0 PROVE Level(0, TRUE) = Level(r, f[r - 1])
      <4>1. r = 0  OBVIOUS
      <4> HIDE DEF f
      <4> QED BY <1>4, <4>1
    <3>2. f = [r \in 0 .. 0 |-> Level(r, f[r - 1])]
      BY <3>1, Zenon
    <3>3. Def(f, 0)  BY <3>2
    <3> HIDE DEF Def, f
    <3> QED BY <2>1, <3>3
  <2>3. PICK f : Def(f, n - 1)  BY <2>1, <2>2
  <2> DEFINE g == [r \in 0 .. n |-> Level(r, f[r - 1])]
  <2>4. ASSUME NEW r \in 1 .. n PROVE f[r - 1] = g[r - 1]
    <3> HIDE DEF Def
    <3>1. r - 1 \in 0 .. n - 1 /\ r - 1 \in 0 .. n  BY <2>1, <2>4
    <3>2. f[r - 1] = Level(r - 1, f[r - 1 - 1])  BY <2>3, <3>1 DEF Def
    <3> QED BY <3>1, <3>2
  <2>5. ASSUME NEW r \in 0 .. n PROVE Level(r, f[r - 1]) = Level(r, g[r - 1])
    <3> HIDE DEF g, Def
    <3>1. CASE r = 0  BY <1>4, <3>1
    <3>2. CASE r # 0
      <4>1. r \in 1 .. n  BY <2>1, <3>2
      <4> QED BY <2>4, <4>1
    <3> QED BY <3>1, <3>2
  <2>6. g = [r \in 0 .. n |-> Level(r, g[r - 1])]
    BY <2>5, Zenon
  <2>7. Def(g, n)  BY <2>6
  <2> HIDE DEF Def, g
  <2> QED BY <2>1, <2>7
<1>6. \E f : Def(f, K - 1)
  <2> HIDE DEF Def
  <2> QED BY <1>1, <1>5
<1>7. Def(Lists, K - 1)
  <2> HIDE DEF Def
  <2> QED BY <1>2, <1>6
<1>8. \A r \in 0 .. K - 1 : Lists[r] = Level(r, Lists[r - 1])  BY <1>7
<1>9. \A r \in 1 .. K - 1 : Lists[r] = ListsOver(r, tree[r - 1], tree[r], Lists[r - 1])
  <2> TAKE r \in 1 .. K - 1
  <2>1. r \in 0 .. K - 1 /\ r # 0  BY <1>1
  <2> DEFINE below == Lists[r - 1]
  <2> HIDE DEF below
  <2>2. Level(r, below) = ListsOver(r, tree[r - 1], tree[r], below)
    BY <2>1, Zenon DEF Level, ListsOver
  <2> QED BY <1>8, <2>1, <2>2 DEF below
<1>10. Lists[0] = Level(0, Lists[0 - 1])
  <2>1. 0 \in 0 .. K - 1  BY <1>1
  <2> QED BY <1>8, <2>1
<1>11. \A below : Level(0, below) = [b \in Buckets |-> [s \in DOMAIN tree[0][b] |->
                                      [indices |-> <<tree[0][b][s][1]>>, dup |-> FALSE]]]
  BY Zenon DEF Level
<1> QED BY <1>9, <1>10, <1>11 DEF ListsByRound

\* The trees of a height are pairs of those of the height below.
LEMMA TreesFacts ==
  /\ Trees[0] = {[indices |-> <<i>>, hash |-> hashes[i], repeat |-> FALSE] : i \in Leaves}
  /\ \A r \in 1 .. K : \A t :
       t \in Trees[r] <=>
         \E p, q \in Trees[r - 1] :
           /\ p.indices[1] < q.indices[1]
           /\ Zeros(XorHash(p.hash, q.hash), r)
           /\ Range(p.indices) \intersect Range(q.indices) = {}
           /\ t = TreeOf(r, p, q)
<1> DEFINE Level(r, below) ==
  IF r = 0 THEN {[indices |-> <<i>>, hash |-> hashes[i], repeat |-> FALSE] : i \in Leaves}
  ELSE {[indices |-> p[1].indices \o p[2].indices,
         hash |-> XorHash(p[1].hash, p[2].hash),
         repeat |-> \/ p[1].repeat \/ p[2].repeat
                    \/ r < K /\ TakenForRepeat(XorHash(p[1].hash, p[2].hash))] :
        p \in {q \in below \X below :
                 /\ q[1].indices[1] < q[2].indices[1]
                 /\ Zeros(XorHash(q[1].hash, q[2].hash), r)
                 /\ Range(q[1].indices) \intersect Range(q[2].indices) = {}}}
           Def(f, n) == f = [r \in 0 .. n |-> Level(r, f[r - 1])]
           B == {n \in Nat : ~\E f : Def(f, n)}
<1>1. K \in Nat
  BY PuzzleAssumption
<1>2. Trees = CHOOSE f : Def(f, K)
  BY DEF Trees
<1>3. Level(0, TRUE) = Level(0, FALSE)  OBVIOUS
<1>4. \A x, y : Level(0, x) = Level(0, y)  OBVIOUS
<1> HIDE DEF Level
<1>5. B = {}
  <2> SUFFICES ASSUME B # {} PROVE FALSE
    OBVIOUS
  <2>1. PICK n \in B : \A k \in Nat : k < n => k \notin B
    <3>1. B \subseteq Nat  OBVIOUS
    <3> HIDE DEF B
    <3> QED BY <3>1, Smallest
  <2>2. n # 0
    <3> DEFINE f == [r \in 0 .. 0 |-> Level(0, TRUE)]
    <3>1. ASSUME NEW r \in 0 .. 0 PROVE Level(0, TRUE) = Level(r, f[r - 1])
      <4>1. r = 0  OBVIOUS
      <4> HIDE DEF f
      <4> QED BY <1>4, <4>1
    <3>2. f = [r \in 0 .. 0 |-> Level(r, f[r - 1])]
      BY <3>1, Zenon
    <3>3. Def(f, 0)  BY <3>2
    <3> HIDE DEF Def, f
    <3> QED BY <2>1, <3>3
  <2>3. PICK f : Def(f, n - 1)  BY <2>1, <2>2
  <2> DEFINE g == [r \in 0 .. n |-> Level(r, f[r - 1])]
  <2>4. ASSUME NEW r \in 1 .. n PROVE f[r - 1] = g[r - 1]
    <3> HIDE DEF Def
    <3>1. r - 1 \in 0 .. n - 1 /\ r - 1 \in 0 .. n  BY <2>1, <2>4
    <3>2. f[r - 1] = Level(r - 1, f[r - 1 - 1])  BY <2>3, <3>1 DEF Def
    <3> QED BY <3>1, <3>2
  <2>5. ASSUME NEW r \in 0 .. n PROVE Level(r, f[r - 1]) = Level(r, g[r - 1])
    <3> HIDE DEF g, Def
    <3>1. CASE r = 0  BY <1>4, <3>1
    <3>2. CASE r # 0
      <4>1. r \in 1 .. n  BY <2>1, <3>2
      <4> QED BY <2>4, <4>1
    <3> QED BY <3>1, <3>2
  <2>6. g = [r \in 0 .. n |-> Level(r, g[r - 1])]
    BY <2>5, Zenon
  <2>7. Def(g, n)  BY <2>6
  <2> HIDE DEF Def, g
  <2> QED BY <2>1, <2>7
<1>6. \E f : Def(f, K)
  <2> HIDE DEF Def
  <2> QED BY <1>1, <1>5
<1>7. Def(Trees, K)
  <2> HIDE DEF Def
  <2> QED BY <1>2, <1>6
<1>8. \A r \in 0 .. K : Trees[r] = Level(r, Trees[r - 1])  BY <1>7
<1>9. Trees[0] = {[indices |-> <<i>>, hash |-> hashes[i], repeat |-> FALSE] : i \in Leaves}
  <2>1. Trees[0] = Level(0, Trees[0 - 1])
    <3>1. 0 \in 0 .. K  BY <1>1
    <3> QED BY <1>8, <3>1
  <2> DEFINE below == Trees[0 - 1]
  <2> HIDE DEF below
  <2>2. Level(0, below)
          = {[indices |-> <<i>>, hash |-> hashes[i], repeat |-> FALSE] : i \in Leaves}
    BY Zenon DEF Level
  <2> QED BY <2>1, <2>2 DEF below
<1>10. ASSUME NEW r \in 1 .. K, NEW t
       PROVE  t \in Trees[r] <=>
                \E p, q \in Trees[r - 1] :
                  /\ p.indices[1] < q.indices[1]
                  /\ Zeros(XorHash(p.hash, q.hash), r)
                  /\ Range(p.indices) \intersect Range(q.indices) = {}
                  /\ t = TreeOf(r, p, q)
  <2>1. Trees[r] = Level(r, Trees[r - 1]) /\ r # 0  BY <1>1, <1>8
  <2> DEFINE T == Trees[r - 1]
             Q == {q \in T \X T :
                     /\ q[1].indices[1] < q[2].indices[1]
                     /\ Zeros(XorHash(q[1].hash, q[2].hash), r)
                     /\ Range(q[1].indices) \intersect Range(q[2].indices) = {}}
  <2>2. Level(r, T) = {TreeOf(r, p[1], p[2]) : p \in Q}
    BY <2>1 DEF Level, TreeOf
  <2> HIDE DEF T
  <2>3. ASSUME NEW p \in T, NEW q \in T,
               p.indices[1] < q.indices[1], Zeros(XorHash(p.hash, q.hash), r),
               Range(p.indices) \intersect Range(q.indices) = {}
        PROVE  <<p, q>> \in Q
    BY <2>3
  <2>4. \A p \in Q : /\ p[1] \in T /\ p[2] \in T
                     /\ p[1].indices[1] < p[2].indices[1]
                     /\ Zeros(XorHash(p[1].hash, p[2].hash), r)
                     /\ Range(p[1].indices) \intersect Range(p[2].indices) = {}
    OBVIOUS
  <2> HIDE DEF Q
  <2>5. Trees[r] = {TreeOf(r, p[1], p[2]) : p \in Q}  BY <2>1, <2>2 DEF T
  <2>6. ASSUME t \in Trees[r]
        PROVE  \E p, q \in T :
                 /\ p.indices[1] < q.indices[1]
                 /\ Zeros(XorHash(p.hash, q.hash), r)
                 /\ Range(p.indices) \intersect Range(q.indices) = {}
                 /\ t = TreeOf(r, p, q)
    <3>1. PICK p \in Q : t = TreeOf(r, p[1], p[2])  BY <2>5, <2>6
    <3> QED BY <2>4, <3>1
  <2>7. ASSUME NEW p \in T, NEW q \in T,
               p.indices[1] < q.indices[1], Zeros(XorHash(p.hash, q.hash), r),
               Range(p.indices) \intersect Range(q.indices) = {},
               t = TreeOf(r, p, q)
        PROVE  t \in Trees[r]
    <3>1. <<p, q>> \in Q  BY <2>3, <2>7
    <3>2. <<p, q>>[1] = p /\ <<p, q>>[2] = q  OBVIOUS
    <3> QED BY <2>5, <2>7, <3>1, <3>2
  <2> QED BY <2>6, <2>7 DEF T
<1> QED BY <1>9, <1>10

----------------------------------------------------------------------------
(* What the verifier makes of a list.                                      *)

\* FirstRows of a table of hashes.
FirstRowsOf(hs, p) ==
  [i \in 1 .. Len(p) |-> [hash |-> SubSeq(hs[p[i]], 1, K + 1), indices |-> <<p[i]>>]]

\* The rows X[0], ..., X[r] that the passes leave of the list p, when each pair is
\* valid.
Rows(hs, X, p, r) ==
  /\ X[0] = FirstRowsOf(hs, p)
  /\ \A q \in 0 .. r : X[q] = [i \in 1 .. ProofSize[r - q] |-> X[q][i]]
  /\ \A q \in 0 .. r - 1 : \A i \in 1 .. ProofSize[r - q - 1] :
       /\ PairIsValid(X[q][2 * i - 1], X[q][2 * i])
       /\ X[q + 1][i] = Merge(X[q][2 * i - 1], X[q][2 * i])

\* r passes leave row of the list p.
Verified(hs, p, r, row) == \E X : Rows(hs, X, p, r) /\ X[r][1] = row

\* A list of one index is its own row.
LEMMA LeafVerified ==
  ASSUME NEW hs, NEW i \in Leaves
  PROVE  Verified(hs, <<i>>, 0, [hash |-> SubSeq(hs[i], 1, K + 1), indices |-> <<i>>])
<1> DEFINE row == [hash |-> SubSeq(hs[i], 1, K + 1), indices |-> <<i>>]
           X == [q \in 0 .. 0 |-> FirstRowsOf(hs, <<i>>)]
<1>1. FirstRowsOf(hs, <<i>>) = [n \in 1 .. 1 |-> row]
  <2> DEFINE p == <<i>>
  <2>1. Len(p) = 1 /\ p[1] = i  OBVIOUS
  <2> HIDE DEF p
  <2>2. ASSUME NEW n \in 1 .. 1
        PROVE  [hash |-> SubSeq(hs[p[n]], 1, K + 1), indices |-> <<p[n]>>] = row
    <3>1. n = 1  OBVIOUS
    <3> QED BY <2>1, <3>1
  <2>3. FirstRowsOf(hs, p) = [n \in 1 .. 1 |->
          [hash |-> SubSeq(hs[p[n]], 1, K + 1), indices |-> <<p[n]>>]]
    BY <2>1 DEF FirstRowsOf
  <2>4. FirstRowsOf(hs, p) = [n \in 1 .. 1 |-> row]  BY <2>2, <2>3, Zenon
  <2> QED BY <2>4 DEF p
<1>2. X[0] = [n \in 1 .. 1 |-> row]  BY <1>1
<1> HIDE DEF X, row
<1>3. ProofSize[0 - 0] = 1  BY SizeFacts
<1>4. X[0] = [n \in 1 .. ProofSize[0 - 0] |-> X[0][n]]  BY <1>2, <1>3
<1>5. X[0] = FirstRowsOf(hs, <<i>>)  BY <1>1, <1>2
<1>6. Rows(hs, X, <<i>>, 0)
  <2>1. \A q \in 0 .. 0 : q = 0  OBVIOUS
  <2>2. \A q \in 0 .. 0 - 1 : FALSE  OBVIOUS
  <2> QED BY <1>4, <1>5, <2>1, <2>2, Zenon DEF Rows
<1>7. X[0][1] = row  BY <1>2
<1> QED BY <1>6, <1>7 DEF Verified, row

\* The rows of two lists are those of the whole, and one more pass merges the two
\* that are left.
LEMMA MergeVerified ==
  ASSUME NEW hs, NEW r \in 1 .. K, NEW a \in Seq(Leaves), NEW c \in Seq(Leaves),
         Len(a) = ProofSize[r - 1], Len(c) = ProofSize[r - 1],
         NEW x, NEW y, Verified(hs, a, r - 1, x), Verified(hs, c, r - 1, y), PairIsValid(x, y)
  PROVE  Verified(hs, a \o c, r, Merge(x, y))
<1>1. PICK A : Rows(hs, A, a, r - 1) /\ A[r - 1][1] = x  BY DEF Verified
<1>2. PICK C : Rows(hs, C, c, r - 1) /\ C[r - 1][1] = y  BY DEF Verified
<1> DEFINE size(q) == ProofSize[q]
           X == [q \in 0 .. r |->
                   IF q = r THEN [i \in 1 .. 1 |-> Merge(x, y)]
                   ELSE [i \in 1 .. 2 * size(r - 1 - q) |->
                           IF i <= size(r - 1 - q) THEN A[q][i]
                           ELSE C[q][i - size(r - 1 - q)]]]
<1>3. K \in Nat /\ r \in Nat  BY PuzzleAssumption
<1>4. /\ size(0) = 1
      /\ \A q \in 1 .. K : size(q) = 2 * size(q - 1)
      /\ \A q \in 0 .. K : size(q) \in Nat \ {0}
  BY SizeFacts
<1>5. X[r] = [i \in 1 .. 1 |-> Merge(x, y)]  BY <1>3
<1>6. ASSUME NEW q \in 0 .. r - 1
      PROVE  /\ X[q] = [i \in 1 .. 2 * size(r - 1 - q) |->
                          IF i <= size(r - 1 - q) THEN A[q][i]
                          ELSE C[q][i - size(r - 1 - q)]]
             /\ size(r - q) = 2 * size(r - 1 - q)
             /\ size(r - 1 - q) \in Nat \ {0}
  <2>1. q \in 0 .. r /\ q # r  BY <1>3
  <2>2. r - q \in 1 .. K /\ r - q - 1 = r - 1 - q /\ r - 1 - q \in 0 .. K  BY <1>3
  <2> QED BY <1>4, <2>1, <2>2
<1> HIDE DEF X
<1>7. X[0] = FirstRowsOf(hs, a \o c)
  <2> DEFINE n == size(r - 1)
  <2>1. n \in Nat \ {0} /\ 0 \in 0 .. r - 1 /\ r - 1 - 0 = r - 1  BY <1>3, <1>6
  <2>2. X[0] = [i \in 1 .. 2 * n |-> IF i <= n THEN A[0][i] ELSE C[0][i - n]]
    BY <1>6, <2>1
  <2>3. /\ A[0] = [i \in 1 .. n |-> [hash |-> SubSeq(hs[a[i]], 1, K + 1),
                                     indices |-> <<a[i]>>]]
        /\ C[0] = [i \in 1 .. n |-> [hash |-> SubSeq(hs[c[i]], 1, K + 1),
                                     indices |-> <<c[i]>>]]
    BY <1>1, <1>2 DEF Rows, FirstRowsOf
  <2> HIDE DEF n
  <2>4. /\ Len(a \o c) = 2 * n
        /\ \A i \in 1 .. 2 * n : (a \o c)[i] = IF i <= n THEN a[i] ELSE c[i - n]
    <3>1. Len(a) = n /\ Len(c) = n  BY DEF n
    <3> QED BY <2>1, <3>1, Concatenation
  <2> DEFINE l == a \o c
             First0(j) == [hash |-> SubSeq(hs[j], 1, K + 1), indices |-> <<j>>]
  <2>5. FirstRowsOf(hs, l) = [i \in 1 .. 2 * n |-> First0(l[i])]
    BY <2>4 DEF FirstRowsOf
  <2>6. A[0] = [i \in 1 .. n |-> First0(a[i])] /\ C[0] = [i \in 1 .. n |-> First0(c[i])]
    BY <2>3
  <2> HIDE DEF First0, l
  <2>7. ASSUME NEW i \in 1 .. 2 * n
        PROVE  (IF i <= n THEN A[0][i] ELSE C[0][i - n]) = First0(l[i])
    <3>1. CASE i <= n
      <4>1. i \in 1 .. n  BY <2>1, <3>1
      <4> QED BY <2>4, <2>6, <3>1, <4>1 DEF l
    <3>2. CASE ~(i <= n)
      <4>1. i - n \in 1 .. n  BY <2>1, <3>2
      <4> QED BY <2>4, <2>6, <3>2, <4>1 DEF l
    <3> QED BY <3>1, <3>2
  <2>8. X[0] = [i \in 1 .. 2 * n |-> First0(l[i])]  BY <2>2, <2>7, Zenon
  <2> QED BY <2>5, <2>8 DEF l
<1>8. ASSUME NEW q \in 0 .. r
      PROVE  X[q] = [i \in 1 .. size(r - q) |-> X[q][i]]
  <2>1. CASE q = r
    <3>1. size(r - q) = 1  BY <1>3, <1>4, <2>1
    <3>2. X[q] = [i \in 1 .. 1 |-> Merge(x, y)]  BY <1>5, <2>1
    <3>3. X[q] = [i \in 1 .. 1 |-> X[q][i]]  BY <3>2
    <3> QED BY <3>1, <3>3
  <2>2. CASE q # r
    <3>1. q \in 0 .. r - 1  BY <1>3, <2>2
    <3> QED BY <1>6, <3>1
  <2> QED BY <2>1, <2>2
<1>9. ASSUME NEW q \in 0 .. r - 1, NEW i \in 1 .. size(r - q - 1)
      PROVE  /\ PairIsValid(X[q][2 * i - 1], X[q][2 * i])
             /\ X[q + 1][i] = Merge(X[q][2 * i - 1], X[q][2 * i])
  <2>1. CASE q = r - 1
    <3>1. r - 1 - q = 0 /\ r - q - 1 = 0 /\ q + 1 = r  BY <1>3, <2>1
    <3>2. i = 1 /\ 2 * i - 1 = 1 /\ 2 * i = 2  BY <1>4, <3>1
    <3>3. size(r - 1 - q) = 1  BY <1>4, <3>1
    <3>4. X[q][1] = A[q][1] /\ X[q][2] = C[q][1]
      <4> DEFINE w == size(r - 1 - q)
      <4>1. X[q] = [j \in 1 .. 2 * w |-> IF j <= w THEN A[q][j] ELSE C[q][j - w]]
        BY <1>6
      <4>2. w = 1  BY <3>3
      <4> HIDE DEF w
      <4> QED BY <4>1, <4>2
    <3> QED BY <1>1, <1>2, <1>5, <2>1, <3>1, <3>2, <3>4
  <2>2. CASE q # r - 1
    <3> DEFINE m == size(r - 1 - q - 1)
    <3>1. /\ q + 1 \in 0 .. r - 1 /\ r - 1 - (q + 1) = r - 1 - q - 1
          /\ r - 1 - q \in 1 .. K /\ r - q - 1 = r - 1 - q /\ q \in 0 .. r - 1 - 1
      BY <1>3, <2>2
    <3>2. m \in Nat \ {0} /\ size(r - 1 - q) = 2 * m  BY <1>4, <1>6, <3>1
    <3>3. \A j \in 1 .. 2 * (2 * m) :
            X[q][j] = IF j <= 2 * m THEN A[q][j] ELSE C[q][j - 2 * m]
      <4> DEFINE w == size(r - 1 - q)
      <4>1. X[q] = [j \in 1 .. 2 * w |-> IF j <= w THEN A[q][j] ELSE C[q][j - w]]
        BY <1>6
      <4>2. w = 2 * m  BY <3>2
      <4> HIDE DEF w, m
      <4> QED BY <4>1, <4>2
    <3>4. \A j \in 1 .. 2 * m :
            X[q + 1][j] = IF j <= m THEN A[q + 1][j] ELSE C[q + 1][j - m]
      <4> DEFINE w == size(r - 1 - (q + 1))
      <4>1. X[q + 1] = [j \in 1 .. 2 * w |->
                          IF j <= w THEN A[q + 1][j] ELSE C[q + 1][j - w]]
        BY <1>6, <3>1
      <4>2. w = m  BY <3>1
      <4> HIDE DEF w, m
      <4> QED BY <4>1, <4>2
    <3>5. \A j \in 1 .. m : /\ PairIsValid(A[q][2 * j - 1], A[q][2 * j])
                            /\ A[q + 1][j] = Merge(A[q][2 * j - 1], A[q][2 * j])
      BY <1>1, <3>1 DEF Rows
    <3>6. \A j \in 1 .. m : /\ PairIsValid(C[q][2 * j - 1], C[q][2 * j])
                            /\ C[q + 1][j] = Merge(C[q][2 * j - 1], C[q][2 * j])
      BY <1>2, <3>1 DEF Rows
    <3>7. i \in 1 .. 2 * m  BY <3>1, <3>2
    <3> HIDE DEF m
    <3>8. CASE i <= m
      <4>1. i \in 1 .. m /\ 2 * i - 1 \in 1 .. 2 * (2 * m) /\ 2 * i \in 1 .. 2 * (2 * m)
            /\ 2 * i - 1 <= 2 * m /\ 2 * i <= 2 * m
        BY <3>2, <3>7, <3>8
      <4>2. /\ X[q][2 * i - 1] = A[q][2 * i - 1] /\ X[q][2 * i] = A[q][2 * i]
            /\ X[q + 1][i] = A[q + 1][i]
        BY <3>3, <3>4, <3>7, <3>8, <4>1
      <4> QED BY <3>5, <4>1, <4>2
    <3>9. CASE ~(i <= m)
      <4> DEFINE j == i - m
      <4>1. j \in 1 .. m /\ 2 * i - 1 \in 1 .. 2 * (2 * m) /\ 2 * i \in 1 .. 2 * (2 * m)
            /\ ~(2 * i - 1 <= 2 * m) /\ ~(2 * i <= 2 * m)
            /\ 2 * i - 1 - 2 * m = 2 * j - 1 /\ 2 * i - 2 * m = 2 * j
        BY <3>2, <3>7, <3>9
      <4>2. /\ X[q][2 * i - 1] = C[q][2 * j - 1] /\ X[q][2 * i] = C[q][2 * j]
            /\ X[q + 1][i] = C[q + 1][j]
        BY <3>3, <3>4, <3>7, <3>9, <4>1
      <4> QED BY <3>6, <4>1, <4>2
    <3> QED BY <3>8, <3>9
  <2> QED BY <2>1, <2>2
<1>10. Rows(hs, X, a \o c, r)  BY <1>7, <1>8, <1>9 DEF Rows
<1>11. X[r][1] = Merge(x, y)  BY <1>5
<1> QED BY <1>10, <1>11 DEF Verified

\* The verifier accepts a list of the right size whose last row is zero.
LEMMA VerifiedIsValid ==
  ASSUME NEW p, NEW row, Len(p) = ProofSize[K], Verified(hashes, p, K, row), row.hash = << 0 >>
  PROVE  IsValidSolution(p)
<1>1. PICK X : Rows(hashes, X, p, K) /\ X[K][1] = row  BY DEF Verified
<1>2. K \in Nat  BY PuzzleAssumption
<1> DEFINE size(q) == ProofSize[q]
           Level(r, below) == IF r = 0 THEN FirstRows(p) ELSE Pass(below)
           Def(f) == f = [r \in 0 .. K |-> Level(r, f[r - 1])]
           Y == [r \in 0 .. K |-> X[r]]
<1>3. ASSUME NEW r \in 1 .. K PROVE Pass(X[r - 1]) = X[r]
  <2> DEFINE n == size(K - r)
             w == X[r - 1]
  <2>1. /\ r - 1 \in 0 .. K - 1 /\ r - 1 \in 0 .. K /\ K - (r - 1) \in 1 .. K
        /\ K - (r - 1) - 1 = K - r /\ K - r \in 0 .. K /\ r - 1 + 1 = r
        /\ r \in 0 .. K
    BY <1>2
  <2>2. n \in Nat \ {0} /\ size(K - (r - 1)) = 2 * n  BY <2>1, SizeFacts
  <2>3. w = [i \in 1 .. 2 * n |-> w[i]]
    BY <1>1, <2>1, <2>2 DEF Rows
  <2>4. X[r] = [i \in 1 .. n |-> X[r][i]]
    BY <1>1, <2>1 DEF Rows
  <2>5. \A i \in 1 .. n : /\ PairIsValid(w[2 * i - 1], w[2 * i])
                          /\ X[r][i] = Merge(w[2 * i - 1], w[2 * i])
    BY <1>1, <2>1 DEF Rows
  <2> HIDE DEF n, w
  <2>6. Len(w) = 2 * n  BY <2>2, <2>3
  <2>7. Len(w) \div 2 = n  BY <2>2, <2>6
  <2>8. Pass(w) = [i \in 1 .. n |-> Merge(w[2 * i - 1], w[2 * i])]
    BY <2>5, <2>7, Zenon DEF Pass
  <2>9. [i \in 1 .. n |-> Merge(w[2 * i - 1], w[2 * i])] = [i \in 1 .. n |-> X[r][i]]
    BY <2>5, Zenon
  <2> QED BY <2>4, <2>8, <2>9 DEF w
<1>4. Def(Y)
  <2>1. ASSUME NEW r \in 0 .. K PROVE X[r] = Level(r, Y[r - 1])
    <3>1. CASE r = 0  BY <1>1, <3>1 DEF Rows, FirstRows, FirstRowsOf
    <3>2. CASE r # 0
      <4>1. r \in 1 .. K /\ r - 1 \in 0 .. K  BY <1>2, <3>2
      <4>2. Y[r - 1] = X[r - 1]  BY <4>1
      <4> QED BY <1>3, <3>2, <4>1, <4>2
    <3> QED BY <3>1, <3>2
  <2>2. \A r \in 0 .. K : X[r] = Level(r, Y[r - 1])  BY <2>1
  <2> HIDE DEF Level
  <2> QED BY <2>2, Zenon
<1> DEFINE Z == CHOOSE f : Def(f)
<1>5. Def(Z)
  <2> HIDE DEF Def
  <2> QED BY <1>4
<1> HIDE DEF Z
<1>6. \A r \in 0 .. K : Z[r] = X[r]
  <2> DEFINE B == {r \in 0 .. K : Z[r] # X[r]}
  <2> SUFFICES ASSUME B # {} PROVE FALSE
    OBVIOUS
  <2>1. PICK n \in B : \A k \in Nat : k < n => k \notin B
    <3>1. B \subseteq Nat  OBVIOUS
    <3> HIDE DEF B
    <3> QED BY <3>1, Smallest
  <2>2. Z[n] = Level(n, Z[n - 1]) /\ Y[n] = Level(n, Y[n - 1])
    <3> HIDE DEF Level, Y
    <3> QED BY <1>4, <1>5, <2>1
  <2>3. Y[n] = X[n]  BY <2>1
  <2>4. CASE n = 0  BY <2>1, <2>2, <2>3, <2>4
  <2>5. CASE n # 0
    <3>1. n - 1 \in Nat /\ n - 1 < n /\ n - 1 \in 0 .. K  BY <1>2, <2>1, <2>5
    <3>2. Z[n - 1] = X[n - 1] /\ Y[n - 1] = X[n - 1]  BY <2>1, <3>1
    <3> HIDE DEF Level
    <3> QED BY <2>1, <2>2, <2>3, <3>2
  <2> QED BY <2>4, <2>5
<1>7. Z[K] = X[K] /\ X[K] = [i \in 1 .. 1 |-> X[K][i]]
  <2>1. K \in 0 .. K /\ K - K = 0 /\ ProofSize[0] = 1  BY <1>2, SizeFacts
  <2> QED BY <1>1, <1>6, <2>1 DEF Rows
<1>8. Z[K] # <<>> /\ Z[K][1].hash = <<0>>
  <2>1. 1 \in DOMAIN Z[K]  BY <1>7
  <2> QED BY <1>1, <1>7, <2>1
<1> QED BY <1>8 DEF IsValidSolution, Z

\* The row of a list whose hash is kept from its digit r on.
RowFrom(r, h, l) == [hash |-> SubSeq(h, r, K + 1), indices |-> l]

\* The digits of a hash from one on.
LEMMA SubSeqFacts ==
  ASSUME NEW S, NEW s, NEW m \in Int, NEW n \in Int, m <= n, \A i \in m .. n : s[i] \in S
  PROVE  /\ SubSeq(s, m, n) \in Seq(S) /\ Len(SubSeq(s, m, n)) = n - m + 1
         /\ \A i \in 1 .. n - m + 1 : SubSeq(s, m, n)[i] = s[m + i - 1]
BY SubSeqProperties

\* A last digit of zero is all that is left of its hash.
LEMMA LastDigitZero ==
  ASSUME NEW s, NEW k \in Int, s[k] = 0
  PROVE  SubSeq(s, k, k) = << 0 >>
<1> DEFINE y == SubSeq(s, k, k)
<1>1. \A i \in k .. k : s[i] \in {0}  OBVIOUS
<1>2. /\ y \in Seq({0}) /\ Len(y) = k - k + 1
      /\ \A i \in 1 .. k - k + 1 : y[i] = s[k + i - 1]
  BY <1>1, SubSeqFacts
<1> HIDE DEF y
<1>3. y \in Seq({0}) /\ Len(y) = 1 /\ y[1] = 0
  <2>1. y \in Seq({0}) /\ Len(y) = 1  BY <1>2
  <2>2. 1 \in 1 .. Len(y)  BY <2>1
  <2>3. y[1] \in {0}  BY <2>1, <2>2, ElementOfSeq
  <2> QED BY <2>1, <2>3
<1>4. <<0>> \in Seq({0}) /\ Len(<<0>>) = 1 /\ <<0>>[1] = 0  OBVIOUS
<1>5. \A i \in 1 .. Len(y) : y[i] = <<0>>[i]  BY <1>3, <1>4
<1>6. y = <<0>>  BY <1>3, <1>4, <1>5, SeqEqual
<1> QED BY <1>6 DEF y

\* Rows of hashes that agree in digit r make a valid pair, if the first indices
\* are in order and no index is in both, and merge to the row of the xor.
LEMMA PairMerges ==
  ASSUME NEW r \in 1 .. K, NEW g \in Hashes, NEW h \in Hashes, g[r] = h[r],
         NEW a \in Seq(Leaves), NEW c \in Seq(Leaves), a[1] < c[1],
         a[1] \in Leaves, c[1] \in Leaves,
         Range(a) \intersect Range(c) = {}
  PROVE  /\ PairIsValid(RowFrom(r, g, a), RowFrom(r, h, c))
         /\ Merge(RowFrom(r, g, a), RowFrom(r, h, c)) = RowFrom(r + 1, XorHash(g, h), a \o c)
<1> DEFINE X(d, e) == XorDigits[d][e]
           u == SubSeq(g, r, K + 1)
           v == SubSeq(h, r, K + 1)
           n == K + 1 - r
<1>1. K \in Nat /\ r \in Nat /\ n \in Nat \ {0}  BY PuzzleAssumption
<1>2. \A i \in 1 .. K + 2 : g[i] \in Digits /\ h[i] \in Digits  BY DEF Hashes
<1>3. \A d, e \in Digits : X(d, e) \in Digits  BY PuzzleAssumption
<1>4. XorHash(g, h) = [i \in 1 .. K + 2 |-> X(g[i], h[i])]
  <2>1. DOMAIN g = 1 .. K + 2  BY DEF Hashes
  <2> QED BY <2>1 DEF XorHash
<1>5. /\ u \in Seq(Digits) /\ Len(u) = n + 1
      /\ \A i \in 1 .. n + 1 : u[i] = g[r + i - 1]
      /\ v \in Seq(Digits) /\ Len(v) = n + 1
      /\ \A i \in 1 .. n + 1 : v[i] = h[r + i - 1]
  <2>1. \A i \in r .. K + 1 : g[i] \in Digits /\ h[i] \in Digits
    BY <1>1, <1>2
  <2>2. PICK k \in Int : k = K + 1 /\ r <= k /\ k - r + 1 = n + 1  BY <1>1
  <2>3. r \in Int  BY <1>1
  <2>4. /\ SubSeq(g, r, k) \in Seq(Digits) /\ Len(SubSeq(g, r, k)) = k - r + 1
        /\ \A i \in 1 .. k - r + 1 : SubSeq(g, r, k)[i] = g[r + i - 1]
    BY <2>1, <2>2, <2>3, SubSeqFacts
  <2>5. /\ SubSeq(h, r, k) \in Seq(Digits) /\ Len(SubSeq(h, r, k)) = k - r + 1
        /\ \A i \in 1 .. k - r + 1 : SubSeq(h, r, k)[i] = h[r + i - 1]
    BY <2>1, <2>2, <2>3, SubSeqFacts
  <2>6. u = SubSeq(g, r, k) /\ v = SubSeq(h, r, k)  BY <2>2
  <2> HIDE DEF u, v, n
  <2> QED BY <2>2, <2>4, <2>5, <2>6
<1>6. DOMAIN u = 1 .. n + 1 /\ DOMAIN v = 1 .. n + 1  BY <1>5
<1>7. \A i \in 1 .. n + 1 : u[i] \in Digits /\ v[i] \in Digits  BY <1>5, <1>6
<1>8. XorHash(u, v) = [i \in 1 .. n + 1 |-> X(u[i], v[i])]
  BY <1>6 DEF XorHash
<1> HIDE DEF X, u, v
<1> DEFINE w == XorHash(u, v)
<1>9. w \in Seq(Digits) /\ Len(w) = n + 1
  <2>1. \A i \in 1 .. n + 1 : X(u[i], v[i]) \in Digits  BY <1>3, <1>7
  <2> QED BY <1>1, <1>8, <2>1
<1>10. \A i \in 1 .. n + 1 : w[i] = X(g[r + i - 1], h[r + i - 1])
  BY <1>5, <1>8
<1> HIDE DEF w
<1>11. /\ Tail(w) \in Seq(Digits) /\ Len(Tail(w)) = n
       /\ \A i \in 1 .. n : Tail(w)[i] = w[i + 1]
  <2>1. w # <<>>  BY <1>1, <1>9
  <2> QED BY <1>1, <1>9, <2>1, HeadTailProperties
<1> DEFINE x == XorHash(g, h)
           y == SubSeq(x, r + 1, K + 1)
<1>12. /\ y \in Seq(Digits) /\ Len(y) = n
       /\ \A i \in 1 .. n : y[i] = X(g[r + i], h[r + i])
  <2>1. x = [i \in 1 .. K + 2 |-> X(g[i], h[i])]  BY <1>4
  <2> HIDE DEF x
  <2>2. \A i \in r + 1 .. K + 1 : i \in 1 .. K + 2 /\ x[i] \in Digits
    <3> TAKE i \in r + 1 .. K + 1
    <3>1. i \in 1 .. K + 2  BY <1>1
    <3>2. x[i] = X(g[i], h[i])  BY <2>1, <3>1
    <3> QED BY <1>2, <1>3, <3>1, <3>2
  <2>3. r + 1 \in Int /\ K + 1 \in Int /\ r + 1 <= K + 1 /\ K + 1 - (r + 1) + 1 = n
    BY <1>1
  <2>4. /\ y \in Seq(Digits) /\ Len(y) = n
        /\ \A i \in 1 .. n : y[i] = x[r + 1 + i - 1]
    <3>1. PICK k \in Int : k = K + 1 /\ r + 1 <= k /\ k - (r + 1) + 1 = n  BY <1>1
    <3>2. PICK m \in Int : m = r + 1  BY <1>1
    <3>3. m <= k /\ \A i \in m .. k : x[i] \in Digits  BY <2>2, <3>1, <3>2
    <3>4. /\ SubSeq(x, m, k) \in Seq(Digits) /\ Len(SubSeq(x, m, k)) = k - m + 1
          /\ \A i \in 1 .. k - m + 1 : SubSeq(x, m, k)[i] = x[m + i - 1]
      BY <3>3, SubSeqFacts
    <3>5. y = SubSeq(x, m, k)  BY <3>1, <3>2
    <3> HIDE DEF y, n
    <3> QED BY <3>1, <3>2, <3>4, <3>5
  <2> HIDE DEF y
  <2>5. ASSUME NEW i \in 1 .. n PROVE y[i] = X(g[r + i], h[r + i])
    <3>1. r + 1 + i - 1 = r + i /\ r + i \in 1 .. K + 2  BY <1>1
    <3>2. y[i] = x[r + i]  BY <2>4, <3>1
    <3> QED BY <2>1, <3>1, <3>2
  <2> HIDE DEF n
  <2> QED BY <2>4, <2>5
<1>13. Tail(w) = y
  <2>1. ASSUME NEW i \in 1 .. n PROVE Tail(w)[i] = y[i]
    <3>1. i + 1 \in 1 .. n + 1 /\ r + (i + 1) - 1 = r + i  BY <1>1
    <3> QED BY <1>10, <1>11, <1>12, <3>1
  <2> HIDE DEF y
  <2> QED BY <1>11, <1>12, <2>1, SeqEqual
<1>14. Merge(RowFrom(r, g, a), RowFrom(r, h, c)) = RowFrom(r + 1, XorHash(g, h), a \o c)
  BY <1>13 DEF Merge, RowFrom, u, v, w
<1>15. Head(u) = Head(v)
  <2>1. u # <<>> /\ v # <<>> /\ 1 \in 1 .. n + 1 /\ r + 1 - 1 = r  BY <1>1, <1>5
  <2>2. Head(u) = u[1] /\ Head(v) = v[1]  BY <1>5, <2>1, HeadTailProperties
  <2> QED BY <1>5, <2>1, <2>2
<1>16. ~IndicesBefore(c, a)
  <2> SUFFICES ASSUME NEW i \in DOMAIN c, c[i] < a[i], \A j \in 1 .. i - 1 : c[j] = a[j]
               PROVE  FALSE
    BY DEF IndicesBefore
  <2>1. i \in Nat \ {0}  OBVIOUS
  <2>2. a[1] \in Nat /\ c[1] \in Nat  BY DEF Leaves
  <2>3. CASE i = 1  BY <2>2, <2>3
  <2>4. CASE i # 1
    <3>1. 1 \in 1 .. i - 1  BY <2>1, <2>4
    <3> QED BY <2>2, <3>1
  <2> QED BY <2>3, <2>4
<1>17. PairIsValid(RowFrom(r, g, a), RowFrom(r, h, c))
  BY <1>15, <1>16 DEF PairIsValid, RowFrom, u, v
<1> QED BY <1>14, <1>17

\* What the solver makes of two lists that the verifier makes rows of, it makes a
\* row of too.
LEMMA NodeVerified ==
  ASSUME NEW hs, NEW r \in 1 .. K, NEW g \in Hashes, NEW h \in Hashes, g[r] = h[r],
         NEW a \in Seq(Leaves), NEW c \in Seq(Leaves),
         Len(a) = ProofSize[r - 1], Len(c) = ProofSize[r - 1],
         Verified(hs, a, r - 1, RowFrom(r, g, a)), Verified(hs, c, r - 1, RowFrom(r, h, c)),
         IsInjective(Ordered(a, c))
  PROVE  Verified(hs, Ordered(a, c), r, RowFrom(r + 1, XorHash(g, h), Ordered(a, c)))
<1> DEFINE n == ProofSize[r - 1]
<1>1. n \in Nat \ {0}
  <2>1. r - 1 \in 0 .. K  BY PuzzleAssumption
  <2> QED BY <2>1, SizeFacts
<1>2. /\ Range(a) \intersect Range(c) = {}
      /\ a[1] \in Leaves /\ c[1] \in Leaves
      /\ a[1] \in Range(a) /\ c[1] \in Range(c)
  <2>1. Len(a) = n /\ Len(c) = n  OBVIOUS
  <2> HIDE DEF n
  <2> QED BY <1>1, <2>1, OrderedFacts
<1>3. a[1] \in Nat /\ c[1] \in Nat /\ a[1] # c[1]  BY <1>2 DEF Leaves
<1>4. CASE a[1] > c[1]
  <2>1. c[1] < a[1] /\ Range(c) \intersect Range(a) = {} /\ h[r] = g[r]
    BY <1>2, <1>3, <1>4
  <2>2. /\ PairIsValid(RowFrom(r, h, c), RowFrom(r, g, a))
        /\ Merge(RowFrom(r, h, c), RowFrom(r, g, a)) = RowFrom(r + 1, XorHash(h, g), c \o a)
    BY <1>2, <2>1, PairMerges
  <2>3. XorHash(h, g) = XorHash(g, h)  BY XorFacts
  <2>4. Ordered(a, c) = c \o a  BY <1>4 DEF Ordered
  <2> QED BY <2>2, <2>3, <2>4, MergeVerified
<1>5. CASE ~(a[1] > c[1])
  <2>1. a[1] < c[1]  BY <1>3, <1>5
  <2>2. /\ PairIsValid(RowFrom(r, g, a), RowFrom(r, h, c))
        /\ Merge(RowFrom(r, g, a), RowFrom(r, h, c)) = RowFrom(r + 1, XorHash(g, h), a \o c)
    BY <1>2, <2>1, PairMerges
  <2>3. Ordered(a, c) = a \o c  BY <1>5 DEF Ordered
  <2> QED BY <2>2, <2>3, MergeVerified
<1> QED BY <1>4, <1>5

----------------------------------------------------------------------------
(* What a round stores.                                                    *)

\* What fits in is the beginning.
LEMMA FirstFacts ==
  ASSUME NEW S, NEW n \in Nat, NEW s \in Seq(S)
  PROVE  /\ First(n, s) \in Seq(S)
         /\ Len(First(n, s)) = IF Len(s) < n THEN Len(s) ELSE n
         /\ \A i \in 1 .. Len(First(n, s)) : First(n, s)[i] = s[i]
<1> DEFINE m == IF Len(s) < n THEN Len(s) ELSE n
<1>1. m \in Nat /\ m <= Len(s) /\ Len(s) \in Nat  BY LenProperties
<1>2. First(n, s) = SubSeq(s, 1, m)  BY DEF First
<1> HIDE DEF m
<1>3. \A i \in 1 .. m : s[i] \in S  BY <1>1, ElementOfSeq
<1>4. /\ SubSeq(s, 1, m) \in Seq(S) /\ Len(SubSeq(s, 1, m)) = m
      /\ \A i \in 1 .. m : SubSeq(s, 1, m)[i] = s[i]
  BY <1>1, <1>3, SubSeqProperties
<1> QED BY <1>2, <1>4 DEF m

\* The nodes of a bucket as they are stored.
Stored(nodes, hash, b) == First(NSLOTS, InOrder(OfBucket(b, nodes, hash)))

\* A bucket holds nodes that belong there, and all of them if there are no more than
\* its slots.
LEMMA StoredFacts ==
  ASSUME NEW nodes, nodes \subseteq Nodes, IsFiniteSet(nodes), NEW hash, NEW b
  PROVE  /\ Stored(nodes, hash, b) \in Seq(OfBucket(b, nodes, hash))
         /\ Len(Stored(nodes, hash, b)) <= NSLOTS
         /\ Cardinality(OfBucket(b, nodes, hash)) \in Nat
         /\ Cardinality(OfBucket(b, nodes, hash)) <= NSLOTS =>
              \A t \in OfBucket(b, nodes, hash) :
                \E s \in DOMAIN Stored(nodes, hash, b) : Stored(nodes, hash, b)[s] = t
<1> DEFINE S == OfBucket(b, nodes, hash)
           c == Cardinality(S)
           all == InOrder(S)
           st == Stored(nodes, hash, b)
<1>1. NSLOTS \in Nat  BY EquihashAssumption
<1>2. S \subseteq nodes  BY DEF OfBucket
<1>3. S \subseteq Nodes /\ IsFiniteSet(S)
  <2>1. S \in SUBSET nodes  BY <1>2
  <2> HIDE DEF S
  <2> QED BY <1>2, <2>1, FS_Subset
<1>4. st = First(NSLOTS, all)  BY DEF Stored
<1> HIDE DEF S, st
<1>5. /\ c \in Nat /\ all = [n \in 1 .. c |-> all[n]]
      /\ \A n \in 1 .. c : all[n] \in S
      /\ \A t \in S : \E n \in 1 .. c : all[n] = t
  BY <1>3, InOrderFacts
<1> HIDE DEF c, all
<1>6. all \in Seq(S) /\ Len(all) = c  BY <1>5
<1>7. /\ st \in Seq(S) /\ Len(st) = IF c < NSLOTS THEN c ELSE NSLOTS
      /\ \A i \in 1 .. Len(st) : st[i] = all[i]
  BY <1>1, <1>4, <1>6, FirstFacts
<1>8. Len(st) <= NSLOTS  BY <1>1, <1>5, <1>7
<1>9. ASSUME c <= NSLOTS, NEW t \in S PROVE \E s \in DOMAIN st : st[s] = t
  <2>1. Len(st) = c  BY <1>1, <1>5, <1>7, <1>9
  <2>2. PICK n \in 1 .. c : all[n] = t  BY <1>5
  <2>3. DOMAIN st = 1 .. c  BY <1>7, <2>1, LenProperties
  <2> QED BY <1>7, <2>1, <2>2, <2>3
<1> QED BY <1>5, <1>7, <1>8, <1>9 DEF S, st, c

----------------------------------------------------------------------------
(* The nodes.                                                              *)

\* A list of nodes, no longer than a bucket.
Column(c) == c \in Seq(Nodes) /\ Len(c) <= NSLOTS

\* A node of a round stands for two slots of a bucket of the round before.
IsNode(t, below) ==
  /\ t \in Buckets \X Slots \X Slots
  /\ t[2] < t[3] /\ t[3] \in DOMAIN below[t[1]]

\* The tree of round r: leaves, or nodes over the round before.
LevelOK(r) ==
  /\ tree[r] = [b \in Buckets |-> tree[r][b]]
  /\ \A b \in Buckets : Column(tree[r][b])
  /\ \A b \in Buckets : \A s \in DOMAIN tree[r][b] :
       IF r = 0 THEN tree[0][b][s][1] \in Leaves ELSE IsNode(tree[r][b][s], tree[r - 1])

\* The trees of all rounds, empty for those to come.
TreeOK ==
  /\ round \in 0 .. K + 1 /\ hashes \in Tables
  /\ tree = [r \in 0 .. K - 1 |-> tree[r]]
  /\ \A r \in 0 .. K - 1 : LevelOK(r) /\ (r >= round => tree[r] = Empty)

\* The hashes of the last round, each beside its node, in the bucket of the digit
\* that is to come.
HeapOK ==
  /\ \A b \in Buckets : heap[b] \in Seq(Hashes) /\ Len(heap[b]) <= NSLOTS
  /\ round \in 1 .. K =>
       \A b \in Buckets :
         /\ DOMAIN heap[b] = DOMAIN tree[round - 1][b]
         /\ \A s \in DOMAIN heap[b] : Bucket(heap[b][s][round]) = b

\* A round stores nodes it made, each with its hash in the bucket of its next
\* digit, and all of them if no bucket overflows.
StoreOutcome(nodes, hash) ==
  /\ tree' = [r \in 0 .. K - 1 |-> tree'[r]]
  /\ \A r \in 0 .. K - 1 : r # round => tree'[r] = tree[r]
  /\ tree'[round] = [b \in Buckets |-> tree'[round][b]]
  /\ \A b \in Buckets :
       /\ tree'[round][b] \in Seq(nodes) /\ Len(tree'[round][b]) <= NSLOTS
       /\ heap'[b] \in Seq(Hashes) /\ Len(heap'[b]) <= NSLOTS
       /\ DOMAIN heap'[b] = DOMAIN tree'[round][b]
       /\ \A s \in DOMAIN heap'[b] : /\ heap'[b][s] = hash[tree'[round][b][s]]
                                     /\ Bucket(heap'[b][s][round + 1]) = b
                                     /\ tree'[round][b][s] \in nodes
  /\ ~full' =>
       /\ ~full
       /\ \A t \in nodes :
            LET b == Bucket(hash[t][round + 1])
            IN \E s \in DOMAIN heap'[b] : tree'[round][b][s] = t /\ heap'[b][s] = hash[t]

\* getslot0 and getslot1 do that.
LEMMA StoreFacts ==
  ASSUME TreeOK, round \in 0 .. K - 1,
         NEW nodes, nodes \subseteq Nodes, IsFiniteSet(nodes),
         NEW hash, \A t \in nodes : hash[t] \in Hashes,
         Store(nodes, hash)
  PROVE  StoreOutcome(nodes, hash)
<1> DEFINE col(b) == Stored(nodes, hash, b)
           of(b) == OfBucket(b, nodes, hash)
<1>1. /\ tree' = [tree EXCEPT ![round] = [b \in Buckets |-> col(b)]]
      /\ heap' = [b \in Buckets |-> [s \in DOMAIN col(b) |-> hash[col(b)[s]]]]
      /\ full' = (full \/ \E b \in Buckets : Cardinality(of(b)) > NSLOTS)
  <2> DEFINE stored == [b \in Buckets |-> First(NSLOTS, InOrder(OfBucket(b, nodes, hash)))]
  <2>1. /\ tree' = [tree EXCEPT ![round] = stored]
        /\ heap' = [b \in Buckets |-> [s \in DOMAIN stored[b] |-> hash[stored[b][s]]]]
        /\ full' = (full \/ \E b \in Buckets : Cardinality(of(b)) > NSLOTS)
    BY DEF Store
  <2>2. stored = [b \in Buckets |-> col(b)]  BY DEF Stored
  <2> HIDE DEF stored, col, of
  <2>3. \A b \in Buckets : [s \in DOMAIN stored[b] |-> hash[stored[b][s]]]
                             = [s \in DOMAIN col(b) |-> hash[col(b)[s]]]
    BY <2>2
  <2>4. heap' = [b \in Buckets |-> [s \in DOMAIN col(b) |-> hash[col(b)[s]]]]
    BY <2>1, <2>3, Zenon
  <2> QED BY <2>1, <2>2, <2>4
<1>2. \A b : /\ col(b) \in Seq(of(b)) /\ Len(col(b)) <= NSLOTS
             /\ Cardinality(of(b)) \in Nat
             /\ Cardinality(of(b)) <= NSLOTS =>
                  \A t \in of(b) : \E s \in DOMAIN col(b) : col(b)[s] = t
  BY StoredFacts
<1>3. \A b : of(b) = {t \in nodes : Bucket(hash[t][round + 1]) = b}
  BY DEF OfBucket
<1> HIDE DEF col, of
<1>4. tree = [r \in 0 .. K - 1 |-> tree[r]]  BY DEF TreeOK
<1>5. /\ tree' = [r \in 0 .. K - 1 |-> tree'[r]]
      /\ \A r \in 0 .. K - 1 : r # round => tree'[r] = tree[r]
      /\ tree'[round] = [b \in Buckets |-> col(b)]
  BY <1>1, <1>4
<1>6. \A b \in Buckets : tree'[round][b] = col(b)  BY <1>5
<1>7. ASSUME NEW b \in Buckets
      PROVE  /\ tree'[round][b] \in Seq(nodes) /\ Len(tree'[round][b]) <= NSLOTS
             /\ heap'[b] \in Seq(Hashes) /\ Len(heap'[b]) <= NSLOTS
             /\ DOMAIN heap'[b] = DOMAIN tree'[round][b]
             /\ \A s \in DOMAIN heap'[b] : /\ heap'[b][s] = hash[tree'[round][b][s]]
                                           /\ Bucket(heap'[b][s][round + 1]) = b
                                           /\ tree'[round][b][s] \in nodes
  <2> DEFINE c == col(b)
             h == heap'[b]
  <2>1. c \in Seq(of(b)) /\ Len(c) <= NSLOTS /\ tree'[round][b] = c  BY <1>2, <1>6
  <2>2. h = [s \in DOMAIN c |-> hash[c[s]]]  BY <1>1
  <2> HIDE DEF c, h
  <2>3. DOMAIN c = 1 .. Len(c) /\ Len(c) \in Nat /\ \A s \in 1 .. Len(c) : c[s] \in of(b)
    BY <2>1, LenProperties, ElementOfSeq
  <2>4. c \in Seq(nodes)
    <3>1. of(b) \subseteq nodes  BY <1>3
    <3> QED BY <2>1, <3>1, SeqMonotonic
  <2>5. \A s \in 1 .. Len(c) : c[s] \in nodes /\ Bucket(hash[c[s]][round + 1]) = b
    BY <1>3, <2>3
  <2>6. h = [s \in 1 .. Len(c) |-> hash[c[s]]]  BY <2>2, <2>3
  <2>7. \A s \in 1 .. Len(c) : hash[c[s]] \in Hashes  BY <2>5
  <2>8. h \in Seq(Hashes) /\ Len(h) = Len(c) /\ DOMAIN h = 1 .. Len(c)
    BY <2>3, <2>6, <2>7
  <2> QED BY <2>1, <2>3, <2>4, <2>5, <2>6, <2>8 DEF h
<1>8. ASSUME ~full'
      PROVE  /\ ~full
             /\ \A t \in nodes :
                  LET b == Bucket(hash[t][round + 1])
                  IN \E s \in DOMAIN heap'[b] : tree'[round][b][s] = t /\ heap'[b][s] = hash[t]
  <2>1. ~full  BY <1>1, <1>8
  <2>2. NSLOTS \in Nat  BY EquihashAssumption
  <2> DEFINE card(b) == Cardinality(of(b))
  <2>3. \A b \in Buckets : card(b) \in Nat /\ ~(card(b) > NSLOTS)  BY <1>1, <1>2, <1>8
  <2> HIDE DEF card
  <2>4. \A b \in Buckets : card(b) <= NSLOTS  BY <2>2, <2>3
  <2>5. ASSUME NEW t \in nodes
        PROVE  LET b == Bucket(hash[t][round + 1])
               IN \E s \in DOMAIN heap'[b] : tree'[round][b][s] = t /\ heap'[b][s] = hash[t]
    <3> DEFINE b == Bucket(hash[t][round + 1])
    <3>1. b \in Buckets
      <4>1. round + 1 \in 1 .. K + 2  BY PuzzleAssumption
      <4>2. hash[t][round + 1] \in Digits  BY <4>1 DEF Hashes
      <4> QED BY <4>2, DigitFacts
    <3>2. t \in of(b)  BY <1>3
    <3> HIDE DEF b
    <3>3. PICK s \in DOMAIN col(b) : col(b)[s] = t  BY <1>2, <2>4, <3>1, <3>2 DEF card
    <3>4. DOMAIN heap'[b] = DOMAIN col(b) /\ tree'[round][b] = col(b)
      BY <1>6, <1>7, <3>1
    <3>5. tree'[round][b][s] = t /\ heap'[b][s] = hash[t]  BY <1>7, <3>1, <3>3, <3>4
    <3> QED BY <3>3, <3>4, <3>5 DEF b
  <2> QED BY <2>1, <2>5
<1>9. tree'[round] = [b \in Buckets |-> tree'[round][b]]  BY <1>5, <1>6
<1> QED BY <1>5, <1>7, <1>8, <1>9 DEF StoreOutcome

\* A collision is a node over two slots whose hashes agree in the digit of the
\* round: the bucket and the rest bits are all of it.
LEMMA CollisionFacts ==
  ASSUME TreeOK, HeapOK, round \in 1 .. K
  PROVE  /\ Collisions \subseteq Nodes /\ IsFiniteSet(Collisions)
         /\ \A t \in Collisions :
              /\ IsNode(t, tree[round - 1])
              /\ t[2] \in DOMAIN tree[round - 1][t[1]]
              /\ t[2] \in DOMAIN heap[t[1]] /\ t[3] \in DOMAIN heap[t[1]]
              /\ heap[t[1]][t[2]] \in Hashes /\ heap[t[1]][t[3]] \in Hashes
              /\ heap[t[1]][t[2]][round] = heap[t[1]][t[3]][round]
              /\ XorOf(t) \in Hashes
<1>1. NSLOTS \in Nat /\ K \in Nat /\ NBUCKETS \in Nat
  BY EquihashAssumption, PuzzleAssumption
<1> DEFINE P == Buckets \X Slots \X Slots
           D == (Buckets \X Slots) \X Slots
           f == [d \in D |-> <<d[1][1], d[1][2], d[2]>>]
<1>2. P \subseteq Nodes  BY <1>1 DEF Buckets, Slots, Nodes
<1>3. IsFiniteSet(P)
  <2>1. IsFiniteSet(Buckets) /\ IsFiniteSet(Slots)
    BY <1>1, FS_Interval DEF Buckets, Slots
  <2>2. IsFiniteSet(D)  BY <2>1, FS_Product
  <2>3. f \in [D -> P]  OBVIOUS
  <2>4. ASSUME NEW t \in P PROVE \E d \in D : f[d] = t
    <3>1. t = <<t[1], t[2], t[3]>> /\ t[1] \in Buckets /\ t[2] \in Slots /\ t[3] \in Slots
      OBVIOUS
    <3>2. << <<t[1], t[2]>>, t[3]>> \in D  BY <3>1
    <3>3. f[<< <<t[1], t[2]>>, t[3]>>] = t  BY <3>1, <3>2
    <3> HIDE DEF f, D
    <3> QED BY <3>2, <3>3
  <2> HIDE DEF f, D, P
  <2>5. f \in Surjection(D, P)  BY <2>3, <2>4 DEF Surjection
  <2> QED BY <2>2, <2>5, FS_Surjection
<1>4. Collisions \in SUBSET P  BY DEF Collisions
<1>5. IsFiniteSet(Collisions)
  <2> HIDE DEF P
  <2> QED BY <1>3, <1>4, FS_Subset
<1>6. ASSUME NEW t \in Collisions
      PROVE  /\ IsNode(t, tree[round - 1])
             /\ t[2] \in DOMAIN tree[round - 1][t[1]]
             /\ t[2] \in DOMAIN heap[t[1]] /\ t[3] \in DOMAIN heap[t[1]]
             /\ heap[t[1]][t[2]] \in Hashes /\ heap[t[1]][t[3]] \in Hashes
             /\ heap[t[1]][t[2]][round] = heap[t[1]][t[3]][round]
             /\ XorOf(t) \in Hashes
  <2> DEFINE h == heap[t[1]]
  <2>1. /\ t \in P /\ t[1] \in Buckets /\ t[2] \in Slots /\ t[3] \in Slots
        /\ t[2] < t[3] /\ t[3] \in DOMAIN h
        /\ Rest(h[t[2]][round]) = Rest(h[t[3]][round])
    BY DEF Collisions
  <2>2. /\ h \in Seq(Hashes) /\ DOMAIN h = DOMAIN tree[round - 1][t[1]]
        /\ \A s \in DOMAIN h : Bucket(h[s][round]) = t[1]
    BY <2>1 DEF HeapOK
  <2> HIDE DEF h
  <2>3. DOMAIN h = 1 .. Len(h) /\ Len(h) \in Nat  BY <2>2, LenProperties
  <2>4. t[2] \in DOMAIN h
    <3>1. t[2] \in Nat /\ t[2] >= 1 /\ t[3] \in Nat  BY <1>1, <2>1 DEF Slots
    <3> QED BY <2>1, <2>3, <3>1
  <2>5. h[t[2]] \in Hashes /\ h[t[3]] \in Hashes
    BY <2>1, <2>2, <2>3, <2>4, ElementOfSeq
  <2>6. h[t[2]][round] = h[t[3]][round]
    <3>1. round \in 1 .. K + 2  BY <1>1
    <3>2. h[t[2]][round] \in Digits /\ h[t[3]][round] \in Digits
      BY <2>5, <3>1 DEF Hashes
    <3> QED BY <2>1, <2>2, <2>4, <3>2, DigitFacts
  <2>7. XorOf(t) \in Hashes  BY <2>5, XorFacts DEF XorOf, h
  <2>8. IsNode(t, tree[round - 1])  BY <2>1, <2>2 DEF IsNode, h
  <2> QED BY <2>1, <2>2, <2>4, <2>5, <2>6, <2>7, <2>8 DEF h
<1> QED BY <1>2, <1>4, <1>5, <1>6

\* A round adds a level of nodes over the last one, and their hashes.
LEMMA StoreKeepsTree ==
  ASSUME TreeOK, round \in 0 .. K - 1, round' = round + 1, hashes' = hashes,
         NEW nodes, nodes \subseteq Nodes, IsFiniteSet(nodes),
         \A t \in nodes : IF round = 0 THEN t[1] \in Leaves ELSE IsNode(t, tree[round - 1]),
         NEW hash, \A t \in nodes : hash[t] \in Hashes,
         Store(nodes, hash)
  PROVE  TreeOK' /\ HeapOK'
<1>1. /\ tree' = [r \in 0 .. K - 1 |-> tree'[r]]
      /\ \A r \in 0 .. K - 1 : r # round => tree'[r] = tree[r]
      /\ tree'[round] = [b \in Buckets |-> tree'[round][b]]
      /\ \A b \in Buckets :
           /\ tree'[round][b] \in Seq(nodes) /\ Len(tree'[round][b]) <= NSLOTS
           /\ heap'[b] \in Seq(Hashes) /\ Len(heap'[b]) <= NSLOTS
           /\ DOMAIN heap'[b] = DOMAIN tree'[round][b]
           /\ \A s \in DOMAIN heap'[b] : /\ Bucket(heap'[b][s][round + 1]) = b
                                         /\ tree'[round][b][s] \in nodes
  BY StoreFacts DEF StoreOutcome
<1>2. K \in Nat /\ NSLOTS \in Nat  BY PuzzleAssumption, EquihashAssumption
<1>3. round + 1 \in 0 .. K + 1 /\ round' - 1 = round  BY <1>2
<1>4. ASSUME NEW r \in 0 .. K - 1
      PROVE  LevelOK(r)' /\ (r >= round' => tree'[r] = Empty)
  <2>1. CASE r < round
    <3>1. tree'[r] = tree[r]  BY <1>1, <2>1
    <3>2. r # 0 => tree'[r - 1] = tree[r - 1]
      <4>1. r # 0 => r - 1 \in 0 .. K - 1 /\ r - 1 # round  BY <1>2, <2>1
      <4> QED BY <1>1, <4>1
    <3>3. LevelOK(r)  BY DEF TreeOK
    <3>4. LevelOK(r)'
      <4>1. CASE r = 0  BY <3>1, <3>3, <4>1 DEF LevelOK
      <4>2. CASE r # 0  BY <3>1, <3>2, <3>3, <4>2 DEF LevelOK
      <4> QED BY <4>1, <4>2
    <3> QED BY <1>2, <2>1, <3>4
  <2>2. CASE r = round
    <3>1. r # 0 => tree'[r - 1] = tree[r - 1]
      <4>1. r # 0 => r - 1 \in 0 .. K - 1 /\ r - 1 # round  BY <1>2, <2>2
      <4> QED BY <1>1, <4>1
    <3>2. \A b \in Buckets : Column(tree'[r][b])
      BY <1>1, <2>2, SeqMonotonic DEF Column
    <3>3. \A b \in Buckets : \A s \in DOMAIN tree'[r][b] : tree'[r][b][s] \in nodes
      BY <1>1, <2>2
    <3>4. LevelOK(r)'
      <4>1. CASE r = 0  BY <1>1, <2>2, <3>2, <3>3, <4>1 DEF LevelOK, Column
      <4>2. CASE r # 0  BY <1>1, <2>2, <3>1, <3>2, <3>3, <4>2 DEF LevelOK, Column
      <4> QED BY <4>1, <4>2
    <3> QED BY <1>2, <2>2, <3>4
  <2>3. CASE r > round
    <3>1. r # round /\ r >= round  BY <1>2, <2>3
    <3>2. tree'[r] = Empty  BY <1>1, <3>1 DEF TreeOK
    <3>3. Column(<<>>)
      <4>1. <<>> \in Seq(Nodes) /\ Len(<<>>) = 0  OBVIOUS
      <4> QED BY <1>2, <4>1 DEF Column
    <3>4. DOMAIN <<>> = {}  OBVIOUS
    <3>5. \A b \in Buckets : tree'[r][b] = <<>>  BY <3>2 DEF Empty
    <3>6. LevelOK(r)'
      <4>1. \A b \in Buckets : Column(tree'[r][b]) /\ DOMAIN tree'[r][b] = {}
        BY <3>3, <3>4, <3>5
      <4>2. tree'[r] = [b \in Buckets |-> tree'[r][b]]  BY <3>2, <3>5 DEF Empty
      <4>3. r # 0  BY <1>2, <2>3
      <4> QED BY <4>1, <4>2, <4>3 DEF LevelOK, Column
    <3> QED BY <3>2, <3>6
  <2> QED BY <1>2, <2>1, <2>2, <2>3
<1>5. TreeOK'
  BY <1>1, <1>3, <1>4 DEF TreeOK
<1>6. HeapOK'
  BY <1>1, <1>3 DEF HeapOK
<1> QED BY <1>5, <1>6

\* The nodes of the leaves.
LeafNodes == {Leaf(i) : i \in Leaves}

\* They are finitely many, and each is the leaf of its index.
LEMMA LeafFacts ==
  /\ LeafNodes \subseteq Nodes /\ IsFiniteSet(LeafNodes)
  /\ \A t \in LeafNodes : t[1] \in Leaves /\ t = Leaf(t[1])
<1> DEFINE f == [i \in Leaves |-> Leaf(i)]
<1>1. NHASHES \in Nat  BY PuzzleAssumption
<1>2. IsFiniteSet(Leaves)  BY <1>1, FS_Interval DEF Leaves
<1>3. f \in Surjection(Leaves, LeafNodes)
  <2>1. f \in [Leaves -> LeafNodes]  BY DEF LeafNodes
  <2>2. \A t \in LeafNodes : \E i \in Leaves : f[i] = t  BY DEF LeafNodes
  <2> HIDE DEF f
  <2> QED BY <2>1, <2>2 DEF Surjection
<1>4. IsFiniteSet(LeafNodes)
  <2> HIDE DEF f
  <2> QED BY <1>2, <1>3, FS_Surjection
<1>5. \A i \in Leaves : Leaf(i) \in Nodes /\ Leaf(i)[1] = i
  BY DEF Leaf, Leaves, Nodes
<1> QED BY <1>4, <1>5 DEF LeafNodes

\* The nodes that a round keeps.
Kept == {t \in Collisions : ~TakenForRepeat(XorOf(t))}

\* The rounds as what they store.
LEMMA DigitStores ==
  /\ Digit0 => Store(LeafNodes, [t \in LeafNodes |-> hashes[t[1]]])
  /\ Digit => Store(Kept, [t \in Kept |-> XorOf(t)])
BY DEF Digit0, Digit, LeafNodes, Kept

\* What the first round stores are the hashes of the leaves.
LEMMA Digit0Facts ==
  ASSUME TreeOK
  PROVE  \A t \in LeafNodes : [u \in LeafNodes |-> hashes[u[1]]][t] \in Hashes
<1>1. hashes \in [Leaves -> Hashes]  BY DEF TreeOK, Tables
<1> QED BY <1>1, LeafFacts

\* What a later round stores are nodes over the round before.
LEMMA DigitFactsOfNodes ==
  ASSUME TreeOK, HeapOK, round \in 1 .. K
  PROVE  /\ Kept \subseteq Collisions /\ Kept \subseteq Nodes /\ IsFiniteSet(Kept)
         /\ \A t \in Kept : /\ IsNode(t, tree[round - 1])
                            /\ [u \in Kept |-> XorOf(u)][t] \in Hashes
<1>1. Kept \in SUBSET Collisions  BY DEF Kept
<1>2. IsFiniteSet(Kept)  BY <1>1, CollisionFacts, FS_Subset
<1> QED BY <1>1, <1>2, CollisionFacts

\* Each step keeps the trees and the hashes well formed.
LEMMA TreeStep ==
  ASSUME TreeOK, HeapOK, [Next]_vars
  PROVE  TreeOK' /\ HeapOK'
<1>1. K \in Nat /\ K >= 1  BY PuzzleAssumption
<1>2. CASE UNCHANGED <<hashes, round, heap, tree>>
  <2>1. \A r : LevelOK(r)' <=> LevelOK(r)  BY <1>2 DEF LevelOK
  <2> QED BY <1>2, <2>1 DEF TreeOK, HeapOK
<1>3. CASE Digit0
  <2>1. round = 0 /\ round' = round + 1 /\ hashes' = hashes  BY <1>3 DEF Digit0
  <2>2. round \in 0 .. K - 1  BY <1>1, <2>1
  <2>3. \A t \in LeafNodes :
          IF round = 0 THEN t[1] \in Leaves ELSE IsNode(t, tree[round - 1])
    BY <2>1, LeafFacts
  <2> QED BY <1>3, <2>1, <2>2, <2>3, LeafFacts, Digit0Facts, DigitStores, StoreKeepsTree
<1>4. CASE Digit
  <2>1. round \in 1 .. K - 1 /\ round' = round + 1 /\ hashes' = hashes  BY <1>4 DEF Digit
  <2>2. round \in 0 .. K - 1 /\ round # 0 /\ round \in 1 .. K  BY <1>1, <2>1
  <2>3. \A t \in Kept : IF round = 0 THEN t[1] \in Leaves ELSE IsNode(t, tree[round - 1])
    BY <2>2, DigitFactsOfNodes
  <2> QED BY <1>4, <2>1, <2>2, <2>3, DigitFactsOfNodes, DigitStores, StoreKeepsTree
<1>5. CASE DigitK
  <2>1. round' = K + 1 /\ UNCHANGED <<hashes, heap, tree>> /\ round = K  BY <1>5 DEF DigitK
  <2>2. \A r : LevelOK(r)' <=> LevelOK(r)  BY <2>1 DEF LevelOK
  <2>3. \A r \in 0 .. K - 1 : ~(r >= K + 1)  BY <1>1
  <2>4. K + 1 \in 0 .. K + 1 /\ K + 1 \notin 1 .. K  BY <1>1
  <2>5. TreeOK'  BY <2>1, <2>2, <2>3, <2>4 DEF TreeOK
  <2>6. HeapOK'  BY <2>1, <2>4 DEF HeapOK
  <2> QED BY <2>5, <2>6
<1>6. CASE Cancel \/ Report \/ HashDone \/ UNCHANGED vars
  BY <1>2, <1>6 DEF Cancel, Report, HashDone, vars
<1> QED BY <1>3, <1>4, <1>5, <1>6 DEF Next

\* A solve starts with an empty tree.
LEMMA TreeInit ==
  ASSUME Idle, hashes \in Tables
  PROVE  TreeOK /\ HeapOK
<1>1. K \in Nat /\ K >= 1 /\ NSLOTS \in Nat  BY PuzzleAssumption, EquihashAssumption
<1>2. /\ round = 0 /\ heap = Empty /\ tree = [r \in 0 .. K - 1 |-> Empty]
      /\ hashes \in Tables
  BY DEF Idle
<1>3. /\ <<>> \in Seq(Hashes) /\ <<>> \in Seq(Nodes) /\ Len(<<>>) <= NSLOTS
      /\ DOMAIN <<>> = {}
  <2>1. <<>> \in Seq(Hashes) /\ <<>> \in Seq(Nodes) /\ Len(<<>>) = 0  BY EmptySeq
  <2> QED BY <1>1, <2>1
<1>4. \A b \in Buckets : Empty[b] = <<>>  BY DEF Empty
<1>5. Empty = [b \in Buckets |-> Empty[b]]  BY DEF Empty
<1>6. ASSUME NEW r \in 0 .. K - 1 PROVE LevelOK(r) /\ tree[r] = Empty
  <2>1. tree[r] = Empty  BY <1>2
  <2>2. \A b \in Buckets : Column(tree[r][b]) /\ DOMAIN tree[r][b] = {}
    BY <1>3, <1>4, <2>1, Zenon DEF Column
  <2>3. tree[0] = Empty  BY <1>1, <1>2
  <2> QED BY <1>5, <2>1, <2>2, <2>3 DEF LevelOK, Column
<1>7. TreeOK
  <2>1. 0 \in 0 .. K + 1  BY <1>1
  <2>2. tree = [r \in 0 .. K - 1 |-> tree[r]]  BY <1>2
  <2> QED BY <1>2, <1>6, <2>1, <2>2 DEF TreeOK
<1>8. HeapOK
  <2>1. \A b \in Buckets : heap[b] \in Seq(Hashes) /\ Len(heap[b]) <= NSLOTS
    BY <1>2, <1>3, <1>4, Zenon
  <2>2. round \notin 1 .. K  BY <1>2
  <2> QED BY <2>1, <2>2 DEF HeapOK
<1> QED BY <1>7, <1>8

----------------------------------------------------------------------------
(* The lists of indices of the nodes.                                      *)

\* A list of indices as long as those of round r are.
IsList(r, l) == l \in Seq(Leaves) /\ Len(l) = ProofSize[r]

\* The list of a node: those of its slots, the smaller first index first.
LEMMA ListIndicesFacts ==
  ASSUME TreeOK, NEW r \in 1 .. K, NEW t, IsNode(t, tree[r - 1]), NEW below,
         \A b \in Buckets : \A s \in DOMAIN tree[r - 1][b] : IsList(r - 1, below[b][s].indices)
  PROVE  LET a == below[t[1]][t[2]].indices
             c == below[t[1]][t[3]].indices
         IN /\ t[1] \in Buckets /\ t[2] \in DOMAIN tree[r - 1][t[1]] /\ t[2] # t[3]
            /\ IsList(r - 1, a) /\ IsList(r - 1, c)
            /\ ListIndices(r, t, below).indices = Ordered(a, c)
            /\ IsList(r, Ordered(a, c))
            /\ Range(Ordered(a, c)) = Range(a) \union Range(c)
            /\ IsInjective(Ordered(a, c)) =>
                 IsInjective(a) /\ IsInjective(c) /\ Range(a) \intersect Range(c) = {}
            /\ a[1] \in Leaves /\ c[1] \in Leaves /\ a[1] \in Range(a) /\ c[1] \in Range(c)
<1> DEFINE a == below[t[1]][t[2]].indices
           c == below[t[1]][t[3]].indices
           n == ProofSize[r - 1]
<1>1. /\ t[1] \in Buckets /\ t[2] \in Slots /\ t[3] \in Slots /\ t[2] < t[3]
      /\ t[3] \in DOMAIN tree[r - 1][t[1]]
  BY DEF IsNode
<1>2. K \in Nat /\ NSLOTS \in Nat /\ r - 1 \in 0 .. K - 1
  BY PuzzleAssumption, EquihashAssumption
<1>3. tree[r - 1][t[1]] \in Seq(Nodes)
  BY <1>1, <1>2 DEF TreeOK, LevelOK, Column
<1>4. t[2] \in DOMAIN tree[r - 1][t[1]] /\ t[2] # t[3]
  <2>1. DOMAIN tree[r - 1][t[1]] = 1 .. Len(tree[r - 1][t[1]])
        /\ Len(tree[r - 1][t[1]]) \in Nat
    BY <1>3, LenProperties
  <2> QED BY <1>1, <1>2, <2>1 DEF Slots
<1>5. IsList(r - 1, a) /\ IsList(r - 1, c)  BY <1>1, <1>4
<1>6. n \in Nat \ {0} /\ ProofSize[r] = 2 * n
  <2>1. r - 1 \in 0 .. K  BY <1>2
  <2> QED BY <2>1, SizeFacts
<1>7. ListIndices(r, t, below).indices = Ordered(a, c)  BY DEF ListIndices
<1> HIDE DEF a, c
<1>8. a \in Seq(Leaves) /\ c \in Seq(Leaves) /\ Len(a) = n /\ Len(c) = n
  BY <1>5 DEF IsList
<1> HIDE DEF n
<1>9. /\ Ordered(a, c) \in Seq(Leaves) /\ Len(Ordered(a, c)) = 2 * n
      /\ Range(Ordered(a, c)) = Range(a) \union Range(c)
      /\ IsInjective(Ordered(a, c)) =>
           IsInjective(a) /\ IsInjective(c) /\ Range(a) \intersect Range(c) = {}
      /\ a[1] \in Leaves /\ c[1] \in Leaves /\ a[1] \in Range(a) /\ c[1] \in Range(c)
  BY <1>6, <1>8, OrderedFacts
<1>10. IsList(r, Ordered(a, c))  BY <1>6, <1>9 DEF IsList
<1> QED BY <1>1, <1>4, <1>5, <1>7, <1>9, <1>10 DEF a, c

\* The list of a slot is as long as the round makes it.
LEMMA ListsTyped ==
  ASSUME TreeOK
  PROVE  \A r \in 0 .. K - 1 : \A b \in Buckets : \A s \in DOMAIN tree[r][b] :
           IsList(r, Lists[r][b][s].indices)
<1> DEFINE OK(r) == \A b \in Buckets : \A s \in DOMAIN tree[r][b] :
                      IsList(r, Lists[r][b][s].indices)
           B == {r \in 0 .. K - 1 : ~OK(r)}
<1>1. K \in Nat  BY PuzzleAssumption
<1> SUFFICES ASSUME B # {} PROVE FALSE
  OBVIOUS
<1>2. PICK r \in B : \A k \in Nat : k < r => k \notin B
  <2>1. B \subseteq Nat  OBVIOUS
  <2> HIDE DEF B
  <2> QED BY <2>1, Smallest
<1>3. r \in 0 .. K - 1  OBVIOUS
<1>4. CASE r = 0
  <2>1. ASSUME NEW b \in Buckets, NEW s \in DOMAIN tree[0][b]
        PROVE  IsList(0, Lists[0][b][s].indices)
    <3>1. Lists[0][b][s].indices = <<tree[0][b][s][1]>>
      <4>1. Lists[0] = [d \in Buckets |-> [v \in DOMAIN tree[0][d] |->
                          [indices |-> <<tree[0][d][v][1]>>, dup |-> FALSE]]]
        BY ListsFacts DEF ListsByRound
      <4>2. Lists[0][b][s] = [indices |-> <<tree[0][b][s][1]>>, dup |-> FALSE]
        BY <4>1, <2>1
      <4> QED BY <4>2
    <3>2. tree[0][b][s][1] \in Leaves  BY <1>3, <1>4 DEF TreeOK, LevelOK
    <3> DEFINE i == tree[0][b][s][1]
    <3> HIDE DEF i
    <3>3. i \in Leaves => <<i>> \in Seq(Leaves) /\ Len(<<i>>) = 1  OBVIOUS
    <3> QED BY <3>1, <3>2, <3>3, SizeFacts DEF IsList, i
  <2> QED BY <1>2, <1>4, <2>1
<1>5. CASE r # 0
  <2>1. r \in 1 .. K - 1 /\ r \in 1 .. K /\ r - 1 \in 0 .. K - 1 /\ r - 1 \in Nat /\ r - 1 < r
    BY <1>1, <1>3, <1>5
  <2>2. OK(r - 1)  BY <1>2, <2>1
  <2>3. ASSUME NEW b \in Buckets, NEW s \in DOMAIN tree[r][b]
        PROVE  IsList(r, Lists[r][b][s].indices)
    <3>1. Lists[r][b][s] = ListIndices(r, tree[r][b][s], Lists[r - 1])
      BY <2>1, ListsFacts, ListIndicesOver, ListsOverAt DEF ListsByRound
    <3>2. IsNode(tree[r][b][s], tree[r - 1])
      BY <1>3, <1>5 DEF TreeOK, LevelOK
    <3> DEFINE t == tree[r][b][s]
               below == Lists[r - 1]
    <3> HIDE DEF t, below
    <3>3. \A d \in Buckets : \A e \in DOMAIN tree[r - 1][d] : IsList(r - 1, below[d][e].indices)
      BY <2>2 DEF below
    <3>4. LET a == below[t[1]][t[2]].indices
              c == below[t[1]][t[3]].indices
          IN ListIndices(r, t, below).indices = Ordered(a, c) /\ IsList(r, Ordered(a, c))
      <4>1. IsNode(t, tree[r - 1])  BY <3>2 DEF t
      <4> QED BY <2>1, <3>3, <4>1, ListIndicesFacts
    <3> QED BY <3>1, <3>4 DEF t, below
  <2> QED BY <1>2, <2>3
<1> QED BY <1>4, <1>5

\* The same of the next state.
LEMMA ListsFactsNext == ListsByRound'
BY ListsFacts, PTL

\* A round adds its lists and leaves those of the rounds before.
LEMMA ListsStep ==
  ASSUME round \in 0 .. K - 1, \A r \in 0 .. K - 1 : r # round => tree'[r] = tree[r]
  PROVE  /\ \A r \in 0 .. round - 1 : Lists'[r] = Lists[r]
         /\ round = 0 =>
              \A b \in Buckets : \A s \in DOMAIN tree'[0][b] :
                Lists'[0][b][s] = [indices |-> <<tree'[0][b][s][1]>>, dup |-> FALSE]
         /\ round # 0 =>
              \A b \in Buckets : \A s \in DOMAIN tree'[round][b] :
                Lists'[round][b][s] = ListIndices(round, tree'[round][b][s], Lists[round - 1])
<1>1. K \in Nat  BY PuzzleAssumption
<1>2. /\ Lists'[0] = [b \in Buckets |-> [s \in DOMAIN tree'[0][b] |->
                  [indices |-> <<tree'[0][b][s][1]>>, dup |-> FALSE]]]
      /\ \A r \in 1 .. K - 1 :
           Lists'[r] = ListsOver(r, tree'[r - 1], tree'[r], Lists'[r - 1])
  BY ListsFactsNext DEF ListsByRound
<1>3. /\ Lists[0] = [b \in Buckets |-> [s \in DOMAIN tree[0][b] |->
                  [indices |-> <<tree[0][b][s][1]>>, dup |-> FALSE]]]
      /\ \A r \in 1 .. K - 1 :
           Lists[r] = ListsOver(r, tree[r - 1], tree[r], Lists[r - 1])
  BY ListsFacts DEF ListsByRound
<1>4. \A r \in 0 .. round - 1 : Lists'[r] = Lists[r]
  <2> DEFINE B == {r \in 0 .. round - 1 : Lists'[r] # Lists[r]}
  <2> SUFFICES ASSUME B # {} PROVE FALSE
    OBVIOUS
  <2>1. PICK r \in B : \A k \in Nat : k < r => k \notin B
    <3>1. B \subseteq Nat  OBVIOUS
    <3> HIDE DEF B
    <3> QED BY <3>1, Smallest
  <2>2. r \in 0 .. round - 1 /\ r \in 0 .. K - 1 /\ tree'[r] = tree[r]  BY <1>1
  <2>3. CASE r = 0  BY <1>2, <1>3, <2>1, <2>2, <2>3
  <2>4. CASE r # 0
    <3>1. r \in 1 .. K - 1 /\ r - 1 \in 0 .. K - 1 /\ r - 1 # round /\ r - 1 \in 0 .. round - 1
          /\ r - 1 \in Nat /\ r - 1 < r
      BY <1>1, <2>2, <2>4
    <3>2. tree'[r - 1] = tree[r - 1]  BY <3>1
    <3>3. Lists'[r - 1] = Lists[r - 1]  BY <2>1, <3>1
    <3>4. Lists'[r] = Lists[r]
      BY <1>2, <1>3, <2>2, <3>1, <3>2, <3>3
    <3> QED BY <2>1, <3>4
  <2> QED BY <2>3, <2>4
<1>5. round # 0 =>
        \A b \in Buckets : \A s \in DOMAIN tree'[round][b] :
          Lists'[round][b][s] = ListIndices(round, tree'[round][b][s], Lists[round - 1])
  <2> SUFFICES ASSUME round # 0, NEW b \in Buckets, NEW s \in DOMAIN tree'[round][b]
               PROVE  Lists'[round][b][s]
                        = ListIndices(round, tree'[round][b][s], Lists[round - 1])
    OBVIOUS
  <2>1. round \in 1 .. K - 1 /\ round - 1 \in 0 .. K - 1 /\ round - 1 # round
        /\ round - 1 \in 0 .. round - 1
    BY <1>1
  <2>2. tree'[round - 1] = tree[round - 1] /\ Lists'[round - 1] = Lists[round - 1]
    BY <1>4, <2>1
  <2>3. Lists'[round][b][s]
          = IndicesOver(round, tree'[round - 1], tree'[round][b][s], Lists'[round - 1])
    BY <1>2, <2>1, ListsOverAt
  <2>4. ListIndices(round, tree'[round][b][s], Lists[round - 1])
          = IndicesOver(round, tree[round - 1], tree'[round][b][s], Lists[round - 1])
    BY ListIndicesOver
  <2> QED BY <2>2, <2>3, <2>4
<1>6. \A b \in Buckets : \A s \in DOMAIN tree'[0][b] :
        Lists'[0][b][s] = [indices |-> <<tree'[0][b][s][1]>>, dup |-> FALSE]
  BY <1>2
<1> QED BY <1>4, <1>5, <1>6

----------------------------------------------------------------------------
(* What is reported is accepted.                                           *)

\* The verifier would make a row of the list of each slot that has no index twice:
\* the row whose hash the slot holds.
AcceptOK ==
  round \in 1 .. K =>
    \A b \in Buckets : \A s \in DOMAIN heap[b] :
      IsInjective(Lists[round - 1][b][s].indices) =>
        Verified(hashes, Lists[round - 1][b][s].indices, round - 1,
                 RowFrom(round, heap[b][s], Lists[round - 1][b][s].indices))

\* The list that the leaves of a new node make.
NewList(t) == ListIndices(round, t, Lists[round - 1])

\* It is made of the lists of two slots of the round before.
LEMMA NewListTyped ==
  ASSUME TreeOK, HeapOK, round \in 1 .. K, NEW t \in Collisions
  PROVE  /\ NewList(t).indices
              = Ordered(Lists[round - 1][t[1]][t[2]].indices, Lists[round - 1][t[1]][t[3]].indices)
         /\ IsList(round - 1, Lists[round - 1][t[1]][t[2]].indices)
         /\ IsList(round - 1, Lists[round - 1][t[1]][t[3]].indices)
         /\ IsList(round, NewList(t).indices)
<1> DEFINE below == Lists[round - 1]
<1>1. K \in Nat /\ round - 1 \in 0 .. K - 1  BY PuzzleAssumption
<1>2. \A b \in Buckets : \A s \in DOMAIN tree[round - 1][b] :
        IsList(round - 1, below[b][s].indices)
  BY <1>1, ListsTyped
<1>3. IsNode(t, tree[round - 1])  BY CollisionFacts
<1> HIDE DEF below
<1>4. LET a == below[t[1]][t[2]].indices
          c == below[t[1]][t[3]].indices
      IN /\ ListIndices(round, t, below).indices = Ordered(a, c)
         /\ IsList(round - 1, a) /\ IsList(round - 1, c)
         /\ IsList(round, Ordered(a, c))
  BY <1>2, <1>3, ListIndicesFacts
<1> QED BY <1>4 DEF NewList, below

\* The verifier would make a row of the list of a collision too.
LEMMA CollisionVerified ==
  ASSUME TreeOK, HeapOK, AcceptOK, round \in 1 .. K,
         NEW t \in Collisions, IsInjective(NewList(t).indices)
  PROVE  Verified(hashes, NewList(t).indices, round,
                  RowFrom(round + 1, XorOf(t), NewList(t).indices))
<1> DEFINE a == Lists[round - 1][t[1]][t[2]].indices
           c == Lists[round - 1][t[1]][t[3]].indices
           g == heap[t[1]][t[2]]
           h == heap[t[1]][t[3]]
<1>1. /\ t[1] \in Buckets /\ t[2] \in DOMAIN heap[t[1]] /\ t[3] \in DOMAIN heap[t[1]]
      /\ g \in Hashes /\ h \in Hashes /\ g[round] = h[round]
      /\ XorOf(t) = XorHash(g, h)
  BY CollisionFacts DEF IsNode, XorOf
<1>2. /\ NewList(t).indices = Ordered(a, c)
      /\ a \in Seq(Leaves) /\ Len(a) = ProofSize[round - 1]
      /\ c \in Seq(Leaves) /\ Len(c) = ProofSize[round - 1]
  BY NewListTyped DEF IsList
<1>3. IsInjective(a) => Verified(hashes, a, round - 1, RowFrom(round, g, a))
  BY <1>1 DEF AcceptOK
<1>4. IsInjective(c) => Verified(hashes, c, round - 1, RowFrom(round, h, c))
  BY <1>1 DEF AcceptOK
<1> HIDE DEF a, c, g, h
<1>5. IsInjective(a) /\ IsInjective(c)
  <2> DEFINE n == ProofSize[round - 1]
  <2>1. n \in Nat \ {0}
    <3>1. round - 1 \in 0 .. K  BY PuzzleAssumption
    <3> QED BY <3>1, SizeFacts
  <2>2. Len(a) = n /\ Len(c) = n /\ IsInjective(Ordered(a, c))  BY <1>2
  <2> HIDE DEF n
  <2> QED BY <1>2, <2>1, <2>2, OrderedFacts
<1>6. Verified(hashes, Ordered(a, c), round, RowFrom(round + 1, XorHash(g, h), Ordered(a, c)))
  BY <1>1, <1>2, <1>3, <1>4, <1>5, NodeVerified
<1> QED BY <1>1, <1>2, <1>6

\* Each round leaves lists that the verifier would make rows of.
LEMMA AcceptStep ==
  ASSUME TreeOK, HeapOK, AcceptOK, [Next]_vars
  PROVE  AcceptOK'
<1>1. K \in Nat /\ K >= 1  BY PuzzleAssumption
<1>2. CASE UNCHANGED <<hashes, round, heap, tree>>
  <2>1. Lists' = Lists  BY <1>2 DEF Lists, ListIndices
  <2> QED BY <1>2, <2>1 DEF AcceptOK
<1>3. CASE Digit0
  <2> DEFINE hash == [t \in LeafNodes |-> hashes[t[1]]]
  <2>1. round = 0 /\ round' = 1 /\ hashes' = hashes /\ round \in 0 .. K - 1 /\ round' - 1 = 0
    BY <1>1, <1>3 DEF Digit0
  <2>2. Store(LeafNodes, hash)  BY <1>3, DigitStores
  <2>3. /\ \A t \in LeafNodes : hash[t] \in Hashes
        /\ \A t \in LeafNodes : t[1] \in Leaves /\ hash[t] = hashes[t[1]]
    BY LeafFacts, Digit0Facts
  <2> HIDE DEF hash
  <2>4. /\ \A r \in 0 .. K - 1 : r # round => tree'[r] = tree[r]
        /\ \A b \in Buckets :
             /\ DOMAIN heap'[b] = DOMAIN tree'[round][b]
             /\ \A s \in DOMAIN heap'[b] : /\ heap'[b][s] = hash[tree'[round][b][s]]
                                           /\ tree'[round][b][s] \in LeafNodes
    <3>1. StoreOutcome(LeafNodes, hash)  BY <2>1, <2>2, <2>3, LeafFacts, StoreFacts
    <3> QED BY <3>1 DEF StoreOutcome
  <2>5. ASSUME NEW b \in Buckets, NEW s \in DOMAIN heap'[b]
        PROVE  Verified(hashes', Lists'[0][b][s].indices, 0,
                        RowFrom(1, heap'[b][s], Lists'[0][b][s].indices))
    <3> DEFINE i == tree'[0][b][s][1]
    <3>1. Lists'[0][b][s] = [indices |-> <<i>>, dup |-> FALSE]
      BY <2>1, <2>4, ListsStep
    <3>2. i \in Leaves /\ heap'[b][s] = hashes[i]  BY <2>1, <2>3, <2>4
    <3> HIDE DEF i
    <3>3. Lists'[0][b][s].indices = <<i>>  BY <3>1
    <3> QED BY <2>1, <3>2, <3>3, LeafVerified DEF RowFrom
  <2> QED BY <2>1, <2>5 DEF AcceptOK
<1>4. CASE Digit
  <2> DEFINE hash == [t \in Kept |-> XorOf(t)]
  <2>1. round \in 1 .. K - 1 /\ round' = round + 1 /\ hashes' = hashes  BY <1>4 DEF Digit
  <2>2. round \in 0 .. K - 1 /\ round # 0 /\ round \in 1 .. K /\ round' - 1 = round
    BY <1>1, <2>1
  <2>3. Store(Kept, hash)  BY <1>4, DigitStores
  <2>4. /\ Kept \subseteq Collisions /\ Kept \subseteq Nodes /\ IsFiniteSet(Kept)
        /\ \A t \in Kept : hash[t] \in Hashes /\ hash[t] = XorOf(t)
    BY <2>2, DigitFactsOfNodes
  <2> HIDE DEF hash
  <2>5. /\ \A r \in 0 .. K - 1 : r # round => tree'[r] = tree[r]
        /\ \A b \in Buckets :
             /\ DOMAIN heap'[b] = DOMAIN tree'[round][b]
             /\ \A s \in DOMAIN heap'[b] : /\ heap'[b][s] = hash[tree'[round][b][s]]
                                           /\ tree'[round][b][s] \in Kept
    <3>1. StoreOutcome(Kept, hash)  BY <2>2, <2>3, <2>4, StoreFacts
    <3> QED BY <3>1 DEF StoreOutcome
  <2>6. ASSUME NEW b \in Buckets, NEW s \in DOMAIN heap'[b],
               IsInjective(Lists'[round][b][s].indices)
        PROVE  Verified(hashes', Lists'[round][b][s].indices, round,
                        RowFrom(round + 1, heap'[b][s], Lists'[round][b][s].indices))
    <3> DEFINE t == tree'[round][b][s]
    <3>1. Lists'[round][b][s] = NewList(t)  BY <2>2, <2>5, ListsStep DEF NewList
    <3>2. t \in Collisions /\ heap'[b][s] = XorOf(t)  BY <2>4, <2>5
    <3> HIDE DEF t
    <3> QED BY <2>1, <2>2, <2>6, <3>1, <3>2, CollisionVerified
  <2> QED BY <2>1, <2>2, <2>6 DEF AcceptOK
<1>5. CASE DigitK
  <2>1. round' = K + 1  BY <1>5 DEF DigitK
  <2>2. K + 1 \notin 1 .. K  BY <1>1
  <2> QED BY <2>1, <2>2 DEF AcceptOK
<1>6. CASE Cancel \/ Report \/ HashDone \/ UNCHANGED vars
  BY <1>2, <1>6 DEF Cancel, Report, HashDone, vars
<1> QED BY <1>3, <1>4, <1>5, <1>6 DEF Next

\* What is stored and reported: lists that the verifier accepts; the first MAXSOLS
\* calls are those that are stored.
SolsOK ==
  /\ status \in {"solving", "reporting", "cancelled", "done"}
  /\ nsols \in Nat
  /\ sols \in Seq(Seq(Leaves))
  /\ Len(sols) = IF nsols < MAXSOLS THEN nsols ELSE MAXSOLS
  /\ reported \in Seq(Seq(Leaves)) /\ Len(reported) <= nsols
  /\ \A n \in DOMAIN reported : n <= MAXSOLS => reported[n] = sols[n]
  /\ status = "solving" => reported = <<>>
  /\ \A l \in Seq(Leaves) : l \in Range(sols) => IsValidSolution(l)

\* The collisions of the last round that are solutions.
Hits == {t \in Collisions : XorOf(t)[K + 1] = 0 /\ Genuine(NewList(t))}

\* The last round stores the lists of its hits, and all of them if there is room.
LEMMA DigitKStores ==
  ASSUME TreeOK, HeapOK, DigitK
  PROVE  /\ nsols' \in Nat
         /\ sols' \in Seq(Seq(Leaves))
         /\ Len(sols') = IF nsols' < MAXSOLS THEN nsols' ELSE MAXSOLS
         /\ \A n \in DOMAIN sols' : \E t \in Hits : sols'[n] = NewList(t).indices
         /\ nsols' <= MAXSOLS => \A t \in Hits : NewList(t).indices \in Range(sols')
<1>1. K \in Nat /\ K >= 1 /\ MAXSOLS \in Nat  BY PuzzleAssumption, EquihashAssumption
<1>2. round = K /\ round \in 1 .. K
  <2>1. round = K  BY DEF DigitK
  <2> QED BY <1>1, <2>1
<1> DEFINE hits   == {t \in Collisions : XorOf(t)[K + 1] = 0}
           list   == [t \in hits |-> ListIndices(K, t, Lists[K - 1])]
           proofs == InOrder({t \in hits : Genuine(list[t])})
           all    == [n \in DOMAIN proofs |-> list[proofs[n]].indices]
           N      == Cardinality(Hits)
<1>3. nsols' = Len(proofs) /\ sols' = First(MAXSOLS, all)  BY DEF DigitK
<1>4. \A t \in hits : list[t] = NewList(t)  BY <1>2 DEF NewList
<1>5. {t \in hits : Genuine(list[t])} = Hits  BY <1>4 DEF Hits
<1>6. Hits \subseteq hits /\ Hits \subseteq Collisions  BY DEF Hits
<1>7. proofs = InOrder(Hits)  BY <1>5
<1> HIDE DEF hits, list, proofs
<1>8. Hits \subseteq Nodes /\ IsFiniteSet(Hits)
  <2>1. Hits \in SUBSET Collisions  BY <1>6
  <2> QED BY <1>2, <1>6, <2>1, CollisionFacts, FS_Subset
<1>9. /\ N \in Nat /\ proofs = [n \in 1 .. N |-> proofs[n]]
      /\ \A n \in 1 .. N : proofs[n] \in Hits
      /\ \A t \in Hits : \E n \in 1 .. N : proofs[n] = t
  BY <1>7, <1>8, InOrderFacts
<1> HIDE DEF N
<1>10. DOMAIN proofs = 1 .. N /\ Len(proofs) = N  BY <1>9
<1>11. \A n \in 1 .. N : all[n] = NewList(proofs[n]).indices
  BY <1>4, <1>6, <1>9, <1>10
<1>12. \A t \in Hits : NewList(t).indices \in Seq(Leaves)
  BY <1>2, <1>6, NewListTyped DEF IsList
<1>13. all \in Seq(Seq(Leaves)) /\ Len(all) = N
  <2>1. \A n \in 1 .. N : all[n] \in Seq(Leaves)  BY <1>9, <1>11, <1>12
  <2>2. all = [n \in 1 .. N |-> all[n]]  BY <1>10
  <2> DEFINE L == Seq(Leaves)
  <2> HIDE DEF all, L
  <2>3. all \in Seq(L) /\ Len(all) = N  BY <1>9, <2>1, <2>2 DEF L
  <2> QED BY <2>3 DEF L
<1> HIDE DEF all
<1>14. /\ sols' \in Seq(Seq(Leaves))
       /\ Len(sols') = IF N < MAXSOLS THEN N ELSE MAXSOLS
       /\ \A n \in 1 .. Len(sols') : sols'[n] = all[n]
  BY <1>1, <1>3, <1>13, FirstFacts
<1>15. DOMAIN sols' = 1 .. Len(sols') /\ Len(sols') <= N
  <2>1. DOMAIN sols' = 1 .. Len(sols')  BY <1>14, LenProperties
  <2> QED BY <1>1, <1>9, <1>14, <2>1
<1>16. \A n \in DOMAIN sols' : \E t \in Hits : sols'[n] = NewList(t).indices
  <2> TAKE n \in DOMAIN sols'
  <2>1. n \in 1 .. N /\ n \in 1 .. Len(sols')  BY <1>1, <1>9, <1>14, <1>15
  <2>2. sols'[n] = NewList(proofs[n]).indices /\ proofs[n] \in Hits
    BY <1>9, <1>11, <1>14, <2>1
  <2> QED BY <2>2
<1>17. ASSUME N <= MAXSOLS, NEW t \in Hits PROVE NewList(t).indices \in Range(sols')
  <2>1. PICK n \in 1 .. N : proofs[n] = t  BY <1>9
  <2>2. n \in DOMAIN sols'  BY <1>1, <1>9, <1>14, <1>15, <1>17
  <2>3. sols'[n] = NewList(t).indices  BY <1>11, <1>14, <1>15, <2>1, <2>2
  <2> QED BY <2>2, <2>3 DEF Range
<1> QED BY <1>3, <1>9, <1>10, <1>14, <1>16, <1>17

\* What the verifier accepts depends only on the hashes.
LEMMA ValidNext ==
  ASSUME hashes' = hashes, NEW l
  PROVE  IsValidSolution(l)' <=> IsValidSolution(l)
BY DEF IsValidSolution, FirstRows

\* The list of a hit is accepted.
LEMMA HitAccepted ==
  ASSUME TreeOK, HeapOK, AcceptOK, round = K, NEW t \in Hits
  PROVE  IsValidSolution(NewList(t).indices) /\ NewList(t).indices \in Seq(Leaves)
<1> DEFINE l == NewList(t).indices
           x == XorOf(t)
<1>1. K \in Nat /\ K >= 1 /\ round \in 1 .. K /\ t \in Collisions
  BY PuzzleAssumption DEF Hits
<1>2. IsInjective(l) /\ x[K + 1] = 0  BY DEF Hits, Genuine
<1>3. Verified(hashes, l, K, RowFrom(K + 1, x, l))  BY <1>1, <1>2, CollisionVerified
<1>4. l \in Seq(Leaves) /\ Len(l) = ProofSize[K]  BY <1>1, NewListTyped DEF IsList
<1>5. SubSeq(x, K + 1, K + 1) = <<0>>
  <2>1. K + 1 \in Int  BY <1>1
  <2> HIDE DEF x
  <2> QED BY <1>2, <2>1, LastDigitZero
<1>6. RowFrom(K + 1, x, l).hash = <<0>>  BY <1>5 DEF RowFrom
<1> HIDE DEF l, x
<1>7. IsValidSolution(l)  BY <1>3, <1>4, <1>6, VerifiedIsValid
<1> QED BY <1>4, <1>7 DEF l

\* What is stored and reported stays acceptable.
LEMMA SolsStep ==
  ASSUME TreeOK, HeapOK, AcceptOK, SolsOK, [Next]_vars
  PROVE  SolsOK'
<1>1. K \in Nat /\ MAXSOLS \in Nat  BY PuzzleAssumption, EquihashAssumption
<1>2. hashes' = hashes
  BY DEF Next, Digit0, Digit, DigitK, Cancel, Report, HashDone, vars
<1>3. \A l \in Seq(Leaves) : IsValidSolution(l)' <=> IsValidSolution(l)
  BY <1>2, ValidNext
<1>4. CASE UNCHANGED <<sols, nsols, reported>> /\ (status' = "solving" => status = "solving")
           /\ status' \in {"solving", "reporting", "cancelled", "done"}
  BY <1>3, <1>4 DEF SolsOK
<1>5. CASE Digit0 \/ Digit \/ Cancel \/ HashDone \/ UNCHANGED vars
  <2>1. status \in {"solving", "reporting", "cancelled", "done"}  BY DEF SolsOK
  <2> QED BY <1>4, <1>5, <2>1 DEF Digit0, Digit, Cancel, HashDone, vars
<1>6. CASE DigitK
  <2>1. /\ round = K /\ status = "solving" /\ status' = "reporting"
        /\ reported' = reported
    BY <1>6 DEF DigitK
  <2>2. reported' = <<>>  BY <2>1 DEF SolsOK
  <2>3. /\ nsols' \in Nat
        /\ sols' \in Seq(Seq(Leaves))
        /\ Len(sols') = IF nsols' < MAXSOLS THEN nsols' ELSE MAXSOLS
        /\ \A n \in DOMAIN sols' : \E t \in Hits : sols'[n] = NewList(t).indices
    BY <1>6, DigitKStores
  <2>4. ASSUME NEW l \in Seq(Leaves), l \in Range(sols') PROVE IsValidSolution(l)'
    <3>1. PICK n \in DOMAIN sols' : l = sols'[n]  BY <2>4 DEF Range
    <3>2. PICK t \in Hits : l = NewList(t).indices  BY <2>3, <3>1
    <3>3. IsValidSolution(l)  BY <2>1, <3>2, HitAccepted
    <3> QED BY <1>3, <3>3
  <2>5. reported' \in Seq(Seq(Leaves)) /\ Len(reported') = 0 /\ DOMAIN reported' = {}
    BY <2>2 DEF SolsOK
  <2>6. Len(reported') <= nsols'  BY <2>3, <2>5
  <2> QED BY <2>1, <2>3, <2>4, <2>5, <2>6, Zenon DEF SolsOK
<1>7. CASE Report
  <2> DEFINE n == Len(reported) + 1
             l == IF n <= MAXSOLS THEN sols[n] ELSE Unstored
  <2>1. /\ status = "reporting" /\ status' = status /\ Len(reported) < nsols
        /\ reported' = Append(reported, l) /\ UNCHANGED <<sols, nsols>>
    BY <1>7 DEF Report
  <2>2. /\ nsols \in Nat /\ sols \in Seq(Seq(Leaves)) /\ reported \in Seq(Seq(Leaves))
        /\ Len(sols) = IF nsols < MAXSOLS THEN nsols ELSE MAXSOLS
        /\ \A m \in DOMAIN reported : m <= MAXSOLS => reported[m] = sols[m]
    BY DEF SolsOK
  <2>3. Len(reported) \in Nat /\ DOMAIN reported = 1 .. Len(reported)
    BY <2>2, LenProperties
  <2>4. l \in Seq(Leaves)
    <3>1. CASE n <= MAXSOLS
      <4>1. n \in 1 .. Len(sols)  BY <1>1, <2>1, <2>2, <2>3, <3>1
      <4>2. sols[n] \in Seq(Leaves)  BY <2>2, <4>1, ElementOfSeq
      <4> QED BY <3>1, <4>2
    <3>2. CASE ~(n <= MAXSOLS)
      <4>1. <<>> \in Seq(Leaves)  BY EmptySeq
      <4> QED BY <3>2, <4>1 DEF Unstored
    <3> QED BY <3>1, <3>2
  <2>5. n <= MAXSOLS => l = sols[n]  OBVIOUS
  <2> HIDE DEF l
  <2>6. /\ reported' \in Seq(Seq(Leaves)) /\ Len(reported') = n
        /\ \A m \in 1 .. n : reported'[m] = IF m = n THEN l ELSE reported[m]
    BY <2>1, <2>2, <2>4, AppendProperties
  <2>7. DOMAIN reported' = 1 .. n  BY <2>6, LenProperties
  <2>8. ASSUME NEW m \in 1 .. n, m <= MAXSOLS PROVE reported'[m] = sols[m]
    <3>1. CASE m = n  BY <2>5, <2>6, <2>8, <3>1
    <3>2. CASE m # n
      <4>1. m \in DOMAIN reported  BY <2>3, <3>2
      <4> QED BY <2>2, <2>6, <2>8, <3>2, <4>1
    <3> QED BY <3>1, <3>2
  <2>9. n <= nsols  BY <2>1, <2>2, <2>3
  <2> HIDE DEF n
  <2> QED BY <1>3, <2>1, <2>6, <2>7, <2>8, <2>9 DEF SolsOK
<1> QED BY <1>5, <1>6, <1>7 DEF Next

\* The invariant of a solve.
SolveOK == TreeOK /\ HeapOK /\ AcceptOK /\ SolsOK

\* It holds before the first round.
LEMMA SolveStarts == Idle /\ hashes \in Tables => SolveOK
<1> SUFFICES ASSUME Idle, hashes \in Tables PROVE SolveOK
  OBVIOUS
<1>1. TreeOK /\ HeapOK  BY TreeInit
<1>2. round = 0 /\ sols = <<>> /\ nsols = 0 /\ reported = <<>> /\ status = "solving"
  BY DEF Idle
<1>3. AcceptOK  BY <1>2 DEF AcceptOK
<1>4. <<>> \in Seq(Seq(Leaves)) /\ Len(<<>>) = 0 /\ DOMAIN <<>> = {}  BY EmptySeq
<1>5. Range(sols) = {}  BY <1>2, <1>4 DEF Range
<1>6. MAXSOLS \in Nat  BY EquihashAssumption
<1>7. SolsOK  BY <1>2, <1>4, <1>5, <1>6 DEF SolsOK
<1> QED BY <1>1, <1>3, <1>7 DEF SolveOK

\* Every step keeps it.
LEMMA SolveStep == SolveOK /\ [Next]_vars => SolveOK'
BY TreeStep, AcceptStep, SolsStep DEF SolveOK

\* Then no node names a slot that is not there.
LEMMA SolveIsTyped == SolveOK => EquihashTypeOK
<1> SUFFICES ASSUME SolveOK PROVE EquihashTypeOK
  OBVIOUS
<1>1. TreeOK /\ HeapOK /\ SolsOK  BY DEF SolveOK
<1>2. round \in 0 .. K + 1  BY <1>1 DEF TreeOK
<1>3. \A b \in Buckets : Len(heap[b]) <= NSLOTS  BY <1>1 DEF HeapOK
<1>4. ASSUME NEW r \in 1 .. K - 1, NEW b \in Buckets, NEW s \in DOMAIN tree[r][b]
      PROVE  LET t == tree[r][b][s] IN t[2] < t[3] /\ t[3] \in DOMAIN tree[r - 1][t[1]]
  <2>1. r \in 0 .. K - 1 /\ r # 0  BY PuzzleAssumption
  <2>2. IsNode(tree[r][b][s], tree[r - 1])  BY <1>1, <2>1 DEF TreeOK, LevelOK
  <2> QED BY <2>2 DEF IsNode
<1>5. /\ Len(sols) <= MAXSOLS /\ Len(sols) <= nsols /\ Len(reported) <= nsols
      /\ status \in {"solving", "reporting", "cancelled", "done"}
  <2>1. MAXSOLS \in Nat  BY EquihashAssumption
  <2> QED BY <1>1, <2>1 DEF SolsOK
<1> QED BY <1>2, <1>3, <1>4, <1>5 DEF EquihashTypeOK

\* And the pool's verifier accepts what was reported.
LEMMA SolveIsAccepted == SolveOK => ReportedIsAccepted
<1> SUFFICES ASSUME SolsOK, NEW n \in DOMAIN reported, n <= MAXSOLS
             PROVE  IsValidSolution(reported[n])
  BY DEF SolveOK, ReportedIsAccepted
<1>1. MAXSOLS \in Nat  BY EquihashAssumption
<1>2. DOMAIN reported = 1 .. Len(reported) /\ Len(reported) \in Nat
      /\ DOMAIN sols = 1 .. Len(sols) /\ nsols \in Nat /\ Len(reported) <= nsols
      /\ Len(sols) = IF nsols < MAXSOLS THEN nsols ELSE MAXSOLS
  BY LenProperties DEF SolsOK
<1>3. n \in DOMAIN sols /\ reported[n] = sols[n]  BY <1>1, <1>2 DEF SolsOK
<1>4. reported[n] \in Seq(Leaves)  BY <1>2, ElementOfSeq DEF SolsOK
<1>5. reported[n] \in Range(sols)  BY <1>3 DEF Range
<1> QED BY <1>4, <1>5 DEF SolsOK

\* A solve keeps its trees, its heap and its solutions in order.
THEOREM SolveCorrect == Spec => []SolveOK
<1>1. Init => SolveOK  BY SolveStarts, EquihashAssumption DEF Init
<1> QED BY <1>1, SolveStep, PTL DEF Spec

\* The state of a solve is well formed: no node names a slot that is not there.
THEOREM SolveTyped == Spec => []EquihashTypeOK
BY SolveCorrect, SolveIsTyped, PTL

\* Whatever the solver stores and reports the pool's verifier accepts.
THEOREM ReportedAccepted == Spec => []ReportedIsAccepted
BY SolveCorrect, SolveIsAccepted, PTL

----------------------------------------------------------------------------
(* Every solution is found.                                                *)

\* A tree has a list of indices, none of them twice, and a hash.
LEMMA TreesTyped ==
  ASSUME hashes \in Tables
  PROVE  \A r \in 0 .. K : \A t \in Trees[r] :
           IsList(r, t.indices) /\ IsInjective(t.indices) /\ t.hash \in Hashes
<1> DEFINE OK(r) == \A t \in Trees[r] :
                      IsList(r, t.indices) /\ IsInjective(t.indices) /\ t.hash \in Hashes
           B == {r \in 0 .. K : ~OK(r)}
<1>1. K \in Nat  BY PuzzleAssumption
<1> SUFFICES ASSUME B # {} PROVE FALSE
  OBVIOUS
<1>2. PICK r \in B : \A k \in Nat : k < r => k \notin B
  <2>1. B \subseteq Nat  OBVIOUS
  <2> HIDE DEF B
  <2> QED BY <2>1, Smallest
<1>3. r \in 0 .. K  OBVIOUS
<1>4. CASE r = 0
  <2>1. ASSUME NEW t \in Trees[0]
        PROVE  IsList(0, t.indices) /\ IsInjective(t.indices) /\ t.hash \in Hashes
    <3>1. PICK i \in Leaves : t = [indices |-> <<i>>, hash |-> hashes[i], repeat |-> FALSE]
      BY TreesFacts
    <3>2. <<i>> \in Seq(Leaves) /\ Len(<<i>>) = 1 /\ DOMAIN <<i>> = 1 .. 1  OBVIOUS
    <3>3. IsInjective(<<i>>)  BY <3>2 DEF IsInjective
    <3>4. hashes[i] \in Hashes  BY DEF Tables
    <3>5. t.indices = <<i>> /\ t.hash = hashes[i]  BY <3>1
    <3> QED BY <3>2, <3>3, <3>4, <3>5, SizeFacts DEF IsList
  <2> QED BY <1>2, <1>4, <2>1
<1>5. CASE r # 0
  <2>1. r \in 1 .. K /\ r - 1 \in 0 .. K /\ r - 1 \in Nat /\ r - 1 < r  BY <1>1, <1>3, <1>5
  <2>2. OK(r - 1)  BY <1>2, <2>1
  <2> DEFINE n == ProofSize[r - 1]
  <2>3. n \in Nat /\ ProofSize[r] = 2 * n  BY <2>1, SizeFacts
  <2>4. ASSUME NEW t \in Trees[r]
        PROVE  IsList(r, t.indices) /\ IsInjective(t.indices) /\ t.hash \in Hashes
    <3>1. \E p, q \in Trees[r - 1] :
            /\ p.indices[1] < q.indices[1]
            /\ Zeros(XorHash(p.hash, q.hash), r)
            /\ Range(p.indices) \intersect Range(q.indices) = {}
            /\ t = TreeOf(r, p, q)
      BY <2>1, <2>4, TreesFacts, Zenon
    <3> PICK p \in Trees[r - 1], q \in Trees[r - 1] :
            Range(p.indices) \intersect Range(q.indices) = {} /\ t = TreeOf(r, p, q)
      BY <3>1, Zenon
    <3> DEFINE a == p.indices
               c == q.indices
    <3>2. /\ a \in Seq(Leaves) /\ Len(a) = n /\ IsInjective(a) /\ p.hash \in Hashes
          /\ c \in Seq(Leaves) /\ Len(c) = n /\ IsInjective(c) /\ q.hash \in Hashes
          /\ Range(a) \intersect Range(c) = {}
      BY <2>2 DEF IsList
    <3>3. t.indices = a \o c /\ t.hash = XorHash(p.hash, q.hash)  BY DEF TreeOf
    <3> HIDE DEF a, c
    <3> HIDE DEF n
    <3>4. a \o c \in Seq(Leaves) /\ Len(a \o c) = 2 * n /\ IsInjective(a \o c)
      BY <2>3, <3>2, Concatenation
    <3>5. t.hash \in Hashes  BY <3>2, <3>3, XorFacts
    <3> QED BY <2>3, <3>3, <3>4, <3>5 DEF IsList
  <2> QED BY <1>2, <2>4
<1> QED BY <1>4, <1>5

\* Two nodes of a bucket that share a slot share an index.
LEMMA SharedSlot ==
  ASSUME TreeOK, NEW r \in 1 .. K - 1, NEW b \in Buckets,
         NEW s \in DOMAIN tree[r][b], NEW v \in DOMAIN tree[r][b],
         ~ProbDisjoint(tree[r][b][s], tree[r][b][v])
  PROVE  Range(Lists[r][b][s].indices) \intersect Range(Lists[r][b][v].indices) # {}
<1> DEFINE t == tree[r][b][s]
           u == tree[r][b][v]
           below == Lists[r - 1]
           list(w) == below[w[1]][w[2]].indices
           last(w) == below[w[1]][w[3]].indices
<1>1. r \in 1 .. K /\ r \in 0 .. K - 1 /\ r # 0 /\ r - 1 \in 0 .. K - 1  BY PuzzleAssumption
<1>2. IsNode(t, tree[r - 1]) /\ IsNode(u, tree[r - 1])  BY <1>1 DEF TreeOK, LevelOK
<1>3. \A d \in Buckets : \A e \in DOMAIN tree[r - 1][d] : IsList(r - 1, below[d][e].indices)
  BY <1>1, ListsTyped
<1>4. /\ Lists[r][b][s] = ListIndices(r, t, below)
      /\ Lists[r][b][v] = ListIndices(r, u, below)
  BY <1>1, ListsFacts, ListIndicesOver, ListsOverAt DEF ListsByRound
<1>5. t[1] = u[1] /\ (t[2] = u[2] \/ t[3] = u[3])  BY DEF ProbDisjoint
<1> HIDE DEF t, u, below
<1>6. ASSUME NEW w, IsNode(w, tree[r - 1])
      PROVE  /\ Range(ListIndices(r, w, below).indices) = Range(list(w)) \union Range(last(w))
             /\ list(w)[1] \in Range(list(w)) /\ last(w)[1] \in Range(last(w))
  BY <1>1, <1>3, <1>6, ListIndicesFacts
<1>7. list(t) = list(u) \/ last(t) = last(u)  BY <1>5
<1> HIDE DEF list, last
<1>8. /\ Range(Lists[r][b][s].indices) = Range(list(t)) \union Range(last(t))
      /\ Range(Lists[r][b][v].indices) = Range(list(u)) \union Range(last(u))
  BY <1>2, <1>4, <1>6
<1>9. list(t)[1] \in Range(list(t)) /\ last(t)[1] \in Range(last(t))  BY <1>2, <1>6
<1> QED BY <1>7, <1>8, <1>9

\* Each tree that is not taken for a repeat is in a slot, with its hash and its list.
CompleteOK ==
  (round \in 1 .. K /\ ~full) =>
    \A t \in Trees[round - 1] :
      \/ t.repeat
      \/ \E b \in Buckets : \E s \in DOMAIN heap[b] :
           /\ heap[b][s] = t.hash
           /\ Lists[round - 1][b][s].indices = t.indices
           /\ ~Lists[round - 1][b][s].dup

\* Two slots that hold disjoint trees whose hashes agree in the digit of the round
\* collide, and nothing is taken for an index that occurs twice.
LEMMA SlotsCollide ==
  ASSUME TreeOK, HeapOK, round \in 1 .. K, NEW b \in Buckets,
         NEW s \in DOMAIN heap[b], NEW v \in DOMAIN heap[b], s < v,
         heap[b][s][round] = heap[b][v][round],
         Range(Lists[round - 1][b][s].indices)
           \intersect Range(Lists[round - 1][b][v].indices) = {},
         ~Lists[round - 1][b][s].dup, ~Lists[round - 1][b][v].dup
  PROVE  /\ <<b, s, v>> \in Collisions
         /\ XorOf(<<b, s, v>>) = XorHash(heap[b][s], heap[b][v])
         /\ NewList(<<b, s, v>>).indices
              = Ordered(Lists[round - 1][b][s].indices, Lists[round - 1][b][v].indices)
         /\ ~NewList(<<b, s, v>>).dup
<1> DEFINE t == <<b, s, v>>
           x == Lists[round - 1][b][s]
           y == Lists[round - 1][b][v]
<1>1. t[1] = b /\ t[2] = s /\ t[3] = v  OBVIOUS
<1>2. K \in Nat /\ NSLOTS \in Nat /\ round \in Nat /\ round - 1 \in 0 .. K - 1
  BY PuzzleAssumption, EquihashAssumption
<1>3. heap[b] \in Seq(Hashes) /\ Len(heap[b]) <= NSLOTS /\ DOMAIN heap[b] = DOMAIN tree[round - 1][b]
  BY DEF HeapOK
<1>4. DOMAIN heap[b] = 1 .. Len(heap[b]) /\ Len(heap[b]) \in Nat  BY <1>3, LenProperties
<1>5. s \in Slots /\ v \in Slots  BY <1>2, <1>3, <1>4 DEF Slots
<1>6. t \in Collisions  BY <1>1, <1>5 DEF Collisions
<1>7. XorOf(t) = XorHash(heap[b][s], heap[b][v])  BY <1>1 DEF XorOf
<1>8. /\ NewList(t).indices = Ordered(x.indices, y.indices)
      /\ NewList(t).dup =
           (\/ round % 2 = 0 /\ ~ProbDisjoint(tree[round - 1][b][s], tree[round - 1][b][v])
            \/ x.dup \/ y.dup \/ x.indices[1] = y.indices[1])
  BY <1>1 DEF NewList, ListIndices
<1>9. IsList(round - 1, x.indices) /\ IsList(round - 1, y.indices)
  BY <1>2, <1>3, ListsTyped
<1>10. x.indices[1] # y.indices[1]
  <2> DEFINE n == ProofSize[round - 1]
             a == x.indices
             c == y.indices
  <2>1. n \in Nat \ {0}
    <3>1. round - 1 \in 0 .. K  BY <1>2
    <3> QED BY <3>1, SizeFacts
  <2>2. a \in Seq(Leaves) /\ c \in Seq(Leaves) /\ Len(a) = n /\ Len(c) = n
        /\ Range(a) \intersect Range(c) = {}
    BY <1>9 DEF IsList
  <2> HIDE DEF a, c, n
  <2>3. a[1] \in Range(a) /\ c[1] \in Range(c)  BY <2>1, <2>2, OrderedFacts
  <2>4. a[1] # c[1]  BY <2>2, <2>3
  <2> QED BY <2>4 DEF a, c
<1>11. ~(round % 2 = 0 /\ ~ProbDisjoint(tree[round - 1][b][s], tree[round - 1][b][v]))
  <2> SUFFICES ASSUME round % 2 = 0, ~ProbDisjoint(tree[round - 1][b][s], tree[round - 1][b][v])
               PROVE  FALSE
    OBVIOUS
  <2>1. round - 1 \in 1 .. K - 1  BY <1>2
  <2> QED BY <1>3, <2>1, SharedSlot
<1>12. ~NewList(t).dup  BY <1>8, <1>10, <1>11
<1> QED BY <1>6, <1>7, <1>8, <1>12

\* The list with the smaller first index is put first.
LEMMA SmallerFirst ==
  ASSUME NEW a, NEW c, a[1] \in Nat, c[1] \in Nat, a[1] < c[1]
  PROVE  Ordered(a, c) = a \o c /\ Ordered(c, a) = a \o c
<1> DEFINE m == a[1]
           n == c[1]
<1>1. m \in Nat /\ n \in Nat /\ m < n  OBVIOUS
<1> HIDE DEF m, n
<1>2. ~(m > n) /\ n > m  BY <1>1
<1> QED BY <1>2, Zenon DEF Ordered, m, n

\* Two trees that make a larger one make a collision, whose list is theirs.
LEMMA TreesCollide ==
  ASSUME TreeOK, HeapOK, CompleteOK, ~full, round \in 1 .. K,
         NEW p \in Trees[round - 1], NEW q \in Trees[round - 1], ~p.repeat, ~q.repeat,
         p.indices[1] < q.indices[1], Zeros(XorHash(p.hash, q.hash), round),
         Range(p.indices) \intersect Range(q.indices) = {}
  PROVE  \E n \in Collisions : /\ XorOf(n) = XorHash(p.hash, q.hash)
                               /\ NewList(n).indices = p.indices \o q.indices
                               /\ ~NewList(n).dup
<1>1. K \in Nat /\ round \in 1 .. K + 2 /\ round - 1 \in 0 .. K
  <2>1. K \in Nat  BY PuzzleAssumption
  <2> QED BY <2>1
<1>2. p.hash \in Hashes /\ q.hash \in Hashes /\ IsList(round - 1, p.indices) /\ IsList(round - 1, q.indices)
  BY <1>1, TreesTyped DEF TreeOK
<1>3. p.hash[round] = q.hash[round]
  <2>1. XorHash(p.hash, q.hash)[round] = 0  BY <1>1 DEF Zeros
  <2> QED BY <1>1, <1>2, <2>1, XorFacts
<1> PICK b \in Buckets : \E s \in DOMAIN heap[b] :
        /\ heap[b][s] = p.hash /\ Lists[round - 1][b][s].indices = p.indices
        /\ ~Lists[round - 1][b][s].dup
  BY DEF CompleteOK
<1>4. PICK s \in DOMAIN heap[b] :
        /\ heap[b][s] = p.hash /\ Lists[round - 1][b][s].indices = p.indices
        /\ ~Lists[round - 1][b][s].dup
  OBVIOUS
<1> PICK d \in Buckets : \E v \in DOMAIN heap[d] :
        /\ heap[d][v] = q.hash /\ Lists[round - 1][d][v].indices = q.indices
        /\ ~Lists[round - 1][d][v].dup
  BY DEF CompleteOK
<1>5. PICK v \in DOMAIN heap[d] :
        /\ heap[d][v] = q.hash /\ Lists[round - 1][d][v].indices = q.indices
        /\ ~Lists[round - 1][d][v].dup
  OBVIOUS
<1>6. b = d
  <2>1. Bucket(heap[b][s][round]) = b /\ Bucket(heap[d][v][round]) = d
    BY DEF HeapOK
  <2> QED BY <1>3, <1>4, <1>5, <2>1
<1>7. p.indices[1] \in Nat /\ q.indices[1] \in Nat
  <2> DEFINE n == ProofSize[round - 1]
             a == p.indices
             c == q.indices
  <2>1. n \in Nat \ {0}  BY <1>1, SizeFacts
  <2>2. a \in Seq(Leaves) /\ c \in Seq(Leaves) /\ Len(a) = n /\ Len(c) = n
    BY <1>2 DEF IsList
  <2> HIDE DEF a, c, n
  <2>3. a[1] \in Leaves /\ c[1] \in Leaves  BY <2>1, <2>2, OrderedFacts
  <2> QED BY <2>3 DEF Leaves, a, c
<1>8. s # v
  BY <1>4, <1>5, <1>6, <1>7
<1>9. s \in Nat /\ v \in Nat
  <2>1. heap[b] \in Seq(Hashes)  BY DEF HeapOK
  <2>2. DOMAIN heap[b] = 1 .. Len(heap[b]) /\ Len(heap[b]) \in Nat  BY <2>1, LenProperties
  <2> QED BY <1>6, <2>2
<1>10. CASE s < v
  <2> DEFINE t == <<b, s, v>>
  <2>1. /\ t \in Collisions /\ XorOf(t) = XorHash(heap[b][s], heap[b][v])
        /\ NewList(t).indices
             = Ordered(Lists[round - 1][b][s].indices, Lists[round - 1][b][v].indices)
        /\ ~NewList(t).dup
    <3>1. v \in DOMAIN heap[b] /\ heap[b][s][round] = heap[b][v][round]  BY <1>3, <1>4, <1>5, <1>6
    <3>2. /\ Range(Lists[round - 1][b][s].indices) \intersect Range(Lists[round - 1][b][v].indices) = {}
          /\ ~Lists[round - 1][b][s].dup /\ ~Lists[round - 1][b][v].dup
      BY <1>4, <1>5, <1>6
    <3> QED BY <1>10, <3>1, <3>2, SlotsCollide
  <2> HIDE DEF t
  <2>2. Ordered(p.indices, q.indices) = p.indices \o q.indices  BY <1>7, SmallerFirst
  <2> QED BY <1>4, <1>5, <1>6, <2>1, <2>2
<1>11. CASE v < s
  <2> DEFINE t == <<b, v, s>>
  <2>1. Range(q.indices) \intersect Range(p.indices) = {}  OBVIOUS
  <2>2. /\ t \in Collisions /\ XorOf(t) = XorHash(heap[b][v], heap[b][s])
        /\ NewList(t).indices
             = Ordered(Lists[round - 1][b][v].indices, Lists[round - 1][b][s].indices)
        /\ ~NewList(t).dup
    <3>1. v \in DOMAIN heap[b] /\ heap[b][v][round] = heap[b][s][round]  BY <1>3, <1>4, <1>5, <1>6
    <3>2. /\ Range(Lists[round - 1][b][v].indices) \intersect Range(Lists[round - 1][b][s].indices) = {}
          /\ ~Lists[round - 1][b][s].dup /\ ~Lists[round - 1][b][v].dup
      BY <1>4, <1>5, <1>6, <2>1
    <3> QED BY <1>11, <3>1, <3>2, SlotsCollide
  <2> HIDE DEF t
  <2>3. Ordered(q.indices, p.indices) = p.indices \o q.indices  BY <1>7, SmallerFirst
  <2>4. XorHash(q.hash, p.hash) = XorHash(p.hash, q.hash)  BY <1>2, XorFacts
  <2> QED BY <1>4, <1>5, <1>6, <2>2, <2>3, <2>4
<1>12. s < v \/ v < s  BY <1>8, <1>9
<1> QED BY <1>10, <1>11, <1>12, Zenon

\* The trees depend only on the hashes.
LEMMA TreesNext ==
  ASSUME hashes' = hashes
  PROVE  Trees' = Trees /\ Solutions' = Solutions
BY DEF Trees, Solutions

\* A round that overflows no bucket leaves every tree of its height in a slot.
LEMMA CompleteStep ==
  ASSUME TreeOK, HeapOK, CompleteOK, [Next]_vars
  PROVE  CompleteOK'
<1>1. K \in Nat /\ K >= 1  BY PuzzleAssumption
<1>2. CASE UNCHANGED <<hashes, round, heap, tree, full>>
  <2>1. Lists' = Lists  BY <1>2 DEF Lists, ListIndices
  <2>2. Trees' = Trees  BY <1>2, TreesNext
  <2> QED BY <1>2, <2>1, <2>2 DEF CompleteOK
<1>3. CASE Digit0
  <2> DEFINE hash == [t \in LeafNodes |-> hashes[t[1]]]
  <2>1. round = 0 /\ round' = 1 /\ hashes' = hashes /\ round \in 0 .. K - 1 /\ round' - 1 = 0
    BY <1>1, <1>3 DEF Digit0
  <2>2. Store(LeafNodes, hash)  BY <1>3, DigitStores
  <2>3. /\ \A t \in LeafNodes : hash[t] \in Hashes
        /\ \A t \in LeafNodes : hash[t] = hashes[t[1]]
    BY LeafFacts, Digit0Facts
  <2> HIDE DEF hash
  <2>4. StoreOutcome(LeafNodes, hash)  BY <2>1, <2>2, <2>3, LeafFacts, StoreFacts
  <2>5. ASSUME NEW t \in Trees[0], ~full'
        PROVE  \E b \in Buckets : \E s \in DOMAIN heap'[b] :
                 /\ heap'[b][s] = t.hash
                 /\ Lists'[0][b][s].indices = t.indices
                 /\ ~Lists'[0][b][s].dup
    <3>1. PICK i \in Leaves : t = [indices |-> <<i>>, hash |-> hashes[i], repeat |-> FALSE]
      BY TreesFacts
    <3> DEFINE n == Leaf(i)
               b == Bucket(hash[n][round + 1])
    <3>2. n \in LeafNodes /\ n[1] = i  BY DEF LeafNodes, Leaf
    <3> HIDE DEF n
    <3>3. b \in Buckets
      <4>1. round + 1 \in 1 .. K + 2  BY <1>1, <2>1
      <4>2. hash[n][round + 1] \in Digits  BY <2>3, <3>2, <4>1 DEF Hashes
      <4> QED BY <4>2, DigitFacts
    <3>4. PICK s \in DOMAIN heap'[b] : tree'[round][b][s] = n /\ heap'[b][s] = hash[n]
      BY <2>4, <2>5, <3>2 DEF StoreOutcome
    <3> HIDE DEF b
    <3>5. s \in DOMAIN tree'[0][b] /\ tree'[0][b][s] = n
      BY <2>1, <2>4, <3>3, <3>4 DEF StoreOutcome
    <3>6. Lists'[0][b][s] = [indices |-> <<tree'[0][b][s][1]>>, dup |-> FALSE]
      <4>1. \A r \in 0 .. K - 1 : r # round => tree'[r] = tree[r]
        BY <2>4 DEF StoreOutcome
      <4> QED BY <2>1, <3>3, <3>5, <4>1, ListsStep
    <3>7. Lists'[0][b][s].indices = <<i>> /\ ~Lists'[0][b][s].dup
      BY <3>2, <3>5, <3>6
    <3>8. heap'[b][s] = hashes[i]  BY <2>3, <3>2, <3>4
    <3>9. t.hash = hashes[i] /\ t.indices = <<i>>  BY <3>1
    <3> QED BY <3>3, <3>4, <3>7, <3>8, <3>9
  <2>6. Trees' = Trees  BY <2>1, TreesNext
  <2> QED BY <2>1, <2>5, <2>6 DEF CompleteOK
<1>4. CASE Digit
  <2> DEFINE hash == [t \in Kept |-> XorOf(t)]
  <2>1. round \in 1 .. K - 1 /\ round' = round + 1 /\ hashes' = hashes  BY <1>4 DEF Digit
  <2>2. round \in 0 .. K - 1 /\ round # 0 /\ round \in 1 .. K /\ round' - 1 = round /\ round < K
    BY <1>1, <2>1
  <2>3. Store(Kept, hash)  BY <1>4, DigitStores
  <2>4. /\ Kept \subseteq Collisions /\ Kept \subseteq Nodes /\ IsFiniteSet(Kept)
        /\ \A t \in Kept : hash[t] \in Hashes /\ hash[t] = XorOf(t)
    BY <2>2, DigitFactsOfNodes
  <2> HIDE DEF hash
  <2>5. StoreOutcome(Kept, hash)  BY <2>2, <2>3, <2>4, StoreFacts
  <2>6. ASSUME NEW t \in Trees[round], ~full', ~t.repeat
        PROVE  \E b \in Buckets : \E s \in DOMAIN heap'[b] :
                 /\ heap'[b][s] = t.hash
                 /\ Lists'[round][b][s].indices = t.indices
                 /\ ~Lists'[round][b][s].dup
    <3>1. \E p, q \in Trees[round - 1] :
            /\ p.indices[1] < q.indices[1]
            /\ Zeros(XorHash(p.hash, q.hash), round)
            /\ Range(p.indices) \intersect Range(q.indices) = {}
            /\ t = TreeOf(round, p, q)
      <4>1. round \in 1 .. K  BY <2>2
      <4>2. t \in Trees[round]  BY <2>6
      <4> QED BY <4>1, <4>2, TreesFacts, Zenon
    <3>2. PICK p \in Trees[round - 1], q \in Trees[round - 1] :
            /\ p.indices[1] < q.indices[1]
            /\ Zeros(XorHash(p.hash, q.hash), round)
            /\ Range(p.indices) \intersect Range(q.indices) = {}
            /\ t = TreeOf(round, p, q)
      BY <3>1, Zenon
    <3>3. /\ t.indices = p.indices \o q.indices /\ t.hash = XorHash(p.hash, q.hash)
          /\ ~p.repeat /\ ~q.repeat /\ ~TakenForRepeat(XorHash(p.hash, q.hash))
      BY <2>2, <2>6, <3>2 DEF TreeOf
    <3>4. ~full  BY <2>5, <2>6 DEF StoreOutcome
    <3>5. PICK n \in Collisions : /\ XorOf(n) = XorHash(p.hash, q.hash)
                                  /\ NewList(n).indices = p.indices \o q.indices
                                  /\ ~NewList(n).dup
      BY <2>2, <3>2, <3>3, <3>4, TreesCollide
    <3>6. n \in Kept  BY <3>3, <3>5 DEF Kept
    <3> DEFINE b == Bucket(hash[n][round + 1])
    <3>7. b \in Buckets
      <4>1. round + 1 \in 1 .. K + 2  BY <1>1, <2>1
      <4>2. hash[n][round + 1] \in Digits  BY <2>4, <3>6, <4>1 DEF Hashes
      <4> QED BY <4>2, DigitFacts
    <3>8. PICK s \in DOMAIN heap'[b] : tree'[round][b][s] = n /\ heap'[b][s] = hash[n]
      BY <2>5, <2>6, <3>6 DEF StoreOutcome
    <3> HIDE DEF b
    <3>9. s \in DOMAIN tree'[round][b]  BY <2>5, <3>7, <3>8 DEF StoreOutcome
    <3>10. Lists'[round][b][s] = ListIndices(round, tree'[round][b][s], Lists[round - 1])
      <4>1. \A r \in 0 .. K - 1 : r # round => tree'[r] = tree[r]
        BY <2>5 DEF StoreOutcome
      <4> QED BY <2>2, <3>7, <3>9, <4>1, ListsStep
    <3>11. Lists'[round][b][s] = NewList(n)  BY <3>8, <3>10 DEF NewList
    <3>12. heap'[b][s] = XorOf(n)  BY <2>4, <3>6, <3>8
    <3> QED BY <3>3, <3>5, <3>7, <3>8, <3>11, <3>12
  <2>7. Trees' = Trees  BY <2>1, TreesNext
  <2> QED BY <2>1, <2>2, <2>6, <2>7 DEF CompleteOK
<1>5. CASE DigitK
  <2>1. round' = K + 1  BY <1>5 DEF DigitK
  <2>2. K + 1 \notin 1 .. K  BY <1>1
  <2> QED BY <2>1, <2>2 DEF CompleteOK
<1>6. CASE Cancel \/ Report \/ HashDone \/ UNCHANGED vars
  BY <1>2, <1>6 DEF Cancel, Report, HashDone, vars
<1> QED BY <1>3, <1>4, <1>5, <1>6 DEF Next

\* The last round finds what is left.
LEMMA FindsStep ==
  ASSUME TreeOK, HeapOK, CompleteOK, FindsAll, [Next]_vars
  PROVE  FindsAll'
<1>1. K \in Nat /\ K >= 1 /\ MAXSOLS \in Nat  BY PuzzleAssumption, EquihashAssumption
<1>2. CASE Digit0 \/ Digit
  <2>1. round' \in 1 .. K
    <3>1. CASE Digit0
      <4>1. round' = 1  BY <3>1 DEF Digit0
      <4> QED BY <1>1, <4>1
    <3>2. CASE Digit
      <4>1. round \in 1 .. K - 1 /\ round' = round + 1  BY <3>2 DEF Digit
      <4> QED BY <1>1, <4>1
    <3> QED BY <1>2, <3>1, <3>2
  <2>2. round' # K + 1  BY <1>1, <2>1
  <2> QED BY <2>2 DEF FindsAll
<1>3. CASE DigitK
  <2>1. round = K /\ round \in 1 .. K /\ round' = K + 1 /\ UNCHANGED <<hashes, full>>
    <3>1. round = K /\ round' = K + 1 /\ UNCHANGED <<hashes, full>>  BY <1>3 DEF DigitK
    <3> QED BY <1>1, <3>1
  <2>2. nsols' \in Nat /\ (nsols' <= MAXSOLS => \A n \in Hits : NewList(n).indices \in Range(sols'))
    BY <1>3, DigitKStores
  <2>3. Solutions' = Solutions  BY <2>1, TreesNext
  <2>4. ASSUME ~full, NEW t \in Solutions, ~t.repeat, ~(nsols' > MAXSOLS)
        PROVE  t.indices \in Range(sols')
    <3>1. t \in Trees[K] /\ t.hash[K + 1] = 0  BY DEF Solutions
    <3>2. \E p, q \in Trees[K - 1] :
            /\ p.indices[1] < q.indices[1]
            /\ Zeros(XorHash(p.hash, q.hash), K)
            /\ Range(p.indices) \intersect Range(q.indices) = {}
            /\ t = TreeOf(K, p, q)
      <4>1. K \in 1 .. K  BY <1>1
      <4> QED BY <3>1, <4>1, TreesFacts, Zenon
    <3>3. PICK p \in Trees[K - 1], q \in Trees[K - 1] :
            /\ p.indices[1] < q.indices[1]
            /\ Zeros(XorHash(p.hash, q.hash), K)
            /\ Range(p.indices) \intersect Range(q.indices) = {}
            /\ t = TreeOf(K, p, q)
      BY <3>2, Zenon
    <3>4. /\ t.indices = p.indices \o q.indices /\ t.hash = XorHash(p.hash, q.hash)
          /\ ~p.repeat /\ ~q.repeat
      BY <2>4, <3>3 DEF TreeOf
    <3>5. PICK n \in Collisions : /\ XorOf(n) = XorHash(p.hash, q.hash)
                                  /\ NewList(n).indices = p.indices \o q.indices
                                  /\ ~NewList(n).dup
      BY <2>1, <2>4, <3>3, <3>4, TreesCollide
    <3>6. IsInjective(t.indices)
      <4>1. hashes \in Tables /\ K \in 0 .. K  BY <1>1 DEF TreeOK
      <4> QED BY <3>1, <4>1, TreesTyped
    <3>7. n \in Hits  BY <3>1, <3>4, <3>5, <3>6 DEF Hits, Genuine
    <3>8. nsols' <= MAXSOLS  BY <1>1, <2>2, <2>4
    <3>9. NewList(n).indices \in Range(sols')  BY <2>2, <3>7, <3>8
    <3> QED BY <3>4, <3>5, <3>9
  <2> QED BY <2>1, <2>3, <2>4 DEF FindsAll
<1>4. CASE UNCHANGED <<hashes, round, full, sols, nsols>>
  <2>1. Solutions' = Solutions  BY <1>4, TreesNext
  <2> QED BY <1>4, <2>1 DEF FindsAll
<1>5. CASE Cancel \/ Report \/ HashDone \/ UNCHANGED vars
  BY <1>4, <1>5 DEF Cancel, Report, HashDone, vars
<1> QED BY <1>2, <1>3, <1>5 DEF Next

\* Before the first round there is nothing to find.
LEMMA FindsStarts == Idle => CompleteOK /\ FindsAll
<1>1. Idle => round = 0  BY DEF Idle
<1>2. 0 \notin 1 .. K /\ 0 # K + 1  BY PuzzleAssumption
<1> QED BY <1>1, <1>2 DEF CompleteOK, FindsAll

\* Every step keeps what was found.
LEMMA FindsKept ==
  SolveOK /\ CompleteOK /\ FindsAll /\ [Next]_vars => CompleteOK' /\ FindsAll'
BY CompleteStep, FindsStep DEF SolveOK

\* Every solution of the puzzle is found that no overflow, no full table and no last
\* word of zero hides.
THEOREM AllFound == Spec => []FindsAll
<1>1. Init => CompleteOK /\ FindsAll  BY FindsStarts DEF Init
<1> QED BY <1>1, FindsKept, SolveCorrect, PTL DEF Spec

----------------------------------------------------------------------------
(* Choices.                                                                *)

\* One more choice for each of those made.
With(c, acc) == {a \union o : a \in acc, o \in c}

\* g is the function the choices from S are the last value of.
Chooses(g, S) ==
  g = [s \in SUBSET S |-> IF s = {} THEN {{}} ELSE With(Pick(s), g[s \ {Pick(s)}])]

\* OneOfEach is such a value.
LEMMA OneOfEachIsChosen ==
  ASSUME NEW S
  PROVE  OneOfEach(S) = (CHOOSE g : Chooses(g, S))[S]
BY DEF OneOfEach, FoldSet, MapThenFoldSet, Chooses, Pick, With

\* Two such functions agree where both are defined.
LEMMA ChoosesAgree ==
  ASSUME NEW S, NEW R, IsFiniteSet(S), R \subseteq S,
         NEW g, Chooses(g, S), NEW h, Chooses(h, R)
  PROVE  \A s \in SUBSET R : g[s] = h[s]
<1> DEFINE Bad == {s \in SUBSET R : g[s] # h[s]}
<1> SUFFICES ASSUME Bad # {} PROVE FALSE
  OBVIOUS
<1>1. Bad \subseteq SUBSET S  OBVIOUS
<1>2. PICK s \in Bad : \A y \in Bad : y \subseteq s => y = s
  <2> HIDE DEF Bad
  <2> QED BY <1>1, SubsetMin
<1>3. s \in SUBSET R /\ s \in SUBSET S /\ g[s] # h[s]  OBVIOUS
<1>4. g[s] = IF s = {} THEN {{}} ELSE With(Pick(s), g[s \ {Pick(s)}])
  BY <1>3 DEF Chooses
<1>5. h[s] = IF s = {} THEN {{}} ELSE With(Pick(s), h[s \ {Pick(s)}])
  BY <1>3 DEF Chooses
<1>6. CASE s = {}
  BY <1>3, <1>4, <1>5, <1>6
<1>7. CASE s # {}
  <2>1. Pick(s) \in s  BY <1>7, PickIn
  <2>2. s \ {Pick(s)} \notin Bad  BY <1>2, <2>1
  <2>3. g[s \ {Pick(s)}] = h[s \ {Pick(s)}]  BY <1>3, <2>2
  <2> QED BY <1>3, <1>4, <1>5, <1>7, <2>3
<1> QED BY <1>6, <1>7

\* There is such a function for every finite set.
LEMMA ChoosesExists ==
  ASSUME NEW S, IsFiniteSet(S)
  PROVE  \E g : Chooses(g, S)
<1> DEFINE Bad == {s \in SUBSET S : ~\E g : Chooses(g, s)}
<1> SUFFICES ASSUME Bad # {} PROVE FALSE
  OBVIOUS
<1>1. PICK s \in Bad : \A y \in Bad : y \subseteq s => y = s
  <2>1. Bad \subseteq SUBSET S  OBVIOUS
  <2> HIDE DEF Bad
  <2> QED BY <2>1, SubsetMin
<1>2. s \subseteq S /\ IsFiniteSet(s)  BY FS_Subset
<1>3. \A t \in SUBSET s : t # s => \E g : Chooses(g, t)
  BY <1>1, <1>2
<1> DEFINE F(t) == CHOOSE g : Chooses(g, t)
           G(t) == IF t = {} THEN {{}} ELSE With(Pick(t), F(t \ {Pick(t)})[t \ {Pick(t)}])
           g == [t \in SUBSET s |-> G(t)]
<1>4. \A t \in SUBSET s : t # s => Chooses(F(t), t)
  BY <1>3
<1>5. ASSUME NEW t \in SUBSET s, t # s
      PROVE  g[t] = F(t)[t]
  <2> DEFINE Ft == F(t)
  <2>1. Chooses(Ft, t)  BY <1>4, <1>5
  <2>2. Ft[t] = IF t = {} THEN {{}} ELSE With(Pick(t), Ft[t \ {Pick(t)}])
    <3> HIDE DEF Ft
    <3> QED BY <2>1 DEF Chooses
  <2>3. g[t] = G(t)  OBVIOUS
  <2>4. CASE t = {}
    BY <2>2, <2>3, <2>4
  <2>5. CASE t # {}
    <3> DEFINE u == t \ {Pick(t)}
               Fu == F(u)
    <3>1. Pick(t) \in t  BY <2>5, PickIn
    <3>2. u \in SUBSET t /\ u # s /\ u \in SUBSET s  BY <3>1, <1>5
    <3>3. Chooses(Fu, u)  BY <1>4, <3>2
    <3>4. IsFiniteSet(t)  BY <1>2, FS_Subset
    <3>5. Ft[u] = Fu[u]
      <4> HIDE DEF Fu, Ft, u
      <4> QED BY <2>1, <3>2, <3>3, <3>4, ChoosesAgree
    <3> QED BY <2>2, <2>3, <2>5, <3>5
  <2> QED BY <2>4, <2>5
<1>6. Chooses(g, s)
  <2>1. ASSUME NEW t \in SUBSET s
        PROVE  G(t) = IF t = {} THEN {{}} ELSE With(Pick(t), g[t \ {Pick(t)}])
    <3>1. CASE t = {}
      BY <3>1
    <3>2. CASE t # {}
      <4>1. Pick(t) \in t  BY <3>2, PickIn
      <4>2. t \ {Pick(t)} \in SUBSET s /\ t \ {Pick(t)} # s  BY <4>1
      <4>3. g[t \ {Pick(t)}] = F(t \ {Pick(t)})[t \ {Pick(t)}]  BY <4>2, <1>5
      <4> QED BY <3>2, <4>3
    <3> QED BY <3>1, <3>2
  <2> HIDE DEF F
  <2> QED BY <2>1 DEF Chooses
<1>7. \E h : Chooses(h, s)
  <2> HIDE DEF g
  <2> QED BY <1>6
<1> QED BY <1>7, <1>1

\* One more choice is joined with one of those made.
LEMMA WithFacts ==
  ASSUME NEW c, NEW acc, NEW q \in With(c, acc)
  PROVE  \E a \in acc, e \in c : q = a \union e
BY DEF With

\* The unions of one choice from each are just that.
LEMMA OneOfEachFacts ==
  ASSUME NEW C, IsFiniteSet(C), NEW o \in OneOfEach(C)
  PROVE  \E f : (\A c \in C : f[c] \in c) /\ o = UNION {f[c] : c \in C}
<1> DEFINE Union(f, s) == UNION {f[c] : c \in s}
           Made(f, s, q) == (\A c \in s : f[c] \in c) /\ q = Union(f, s)
<1>1. PICK g : Chooses(g, C) /\ o \in g[C]
  <2> DEFINE h == CHOOSE g : Chooses(g, C)
  <2>1. Chooses(h, C)  BY ChoosesExists
  <2> HIDE DEF h
  <2>2. OneOfEach(C) = h[C]  BY OneOfEachIsChosen DEF h
  <2> QED BY <2>1, <2>2
<1> DEFINE Bad == {s \in SUBSET C : ~(\A q \in g[s] : \E f : Made(f, s, q))}
<1>2. Bad = {}
  <2> SUFFICES ASSUME Bad # {} PROVE FALSE
    OBVIOUS
  <2>1. PICK s \in Bad : \A y \in Bad : y \subseteq s => y = s
    <3>1. Bad \subseteq SUBSET C  OBVIOUS
    <3> HIDE DEF Bad
    <3> QED BY <3>1, SubsetMin
  <2>2. s \in SUBSET C  OBVIOUS
  <2>3. PICK q \in g[s] : ~\E f : Made(f, s, q)  OBVIOUS
  <2>4. g[s] = IF s = {} THEN {{}} ELSE With(Pick(s), g[s \ {Pick(s)}])
    BY <1>1, <2>2 DEF Chooses
  <2>5. CASE s = {}
    <3>1. q = {}  BY <2>3, <2>4, <2>5
    <3>2. Made(<<>>, s, q)  BY <2>5, <3>1
    <3> HIDE DEF Made
    <3> QED BY <2>3, <3>2
  <2>6. CASE s # {}
    <3> DEFINE c == Pick(s)
               t == s \ {c}
    <3>1. c \in s  BY <2>6, PickIn
    <3> HIDE DEF c
    <3>2. t \in SUBSET C /\ t \subseteq s /\ t # s  BY <2>2, <3>1
    <3>3. t \notin Bad
      <4> HIDE DEF Bad, t
      <4> QED BY <2>1, <3>2
    <3>4. PICK a \in g[t], e \in c : q = a \union e
      <4>1. g[s] = With(c, g[t])  BY <2>4, <2>6 DEF c
      <4>2. q \in With(c, g[t])  BY <2>3, <4>1
      <4> HIDE DEF t
      <4> QED BY <4>2, WithFacts
    <3>5. PICK f : Made(f, t, a)
      <4> HIDE DEF Made, t
      <4> QED BY <3>2, <3>3, <3>4
    <3> DEFINE h == [d \in s |-> IF d = c THEN e ELSE f[d]]
    <3>6. \A d \in s : h[d] \in d  BY <3>4, <3>5
    <3>7. h[c] = e /\ \A d \in t : h[d] = f[d]  BY <3>1
    <3>8. q = Union(h, s)
      <4>1. a = Union(f, t)  BY <3>5
      <4> HIDE DEF h
      <4>2. Union(h, s) = Union(h, t) \union h[c]  BY <3>1
      <4>3. Union(h, t) = Union(f, t)  BY <3>7
      <4> HIDE DEF Union
      <4> QED BY <3>4, <3>7, <4>1, <4>2, <4>3
    <3>9. Made(h, s, q)  BY <3>6, <3>8
    <3> HIDE DEF Made, h
    <3> QED BY <2>3, <3>9
  <2> QED BY <2>5, <2>6
<1>3. PICK f : Made(f, C, o)  BY <1>1, <1>2
<1> QED BY <1>3

----------------------------------------------------------------------------
(* What a kernel of the CUDA solver leaves in the buckets.                 *)

\* What is made of each of finitely many things is finitely many.
LEMMA FiniteImage ==
  ASSUME NEW S, IsFiniteSet(S), NEW f
  PROVE  IsFiniteSet({f[c] : c \in S})
<1> DEFINE T == {f[c] : c \in S}
           g == [c \in S |-> f[c]]
<1>1. g \in Surjection(S, T)  BY DEF Surjection
<1> HIDE DEF g, T
<1>2. IsFiniteSet(T)  BY <1>1, FS_Surjection
<1> QED BY <1>2 DEF T

\* At most n of the members of a set.
LEMMA AtMostFacts ==
  ASSUME NEW n \in Nat, NEW S, IsFiniteSet(S), NEW x \in AtMost(n, S)
  PROVE  /\ x \subseteq S /\ IsFiniteSet(x) /\ Cardinality(x) \in Nat
         /\ Cardinality(x) <= n /\ Cardinality(x) <= Cardinality(S)
         /\ Cardinality(S) <= n => x = S
<1>1. Cardinality(S) \in Nat  BY FS_CardinalityType
<1>2. CASE Cardinality(S) <= n
  <2>1. x = S  BY <1>2 DEF AtMost
  <2> QED BY <1>1, <1>2, <2>1
<1>3. CASE ~(Cardinality(S) <= n)
  <2>1. x \in SUBSET S /\ Cardinality(x) = n  BY <1>3 DEF AtMost, kSubset
  <2>2. IsFiniteSet(x)  BY <2>1, FS_Subset
  <2> QED BY <1>1, <1>3, <2>1, <2>2
<1> QED BY <1>2, <1>3

\* The slots made for a bucket.
Own(r, made, b) == {e \in made : Bucket(e.hash[r + 1]) = b}

\* Buckets whose slots are counted.
IsHeap(m) ==
  /\ m = [b \in Buckets |-> m[b]]
  /\ \A b \in Buckets : IsFiniteSet(m[b]) /\ Cardinality(m[b]) <= CudaNSLOTS

\* A round adds slots it made to the buckets of their next digits, and all of them
\* if no bucket overflows.
PlaceOutcome(r, made, counted) ==
  /\ table' = [h \in 0 .. 1 |-> table'[h]]
  /\ \A h \in 0 .. 1 : h # r % 2 => table'[h] = counted[h]
  /\ IsHeap(table'[r % 2])
  /\ \A b \in Buckets : table'[r % 2][b] \subseteq counted[r % 2][b] \union Own(r, made, b)
  /\ ~overflown' => /\ r = 0 \/ ~overflown
                    /\ \A b \in Buckets : Own(r, made, b) \subseteq table'[r % 2][b]

\* One choice for each bucket is what stays of the slots of that bucket.
LEMMA KeptOfBucket ==
  ASSUME NEW own, \A b, d \in Buckets : b # d => own[b] \intersect own[d] = {},
         \A b \in Buckets : IsFiniteSet(own[b]),
         NEW room, \A b \in Buckets : room[b] \in Nat,
         NEW kept \in OneOfEach({AtMost(room[b], own[b]) : b \in Buckets}),
         NEW b \in Buckets
  PROVE  kept \intersect own[b] \in AtMost(room[b], own[b])
<1> DEFINE of(d) == AtMost(room[d], own[d])
           C == {of(d) : d \in Buckets}
<1>1. IsFiniteSet(C)
  <2> DEFINE g == [d \in Buckets |-> of(d)]
  <2>1. NBUCKETS - 1 \in Int  BY PuzzleAssumption
  <2>2. IsFiniteSet(Buckets)  BY <2>1, FS_Interval DEF Buckets
  <2>3. C = {g[d] : d \in Buckets}  OBVIOUS
  <2> HIDE DEF g, C
  <2>4. IsFiniteSet({g[d] : d \in Buckets})  BY <2>2, FiniteImage
  <2> QED BY <2>3, <2>4
<1>2. PICK f : (\A c \in C : f[c] \in c) /\ kept = UNION {f[c] : c \in C}
  <2>1. kept \in OneOfEach(C)  OBVIOUS
  <2> HIDE DEF C
  <2> QED BY <1>1, <2>1, OneOfEachFacts
<1>3. \A d \in Buckets : f[of(d)] \in of(d) /\ f[of(d)] \subseteq kept
  <2> HIDE DEF of
  <2> QED BY <1>2
<1>4. \A d \in Buckets : f[of(d)] \subseteq own[d]
  BY <1>3, AtMostFacts
<1>5. ASSUME NEW e \in kept, e \in own[b] PROVE e \in f[of(b)]
  <2>1. PICK d \in Buckets : e \in f[of(d)]
    <3> HIDE DEF of
    <3> QED BY <1>2, <1>5
  <2>2. e \in own[d]  BY <1>4, <2>1
  <2>3. d = b  BY <1>5, <2>2
  <2> QED BY <2>1, <2>3
<1>6. kept \intersect own[b] = f[of(b)]
  <2> HIDE DEF of
  <2> QED BY <1>3, <1>4, <1>5
<1> QED BY <1>3, <1>6

\* getslot and the threads that use it do that.
LEMMA PlaceFacts ==
  ASSUME NEW r \in Nat, NEW made, IsFiniteSet(made),
         NEW counted, counted = [h \in 0 .. 1 |-> counted[h]], IsHeap(counted[r % 2]),
         Place(r, made, counted)
  PROVE  PlaceOutcome(r, made, counted) /\ digit' = r + 1
<1> DEFINE own(b) == Own(r, made, b)
           room(b) == CudaNSLOTS - Cardinality(counted[r % 2][b])
<1>1. r % 2 \in 0 .. 1  OBVIOUS
<1>2. PICK kept \in OneOfEach({AtMost(room(b), own(b)) : b \in Buckets}) :
        table' = [counted EXCEPT ![r % 2] = [b \in Buckets |-> @[b] \union (kept \intersect own(b))]]
  BY DEF Place, Own
<1>3. overflown' = ((r > 0 /\ overflown) \/ \E b \in Buckets : Cardinality(own(b)) > room(b))
      /\ digit' = r + 1
  BY DEF Place, Own
<1>4. \A b \in Buckets : /\ IsFiniteSet(counted[r % 2][b])
                         /\ Cardinality(counted[r % 2][b]) \in Nat /\ room(b) \in Nat
  <2> TAKE b \in Buckets
  <2>1. IsFiniteSet(counted[r % 2][b]) /\ Cardinality(counted[r % 2][b]) <= CudaNSLOTS
    BY DEF IsHeap
  <2>2. Cardinality(counted[r % 2][b]) \in Nat  BY <2>1, FS_CardinalityType
  <2>3. CudaNSLOTS \in Nat  BY CudaAssumption
  <2> QED BY <2>1, <2>2, <2>3
<1>5. \A b \in Buckets : IsFiniteSet(own(b)) /\ Cardinality(own(b)) \in Nat
  <2> TAKE b \in Buckets
  <2>1. own(b) \in SUBSET made  BY DEF Own
  <2> HIDE DEF own
  <2> QED BY <2>1, FS_Subset, FS_CardinalityType
<1>6. ASSUME NEW b \in Buckets
      PROVE  kept \intersect own(b) \in AtMost(room(b), own(b))
  <2> DEFINE o == [d \in Buckets |-> own(d)]
             m == [d \in Buckets |-> room(d)]
  <2>1. \A d, e \in Buckets : d # e => o[d] \intersect o[e] = {}  BY DEF Own
  <2>2. \A d \in Buckets : o[d] = own(d) /\ m[d] = room(d)  OBVIOUS
  <2> HIDE DEF o, m, own, room
  <2>3. {AtMost(room(d), own(d)) : d \in Buckets} = {AtMost(m[d], o[d]) : d \in Buckets}
    BY <2>2
  <2>4. \A d \in Buckets : IsFiniteSet(o[d]) /\ m[d] \in Nat  BY <1>4, <1>5, <2>2
  <2>5. kept \intersect o[b] \in AtMost(m[b], o[b])  BY <1>2, <2>1, <2>3, <2>4, KeptOfBucket
  <2> QED BY <2>2, <2>5
<1> DEFINE new(b) == kept \intersect own(b)
<1>7. \A b \in Buckets :
        /\ new(b) \subseteq own(b) /\ IsFiniteSet(new(b)) /\ Cardinality(new(b)) \in Nat
        /\ Cardinality(new(b)) <= room(b)
        /\ Cardinality(own(b)) <= room(b) => new(b) = own(b)
  <2> HIDE DEF own, room, new
  <2> QED BY <1>4, <1>5, <1>6, AtMostFacts DEF new
<1> DEFINE filling(b) == counted[r % 2][b] \union new(b)
<1>8. \A b \in Buckets : IsFiniteSet(filling(b)) /\ Cardinality(filling(b)) <= CudaNSLOTS
  <2> TAKE b \in Buckets
  <2> DEFINE S == counted[r % 2][b]
             T == new(b)
  <2>1. IsFiniteSet(S) /\ IsFiniteSet(T) /\ Cardinality(S) \in Nat /\ Cardinality(T) \in Nat
        /\ Cardinality(T) <= CudaNSLOTS - Cardinality(S)
    <3> HIDE DEF new
    <3> QED BY <1>4, <1>7
  <2> HIDE DEF S, T
  <2>2. IsFiniteSet(S \union T)
        /\ Cardinality(S \union T) = Cardinality(S) + Cardinality(T) - Cardinality(S \intersect T)
    BY <2>1, FS_Union
  <2>3. Cardinality(S \intersect T) \in Nat
    <3>1. S \intersect T \in SUBSET S  OBVIOUS
    <3>2. IsFiniteSet(S \intersect T)  BY <2>1, <3>1, FS_Subset
    <3> QED BY <3>2, FS_CardinalityType
  <2>4. CudaNSLOTS \in Nat  BY CudaAssumption
  <2>5. Cardinality(S \union T) <= CudaNSLOTS  BY <2>1, <2>2, <2>3, <2>4
  <2> QED BY <2>2, <2>5 DEF S, T
<1>9. /\ table' = [h \in 0 .. 1 |-> IF h = r % 2 THEN [b \in Buckets |-> filling(b)] ELSE counted[h]]
  <2> HIDE DEF own, room
  <2> QED BY <1>1, <1>2
<1>10. table'[r % 2] = [b \in Buckets |-> filling(b)]
       /\ \A h \in 0 .. 1 : h # r % 2 => table'[h] = counted[h]
  <2> HIDE DEF filling
  <2> QED BY <1>1, <1>9
<1>11. table' = [h \in 0 .. 1 |-> table'[h]]
  <2> HIDE DEF filling
  <2> QED BY <1>9
<1>12. IsHeap(table'[r % 2])
  <2>1. \A b \in Buckets : table'[r % 2][b] = filling(b)
    <3> HIDE DEF filling
    <3> QED BY <1>10
  <2>2. table'[r % 2] = [b \in Buckets |-> table'[r % 2][b]]
    <3> HIDE DEF filling
    <3> QED BY <1>10
  <2> HIDE DEF filling
  <2> QED BY <1>8, <2>1, <2>2 DEF IsHeap
<1>13. \A b \in Buckets : table'[r % 2][b] \subseteq counted[r % 2][b] \union own(b)
  <2> HIDE DEF own, room
  <2> QED BY <1>10
<1>14. ASSUME ~overflown'
       PROVE  (r = 0 \/ ~overflown) /\ \A b \in Buckets : own(b) \subseteq table'[r % 2][b]
  <2>1. ~(r > 0 /\ overflown) /\ \A b \in Buckets : ~(Cardinality(own(b)) > room(b))
    <3> HIDE DEF own, room
    <3> QED BY <1>3, <1>14
  <2>2. \A b \in Buckets : Cardinality(own(b)) <= room(b)
    <3> HIDE DEF own, room
    <3> QED BY <1>4, <1>5, <2>1
  <2>3. \A b \in Buckets : new(b) = own(b)
    <3> HIDE DEF own, room, new
    <3> QED BY <1>7, <2>2
  <2>4. \A b \in Buckets : own(b) \subseteq table'[r % 2][b]
    <3> HIDE DEF own, room, new
    <3> QED BY <1>10, <2>3
  <2> QED BY <2>1, <2>4
<1> QED BY <1>3, <1>10, <1>11, <1>12, <1>13, <1>14 DEF PlaceOutcome

\* There are finitely many hashes: each is determined by its graph.
LEMMA FiniteHashes == IsFiniteSet(Hashes)
<1> DEFINE I == 1 .. K + 2
           G == (I \X Digits)
           graph == [h \in Hashes |-> {<<i, h[i]>> : i \in I}]
<1>1. IsFiniteSet(I)
  <2>1. K + 2 \in Int /\ 1 \in Int  BY PuzzleAssumption
  <2> QED BY <2>1, FS_Interval
<1>2. IsFiniteSet(Digits)
  <2>1. RestSize \in Nat /\ NBUCKETS \in Nat  BY PuzzleAssumption
  <2>2. 0 \in Int /\ RestSize * NBUCKETS - 1 \in Int  BY <2>1
  <2> QED BY <2>2, FS_Interval DEF Digits
<1>3. IsFiniteSet(SUBSET G)  BY <1>1, <1>2, FS_Product, FS_SUBSET
<1>4. graph \in [Hashes -> SUBSET G]
  <2>1. ASSUME NEW h \in Hashes PROVE {<<i, h[i]>> : i \in I} \in SUBSET G
    <3>1. \A i \in I : h[i] \in Digits  BY DEF Hashes
    <3> QED BY <3>1
  <2> QED BY <2>1
<1>5. \A g, h \in Hashes : graph[g] = graph[h] => g = h
  <2> SUFFICES ASSUME NEW g \in Hashes, NEW h \in Hashes, graph[g] = graph[h] PROVE g = h
    OBVIOUS
  <2>1. {<<i, g[i]>> : i \in I} = {<<i, h[i]>> : i \in I}  OBVIOUS
  <2>2. ASSUME NEW i \in I PROVE g[i] = h[i]
    <3>1. <<i, g[i]>> \in {<<j, h[j]>> : j \in I}  BY <2>1
    <3>2. PICK j \in I : <<i, g[i]>> = <<j, h[j]>>  BY <3>1
    <3> QED BY <3>2
  <2>3. g = [i \in I |-> g[i]] /\ h = [i \in I |-> h[i]]  BY DEF Hashes
  <2> QED BY <2>2, <2>3
<1> HIDE DEF graph, G
<1>6. graph \in Injection(Hashes, SUBSET G)
  <2>1. DOMAIN graph = Hashes  BY <1>4
  <2>2. IsInjective(graph)  BY <1>5, <2>1 DEF IsInjective
  <2> QED BY <1>4, <2>2 DEF Injection
<1> QED BY <1>3, <1>6, FS_Injection

\* What was left in a heap: finitely many slots of older solves.
LEMMA OldHeapFacts ==
  ASSUME NEW from, NEW m \in OldHeap(from)
  PROVE  /\ m = [b \in Buckets |-> m[b]]
         /\ \A b \in Buckets : /\ IsFiniteSet(m[b])
                               /\ \A e \in m[b] : e.hash \in Hashes /\ e.from = from
<1> DEFINE slot == [h \in Hashes |-> SlotOf(h, {<<NHASHES, NHASHES>>}, from)]
           S == {slot[h] : h \in Hashes}
<1>1. m \in [Buckets -> SUBSET S]
  <2>1. S = {SlotOf(h, {<<NHASHES, NHASHES>>}, from) : h \in Hashes}  OBVIOUS
  <2> HIDE DEF S
  <2> QED BY <2>1 DEF OldHeap
<1>2. IsFiniteSet(S)
  <2> HIDE DEF slot
  <2> QED BY FiniteHashes, FiniteImage
<1>3. \A e \in S : e.hash \in Hashes /\ e.from = from
  BY DEF SlotOf
<1> HIDE DEF S
<1>4. ASSUME NEW b \in Buckets
      PROVE  IsFiniteSet(m[b]) /\ \A e \in m[b] : e.hash \in Hashes /\ e.from = from
  <2>1. m[b] \in SUBSET S  BY <1>1
  <2>2. IsFiniteSet(m[b])  BY <1>2, <2>1, FS_Subset
  <2> QED BY <1>3, <2>1, <2>2
<1> QED BY <1>1, <1>4

----------------------------------------------------------------------------
(* The lists of indices of a slot.                                         *)

\* The heap that round r writes to is not the one it reads from.
LEMMA Parity ==
  ASSUME NEW r \in Nat
  PROVE  /\ r % 2 \in 0 .. 1 /\ 1 - (r % 2) \in 0 .. 1 /\ 1 - (r % 2) # r % 2
         /\ (r + 1) % 2 = 1 - (r % 2) /\ 1 - ((r + 1) % 2) = r % 2
         /\ \A h \in 0 .. 1 : h = r % 2 \/ h = 1 - (r % 2)
OBVIOUS

\* The ends of two lists one after the other.
LEMMA Ends ==
  ASSUME NEW n \in Nat \ {0}, NEW l \in Seq(Leaves), NEW m \in Seq(Leaves), Len(l) = n, Len(m) = n
  PROVE  (l \o m)[1] = l[1] /\ (l \o m)[Len(l) + 1] = m[1]
<1>1. \A i \in 1 .. 2 * n : (l \o m)[i] = IF i <= n THEN l[i] ELSE m[i - n]
  BY Concatenation
<1>2. 1 \in 1 .. 2 * n /\ n + 1 \in 1 .. 2 * n /\ 1 <= n /\ ~(n + 1 <= n) /\ n + 1 - n = 1
  OBVIOUS
<1>3. (l \o m)[1] = l[1]  BY <1>1, <1>2
<1>4. (l \o m)[n + 1] = m[n + 1 - n]  BY <1>1, <1>2
<1> QED BY <1>2, <1>3, <1>4

\* orderindices puts the list with the smaller first index first, if they differ.
LEMMA JoinedOrder ==
  ASSUME NEW n \in Nat \ {0}, NEW l \in Seq(Leaves), NEW m \in Seq(Leaves), Len(l) = n, Len(m) = n
  PROVE  /\ \A o \in Joined(l, m) : /\ o = l \o m \/ o = m \o l
                                    /\ l[1] # m[1] => o = Ordered(l, m)
         /\ l[1] \in Range(l) /\ m[1] \in Range(m)
<1>1. l[1] \in Leaves /\ m[1] \in Leaves /\ l[1] \in Range(l) /\ m[1] \in Range(m)
  BY OrderedFacts
<1>2. (l \o m)[1] = l[1] /\ (l \o m)[Len(l) + 1] = m[1]  BY Ends
<1>3. (m \o l)[1] = m[1] /\ (m \o l)[Len(l) + 1] = l[1]
  <2>1. (m \o l)[1] = m[1] /\ (m \o l)[Len(m) + 1] = l[1]  BY Ends
  <2>2. Len(l) = Len(m)  OBVIOUS
  <2> QED BY <2>1, <2>2, Zenon
<1>4. PICK i \in Nat : i = l[1]  BY <1>1 DEF Leaves
<1>5. PICK j \in Nat : j = m[1]  BY <1>1 DEF Leaves
<1> DEFINE a == l \o m
           c == m \o l
           k == Len(l) + 1
<1>6. Joined(l, m) = {o \in {a, c} : o[1] <= o[k]}  BY DEF Joined
<1>7. a[1] = i /\ a[k] = j /\ c[1] = j /\ c[k] = i  BY <1>2, <1>3, <1>4, <1>5, Zenon
<1> HIDE DEF a, c, k
<1>8. ASSUME i < j, NEW o \in Joined(l, m) PROVE o = Ordered(l, m)
  <2>1. ~(c[1] <= c[k])  BY <1>7, <1>8
  <2>2. o = a  BY <1>6, <2>1, Zenon
  <2>3. ~(l[1] > m[1])  BY <1>4, <1>5, <1>8
  <2> QED BY <2>2, <2>3 DEF Ordered, a
<1>9. ASSUME j < i, NEW o \in Joined(l, m) PROVE o = Ordered(l, m)
  <2>1. ~(a[1] <= a[k])  BY <1>7, <1>9
  <2>2. o = c  BY <1>6, <2>1, Zenon
  <2>3. l[1] > m[1]  BY <1>4, <1>5, <1>9
  <2> QED BY <2>2, <2>3 DEF Ordered, c
<1>10. i < j \/ j < i \/ i = j  OBVIOUS
<1>11. \A o \in Joined(l, m) : o = a \/ o = c  BY <1>6
<1>12. \A o \in Joined(l, m) : i # j => o = Ordered(l, m)  BY <1>8, <1>9, <1>10
<1>13. \A o \in Joined(l, m) : l[1] # m[1] => o = Ordered(l, m)  BY <1>4, <1>5, <1>12
<1> QED BY <1>1, <1>11, <1>13, Zenon DEF a, c

\* A list whose first index is the smaller comes first.
LEMMA JoinedSmaller ==
  ASSUME NEW n \in Nat \ {0}, NEW l \in Seq(Leaves), NEW m \in Seq(Leaves), Len(l) = n, Len(m) = n,
         l[1] < m[1]
  PROVE  Joined(l, m) = {l \o m}
<1>1. l[1] \in Leaves /\ m[1] \in Leaves  BY OrderedFacts
<1>2. (l \o m)[1] = l[1] /\ (l \o m)[Len(l) + 1] = m[1]  BY Ends
<1>3. (m \o l)[1] = m[1] /\ (m \o l)[Len(l) + 1] = l[1]
  <2>1. (m \o l)[1] = m[1] /\ (m \o l)[Len(m) + 1] = l[1]  BY Ends
  <2>2. Len(l) = Len(m)  OBVIOUS
  <2> QED BY <2>1, <2>2, Zenon
<1>4. PICK i \in Nat : i = l[1]  BY <1>1 DEF Leaves
<1>5. PICK j \in Nat : j = m[1]  BY <1>1 DEF Leaves
<1> DEFINE a == l \o m
           c == m \o l
           k == Len(l) + 1
<1>6. Joined(l, m) = {o \in {a, c} : o[1] <= o[k]}  BY DEF Joined
<1>7. a[1] = i /\ a[k] = j /\ c[1] = j /\ c[k] = i  BY <1>2, <1>3, <1>4, <1>5, Zenon
<1>8. i < j  BY <1>4, <1>5
<1> HIDE DEF a, c, k
<1>9. a[1] <= a[k] /\ ~(c[1] <= c[k])  BY <1>7, <1>8
<1>10. Joined(l, m) = {a}  BY <1>6, <1>9, Zenon
<1> QED BY <1>10 DEF a

\* What orderindices gives is a list of twice the size; one without repeats is the
\* lists in the order of their first indices.
LEMMA JoinedTyped ==
  ASSUME NEW n \in Nat \ {0}, NEW l \in Seq(Leaves), NEW m \in Seq(Leaves), Len(l) = n, Len(m) = n,
         NEW o \in Joined(l, m)
  PROVE  /\ o \in Seq(Leaves) /\ Len(o) = 2 * n
         /\ IsInjective(o) => IsInjective(l) /\ IsInjective(m) /\ o = Ordered(l, m)
<1>1. /\ l \o m \in Seq(Leaves) /\ Len(l \o m) = 2 * n
      /\ IsInjective(l \o m) =>
           IsInjective(l) /\ IsInjective(m) /\ Range(l) \intersect Range(m) = {}
  BY Concatenation
<1>2. /\ m \o l \in Seq(Leaves) /\ Len(m \o l) = 2 * n
      /\ IsInjective(m \o l) =>
           IsInjective(l) /\ IsInjective(m) /\ Range(l) \intersect Range(m) = {}
  BY Concatenation
<1>3. /\ o = l \o m \/ o = m \o l
      /\ l[1] # m[1] => o = Ordered(l, m)
      /\ l[1] \in Range(l) /\ m[1] \in Range(m)
  BY JoinedOrder
<1>4. IsInjective(o) =>
        IsInjective(l) /\ IsInjective(m) /\ Range(l) \intersect Range(m) = {}
  BY <1>1, <1>2, <1>3, Zenon
<1>5. IsInjective(o) => l[1] # m[1]  BY <1>3, <1>4, Zenon
<1>6. o \in Seq(Leaves) /\ Len(o) = 2 * n  BY <1>1, <1>2, <1>3, Zenon
<1> QED BY <1>3, <1>4, <1>5, <1>6, Zenon

\* The same of the lists of a round.
LEMMA JoinedFacts ==
  ASSUME NEW r \in 1 .. K, NEW l, NEW m, IsList(r - 1, l), IsList(r - 1, m)
  PROVE  /\ \A o \in Joined(l, m) :
              /\ IsList(r, o)
              /\ IsInjective(o) => IsInjective(l) /\ IsInjective(m) /\ o = Ordered(l, m)
         /\ l[1] < m[1] => Joined(l, m) = {l \o m}
<1> DEFINE n == ProofSize[r - 1]
<1>1. n \in Nat \ {0} /\ ProofSize[r] = 2 * n
  <2>1. K \in Nat  BY PuzzleAssumption
  <2>2. r \in 1 .. K /\ r - 1 \in 0 .. K  BY <2>1
  <2> QED BY <2>2, SizeFacts
<1>2. l \in Seq(Leaves) /\ Len(l) = n /\ m \in Seq(Leaves) /\ Len(m) = n  BY DEF IsList
<1> HIDE DEF n
<1>3. \A o \in Joined(l, m) :
        /\ o \in Seq(Leaves) /\ Len(o) = 2 * n
        /\ IsInjective(o) => IsInjective(l) /\ IsInjective(m) /\ o = Ordered(l, m)
  BY <1>1, <1>2, JoinedTyped, Zenon
<1>4. ASSUME l[1] < m[1] PROVE Joined(l, m) = {l \o m}
  BY <1>1, <1>2, <1>4, JoinedSmaller
<1>5. \A o \in Joined(l, m) : IsList(r, o)  BY <1>1, <1>3 DEF IsList
<1> QED BY <1>3, <1>4, <1>5, Zenon

----------------------------------------------------------------------------
(* The slots of the device.                                                *)

\* The lists of a slot of height q are those of its tree, as the verifier would have
\* them.
OwnSlot(hs, q, e) ==
  \A l \in e.lists :
    /\ IsList(q, l)
    /\ IsInjective(l) => Verified(hs, l, q, RowFrom(q + 1, e.hash, l))

\* So are those of a node over two such slots.
LEMMA NodeOwn ==
  ASSUME NEW hs, NEW r \in 1 .. K, NEW x, NEW y, x.hash \in Hashes, y.hash \in Hashes,
         x.hash[r] = y.hash[r], OwnSlot(hs, r - 1, x), OwnSlot(hs, r - 1, y)
  PROVE  OwnSlot(hs, r, Node(x, y))
<1> DEFINE g == x.hash
           h == y.hash
<1>1. Node(x, y).hash = XorHash(g, h)
      /\ Node(x, y).lists = UNION {Joined(l, m) : l \in x.lists, m \in y.lists}
  BY DEF Node, SlotOf
<1>2. r - 1 + 1 = r  OBVIOUS
<1>3. \A l \in x.lists : IsList(r - 1, l) /\ (IsInjective(l) => Verified(hs, l, r - 1, RowFrom(r, g, l)))
  BY <1>2 DEF OwnSlot
<1>4. \A l \in y.lists : IsList(r - 1, l) /\ (IsInjective(l) => Verified(hs, l, r - 1, RowFrom(r, h, l)))
  BY <1>2 DEF OwnSlot
<1> SUFFICES ASSUME NEW o \in Node(x, y).lists
             PROVE  /\ IsList(r, o)
                    /\ IsInjective(o) => Verified(hs, o, r, RowFrom(r + 1, Node(x, y).hash, o))
  BY DEF OwnSlot
<1>5. PICK l \in x.lists, m \in y.lists : o \in Joined(l, m)  BY <1>1
<1>6. IsList(r - 1, l) /\ IsList(r - 1, m)  BY <1>3, <1>4
<1>7. /\ IsList(r, o)
      /\ IsInjective(o) => IsInjective(l) /\ IsInjective(m) /\ o = Ordered(l, m)
  BY <1>5, <1>6, JoinedFacts
<1> HIDE DEF g, h
<1>8. ASSUME IsInjective(o)
      PROVE  Verified(hs, o, r, RowFrom(r + 1, XorHash(g, h), o))
  <2>1. IsInjective(l) /\ IsInjective(m) /\ o = Ordered(l, m) /\ IsInjective(Ordered(l, m))
    BY <1>7, <1>8
  <2>2. Verified(hs, l, r - 1, RowFrom(r, g, l)) /\ Verified(hs, m, r - 1, RowFrom(r, h, m))
    BY <1>3, <1>4, <1>5, <2>1
  <2>3. l \in Seq(Leaves) /\ Len(l) = ProofSize[r - 1] /\ m \in Seq(Leaves) /\ Len(m) = ProofSize[r - 1]
    BY <1>6 DEF IsList
  <2>4. g \in Hashes /\ h \in Hashes /\ g[r] = h[r]  BY DEF g, h
  <2>5. Verified(hs, Ordered(l, m), r, RowFrom(r + 1, XorHash(g, h), Ordered(l, m)))
    BY <2>1, <2>2, <2>3, <2>4, NodeVerified
  <2> QED BY <2>1, <2>5, Zenon
<1> QED BY <1>1, <1>7, <1>8, Zenon

\* The state of the device: the counted slots of either heap, and the phases of a
\* solve.
DeviceOK ==
  /\ solve \in 0 .. MaxSolves /\ digit \in 0 .. K + 1 /\ hashes \in Tables
  /\ state \in {"idle", "solving", "reporting", "cancelled", "done"}
  /\ table = [h \in 0 .. 1 |-> table[h]]
  /\ \A h \in 0 .. 1 : IsHeap(table[h])
  /\ \A h \in 0 .. 1, b \in Buckets :
       \A e \in table[h][b] : e.hash \in Hashes /\ e.from \in 0 .. solve
  /\ state = "solving" => digit \in 1 .. K
  /\ state \in {"reporting", "done"} => \A h \in 0 .. 1 : table[h] = CudaEmpty

\* While it runs, the heap to be written holds slots of older solves only, and the
\* one to be read holds this solve's in the buckets of their next digits.
SlotsOK ==
  state = "solving" =>
    /\ digit >= 2 => table[digit % 2] = CudaEmpty
    /\ \A b \in Buckets : \A e \in table[digit % 2][b] : e.from # solve
    /\ \A b \in Buckets : \A e \in table[1 - (digit % 2)][b] :
         e.from = solve => Bucket(e.hash[digit]) = b /\ OwnSlot(hashes, digit - 1, e)

\* The pairs of a round, and what they are made of.
LEMMA PairsFacts ==
  ASSUME DeviceOK, NEW r \in 1 .. K
  PROVE  /\ IsFiniteSet(Pairs(r))
         /\ \A n \in Pairs(r) :
              \E b \in Buckets : \E x, y \in table[1 - (r % 2)][b] :
                x # y /\ Rest(x.hash[r]) = Rest(y.hash[r]) /\ n = Node(x, y)
         /\ \A b \in Buckets : \A x, y \in table[1 - (r % 2)][b] :
              x # y /\ Rest(x.hash[r]) = Rest(y.hash[r]) => Node(x, y) \in Pairs(r)
<1> DEFINE m == table[1 - (r % 2)]
           Q(s) == {q \in s \X s : q[1] # q[2] /\ Rest(q[1].hash[r]) = Rest(q[2].hash[r])}
           N(s) == {Node(p[1], p[2]) : p \in Q(s)}
<1>1. m = [b \in Buckets |-> m[b]] /\ \A b \in Buckets : IsFiniteSet(m[b])
  <2>1. r \in Nat  BY PuzzleAssumption
  <2>2. 1 - (r % 2) \in 0 .. 1  BY <2>1, Parity
  <2>3. IsHeap(m)  BY <2>2 DEF DeviceOK
  <2> HIDE DEF m
  <2> QED BY <2>3 DEF IsHeap
<1>2. Pairs(r) = UNION {N(s) : s \in Range(m)}  BY DEF Pairs
<1> HIDE DEF m
<1>3. Range(m) = {m[b] : b \in Buckets}
  <2>1. DOMAIN m = Buckets  BY <1>1
  <2> QED BY <2>1 DEF Range
<1>4. ASSUME NEW b \in Buckets PROVE IsFiniteSet(N(m[b]))
  <2> DEFINE S == Q(m[b])
             f == [p \in S |-> Node(p[1], p[2])]
  <2>1. IsFiniteSet(m[b] \X m[b])  BY <1>1, FS_Product
  <2>2. S \in SUBSET (m[b] \X m[b])  OBVIOUS
  <2>3. IsFiniteSet(S)  BY <2>1, <2>2, FS_Subset
  <2>4. N(m[b]) = {f[p] : p \in S}  OBVIOUS
  <2> HIDE DEF f, S, N
  <2>5. IsFiniteSet({f[p] : p \in S})  BY <2>3, FiniteImage
  <2> QED BY <2>4, <2>5
<1>5. IsFiniteSet(Pairs(r))
  <2> DEFINE C == {N(s) : s \in Range(m)}
             g == [b \in Buckets |-> N(m[b])]
  <2>1. NBUCKETS - 1 \in Int  BY PuzzleAssumption
  <2>2. IsFiniteSet(Buckets)  BY <2>1, FS_Interval DEF Buckets
  <2>3. C = {g[b] : b \in Buckets}
    <3> HIDE DEF N
    <3> QED BY <1>3
  <2> HIDE DEF g
  <2>4. IsFiniteSet({g[b] : b \in Buckets})  BY <2>2, FiniteImage
  <2>5. \A T \in C : IsFiniteSet(T)
    <3> HIDE DEF N
    <3> QED BY <1>3, <1>4
  <2>6. Pairs(r) = UNION C  BY <1>2
  <2> HIDE DEF C
  <2> QED BY <2>3, <2>4, <2>5, <2>6, FS_UNION
<1>6. ASSUME NEW n \in Pairs(r)
      PROVE  \E b \in Buckets : \E x, y \in m[b] :
               x # y /\ Rest(x.hash[r]) = Rest(y.hash[r]) /\ n = Node(x, y)
  <2>1. PICK b \in Buckets : n \in N(m[b])
    <3> HIDE DEF N
    <3> QED BY <1>2, <1>3, <1>6
  <2>2. PICK p \in Q(m[b]) : n = Node(p[1], p[2])
    <3> HIDE DEF Q
    <3> QED BY <2>1
  <2>3. /\ p[1] \in m[b] /\ p[2] \in m[b] /\ p[1] # p[2]
        /\ Rest(p[1].hash[r]) = Rest(p[2].hash[r])
    OBVIOUS
  <2> QED BY <2>2, <2>3, Zenon
<1>7. ASSUME NEW b \in Buckets, NEW x \in m[b], NEW y \in m[b],
             x # y, Rest(x.hash[r]) = Rest(y.hash[r])
      PROVE  Node(x, y) \in Pairs(r)
  <2> DEFINE p == <<x, y>>
  <2>1. p[1] = x /\ p[2] = y  OBVIOUS
  <2>2. p \in m[b] \X m[b]  OBVIOUS
  <2> HIDE DEF p
  <2>3. p \in Q(m[b])  BY <1>7, <2>1, <2>2
  <2>4. Node(x, y) \in N(m[b])
    <3> HIDE DEF Q
    <3> QED BY <2>1, <2>3
  <2> HIDE DEF N
  <2> QED BY <1>2, <1>3, <2>4
<1> QED BY <1>5, <1>6, <1>7 DEF m

\* A heap without slots.
LEMMA EmptyHeap ==
  /\ IsHeap(CudaEmpty)
  /\ \A b \in Buckets : CudaEmpty[b] = {}
<1>1. \A b \in Buckets : CudaEmpty[b] = {}  BY DEF CudaEmpty
<1>2. CudaEmpty = [b \in Buckets |-> CudaEmpty[b]]  BY DEF CudaEmpty
<1>3. IsFiniteSet({}) /\ Cardinality({}) = 0  BY FS_EmptySet
<1>4. CudaNSLOTS \in Nat  BY CudaAssumption
<1>5. \A b \in Buckets : IsFiniteSet(CudaEmpty[b]) /\ Cardinality(CudaEmpty[b]) <= CudaNSLOTS
  BY <1>1, <1>3, <1>4
<1> QED BY <1>1, <1>2, <1>5 DEF IsHeap

\* What a round counts on with: slots of older solves, in the heap it reads only
\* before the first.
CountsOn(r, counted) ==
  /\ r # 0 => counted[1 - (r % 2)] = CudaEmpty
  /\ \A h \in 0 .. 1 : IsHeap(counted[h])
  /\ \A h \in 0 .. 1, b \in Buckets : \A e \in counted[h][b] :
       e.hash \in Hashes /\ e.from \in 0 .. solve' /\ e.from # solve'

\* A round leaves slots in the heap that the next one reads, and in that one only
\* those of older solves where they were.
LEMMA PlaceKeeps ==
  ASSUME NEW r \in 0 .. K - 1, NEW made, NEW counted, PlaceOutcome(r, made, counted), digit' = r + 1,
         CountsOn(r, counted),
         \A e \in made : /\ e.hash \in Hashes /\ e.from \in 0 .. solve'
                         /\ e.from = solve' => OwnSlot(hashes', r, e)
  PROVE  /\ table' = [h \in 0 .. 1 |-> table'[h]]
         /\ \A h \in 0 .. 1 : IsHeap(table'[h])
         /\ \A h \in 0 .. 1, b \in Buckets :
              \A e \in table'[h][b] : e.hash \in Hashes /\ e.from \in 0 .. solve'
         /\ SlotsOK'
<1>1. r \in Nat /\ digit' - 1 = r
  BY PuzzleAssumption
<1>2. /\ r % 2 \in 0 .. 1 /\ 1 - (r % 2) \in 0 .. 1 /\ 1 - (r % 2) # r % 2
      /\ digit' % 2 = 1 - (r % 2) /\ 1 - (digit' % 2) = r % 2
      /\ \A h \in 0 .. 1 : h = r % 2 \/ h = 1 - (r % 2)
  <2>1. (r + 1) % 2 = 1 - (r % 2) /\ 1 - ((r + 1) % 2) = r % 2  BY <1>1, Parity
  <2>2. digit' % 2 = 1 - (r % 2) /\ 1 - (digit' % 2) = r % 2  BY <2>1
  <2> QED BY <1>1, <2>2, Parity
<1> DEFINE w == r % 2
           o == 1 - (r % 2)
<1> HIDE DEF w, o
<1>3. /\ w \in 0 .. 1 /\ o \in 0 .. 1 /\ o # w /\ \A h \in 0 .. 1 : h = w \/ h = o
      /\ digit' % 2 = o /\ 1 - (digit' % 2) = w
  BY <1>2 DEF w, o
<1>4. table'[o] = counted[o]  BY <1>3 DEF PlaceOutcome, w
<1>5. IsHeap(table'[w]) /\ IsHeap(table'[o])
  <2>1. IsHeap(counted[o])  BY <1>3 DEF CountsOn
  <2> QED BY <1>4, <2>1 DEF PlaceOutcome, w
<1>6. ASSUME NEW b \in Buckets, NEW e \in table'[w][b]
      PROVE  /\ e.hash \in Hashes /\ e.from \in 0 .. solve'
             /\ e.from = solve' => Bucket(e.hash[r + 1]) = b /\ OwnSlot(hashes', r, e)
  <2>1. e \in counted[w][b] \/ e \in Own(r, made, b)  BY DEF PlaceOutcome, w
  <2>2. CASE e \in counted[w][b]  BY <1>3, <2>2 DEF CountsOn
  <2>3. CASE e \in Own(r, made, b)  BY <2>3 DEF Own
  <2> QED BY <2>1, <2>2, <2>3
<1>7. ASSUME NEW b \in Buckets, NEW e \in table'[o][b]
      PROVE  e.hash \in Hashes /\ e.from \in 0 .. solve' /\ e.from # solve'
  BY <1>3, <1>4 DEF CountsOn
<1>8. \A h \in 0 .. 1 : IsHeap(table'[h])  BY <1>3, <1>5
<1>9. \A h \in 0 .. 1, b \in Buckets :
        \A e \in table'[h][b] : e.hash \in Hashes /\ e.from \in 0 .. solve'
  <2> SUFFICES ASSUME NEW h \in 0 .. 1, NEW b \in Buckets, NEW e \in table'[h][b]
               PROVE  e.hash \in Hashes /\ e.from \in 0 .. solve'
    OBVIOUS
  <2>1. CASE h = w  BY <1>6, <2>1
  <2>2. CASE h = o  BY <1>7, <2>2
  <2> QED BY <1>3, <2>1, <2>2
<1>10. table' = [h \in 0 .. 1 |-> table'[h]]  BY DEF PlaceOutcome
<1>11. /\ digit' >= 2 => table'[digit' % 2] = CudaEmpty
       /\ \A b \in Buckets : \A e \in table'[digit' % 2][b] : e.from # solve'
       /\ \A b \in Buckets : \A e \in table'[1 - (digit' % 2)][b] :
            e.from = solve' => Bucket(e.hash[digit']) = b /\ OwnSlot(hashes', digit' - 1, e)
  <2>1. digit' = r + 1  OBVIOUS
  <2>2. \A b \in Buckets : \A e \in table'[digit' % 2][b] : e.from # solve'  BY <1>3, <1>7
  <2>3. \A b \in Buckets : \A e \in table'[1 - (digit' % 2)][b] :
            e.from = solve' => Bucket(e.hash[digit']) = b /\ OwnSlot(hashes', digit' - 1, e)
    BY <1>1, <1>3, <1>6, <2>1
  <2>4. digit' >= 2 => table'[digit' % 2] = CudaEmpty
    <3>1. digit' >= 2 => r # 0  BY <1>1
    <3> QED BY <1>3, <1>4, <3>1 DEF CountsOn, o
  <2> QED BY <2>2, <2>3, <2>4
<1>12. SlotsOK'  BY <1>11 DEF SlotsOK
<1> QED BY <1>8, <1>9, <1>10, <1>12

\* What is left of a heap when a solve begins is older slots.
LEMMA LeftOverFacts ==
  ASSUME DeviceOK, NEW left \in LeftOver
  PROVE  IsHeap(left) /\ \A b \in Buckets : \A e \in left[b] : e.hash \in Hashes /\ e.from \in 0 .. solve
<1>1. 1 \in 0 .. 1 /\ solve \in Nat /\ MaxSolves \in Nat  BY CudaAssumption DEF DeviceOK
<1>2. IsHeap(table[1])
      /\ \A b \in Buckets : \A e \in table[1][b] : e.hash \in Hashes /\ e.from \in 0 .. solve
  BY <1>1 DEF DeviceOK
<1>3. CASE left = table[1]  BY <1>2, <1>3
<1>4. CASE left \in OldHeap(solve) /\ \A b \in Buckets : Cardinality(left[b]) <= Cardinality(table[1][b])
  <2>1. /\ left = [b \in Buckets |-> left[b]]
        /\ \A b \in Buckets : /\ IsFiniteSet(left[b])
                              /\ \A e \in left[b] : e.hash \in Hashes /\ e.from = solve
    BY <1>4, OldHeapFacts
  <2>2. ASSUME NEW b \in Buckets PROVE Cardinality(left[b]) <= CudaNSLOTS
    <3>1. IsFiniteSet(table[1][b]) /\ Cardinality(table[1][b]) <= CudaNSLOTS  BY <1>2 DEF IsHeap
    <3>2. Cardinality(table[1][b]) \in Nat /\ Cardinality(left[b]) \in Nat
      BY <2>1, <3>1, FS_CardinalityType
    <3>3. Cardinality(left[b]) <= Cardinality(table[1][b])  BY <1>4
    <3>4. CudaNSLOTS \in Nat  BY CudaAssumption
    <3> QED BY <3>1, <3>2, <3>3, <3>4
  <2>3. IsHeap(left)  BY <2>1, <2>2 DEF IsHeap
  <2>4. solve \in 0 .. solve  BY <1>1
  <2> QED BY <2>1, <2>3, <2>4
<1> QED BY <1>3, <1>4 DEF LeftOver

\* The counters of the heap that is read are cleared.
LEMMA CountedFacts ==
  ASSUME DeviceOK, NEW r \in 1 .. K
  PROVE  /\ Counted(r) = [h \in 0 .. 1 |-> Counted(r)[h]]
         /\ Counted(r)[r % 2] = table[r % 2] /\ Counted(r)[1 - (r % 2)] = CudaEmpty
<1>1. r \in Nat  BY PuzzleAssumption
<1>2. r % 2 \in 0 .. 1 /\ 1 - (r % 2) \in 0 .. 1 /\ 1 - (r % 2) # r % 2  BY <1>1, Parity
<1>3. table = [h \in 0 .. 1 |-> table[h]]  BY DEF DeviceOK
<1> DEFINE w == r % 2
           o == 1 - (r % 2)
<1>4. Counted(r) = [table EXCEPT ![o] = CudaEmpty]  BY DEF Counted
<1> HIDE DEF w, o
<1>5. w \in 0 .. 1 /\ o \in 0 .. 1 /\ o # w  BY <1>2 DEF w, o
<1>6. Counted(r) = [h \in 0 .. 1 |-> IF h = o THEN CudaEmpty ELSE table[h]]  BY <1>3, <1>4, <1>5
<1>7. Counted(r)[w] = table[w] /\ Counted(r)[o] = CudaEmpty  BY <1>5, <1>6
<1>8. Counted(r) = [h \in 0 .. 1 |-> Counted(r)[h]]  BY <1>6
<1> QED BY <1>7, <1>8 DEF w, o

\* What a round makes of this solve's slots only is this solve's.
LEMMA PairsTyped ==
  ASSUME DeviceOK, SlotsOK, state = "solving", NEW n \in Pairs(digit)
  PROVE  /\ n.hash \in Hashes /\ n.from \in 0 .. solve
         /\ n.from = solve => OwnSlot(hashes, digit, n)
<1>1. digit \in 1 .. K /\ digit \in Nat /\ digit \in 1 .. K + 2 /\ K \in Nat
  <2>1. K \in Nat /\ digit \in 1 .. K  BY PuzzleAssumption DEF DeviceOK
  <2> QED BY <2>1
<1>2. PICK b \in Buckets : \E x, y \in table[1 - (digit % 2)][b] :
         x # y /\ Rest(x.hash[digit]) = Rest(y.hash[digit]) /\ n = Node(x, y)
  BY <1>1, PairsFacts
<1>3. PICK x \in table[1 - (digit % 2)][b], y \in table[1 - (digit % 2)][b] :
         x # y /\ Rest(x.hash[digit]) = Rest(y.hash[digit]) /\ n = Node(x, y)
  BY <1>2
<1>4. /\ x.hash \in Hashes /\ x.from \in 0 .. solve
      /\ y.hash \in Hashes /\ y.from \in 0 .. solve
  <2>1. 1 - (digit % 2) \in 0 .. 1  BY <1>1, Parity
  <2> QED BY <2>1 DEF DeviceOK
<1>5. n.hash = XorHash(x.hash, y.hash) /\ n.from = IF x.from < y.from THEN x.from ELSE y.from
  BY <1>3 DEF Node, SlotOf
<1>6. n.hash \in Hashes  BY <1>4, <1>5, XorFacts
<1>7. n.from \in 0 .. solve  BY <1>4, <1>5
<1>8. ASSUME n.from = solve PROVE OwnSlot(hashes, digit, n)
  <2>1. x.from = solve /\ y.from = solve
    <3>1. solve \in Nat  BY CudaAssumption DEF DeviceOK
    <3> QED BY <1>4, <1>5, <1>8, <3>1
  <2>2. /\ Bucket(x.hash[digit]) = b /\ OwnSlot(hashes, digit - 1, x)
        /\ Bucket(y.hash[digit]) = b /\ OwnSlot(hashes, digit - 1, y)
    BY <2>1 DEF SlotsOK
  <2>3. x.hash[digit] = y.hash[digit]
    <3>1. x.hash[digit] \in Digits /\ y.hash[digit] \in Digits  BY <1>1, <1>4 DEF Hashes
    <3> QED BY <1>3, <2>2, <3>1, DigitFacts
  <2> QED BY <1>1, <1>3, <1>4, <2>2, <2>3, NodeOwn
<1> QED BY <1>6, <1>7, <1>8

\* What digitH makes of a table of hashes.
FirstSlots(hs, s) == {SlotOf(hs[i], {<< i >>}, s) : i \in Leaves}

\* They are as the verifier has them.
LEMMA FirstSlotsFacts ==
  ASSUME NEW hs \in Tables, NEW s \in Nat
  PROVE  /\ IsFiniteSet(FirstSlots(hs, s))
         /\ \A e \in FirstSlots(hs, s) :
              e.hash \in Hashes /\ e.from = s /\ OwnSlot(hs, 0, e)
<1> DEFINE f == [i \in Leaves |-> SlotOf(hs[i], {<<i>>}, s)]
<1>1. IsFiniteSet(FirstSlots(hs, s))
  <2>1. NHASHES - 1 \in Int  BY PuzzleAssumption
  <2>2. IsFiniteSet(Leaves)  BY <2>1, FS_Interval DEF Leaves
  <2>3. FirstSlots(hs, s) = {f[i] : i \in Leaves}  BY DEF FirstSlots
  <2> HIDE DEF f
  <2> QED BY <2>2, <2>3, FiniteImage
<1>2. ASSUME NEW e \in FirstSlots(hs, s)
      PROVE  e.hash \in Hashes /\ e.from = s /\ OwnSlot(hs, 0, e)
  <2>1. PICK i \in Leaves : e = SlotOf(hs[i], {<<i>>}, s)  BY DEF FirstSlots
  <2>2. e.hash = hs[i] /\ e.lists = {<<i>>} /\ e.from = s  BY <2>1 DEF SlotOf
  <2>3. hs[i] \in Hashes  BY DEF Tables
  <2>4. IsList(0, <<i>>)
    <3>1. <<i>> \in Seq(Leaves) /\ Len(<<i>>) = 1  OBVIOUS
    <3> QED BY <3>1, SizeFacts DEF IsList
  <2>5. Verified(hs, <<i>>, 0, RowFrom(0 + 1, hs[i], <<i>>))
    <3>1. RowFrom(0 + 1, hs[i], <<i>>) = [hash |-> SubSeq(hs[i], 1, K + 1), indices |-> <<i>>]
      BY DEF RowFrom
    <3> QED BY <3>1, LeafVerified
  <2>6. OwnSlot(hs, 0, e)
    <3> SUFFICES ASSUME NEW l \in e.lists
                 PROVE  IsList(0, l) /\ Verified(hs, l, 0, RowFrom(0 + 1, e.hash, l))
      BY Zenon DEF OwnSlot
    <3>1. l = <<i>>  BY <2>2
    <3> QED BY <2>2, <2>4, <2>5, <3>1, Zenon
  <2> QED BY <2>2, <2>3, <2>6
<1> QED BY <1>1, <1>2

\* Begin places the first slots.
LEMMA BeginFacts ==
  ASSUME DeviceOK, Begin
  PROVE  /\ hashes' \in Tables /\ solve' \in 0 .. MaxSolves /\ solve' \in Nat /\ solve' = solve + 1
         /\ digit' = 1 /\ state' = "solving"
         /\ \E counted : /\ PlaceOutcome(0, FirstSlots(hashes', solve'), counted)
                         /\ CountsOn(0, counted)
<1>1. solve \in Nat /\ MaxSolves \in Nat /\ solve < MaxSolves /\ solve' = solve + 1
  BY CudaAssumption DEF DeviceOK, Begin
<1>2. solve' \in 0 .. MaxSolves /\ solve' \in Nat  BY <1>1
<1>3. hashes' \in Tables  BY CudaAssumption DEF DeviceOK, Begin
<1>4. PICK left \in LeftOver :
        Place(0, FirstSlots(hashes', solve'), [h \in 0 .. 1 |-> IF h = 0 THEN CudaEmpty ELSE left])
  BY DEF Begin, FirstSlots
<1>5. IsHeap(left) /\ \A b \in Buckets : \A e \in left[b] : e.hash \in Hashes /\ e.from \in 0 .. solve
  BY LeftOverFacts
<1> DEFINE counted == [h \in 0 .. 1 |-> IF h = 0 THEN CudaEmpty ELSE left]
           made == FirstSlots(hashes', solve')
<1>6. counted = [h \in 0 .. 1 |-> counted[h]] /\ counted[0] = CudaEmpty /\ counted[1] = left
  OBVIOUS
<1>7. Place(0, made, counted)  BY <1>4
<1>8. IsFiniteSet(made)  BY <1>2, <1>3, FirstSlotsFacts
<1> HIDE DEF counted, made
<1>9. 0 % 2 = 0 /\ 0 \in Nat /\ 0 + 1 = 1  OBVIOUS
<1>10. IsHeap(counted[0 % 2])  BY <1>6, <1>9, EmptyHeap
<1>11. PlaceOutcome(0, made, counted) /\ digit' = 0 + 1
  BY <1>6, <1>7, <1>8, <1>9, <1>10, PlaceFacts
<1>12. \A h \in 0 .. 1 : h = 0 \/ h = 1  OBVIOUS
<1>13. \A i \in 0 .. solve : i \in 0 .. solve' /\ i # solve'  BY <1>1
<1>14. CountsOn(0, counted)
  <2>1. \A h \in 0 .. 1 : IsHeap(counted[h])  BY <1>5, <1>6, <1>12, EmptyHeap
  <2>2. ASSUME NEW h \in 0 .. 1, NEW b \in Buckets, NEW e \in counted[h][b]
        PROVE  e.hash \in Hashes /\ e.from \in 0 .. solve' /\ e.from # solve'
    <3>1. counted[h] = left  BY <1>6, <1>12, <2>2, EmptyHeap
    <3> QED BY <1>5, <1>13, <2>2, <3>1
  <2> QED BY <2>1, <2>2 DEF CountsOn
<1>15. digit' = 1  BY <1>11
<1>16. state' = "solving"  BY DEF Begin
<1> QED BY <1>1, <1>2, <1>3, <1>11, <1>14, <1>15, <1>16 DEF made

\* The pairs that a round keeps.
KeptPairs == {n \in Pairs(digit) : ~TakenForRepeat(n.hash)}

\* DigitR places them.
LEMMA DigitRFacts ==
  ASSUME DeviceOK, SlotsOK, DigitR
  PROVE  /\ digit \in 1 .. K - 1 /\ state = "solving" /\ digit' = digit + 1
         /\ UNCHANGED <<hashes, solve, state>>
         /\ PlaceOutcome(digit, KeptPairs, Counted(digit))
         /\ CountsOn(digit, Counted(digit))
<1>1. state = "solving" /\ digit < K /\ UNCHANGED <<hashes, solve, state>>  BY DEF DigitR
<1>2. digit \in 1 .. K - 1 /\ digit \in 1 .. K /\ digit \in Nat /\ K \in Nat
  <2>1. digit \in 1 .. K /\ K \in Nat  BY <1>1, PuzzleAssumption DEF DeviceOK
  <2> QED BY <1>1, <2>1
<1>3. Place(digit, KeptPairs, Counted(digit))  BY DEF DigitR, KeptPairs
<1>4. IsFiniteSet(KeptPairs)
  <2>1. IsFiniteSet(Pairs(digit))  BY <1>2, PairsFacts
  <2>2. KeptPairs \in SUBSET Pairs(digit)  BY DEF KeptPairs
  <2> QED BY <2>1, <2>2, FS_Subset
<1> DEFINE counted == Counted(digit)
           w == digit % 2
           o == 1 - (digit % 2)
<1>5. /\ counted = [h \in 0 .. 1 |-> counted[h]]
      /\ counted[w] = table[w] /\ counted[o] = CudaEmpty
  BY <1>2, CountedFacts
<1>6. w \in 0 .. 1 /\ \A h \in 0 .. 1 : h = w \/ h = o  BY <1>2, Parity
<1>7. IsHeap(table[w])  BY <1>6 DEF DeviceOK
<1> HIDE DEF counted
<1>8. IsHeap(counted[digit % 2])  BY <1>5, <1>7
<1>9. PlaceOutcome(digit, KeptPairs, counted) /\ digit' = digit + 1
  BY <1>2, <1>3, <1>4, <1>5, <1>8, PlaceFacts DEF counted
<1>10. CountsOn(digit, counted)
  <2>3. counted[1 - (digit % 2)] = CudaEmpty  BY <1>5
  <2> HIDE DEF w, o
  <2>1. \A h \in 0 .. 1 : IsHeap(counted[h])  BY <1>5, <1>6, <1>7, EmptyHeap
  <2>2. ASSUME NEW h \in 0 .. 1, NEW b \in Buckets, NEW e \in counted[h][b]
        PROVE  e.hash \in Hashes /\ e.from \in 0 .. solve' /\ e.from # solve'
    <3>1. h = w  BY <1>5, <1>6, <2>2, EmptyHeap
    <3>2. e \in table[w][b]  BY <1>5, <2>2, <3>1
    <3>3. e.hash \in Hashes /\ e.from \in 0 .. solve  BY <1>6, <3>2 DEF DeviceOK
    <3>4. e.from # solve  BY <1>1, <3>2 DEF SlotsOK, w
    <3> QED BY <1>1, <3>3, <3>4
  <2> QED BY <2>1, <2>2, <2>3 DEF CountsOn
<1> QED BY <1>1, <1>2, <1>9, <1>10 DEF counted

\* The device stays as it should be.
LEMMA DeviceStep ==
  ASSUME DeviceOK, SlotsOK, [CudaNext]_cudaVars
  PROVE  DeviceOK' /\ SlotsOK'
<1>1. K \in Nat /\ K >= 3  BY PuzzleAssumption, CudaAssumption
<1>2. CASE Begin
  <2>1. /\ hashes' \in Tables /\ solve' \in 0 .. MaxSolves /\ solve' \in Nat
        /\ digit' = 1 /\ state' = "solving"
    BY <1>2, BeginFacts
  <2>2. PICK counted : /\ PlaceOutcome(0, FirstSlots(hashes', solve'), counted)
                       /\ CountsOn(0, counted)
    BY <1>2, BeginFacts
  <2>3. \A e \in FirstSlots(hashes', solve') :
          /\ e.hash \in Hashes /\ e.from \in 0 .. solve'
          /\ e.from = solve' => OwnSlot(hashes', 0, e)
    <3>1. solve' \in 0 .. solve'  BY <2>1
    <3> QED BY <2>1, <3>1, FirstSlotsFacts
  <2>4. 0 \in 0 .. K - 1 /\ digit' = 0 + 1 /\ digit' \in 1 .. K /\ digit' \in 0 .. K + 1
    BY <1>1, <2>1
  <2>5. /\ table' = [h \in 0 .. 1 |-> table'[h]]
        /\ \A h \in 0 .. 1 : IsHeap(table'[h])
        /\ \A h \in 0 .. 1, b \in Buckets :
             \A e \in table'[h][b] : e.hash \in Hashes /\ e.from \in 0 .. solve'
        /\ SlotsOK'
    BY <2>2, <2>3, <2>4, PlaceKeeps
  <2> QED BY <2>1, <2>4, <2>5 DEF DeviceOK
<1>3. CASE DigitR
  <2>1. /\ digit \in 1 .. K - 1 /\ state = "solving" /\ digit' = digit + 1
        /\ UNCHANGED <<hashes, solve, state>>
        /\ PlaceOutcome(digit, KeptPairs, Counted(digit))
        /\ CountsOn(digit, Counted(digit))
    BY <1>3, DigitRFacts
  <2>2. digit \in 0 .. K - 1 /\ digit' \in 1 .. K /\ digit' \in 0 .. K + 1
    BY <1>1, <2>1
  <2>3. \A e \in KeptPairs : /\ e.hash \in Hashes /\ e.from \in 0 .. solve'
                             /\ e.from = solve' => OwnSlot(hashes', digit, e)
    BY <2>1, PairsTyped DEF KeptPairs
  <2>4. /\ table' = [h \in 0 .. 1 |-> table'[h]]
        /\ \A h \in 0 .. 1 : IsHeap(table'[h])
        /\ \A h \in 0 .. 1, b \in Buckets :
             \A e \in table'[h][b] : e.hash \in Hashes /\ e.from \in 0 .. solve'
        /\ SlotsOK'
    BY <2>1, <2>2, <2>3, PlaceKeeps
  <2> QED BY <2>1, <2>2, <2>4 DEF DeviceOK
<1>4. CASE DigitLast
  <2>1. /\ state = "solving" /\ digit = K /\ digit' = K + 1 /\ state' = "reporting"
        /\ UNCHANGED <<hashes, solve>> /\ table' = Counted(K)
    BY <1>4 DEF DigitLast
  <2>2. K \in 1 .. K /\ K \in Nat /\ K + 1 \in 0 .. K + 1  BY <1>1
  <2>3. /\ table' = [h \in 0 .. 1 |-> table'[h]]
        /\ table'[K % 2] = table[K % 2] /\ table'[1 - (K % 2)] = CudaEmpty
    BY <2>1, <2>2, CountedFacts
  <2>4. \A h \in 0 .. 1 : table'[h] = CudaEmpty
    <3>1. K % 2 \in 0 .. 1 /\ \A h \in 0 .. 1 : h = K % 2 \/ h = 1 - (K % 2)  BY <2>2, Parity
    <3>2. K >= 2  BY <1>1
    <3>3. table[K % 2] = CudaEmpty  BY <2>1, <3>2 DEF SlotsOK
    <3> QED BY <2>3, <3>1, <3>3
  <2> QED BY <2>1, <2>2, <2>3, <2>4, EmptyHeap DEF DeviceOK, SlotsOK
<1>5. CASE CudaCancel
  BY <1>5 DEF DeviceOK, SlotsOK, CudaCancel
<1>6. CASE CudaReport
  BY <1>6 DEF DeviceOK, SlotsOK, CudaReport
<1>7. CASE CudaHashDone
  BY <1>7 DEF DeviceOK, SlotsOK, CudaHashDone
<1>8. CASE UNCHANGED cudaVars
  BY <1>8 DEF DeviceOK, SlotsOK, cudaVars
<1> QED BY <1>2, <1>3, <1>4, <1>5, <1>6, <1>7, <1>8 DEF CudaNext

----------------------------------------------------------------------------
(* What the device finds and reports.                                      *)

\* The members of a finite set in some order.
LEMMA SetToSeqFacts ==
  ASSUME NEW S, IsFiniteSet(S)
  PROVE  /\ SetToSeq(S) \in Seq(S) /\ Len(SetToSeq(S)) = Cardinality(S)
         /\ Range(SetToSeq(S)) = S /\ Cardinality(S) \in Nat
<1> DEFINE n == Cardinality(S)
           q == SetToSeq(S)
<1>1. n \in Nat /\ ExistsBijection(1 .. n, S)  BY FS_CardinalityType
<1>2. \E f \in [1 .. n -> S] : IsInjective(f)
  <2>1. PICK f \in Bijection(1 .. n, S) : TRUE  BY <1>1 DEF ExistsBijection
  <2> QED BY <2>1 DEF Bijection, Injection
<1>3. q \in [1 .. n -> S] /\ IsInjective(q)  BY <1>2 DEF SetToSeq
<1> HIDE DEF q
<1>4. q \in Injection(1 .. n, S)  BY <1>3 DEF Injection
<1>5. Cardinality(1 .. n) = n
  <2>1. 1 \in Int /\ n \in Int  BY <1>1
  <2>2. Cardinality(1 .. n) = IF 1 > n THEN 0 ELSE n - 1 + 1  BY <2>1, FS_Interval
  <2> HIDE DEF n
  <2> QED BY <1>1, <2>2
<1>6. q \in Surjection(1 .. n, S)  BY <1>4, <1>5, FS_Injection
<1> HIDE DEF n
<1>7. q \in Seq(S) /\ Len(q) = n  BY <1>1, <1>3
<1>8. Range(q) = S  BY <1>3, <1>6 DEF Range, Surjection
<1> QED BY <1>1, <1>7, <1>8 DEF n, q

\* The hits of the last round.
LastHits == {n \in Pairs(K) : n.hash[K + 1] = 0}

\* What candidate makes of a hit: at most one solution.
LEMMA CandidateFacts ==
  ASSUME NEW n, NEW c \in Candidate(n)
  PROVE  /\ IsFiniteSet(c)
         /\ \A s \in c : s.own => n.from = solve /\ s.indices \in n.lists
         /\ \A l : n.from = solve /\ n.lists = {l} /\ ~ProbDupe(l) =>
              [indices |-> l, own |-> TRUE] \in c
<1>1. IsFiniteSet({}) /\ \A x : IsFiniteSet({x})  BY FS_EmptySet, FS_Singleton
<1>2. CASE n.from = solve
  <2>1. PICK l \in n.lists : c = IF ProbDupe(l) THEN {} ELSE {[indices |-> l, own |-> TRUE]}
    BY <1>2 DEF Candidate
  <2>2. IsFiniteSet(c)  BY <1>1, <2>1
  <2>3. \A s \in c : s.indices = l  BY <2>1
  <2>4. \A m : n.lists = {m} /\ ~ProbDupe(m) => [indices |-> m, own |-> TRUE] \in c
    <3> SUFFICES ASSUME NEW m, n.lists = {m}, ~ProbDupe(m)
                 PROVE  [indices |-> m, own |-> TRUE] \in c
      OBVIOUS
    <3>1. m = l  OBVIOUS
    <3> QED BY <2>1, <3>1
  <2> QED BY <1>2, <2>2, <2>3, <2>4
<1>3. CASE n.from # solve
  <2>1. c = {} \/ c = {[indices |-> CHOOSE l \in n.lists : TRUE, own |-> FALSE]}
    BY <1>3 DEF Candidate
  <2>2. \A s \in c : ~s.own  BY <2>1
  <2> QED BY <1>1, <1>3, <2>1, <2>2
<1> QED BY <1>2, <1>3

\* A list of a hit that the verifier's loop makes a row of is a solution.
LEMMA LastHitAccepted ==
  ASSUME DeviceOK, SlotsOK, state = "solving", digit = K,
         NEW n \in LastHits, n.from = solve, NEW l \in n.lists, IsInjective(l)
  PROVE  IsValidSolution(l)
<1> DEFINE x == n.hash
<1>1. K \in Nat /\ n \in Pairs(digit) /\ x[K + 1] = 0  BY PuzzleAssumption DEF LastHits
<1>2. OwnSlot(hashes, K, n)  BY <1>1, PairsTyped
<1>3. IsList(K, l) /\ Verified(hashes, l, K, RowFrom(K + 1, x, l))  BY <1>2 DEF OwnSlot
<1>4. SubSeq(x, K + 1, K + 1) = <<0>>
  <2>1. K + 1 \in Int  BY <1>1
  <2> HIDE DEF x
  <2> QED BY <1>1, <2>1, LastDigitZero
<1>5. RowFrom(K + 1, x, l).hash = <<0>>  BY <1>4 DEF RowFrom
<1> HIDE DEF x
<1>6. Len(l) = ProofSize[K]  BY <1>3 DEF IsList
<1> QED BY <1>3, <1>5, <1>6, VerifiedIsValid

\* The solutions are some of those of the hits, as many as there is room for.
LEMMA DigitLastFacts ==
  ASSUME DeviceOK, SlotsOK, DigitLast
  PROVE  /\ nfound' \in Nat
         /\ solutions' \in Seq(Range(solutions'))
         /\ Len(solutions') = IF nfound' < CudaMAXSOLS THEN nfound' ELSE CudaMAXSOLS
         /\ \A s \in Range(solutions') :
              s.own /\ IsInjective(s.indices) => IsValidSolution(s.indices)
         /\ nfound' <= CudaMAXSOLS =>
              \A n \in LastHits : \A l : n.from = solve /\ n.lists = {l} /\ ~ProbDupe(l) =>
                [indices |-> l, own |-> TRUE] \in Range(solutions')
<1> DEFINE C == {Candidate(n) : n \in LastHits}
<1>1. K \in Nat /\ K \in 1 .. K /\ CudaMAXSOLS \in Nat /\ state = "solving" /\ digit = K
  BY PuzzleAssumption, CudaAssumption DEF DigitLast
<1>2. PICK proofs \in OneOfEach(C) :
        /\ nfound' = Cardinality(proofs)
        /\ \E kept \in AtMost(CudaMAXSOLS, proofs) : solutions' = SetToSeq(kept)
  BY DEF DigitLast, LastHits
<1>3. PICK kept \in AtMost(CudaMAXSOLS, proofs) : solutions' = SetToSeq(kept)
  BY <1>2
<1>4. IsFiniteSet(C)
  <2> DEFINE g == [n \in LastHits |-> Candidate(n)]
  <2>1. IsFiniteSet(Pairs(K))  BY <1>1, PairsFacts
  <2>2. LastHits \in SUBSET Pairs(K)  BY DEF LastHits
  <2>3. IsFiniteSet(LastHits)  BY <2>1, <2>2, FS_Subset
  <2>4. C = {g[n] : n \in LastHits}  OBVIOUS
  <2> HIDE DEF g, C
  <2>5. IsFiniteSet({g[n] : n \in LastHits})  BY <2>3, FiniteImage
  <2> QED BY <2>4, <2>5
<1>5. PICK f : (\A c \in C : f[c] \in c) /\ proofs = UNION {f[c] : c \in C}
  <2> HIDE DEF C
  <2> QED BY <1>4, OneOfEachFacts
<1>6. \A n \in LastHits : f[Candidate(n)] \in Candidate(n) /\ f[Candidate(n)] \subseteq proofs
  BY <1>5
<1>7. \A s \in proofs : \E n \in LastHits : s \in f[Candidate(n)]
  BY <1>5
<1>8. IsFiniteSet(proofs)
  <2> DEFINE F == {f[c] : c \in C}
  <2>1. IsFiniteSet(F)
    <3> HIDE DEF C
    <3> QED BY <1>4, FiniteImage
  <2>2. \A T \in F : IsFiniteSet(T)
    <3> SUFFICES ASSUME NEW T \in F PROVE IsFiniteSet(T)
      OBVIOUS
    <3>1. PICK n \in LastHits : T = f[Candidate(n)]  OBVIOUS
    <3>2. T \in Candidate(n)  BY <1>6, <3>1
    <3> QED BY <3>2, CandidateFacts
  <2>3. proofs = UNION F  BY <1>5
  <2> HIDE DEF F
  <2> QED BY <2>1, <2>2, <2>3, FS_UNION
<1> HIDE DEF C
<1>9. /\ kept \subseteq proofs /\ IsFiniteSet(kept) /\ Cardinality(kept) \in Nat
      /\ Cardinality(kept) = IF Cardinality(proofs) < CudaMAXSOLS THEN Cardinality(proofs) ELSE CudaMAXSOLS
      /\ Cardinality(proofs) <= CudaMAXSOLS => kept = proofs
      /\ Cardinality(proofs) \in Nat
  <2>1. Cardinality(proofs) \in Nat  BY <1>8, FS_CardinalityType
  <2>2. /\ kept \subseteq proofs /\ IsFiniteSet(kept) /\ Cardinality(kept) \in Nat
        /\ Cardinality(proofs) <= CudaMAXSOLS => kept = proofs
    BY <1>1, <1>8, AtMostFacts
  <2>3. ~(Cardinality(proofs) <= CudaMAXSOLS) => Cardinality(kept) = CudaMAXSOLS
    BY <1>3 DEF AtMost, kSubset
  <2>4. Cardinality(kept) = IF Cardinality(proofs) < CudaMAXSOLS THEN Cardinality(proofs) ELSE CudaMAXSOLS
    <3>1. CASE Cardinality(proofs) <= CudaMAXSOLS
      <4>1. kept = proofs  BY <2>2, <3>1
      <4> QED BY <1>1, <2>1, <3>1, <4>1
    <3>2. CASE ~(Cardinality(proofs) <= CudaMAXSOLS)
      BY <1>1, <2>1, <2>3, <3>2
    <3> QED BY <3>1, <3>2
  <2> QED BY <2>1, <2>2, <2>4
<1>10. /\ solutions' \in Seq(kept) /\ Len(solutions') = Cardinality(kept)
       /\ Range(solutions') = kept
  BY <1>3, <1>9, SetToSeqFacts
<1>11. ASSUME NEW s \in kept, s.own, IsInjective(s.indices)
       PROVE  IsValidSolution(s.indices)
  <2>1. PICK n \in LastHits : s \in f[Candidate(n)]  BY <1>7, <1>9
  <2>2. n.from = solve /\ s.indices \in n.lists  BY <1>6, <1>11, <2>1, CandidateFacts
  <2> QED BY <1>1, <1>11, <2>2, LastHitAccepted
<1>12. ASSUME nfound' <= CudaMAXSOLS,
              NEW n \in LastHits, NEW l, n.from = solve, n.lists = {l}, ~ProbDupe(l)
       PROVE  [indices |-> l, own |-> TRUE] \in kept
  <2>1. [indices |-> l, own |-> TRUE] \in f[Candidate(n)]  BY <1>6, <1>12, CandidateFacts
  <2>2. kept = proofs  BY <1>2, <1>9, <1>12
  <2> QED BY <1>6, <2>1, <2>2
<1>13. solutions' \in Seq(Range(solutions'))  BY <1>10
<1>14. nfound' \in Nat
       /\ Len(solutions') = IF nfound' < CudaMAXSOLS THEN nfound' ELSE CudaMAXSOLS
  BY <1>2, <1>9, <1>10
<1> QED BY <1>10, <1>11, <1>12, <1>13, <1>14

\* The solutions stored are accepted, and none but they are reported.
SolutionsOK ==
  /\ nfound \in Nat
  /\ solutions \in Seq(Range(solutions)) /\ calls \in Seq(Range(solutions))
  /\ Len(solutions) = IF nfound < CudaMAXSOLS THEN nfound ELSE CudaMAXSOLS
  /\ Len(calls) <= Len(solutions)
  /\ state = "solving" => calls = <<>>
  /\ \A s \in Range(solutions) : s.own /\ IsInjective(s.indices) => IsValidSolution(s.indices)

LEMMA NoSolutions ==
  /\ Range(<<>>) = {} /\ <<>> \in Seq(Range(<<>>)) /\ Len(<<>>) = 0
  /\ CudaMAXSOLS \in Nat
<1>1. DOMAIN <<>> = {} /\ Len(<<>>) = 0 /\ \A S : <<>> \in Seq(S)  OBVIOUS
<1>2. Range(<<>>) = {}  BY <1>1 DEF Range
<1> QED BY <1>1, <1>2, CudaAssumption

LEMMA SolutionsStep ==
  ASSUME DeviceOK, SlotsOK, SolutionsOK, [CudaNext]_cudaVars
  PROVE  SolutionsOK'
<1>1. CudaMAXSOLS \in Nat  BY CudaAssumption
<1>2. CASE Begin
  <2>1. nfound' = 0 /\ solutions' = <<>> /\ calls' = <<>>  BY <1>2 DEF Begin
  <2>2. /\ solutions' \in Seq(Range(solutions')) /\ calls' \in Seq(Range(solutions'))
        /\ Range(solutions') = {} /\ Len(solutions') = 0 /\ Len(calls') = 0
    BY <2>1, NoSolutions
  <2>3. \A s \in Range(solutions') :
          (s.own /\ IsInjective(s.indices) => IsValidSolution(s.indices))'
    BY <2>2
  <2>4. Len(solutions') = IF nfound' < CudaMAXSOLS THEN nfound' ELSE CudaMAXSOLS
    BY <1>1, <2>1, <2>2
  <2>5. nfound' \in Nat /\ Len(calls') <= Len(solutions')  BY <2>1, <2>2
  <2> QED BY <2>1, <2>2, <2>3, <2>4, <2>5 DEF SolutionsOK
<1>3. ASSUME hashes' = hashes, solutions' = solutions
      PROVE  \A s \in Range(solutions') :
               (s.own /\ IsInjective(s.indices) => IsValidSolution(s.indices))'
  <2> SUFFICES ASSUME NEW s \in Range(solutions), s.own, IsInjective(s.indices)
               PROVE  IsValidSolution(s.indices)'
    BY <1>3
  <2>1. IsValidSolution(s.indices)  BY DEF SolutionsOK
  <2> QED BY <1>3, <2>1, ValidNext
<1>4. CASE DigitLast
  <2>1. /\ state = "solving" /\ state' = "reporting" /\ UNCHANGED <<hashes, calls>>
    BY <1>4 DEF DigitLast
  <2>2. /\ nfound' \in Nat
        /\ solutions' \in Seq(Range(solutions'))
        /\ Len(solutions') = IF nfound' < CudaMAXSOLS THEN nfound' ELSE CudaMAXSOLS
        /\ \A s \in Range(solutions') :
             s.own /\ IsInjective(s.indices) => IsValidSolution(s.indices)
    BY <1>4, DigitLastFacts
  <2>3. calls' = <<>>  BY <2>1 DEF SolutionsOK
  <2>4. calls' \in Seq(Range(solutions')) /\ Len(calls') <= Len(solutions')
    <3>1. Len(calls') = 0 /\ calls' \in Seq(Range(solutions'))  BY <2>3
    <3> QED BY <1>1, <2>2, <3>1
  <2>5. ASSUME NEW s \in Range(solutions'), s.own, IsInjective(s.indices)
        PROVE  IsValidSolution(s.indices)'
    <3>1. IsValidSolution(s.indices)  BY <2>2, <2>5
    <3> QED BY <2>1, <3>1, ValidNext
  <2> QED BY <2>1, <2>2, <2>4, <2>5 DEF SolutionsOK
<1>5. CASE CudaReport
  <2> DEFINE n == Len(calls) + 1
  <2>1. /\ state = "reporting" /\ Len(calls) < nfound /\ Len(calls) < CudaMAXSOLS
        /\ calls' = Append(calls, solutions[n])
        /\ UNCHANGED <<hashes, nfound, solutions, state>>
    BY <1>5 DEF CudaReport, ToReport
  <2>2. calls \in Seq(Range(solutions)) /\ solutions \in Seq(Range(solutions)) /\ nfound \in Nat
        /\ Len(solutions) = IF nfound < CudaMAXSOLS THEN nfound ELSE CudaMAXSOLS
    BY DEF SolutionsOK
  <2>3. Len(calls) \in Nat  BY <2>2, LenProperties
  <2>4. n \in 1 .. Len(solutions)  BY <1>1, <2>1, <2>2, <2>3
  <2>5. solutions[n] \in Range(solutions)  BY <2>2, <2>4, ElementOfSeq
  <2>6. calls' \in Seq(Range(solutions)) /\ Len(calls') = n
    BY <2>1, <2>2, <2>5, AppendProperties
  <2>7. Len(calls') <= Len(solutions)  BY <2>4, <2>6
  <2> HIDE DEF n
  <2> QED BY <1>3, <2>1, <2>2, <2>6, <2>7 DEF SolutionsOK
<1>6. ASSUME UNCHANGED <<hashes, nfound, solutions, calls>>, state' = "solving" => state = "solving"
      PROVE  SolutionsOK'
  BY <1>3, <1>6 DEF SolutionsOK
<1>7. CASE DigitR \/ CudaCancel \/ CudaHashDone \/ UNCHANGED cudaVars
  BY <1>6, <1>7 DEF DigitR, CudaCancel, CudaHashDone, cudaVars
<1> QED BY <1>2, <1>4, <1>5, <1>7 DEF CudaNext

----------------------------------------------------------------------------
(* The device finds every solution.                                        *)

\* The trees of one index are those of the hashes, after a step too.
LeafTreesOK == Trees[0] = {[indices |-> <<i>>, hash |-> hashes[i], repeat |-> FALSE] : i \in Leaves}

\* They are that for the puzzle.
LEMMA LeafTrees == LeafTreesOK
BY TreesFacts DEF LeafTreesOK

\* And for the puzzle of the next state.
LEMMA LeafTreesNext == LeafTreesOK'
BY LeafTrees, PTL

\* Unless a bucket overflowed, each tree that is not taken for a repeat has a slot,
\* and that is one of this solve.
CudaCompleteOK ==
  state = "solving" /\ ~overflown =>
    \A t \in Trees[digit - 1] : ~t.repeat =>
      SlotOf(t.hash, {t.indices}, solve) \in table[1 - (digit % 2)][Bucket(t.hash[digit])]

\* Two trees that make a larger one make a pair.
LEMMA TreesPair ==
  ASSUME DeviceOK, CudaCompleteOK, state = "solving", ~overflown,
         NEW p \in Trees[digit - 1], NEW q \in Trees[digit - 1], ~p.repeat, ~q.repeat,
         p.indices[1] < q.indices[1], Zeros(XorHash(p.hash, q.hash), digit)
  PROVE  SlotOf(XorHash(p.hash, q.hash), {p.indices \o q.indices}, solve) \in Pairs(digit)
<1> DEFINE a == p.indices
           c == q.indices
           g == p.hash
           h == q.hash
           x == SlotOf(g, {a}, solve)
           y == SlotOf(h, {c}, solve)
           b == Bucket(g[digit])
<1>1. /\ K \in Nat /\ digit \in 1 .. K /\ digit \in 1 .. K + 2 /\ digit - 1 \in 0 .. K
      /\ hashes \in Tables
  <2>1. K \in Nat /\ digit \in 1 .. K /\ hashes \in Tables  BY PuzzleAssumption DEF DeviceOK
  <2> QED BY <2>1
<1>2. g \in Hashes /\ h \in Hashes /\ IsList(digit - 1, a) /\ IsList(digit - 1, c)
  BY <1>1, TreesTyped
<1>3. x \in table[1 - (digit % 2)][Bucket(g[digit])] /\ y \in table[1 - (digit % 2)][Bucket(h[digit])]
  BY DEF CudaCompleteOK
<1> HIDE DEF g, h
<1>4. g[digit] = h[digit] /\ g[digit] \in Digits
  <2>1. XorHash(g, h)[digit] = 0  BY <1>1 DEF Zeros, g, h
  <2>2. g[digit] = h[digit]  BY <1>1, <1>2, <2>1, XorFacts
  <2> QED BY <1>1, <1>2, <2>2 DEF Hashes
<1>5. b \in Buckets  BY <1>4, DigitFacts
<1>6. x \in table[1 - (digit % 2)][b] /\ y \in table[1 - (digit % 2)][b]  BY <1>3, <1>4
<1>7. a[1] < c[1]  OBVIOUS
<1> HIDE DEF a, c
<1>8. Joined(a, c) = {a \o c}  BY <1>1, <1>2, <1>7, JoinedFacts
<1>9. a # c
  <2> SUFFICES ASSUME a = c PROVE FALSE
    OBVIOUS
  <2>1. a[1] < a[1]  BY <1>7
  <2>2. a[1] \in Nat
    <3> DEFINE n == ProofSize[digit - 1]
    <3>1. n \in Nat \ {0}  BY <1>1, SizeFacts
    <3>2. a \in Seq(Leaves) /\ Len(a) = n  BY <1>2 DEF IsList
    <3> HIDE DEF n
    <3>3. a[1] \in Leaves  BY <3>1, <3>2, OrderedFacts
    <3> QED BY <3>3 DEF Leaves
  <2>3. PICK i \in Nat : i = a[1]  BY <2>2
  <2>4. i < i  BY <2>1, <2>3
  <2> QED BY <2>4
<1>10. x # y /\ Rest(x.hash[digit]) = Rest(y.hash[digit])
  <2>1. x.lists = {a} /\ y.lists = {c} /\ x.hash = g /\ y.hash = h  BY DEF SlotOf
  <2> QED BY <1>4, <1>9, <2>1
<1>11. Node(x, y) \in Pairs(digit)
  <2> HIDE DEF x, y, b
  <2> QED BY <1>1, <1>5, <1>6, <1>10, PairsFacts
<1>12. Node(x, y) = SlotOf(XorHash(g, h), {a \o c}, solve)
  <2>1. x.lists = {a} /\ y.lists = {c} /\ x.hash = g /\ y.hash = h /\ x.from = solve /\ y.from = solve
    BY DEF SlotOf
  <2> HIDE DEF x, y
  <2>2. UNION {Joined(l, m) : l \in x.lists, m \in y.lists} = Joined(a, c)  BY <2>1
  <2>3. (IF x.from < y.from THEN x.from ELSE y.from) = solve  BY <2>1
  <2> DEFINE j == UNION {Joined(l, m) : l \in x.lists, m \in y.lists}
             f == IF x.from < y.from THEN x.from ELSE y.from
  <2>4. j = {a \o c} /\ f = solve  BY <1>8, <2>2, <2>3
  <2>5. Node(x, y) = SlotOf(XorHash(x.hash, y.hash), j, f)  BY DEF Node
  <2> HIDE DEF j, f
  <2> QED BY <2>1, <2>4, <2>5
<1> QED BY <1>11, <1>12 DEF a, c, g, h

\* A tree of two that have slots is a pair of them.
LEMMA TreeIsPair ==
  ASSUME DeviceOK, CudaCompleteOK, state = "solving", ~overflown, NEW t \in Trees[digit], ~t.repeat
  PROVE  /\ SlotOf(t.hash, {t.indices}, solve) \in Pairs(digit)
         /\ digit < K => ~TakenForRepeat(t.hash)
<1>1. digit \in 1 .. K  BY DEF DeviceOK
<1>2. \E p, q \in Trees[digit - 1] :
        /\ p.indices[1] < q.indices[1]
        /\ Zeros(XorHash(p.hash, q.hash), digit)
        /\ Range(p.indices) \intersect Range(q.indices) = {}
        /\ t = TreeOf(digit, p, q)
  BY <1>1, TreesFacts, Zenon
<1>3. PICK p \in Trees[digit - 1], q \in Trees[digit - 1] :
        /\ p.indices[1] < q.indices[1]
        /\ Zeros(XorHash(p.hash, q.hash), digit)
        /\ Range(p.indices) \intersect Range(q.indices) = {}
        /\ t = TreeOf(digit, p, q)
  BY <1>2, Zenon
<1>4. /\ t.indices = p.indices \o q.indices /\ t.hash = XorHash(p.hash, q.hash)
      /\ ~p.repeat /\ ~q.repeat
      /\ digit < K => ~TakenForRepeat(XorHash(p.hash, q.hash))
  BY <1>3 DEF TreeOf
<1>5. SlotOf(XorHash(p.hash, q.hash), {p.indices \o q.indices}, solve) \in Pairs(digit)
  BY <1>3, <1>4, TreesPair
<1> QED BY <1>4, <1>5

\* A round that overflows no bucket leaves every tree of its height in a slot.
LEMMA CudaCompleteStep ==
  ASSUME DeviceOK, SlotsOK, CudaCompleteOK, [CudaNext]_cudaVars
  PROVE  CudaCompleteOK'
<1>1. K \in Nat  BY PuzzleAssumption
<1>2. CASE Begin
  <2>1. hashes' \in Tables /\ solve' \in Nat /\ digit' = 1  BY <1>2, BeginFacts
  <2> DEFINE made == FirstSlots(hashes', solve')
  <2>2. PICK counted : PlaceOutcome(0, made, counted)  BY <1>2, BeginFacts
  <2>3. /\ digit' - 1 = 0 /\ 1 - (digit' % 2) = 0 /\ 0 % 2 = 0 /\ 0 + 1 = digit'
    BY <2>1
  <2>4. ASSUME ~overflown', NEW t \in Trees'[0]
        PROVE  SlotOf(t.hash, {t.indices}, solve') \in table'[0][Bucket(t.hash[1])]
    <3>1. PICK i \in Leaves : t = [indices |-> <<i>>, hash |-> hashes'[i], repeat |-> FALSE]
      BY LeafTreesNext DEF LeafTreesOK
    <3>2. t.indices = <<i>> /\ t.hash = hashes'[i]  BY <3>1
    <3> DEFINE e == SlotOf(hashes'[i], {<<i>>}, solve')
               b == Bucket(hashes'[i][1])
    <3>3. e \in made /\ e.hash = hashes'[i]  BY DEF FirstSlots, SlotOf
    <3>4. b \in Buckets
      <4>1. hashes'[i] \in Hashes /\ 1 \in 1 .. K + 2  BY <1>1, <2>1 DEF Tables
      <4>2. hashes'[i][1] \in Digits  BY <4>1 DEF Hashes
      <4> QED BY <4>2, DigitFacts
    <3> HIDE DEF e, made
    <3>5. e \in Own(0, made, b)  BY <3>3 DEF Own
    <3> HIDE DEF b
    <3>6. e \in table'[0 % 2][b]  BY <2>2, <2>4, <3>4, <3>5 DEF PlaceOutcome
    <3> QED BY <2>3, <3>2, <3>6 DEF e, b
  <2> HIDE DEF made
  <2> QED BY <2>1, <2>3, <2>4 DEF CudaCompleteOK
<1>3. CASE DigitR
  <2>1. /\ digit \in 1 .. K - 1 /\ state = "solving" /\ digit' = digit + 1
        /\ UNCHANGED <<hashes, solve, state>>
        /\ PlaceOutcome(digit, KeptPairs, Counted(digit))
    BY <1>3, DigitRFacts
  <2>2. digit \in Nat /\ digit < K /\ digit + 1 \in 1 .. K + 2 /\ digit' - 1 = digit /\ digit \in 0 .. K
        /\ digit # 0
    BY <1>1, <2>1
  <2>3. 1 - (digit' % 2) = digit % 2  BY <2>1, <2>2, Parity
  <2>4. Trees' = Trees  BY <2>1, TreesNext
  <2>5. ASSUME ~overflown', NEW t \in Trees[digit], ~t.repeat
        PROVE  SlotOf(t.hash, {t.indices}, solve) \in table'[digit % 2][Bucket(t.hash[digit + 1])]
    <3>1. ~overflown  BY <2>1, <2>2, <2>5 DEF PlaceOutcome
    <3> DEFINE e == SlotOf(t.hash, {t.indices}, solve)
               b == Bucket(t.hash[digit + 1])
    <3>2. e \in Pairs(digit) /\ ~TakenForRepeat(t.hash)  BY <2>1, <2>2, <2>5, <3>1, TreeIsPair
    <3>3. e.hash = t.hash  BY DEF SlotOf
    <3> HIDE DEF e
    <3>4. e \in Own(digit, KeptPairs, b)  BY <3>2, <3>3 DEF Own, KeptPairs
    <3>5. b \in Buckets
      <4>1. t.hash \in Hashes
        <5>1. hashes \in Tables  BY DEF DeviceOK
        <5> QED BY <2>2, <2>5, <5>1, TreesTyped
      <4>2. t.hash[digit + 1] \in Digits  BY <2>2, <4>1 DEF Hashes
      <4> QED BY <4>2, DigitFacts
    <3> HIDE DEF b
    <3> QED BY <2>1, <2>5, <3>4, <3>5 DEF PlaceOutcome, b, e
  <2> QED BY <2>1, <2>2, <2>3, <2>4, <2>5 DEF CudaCompleteOK
<1>4. CASE DigitLast \/ CudaCancel \/ CudaHashDone \/ CudaReport
  <2>1. state' # "solving"  BY <1>4 DEF DigitLast, CudaCancel, CudaHashDone, CudaReport
  <2> QED BY <2>1 DEF CudaCompleteOK
<1>5. CASE UNCHANGED cudaVars
  <2>1. Trees' = Trees  BY <1>5, TreesNext DEF cudaVars
  <2> QED BY <1>5, <2>1 DEF CudaCompleteOK, cudaVars
<1> QED BY <1>2, <1>3, <1>4, <1>5 DEF CudaNext

\* An index that occurs once is not taken for a repeated one.
LEMMA NoProbDupe ==
  ASSUME NEW l \in Seq(Leaves), IsInjective(l)
  PROVE  ~ProbDupe(l)
<1> SUFFICES ASSUME NEW i \in DOMAIN l, NEW j \in DOMAIN l, i < j, l[i] = l[j] PROVE FALSE
  BY DEF ProbDupe
<1>1. i = j  BY DEF IsInjective
<1>2. i \in Nat
  <2>1. DOMAIN l = 1 .. Len(l) /\ Len(l) \in Nat  BY LenProperties
  <2> QED BY <2>1
<1> QED BY <1>1, <1>2

\* The last round finds what is left.
LEMMA CudaFindsStep ==
  ASSUME DeviceOK, SlotsOK, CudaCompleteOK, CudaFindsAll, [CudaNext]_cudaVars
  PROVE  CudaFindsAll'
<1>1. K \in Nat /\ K >= 3  BY PuzzleAssumption, CudaAssumption
<1>2. CASE Begin \/ DigitR
  <2>1. digit' # K + 1
    <3>1. CASE Begin
      <4>1. digit' = 1  BY <3>1, BeginFacts
      <4> QED BY <1>1, <4>1
    <3>2. CASE DigitR
      <4>1. digit \in 1 .. K - 1 /\ digit' = digit + 1  BY <3>2, DigitRFacts
      <4> QED BY <1>1, <4>1
    <3> QED BY <1>2, <3>1, <3>2
  <2> QED BY <2>1 DEF CudaFindsAll
<1>3. CASE DigitLast
  <2>1. state = "solving" /\ digit = K /\ UNCHANGED <<hashes, overflown>>  BY <1>3 DEF DigitLast
  <2>2. Solutions' = Solutions  BY <2>1, TreesNext
  <2>3. ASSUME ~overflown, nfound' <= CudaMAXSOLS, NEW t \in Solutions, ~t.repeat
        PROVE  \E n \in DOMAIN solutions' : solutions'[n].indices = t.indices
    <3>1. t \in Trees[digit] /\ t.hash[K + 1] = 0  BY <2>1 DEF Solutions
    <3> DEFINE e == SlotOf(t.hash, {t.indices}, solve)
    <3>2. e \in Pairs(K)  BY <2>1, <2>3, <3>1, TreeIsPair
    <3>3. e.hash = t.hash /\ e.lists = {t.indices} /\ e.from = solve  BY DEF SlotOf
    <3> HIDE DEF e
    <3>4. e \in LastHits  BY <3>1, <3>2, <3>3 DEF LastHits
    <3>5. ~ProbDupe(t.indices)
      <4>1. hashes \in Tables /\ K \in 0 .. K  BY <1>1 DEF DeviceOK
      <4>2. IsList(K, t.indices) /\ IsInjective(t.indices)  BY <2>1, <3>1, <4>1, TreesTyped
      <4> QED BY <4>2, NoProbDupe DEF IsList
    <3>6. [indices |-> t.indices, own |-> TRUE] \in Range(solutions')
      BY <1>3, <2>3, <3>3, <3>4, <3>5, DigitLastFacts
    <3>7. PICK n \in DOMAIN solutions' : solutions'[n] = [indices |-> t.indices, own |-> TRUE]
      BY <3>6 DEF Range
    <3> QED BY <3>7
  <2> QED BY <2>1, <2>2, <2>3 DEF CudaFindsAll
<1>4. CASE UNCHANGED <<hashes, digit, overflown, nfound, solutions>>
  <2>1. Solutions' = Solutions  BY <1>4, TreesNext
  <2> QED BY <1>4, <2>1 DEF CudaFindsAll
<1>5. CASE CudaCancel \/ CudaReport \/ CudaHashDone \/ UNCHANGED cudaVars
  BY <1>4, <1>5 DEF CudaCancel, CudaReport, CudaHashDone, cudaVars
<1> QED BY <1>2, <1>3, <1>5 DEF CudaNext

----------------------------------------------------------------------------
(* The device from solve to solve.                                         *)

\* All that holds of the device.
CudaOK == DeviceOK /\ SlotsOK /\ SolutionsOK /\ CudaCompleteOK /\ CudaFindsAll

\* Every step of host or device keeps it.
LEMMA CudaStep == CudaOK /\ [CudaNext]_cudaVars => CudaOK'
BY DeviceStep, SolutionsStep, CudaCompleteStep, CudaFindsStep DEF CudaOK

\* It holds of a device before its first solve, whatever its memory holds.
LEMMA CudaStarts == CudaInit /\ hashes \in Tables => CudaOK
<1> SUFFICES ASSUME CudaInit, hashes \in Tables PROVE CudaOK
  OBVIOUS
<1>1. /\ K \in Nat /\ K >= 3 /\ MaxSolves \in Nat /\ CudaMAXSOLS \in Nat
  BY PuzzleAssumption, CudaAssumption
<1>2. /\ solve = 0 /\ digit = 0 /\ overflown = FALSE /\ nfound = 0 /\ solutions = <<>>
      /\ calls = <<>> /\ state = "idle"
  BY DEF CudaInit
<1>3. PICK m \in DeviceMemory : table = [h \in 0 .. 1 |-> IF h = 0 THEN CudaEmpty ELSE m]
  BY DEF CudaInit
<1>4. m \in OldHeap(0) /\ \A b \in Buckets : Cardinality(m[b]) <= CudaNSLOTS
  BY CudaAssumption
<1>5. /\ m = [b \in Buckets |-> m[b]]
      /\ \A b \in Buckets : /\ IsFiniteSet(m[b])
                            /\ \A e \in m[b] : e.hash \in Hashes /\ e.from = 0
  BY <1>4, OldHeapFacts
<1>6. IsHeap(m)  BY <1>4, <1>5 DEF IsHeap
<1>7. \A h \in 0 .. 1 : table[h] = CudaEmpty \/ table[h] = m  BY <1>3
<1>8. table = [h \in 0 .. 1 |-> table[h]]  BY <1>3
<1>9. \A h \in 0 .. 1 : IsHeap(table[h])  BY <1>6, <1>7, EmptyHeap
<1>10. ASSUME NEW h \in 0 .. 1, NEW b \in Buckets, NEW e \in table[h][b]
       PROVE  e.hash \in Hashes /\ e.from \in 0 .. solve
  <2>1. table[h] = m  BY <1>7, <1>10, EmptyHeap
  <2>2. e.hash \in Hashes /\ e.from = 0  BY <1>5, <1>10, <2>1
  <2> QED BY <1>2, <2>2
<1>11. DeviceOK  BY <1>1, <1>2, <1>8, <1>9, <1>10 DEF DeviceOK
<1>12. SlotsOK /\ CudaCompleteOK  BY <1>2 DEF SlotsOK, CudaCompleteOK
<1>13. SolutionsOK
  <2>1. /\ solutions \in Seq(Range(solutions)) /\ calls \in Seq(Range(solutions))
        /\ Range(solutions) = {} /\ Len(solutions) = 0 /\ Len(calls) = 0
    BY <1>2, NoSolutions
  <2> QED BY <1>1, <1>2, <2>1 DEF SolutionsOK
<1>14. CudaFindsAll
  <2>1. digit # K + 1  BY <1>1, <1>2
  <2> QED BY <2>1 DEF CudaFindsAll
<1> QED BY <1>11, <1>12, <1>13, <1>14 DEF CudaOK

\* Nothing more is needed for what is promised of the device.
LEMMA CudaShows == CudaOK => CudaTypeOK /\ CudaReportedIsAccepted
<1> SUFFICES ASSUME CudaOK PROVE CudaTypeOK /\ CudaReportedIsAccepted
  OBVIOUS
<1>1. DeviceOK /\ SolutionsOK  BY DEF CudaOK
<1>2. CudaTypeOK
  <2>1. \A h \in 0 .. 1, b \in Buckets : Cardinality(table[h][b]) <= CudaNSLOTS
    BY <1>1 DEF DeviceOK, IsHeap
  <2>2. Len(calls) <= Len(solutions) /\ Len(solutions) <= nfound
    <3>1. /\ nfound \in Nat /\ Len(calls) <= Len(solutions)
          /\ Len(solutions) = IF nfound < CudaMAXSOLS THEN nfound ELSE CudaMAXSOLS
      BY <1>1 DEF SolutionsOK
    <3> QED BY <3>1, CudaAssumption
  <2> QED BY <1>1, <2>1, <2>2 DEF CudaTypeOK, DeviceOK
<1>3. CudaReportedIsAccepted
  <2> SUFFICES ASSUME NEW n \in DOMAIN calls, calls[n].own, IsInjective(calls[n].indices)
               PROVE  IsValidSolution(calls[n].indices)
    BY DEF CudaReportedIsAccepted
  <2>1. calls \in Seq(Range(solutions))  BY <1>1 DEF SolutionsOK
  <2>2. n \in 1 .. Len(calls)  BY <2>1, LenProperties
  <2>3. calls[n] \in Range(solutions)  BY <2>1, <2>2, ElementOfSeq
  <2> QED BY <1>1, <2>3 DEF SolutionsOK
<1> QED BY <1>2, <1>3

\* Solve after solve on one device, with what cancelled ones left in the counters:
\* no bucket holds more than its slots and a finished solve leaves none counted; the
\* pool's verifier accepts what is reported of this solve's own hashes; and every
\* solution is found that no overflow, no full table and no last word of zero hides.
THEOREM CudaCorrect == CudaSpec => [](CudaTypeOK /\ CudaReportedIsAccepted /\ CudaFindsAll)
<1>1. CudaInit /\ hashes \in CudaInputs => CudaOK
  BY CudaStarts, CudaAssumption
<1>2. CudaOK => CudaTypeOK /\ CudaReportedIsAccepted /\ CudaFindsAll
  BY CudaShows DEF CudaOK
<1> QED BY <1>1, <1>2, CudaStep, PTL DEF CudaSpec

----------------------------------------------------------------------------
(* Fields of a hash.                                                       *)

\* h joins the sequences of s one after the other.
Joins(h, s, n) == h = [i \in 1 .. n |-> IF i = 1 THEN s[i] ELSE h[i - 1] \o s[i]]

\* Each but the first joins the next to the one before.
LEMMA JoinsFacts ==
  ASSUME NEW h, NEW s, NEW n \in Nat \ {0}, Joins(h, s, n)
  PROVE  h[1] = s[1] /\ \A i \in 2 .. n : h[i] = h[i - 1] \o s[i]
<1> DEFINE v(i) == IF i = 1 THEN s[i] ELSE h[i - 1] \o s[i]
<1>1. \A i \in 1 .. n : h[i] = v(i)
  <2>1. h = [i \in 1 .. n |-> v(i)]  BY DEF Joins
  <2> HIDE DEF v
  <2> QED BY <2>1
<1>2. 1 \in 1 .. n /\ \A i \in 2 .. n : i \in 1 .. n /\ i # 1  OBVIOUS
<1>3. v(1) = s[1] /\ \A i \in 2 .. n : v(i) = h[i - 1] \o s[i]
  BY <1>2, Zenon
<1> HIDE DEF v
<1>4. h[1] = s[1]  BY <1>1, <1>2, <1>3
<1>5. \A i \in 2 .. n : h[i] = h[i - 1] \o s[i]  BY <1>1, <1>2, <1>3, Zenon
<1> QED BY <1>4, <1>5, Zenon

\* Flattening a sequence of sequences is the last of such joins.
LEMMA FlattenFacts ==
  ASSUME NEW s, Len(s) \in Nat \ {0}
  PROVE  \E h : Joins(h, s, Len(s)) /\ FlattenSeq(s) = h[Len(s)]
<1> DEFINE B == {n \in Nat \ {0} : ~\E h : Joins(h, s, n)}
<1>1. B = {}
  <2> SUFFICES ASSUME B # {} PROVE FALSE
    OBVIOUS
  <2>1. PICK n \in B : \A k \in Nat : k < n => k \notin B
    <3>1. B \subseteq Nat  OBVIOUS
    <3> HIDE DEF B
    <3> QED BY <3>1, Smallest
  <2>2. n \in Nat \ {0}  OBVIOUS
  <2>3. CASE n = 1
    <3> DEFINE h == [i \in 1 .. 1 |-> s[i]]
    <3>1. h = [i \in 1 .. 1 |-> IF i = 1 THEN s[i] ELSE h[i - 1] \o s[i]]
      <4>1. \A i \in 1 .. 1 : i = 1  OBVIOUS
      <4> HIDE DEF h
      <4>2. \A i \in 1 .. 1 : s[i] = IF i = 1 THEN s[i] ELSE h[i - 1] \o s[i]  BY <4>1
      <4> QED BY <4>2, Zenon DEF h
    <3>2. Joins(h, s, n)  BY <2>3, <3>1 DEF Joins
    <3> HIDE DEF h
    <3> QED BY <3>2
  <2>4. CASE n # 1
    <3>1. n - 1 \in Nat \ {0} /\ n - 1 < n  BY <2>2, <2>4
    <3>2. PICK f : Joins(f, s, n - 1)  BY <2>1, <3>1
    <3> DEFINE v(i) == IF i = 1 THEN s[i] ELSE f[i - 1] \o s[i]
               h == [i \in 1 .. n |-> v(i)]
    <3>3. ASSUME NEW i \in 1 .. n PROVE v(i) = IF i = 1 THEN s[i] ELSE h[i - 1] \o s[i]
      <4>1. CASE i = 1  BY <4>1
      <4>2. CASE i # 1
        <5>1. i - 1 \in 1 .. n - 1 /\ i - 1 \in 1 .. n  BY <2>2, <4>2
        <5>2. f[i - 1] = v(i - 1)
          <6> DEFINE j == i - 1
          <6>1. j \in 1 .. n - 1  BY <5>1
          <6> HIDE DEF j, v
          <6>2. f = [x \in 1 .. n - 1 |-> v(x)]  BY <3>2 DEF Joins, v
          <6> QED BY <6>1, <6>2 DEF j
        <5>3. h[i - 1] = v(i - 1)
          <6> HIDE DEF v
          <6> QED BY <5>1
        <5> HIDE DEF h
        <5> QED BY <4>2, <5>2, <5>3
      <4> QED BY <4>1, <4>2
    <3>4. Joins(h, s, n)
      <4>1. h = [i \in 1 .. n |-> IF i = 1 THEN s[i] ELSE h[i - 1] \o s[i]]
        <5> HIDE DEF v
        <5> QED BY <3>3, Zenon
      <4> HIDE DEF h
      <4> QED BY <4>1 DEF Joins
    <3> HIDE DEF h
    <3> QED BY <3>4
  <2> QED BY <2>3, <2>4
<1> DEFINE g == CHOOSE h : Joins(h, s, Len(s))
<1>2. Joins(g, s, Len(s))
  <2>1. Len(s) \notin B  BY <1>1
  <2> QED BY <2>1
<1>3. FlattenSeq(s) = g[Len(s)]
  BY DEF FlattenSeq, Joins
<1> HIDE DEF g
<1> QED BY <1>2, <1>3

\* Consecutive bits.
LEMMA SpanFacts ==
  ASSUME NEW a \in Int, NEW l \in Nat, NEW k \in Nat
  PROVE  Span(a, l) \o Span(a + l, k) = Span(a, l + k)
<1>1. /\ Span(a, l) \in Seq(Int) /\ Len(Span(a, l)) = l
      /\ Span(a + l, k) \in Seq(Int) /\ Len(Span(a + l, k)) = k
      /\ Span(a, l + k) \in Seq(Int) /\ Len(Span(a, l + k)) = l + k
  BY DEF Span
<1> DEFINE u == Span(a, l)
           v == Span(a + l, k)
           w == Span(a, l + k)
<1>2. /\ \A i \in 1 .. l : u[i] = a + i - 1
      /\ \A i \in 1 .. k : v[i] = a + l + i - 1
      /\ \A i \in 1 .. l + k : w[i] = a + i - 1
  BY DEF Span
<1> HIDE DEF u, v, w
<1>3. /\ u \o v \in Seq(Int) /\ Len(u \o v) = l + k
      /\ \A i \in 1 .. l + k : (u \o v)[i] = IF i <= l THEN u[i] ELSE v[i - l]
  <2>1. u \in Seq(Int) /\ v \in Seq(Int) /\ Len(u) = l /\ Len(v) = k  BY <1>1 DEF u, v
  <2> QED BY <2>1, ConcatProperties
<1>4. \A i \in 1 .. l + k : (u \o v)[i] = w[i]
  <2> TAKE i \in 1 .. l + k
  <2>1. CASE i <= l
    <3>1. i \in 1 .. l  BY <2>1
    <3> QED BY <1>2, <1>3, <2>1, <3>1
  <2>2. CASE ~(i <= l)
    <3>1. i - l \in 1 .. k  BY <2>2
    <3>2. v[i - l] = a + l + (i - l) - 1  BY <1>2, <3>1
    <3>3. a + l + (i - l) - 1 = a + i - 1  OBVIOUS
    <3>4. w[i] = a + i - 1  BY <1>2
    <3> QED BY <1>3, <2>2, <3>2, <3>3, <3>4
  <2> QED BY <2>1, <2>2
<1>5. u \o v = w
  <2>1. w \in Seq(Int) /\ Len(w) = l + k  BY <1>1 DEF w
  <2> QED BY <1>3, <1>4, <2>1, SeqEqual
<1> QED BY <1>5 DEF u, v, w

\* The bits of a piece of a field, from the first to before the last.
From(p)  == 8 * p[1] + p[2]
Until(p) == 8 * p[1] + p[3] + 1

\* A field whose pieces follow one another.
Contiguous(field) ==
  /\ Len(field) \in Nat \ {0}
  /\ \A n \in 1 .. Len(field) :
       From(field[n]) \in Int /\ Until(field[n]) \in Int /\ From(field[n]) <= Until(field[n])
  /\ \A n \in 2 .. Len(field) : From(field[n]) = Until(field[n - 1])

\* The bits of its pieces are consecutive.
LEMMA FieldSpan ==
  ASSUME NEW field, Contiguous(field), NEW base \in Int, NEW s, Len(s) = Len(field),
         \A n \in 1 .. Len(field) :
           s[n] = Span(base + From(field[n]), Until(field[n]) - From(field[n]))
  PROVE  FlattenSeq(s) = Span(base + From(field[1]), Until(field[Len(field)]) - From(field[1]))
<1> DEFINE N == Len(field)
           from(n) == From(field[n])
           until(n) == Until(field[n])
<1>1. N \in Nat \ {0}  BY DEF Contiguous
<1>2. PICK h : Joins(h, s, N) /\ FlattenSeq(s) = h[N]  BY <1>1, FlattenFacts
<1>3. \A n \in 1 .. N : from(n) \in Int /\ until(n) \in Int /\ from(n) <= until(n)
  BY DEF Contiguous
<1>4. \A n \in 2 .. N : from(n) = until(n - 1)  BY DEF Contiguous
<1>5. \A n \in 1 .. N : s[n] = Span(base + from(n), until(n) - from(n))  OBVIOUS
<1> HIDE DEF N, from, until
<1>6. h[1] = s[1] /\ \A n \in 2 .. N : h[n] = h[n - 1] \o s[n]
  BY <1>1, <1>2, JoinsFacts, Zenon
<1> DEFINE P(n) == from(1) <= until(n) /\ h[n] = Span(base + from(1), until(n) - from(1))
           B == {n \in 1 .. N : ~P(n)}
<1>7. B = {}
  <2> SUFFICES ASSUME B # {} PROVE FALSE
    OBVIOUS
  <2>1. PICK n \in B : \A k \in Nat : k < n => k \notin B
    <3>1. B \subseteq Nat  OBVIOUS
    <3> HIDE DEF B
    <3> QED BY <3>1, Smallest
  <2>2. n \in 1 .. N /\ ~P(n)  OBVIOUS
  <2>3. n # 1
    <3>1. P(1)  BY <1>1, <1>3, <1>5, <1>6
    <3> HIDE DEF P
    <3> QED BY <2>2, <3>1
  <2>4. n \in 2 .. N /\ n - 1 \in 1 .. N /\ n - 1 < n /\ n - 1 \in Nat /\ 1 \in 1 .. N
    BY <1>1, <2>2, <2>3
  <2>5. P(n - 1)
    <3>1. n - 1 \notin B  BY <2>1, <2>4
    <3> HIDE DEF P
    <3> QED BY <2>4, <3>1
  <2> DEFINE a == from(1)
             c == until(n - 1)
             d == until(n)
  <2>6. /\ a \in Int /\ c \in Int /\ d \in Int /\ a <= c /\ c <= d
        /\ from(n) = c
    BY <1>3, <1>4, <2>4, <2>5
  <2>7. h[n - 1] = Span(base + a, c - a) /\ s[n] = Span(base + c, d - c)
    BY <1>5, <2>2, <2>5, <2>6
  <2> HIDE DEF a, c, d
  <2>8. h[n] = Span(base + a, c - a) \o Span(base + c, d - c)  BY <1>6, <2>4, <2>7
  <2>9. /\ base + a \in Int /\ c - a \in Nat /\ d - c \in Nat
        /\ base + c = base + a + (c - a) /\ (c - a) + (d - c) = d - a
    BY <2>6
  <2>10. h[n] = Span(base + a, d - a)
    <3> DEFINE z == base + a
               l == c - a
               k == d - c
    <3>1. z \in Int /\ l \in Nat /\ k \in Nat /\ base + c = z + l /\ l + k = d - a  BY <2>9
    <3>2. h[n] = Span(z, l) \o Span(base + c, k)  BY <2>8
    <3> HIDE DEF z, l, k
    <3>3. Span(z, l) \o Span(z + l, k) = Span(z, l + k)  BY <3>1, SpanFacts
    <3>4. h[n] = Span(z, d - a)  BY <3>1, <3>2, <3>3
    <3> QED BY <3>4 DEF z
  <2>11. P(n)
    <3>1. a <= d  BY <2>6
    <3> QED BY <2>10, <3>1 DEF a, d
  <2> HIDE DEF P
  <2> QED BY <2>2, <2>11
<1>8. P(N)
  <2>1. N \in 1 .. N  BY <1>1
  <2> HIDE DEF P
  <2> QED BY <1>7, <2>1
<1> QED BY <1>2, <1>8 DEF N, from, until

----------------------------------------------------------------------------
(* The slots at the sizes of the program.                                  *)

\* The units of the hash of a round.
Units(r) == HashWords(HashSize(r))

\* The sizes written out, round by round.
LEMMA Sizes ==
  /\ HASHLEN = 27 /\ DIGITBITS = 21 /\ BUCKBITS = 14 /\ RESTBITS = 7
  /\ SlotBytes(0) = 0 .. 31 /\ SlotBytes(1) = 0 .. 27
  /\ HashSize(0) = 26 /\ Units(0) = 7 /\ PrevBo(1) = 2
  /\ HashSize(1) = 23 /\ Units(1) = 6 /\ PrevBo(2) = 1
  /\ HashSize(2) = 20 /\ Units(2) = 5 /\ PrevBo(3) = 0
  /\ HashSize(3) = 18 /\ Units(3) = 5 /\ PrevBo(4) = 2
  /\ HashSize(4) = 15 /\ Units(4) = 4 /\ PrevBo(5) = 1
  /\ HashSize(5) = 13 /\ Units(5) = 4 /\ PrevBo(6) = 3
  /\ HashSize(6) = 10 /\ Units(6) = 3 /\ PrevBo(7) = 2
  /\ HashSize(7) = 7  /\ Units(7) = 2 /\ PrevBo(8) = 1
  /\ HashSize(8) = 5  /\ Units(8) = 2 /\ PrevBo(9) = 3
<1>1. HASHLEN = 27 /\ DIGITBITS = 21 /\ BUCKBITS = 14 /\ RESTBITS = 7
  BY DEF HASHLEN, DIGITBITS, BUCKBITS, RESTBITS, WN, WK
<1>2. SlotBytes(0) = 0 .. 31 /\ SlotBytes(1) = 0 .. 27
  BY <1>1 DEF SlotBytes, WN
<1>3. /\ HashSize(0) = 26 /\ HashSize(1) = 23 /\ HashSize(2) = 20 /\ HashSize(3) = 18
      /\ HashSize(4) = 15 /\ HashSize(5) = 13 /\ HashSize(6) = 10 /\ HashSize(7) = 7
      /\ HashSize(8) = 5
  BY DEF HashSize
<1>4. /\ Units(0) = 7 /\ Units(1) = 6 /\ Units(2) = 5 /\ Units(3) = 5 /\ Units(4) = 4
      /\ Units(5) = 4 /\ Units(6) = 3 /\ Units(7) = 2 /\ Units(8) = 2
  BY <1>3 DEF Units, HashWords
<1>5. /\ PrevBo(1) = 4 * Units(0) - HashSize(0) /\ PrevBo(2) = 4 * Units(1) - HashSize(1)
      /\ PrevBo(3) = 4 * Units(2) - HashSize(2) /\ PrevBo(4) = 4 * Units(3) - HashSize(3)
      /\ PrevBo(5) = 4 * Units(4) - HashSize(4) /\ PrevBo(6) = 4 * Units(5) - HashSize(5)
      /\ PrevBo(7) = 4 * Units(6) - HashSize(6) /\ PrevBo(8) = 4 * Units(7) - HashSize(7)
      /\ PrevBo(9) = 4 * Units(8) - HashSize(8)
  <2>1. \A r \in 0 .. 8 : PrevBo(r + 1) = Units(r) * 4 - HashSize(r)
    <3> TAKE r \in 0 .. 8
    <3>1. r + 1 - 1 = r  OBVIOUS
    <3> QED BY <3>1 DEF PrevBo, Units
  <2>2. /\ PrevBo(0 + 1) = Units(0) * 4 - HashSize(0) /\ PrevBo(1 + 1) = Units(1) * 4 - HashSize(1)
        /\ PrevBo(2 + 1) = Units(2) * 4 - HashSize(2) /\ PrevBo(3 + 1) = Units(3) * 4 - HashSize(3)
        /\ PrevBo(4 + 1) = Units(4) * 4 - HashSize(4) /\ PrevBo(5 + 1) = Units(5) * 4 - HashSize(5)
        /\ PrevBo(6 + 1) = Units(6) * 4 - HashSize(6) /\ PrevBo(7 + 1) = Units(7) * 4 - HashSize(7)
        /\ PrevBo(8 + 1) = Units(8) * 4 - HashSize(8)
    BY <2>1
  <2> QED BY <1>3, <1>4, <2>2
<1> QED BY <1>1, <1>2, <1>3, <1>4, <1>5

\* The hash of a round ends with its last unit, there is room in the slot for it and
\* a tree node either way, and a later round of the same heap has fewer units.
LEMMA RoundFacts ==
  /\ \A r \in 0 .. 8 :
       /\ HashSize(r) \in Nat /\ Units(r) \in 1 .. 7 /\ PrevBo(r + 1) \in 0 .. 3
       /\ HashSize(r) = 4 * Units(r) - PrevBo(r + 1)
       /\ SlotBytes(r % 2) = 0 .. 31 \/ SlotBytes(r % 2) = 0 .. 27
       /\ 0 .. 4 * Units(r) - 1 \subseteq SlotBytes(r % 2)
       /\ 0 .. 4 * (r \div 2 + 1 + Units(r)) - 1 \subseteq SlotBytes(r % 2)
  /\ \A r \in 1 .. 8 : HashSize(r) < HashSize(r - 1) /\ Units(r) <= Units(r - 1)
  /\ \A t, r \in 0 .. 8 : t < r /\ t % 2 = r % 2 => Units(r) < Units(t) /\ t \div 2 < r \div 2
<1>1. \A r \in 0 .. 8 : \/ r = 0 \/ r = 1 \/ r = 2 \/ r = 3 \/ r = 4
                        \/ r = 5 \/ r = 6 \/ r = 7 \/ r = 8
  OBVIOUS
<1>2. ASSUME NEW r \in 0 .. 8
      PROVE  /\ HashSize(r) \in Nat /\ Units(r) \in 1 .. 7 /\ PrevBo(r + 1) \in 0 .. 3
             /\ HashSize(r) = 4 * Units(r) - PrevBo(r + 1)
  BY <1>1, Sizes
<1>3. ASSUME NEW r \in 0 .. 8
      PROVE  /\ SlotBytes(r % 2) = 0 .. 31 \/ SlotBytes(r % 2) = 0 .. 27
             /\ 0 .. 4 * Units(r) - 1 \subseteq SlotBytes(r % 2)
             /\ 0 .. 4 * (r \div 2 + 1 + Units(r)) - 1 \subseteq SlotBytes(r % 2)
  <2>1. SlotBytes(r % 2) = IF r % 2 = 0 THEN 0 .. 31 ELSE 0 .. 27
    <3>1. r % 2 = 0 \/ r % 2 = 1  OBVIOUS
    <3> QED BY <3>1, Sizes
  <2>2. LET top == IF r % 2 = 0 THEN 32 ELSE 28
        IN 4 * Units(r) <= top /\ 4 * (r \div 2 + 1 + Units(r)) <= top
    BY <1>1, Sizes
  <2> QED BY <1>2, <2>1, <2>2
<1>4. ASSUME NEW r \in 1 .. 8 PROVE HashSize(r) < HashSize(r - 1) /\ Units(r) <= Units(r - 1)
  <2>1. r \in 0 .. 8 /\ r # 0  OBVIOUS
  <2> QED BY <1>1, <2>1, Sizes
<1>5. ASSUME NEW t \in 0 .. 8, NEW r \in 0 .. 8, t < r, t % 2 = r % 2
      PROVE  Units(r) < Units(t) /\ t \div 2 < r \div 2
  <2>1. t \div 2 < r \div 2  BY <1>5
  <2>2. Units(r) < Units(t)
    <3>1. t + 2 <= r  BY <1>5
    <3>2. \A q \in 0 .. 6 : Units(q + 2) < Units(q)
      <4> TAKE q \in 0 .. 6
      <4>1. q = 0 \/ q = 1 \/ q = 2 \/ q = 3 \/ q = 4 \/ q = 5 \/ q = 6  OBVIOUS
      <4> QED BY <4>1, Sizes
    <3>3. t \in 0 .. 6 /\ Units(t + 2) < Units(t)  BY <3>1, <3>2
    <3>4. \A q \in 2 .. 8 : q <= r => Units(r) <= Units(q)
      <4> TAKE q \in 2 .. 8
      <4>1. q = 2 \/ q = 3 \/ q = 4 \/ q = 5 \/ q = 6 \/ q = 7 \/ q = 8  OBVIOUS
      <4> QED BY <1>1, <4>1, Sizes
    <3>5. Units(r) <= Units(t + 2)  BY <3>1, <3>3, <3>4
    <3>6. t + 2 \in 0 .. 8  BY <3>3
    <3> QED BY <1>2, <3>3, <3>5, <3>6
  <2> QED BY <2>1, <2>2
<1> QED BY <1>2, <1>3, <1>4, <1>5

\* The slots, the hash of the round that was filled last in the last bytes of its
\* units, and the tree nodes of the rounds before.
LayoutOK ==
  /\ device \in {"cpu", "cuda"} /\ filled \in 0 .. 9
  /\ slots = [h \in 0 .. 1 |-> slots[h]]
  /\ \A h \in 0 .. 1 : slots[h] = [b \in SlotBytes(h) |-> slots[h][b]]
  /\ filled > 0 => \A i \in PrevBo(filled) .. 4 * Units(filled - 1) - 1 :
                     HashByte(filled - 1, i) = 27 - 4 * Units(filled - 1) + i
  /\ TagsAreKept

\* The unit of the tree node is not one of the hash, nor that of an earlier node.
LEMMA TagUnitFacts ==
  ASSUME NEW r \in 0 .. 8, device \in {"cpu", "cuda"}
  PROVE  /\ HashUnit(r) \in Nat
         /\ \A i \in 0 .. 4 * Units(r) - 1 :
              /\ 4 * HashUnit(r) + i \in SlotBytes(r % 2)
              /\ (4 * HashUnit(r) + i) \div 4 # TagUnit(r)
         /\ \A t \in 0 .. 8 : t < r /\ t % 2 = r % 2 =>
              /\ TagUnit(t) # TagUnit(r)
              /\ \A b \in Nat : b \div 4 = TagUnit(t) => b - 4 * HashUnit(r) \notin 0 .. 4 * Units(r) - 1
<1>1. /\ Units(r) \in 1 .. 7
      /\ 0 .. 4 * Units(r) - 1 \subseteq SlotBytes(r % 2)
      /\ 0 .. 4 * (r \div 2 + 1 + Units(r)) - 1 \subseteq SlotBytes(r % 2)
  BY RoundFacts
<1>2. \A t \in 0 .. 8 : t < r /\ t % 2 = r % 2 => Units(r) < Units(t) /\ t \div 2 < r \div 2
  BY RoundFacts
<1>3. \A t \in 0 .. 8 : Units(t) \in Nat /\ t \div 2 \in Nat  BY RoundFacts
<1>4. CASE device = "cpu"
  <2>1. HashUnit(r) = 0 /\ \A t \in 0 .. 8 : TagUnit(t) = Units(t)  BY <1>4 DEF HashUnit, TagUnit, Units
  <2>2. \A i \in 0 .. 4 * Units(r) - 1 : i \in SlotBytes(r % 2) /\ i \div 4 # Units(r)  BY <1>1
  <2>3. ASSUME NEW t \in 0 .. 8, t < r, t % 2 = r % 2, NEW b \in Nat, b \div 4 = Units(t)
        PROVE  b \notin 0 .. 4 * Units(r) - 1
    <3>1. Units(r) < Units(t)  BY <1>2, <2>3
    <3> QED BY <1>3, <2>3, <3>1
  <2>4. \A t \in 0 .. 8 : t < r /\ t % 2 = r % 2 => Units(t) # Units(r)  BY <1>2, <1>3
  <2>5. \A i \in 0 .. 4 * Units(r) - 1 : 4 * 0 + i = i  OBVIOUS
  <2>6. \A b \in Nat : b - 4 * 0 = b  OBVIOUS
  <2> QED BY <2>1, <2>2, <2>3, <2>4, <2>5, <2>6
<1>5. CASE device = "cuda"
  <2> DEFINE half(t) == t \div 2
  <2>1. HashUnit(r) = half(r) + 1 /\ \A t \in 0 .. 8 : TagUnit(t) = half(t)
    BY <1>5 DEF HashUnit, TagUnit
  <2>2. half(r) \in Nat /\ Units(r) \in Nat  BY <1>3
  <2>3. ASSUME NEW i \in 0 .. 4 * Units(r) - 1
        PROVE  4 * (half(r) + 1) + i \in SlotBytes(r % 2) /\ (4 * (half(r) + 1) + i) \div 4 # half(r)
    <3>1. PICK u \in Nat : u = Units(r)  BY <2>2
    <3>2. PICK p \in Nat : p = half(r)  BY <2>2
    <3> HIDE DEF half
    <3>3. 4 * (p + 1) + i \in 0 .. 4 * (p + 1 + u) - 1  BY <3>1
    <3>4. (4 * (p + 1) + i) \div 4 # p
      <4>1. i \in Nat  OBVIOUS
      <4> QED BY <4>1
    <3>5. 0 .. 4 * (p + 1 + u) - 1 \subseteq SlotBytes(r % 2)  BY <1>1, <3>1, <3>2 DEF half
    <3> QED BY <3>2, <3>3, <3>4, <3>5
  <2>4. ASSUME NEW t \in 0 .. 8, t < r, t % 2 = r % 2
        PROVE  half(t) # half(r) /\ half(t) < half(r) /\ half(t) \in Nat
    BY <1>2, <1>3, <2>4
  <2>5. ASSUME NEW t \in 0 .. 8, t < r, t % 2 = r % 2, NEW b \in Nat, b \div 4 = half(t)
        PROVE  b - 4 * (half(r) + 1) \notin 0 .. 4 * Units(r) - 1
    <3>1. half(t) < half(r) /\ half(t) \in Nat  BY <2>4, <2>5
    <3> HIDE DEF half
    <3>2. b < 4 * (half(t) + 1)  BY <2>5, <3>1
    <3>3. b - 4 * (half(r) + 1) < 0  BY <2>2, <3>1, <3>2
    <3> QED BY <3>3
  <2> HIDE DEF half
  <2>6. HashUnit(r) \in Nat  BY <2>1, <2>2
  <2>7. r \in 0 .. 8 /\ TagUnit(r) = half(r)  BY <2>1
  <2>8. \A i \in 0 .. 4 * Units(r) - 1 :
          /\ 4 * HashUnit(r) + i \in SlotBytes(r % 2)
          /\ (4 * HashUnit(r) + i) \div 4 # TagUnit(r)
    BY <2>1, <2>3, <2>7
  <2>9. ASSUME NEW t \in 0 .. 8, t < r, t % 2 = r % 2
        PROVE  /\ TagUnit(t) # TagUnit(r)
               /\ \A b \in Nat : b \div 4 = TagUnit(t) => b - 4 * HashUnit(r) \notin 0 .. 4 * Units(r) - 1
    <3>1. TagUnit(t) = half(t)  BY <2>1
    <3>2. half(t) # half(r)  BY <2>4, <2>9
    <3>3. \A b \in Nat : b \div 4 = half(t) => b - 4 * (half(r) + 1) \notin 0 .. 4 * Units(r) - 1
      BY <2>5, <2>9
    <3> QED BY <2>1, <2>7, <3>1, <3>2, <3>3
  <2> QED BY <2>6, <2>8, <2>9
<1> QED BY <1>4, <1>5

\* A round writes its hash and its tree node, and no node of a round before.
LEMMA FillFacts ==
  ASSUME LayoutOK, NEW r \in 0 .. 8, r = filled, NEW units, DOMAIN units \subseteq 0 .. 4 * Units(r) - 1,
         Fill(r, units)
  PROVE  /\ device' = device /\ filled' = r + 1
         /\ slots' = [h \in 0 .. 1 |-> slots'[h]]
         /\ \A h \in 0 .. 1 : slots'[h] = [b \in SlotBytes(h) |-> slots'[h][b]]
         /\ \A i \in DOMAIN units : HashByte(r, i)' = units[i]
         /\ TagsAreKept'
<1>1. device' = device /\ filled' = r + 1  BY DEF Fill
<1>2. r % 2 \in 0 .. 1  OBVIOUS
<1> DEFINE w == r % 2
           tag == TagUnit(r)
           unit == HashUnit(r)
           byte(b) == IF b \div 4 = tag THEN Tag(r)
                      ELSE IF b - 4 * unit \in DOMAIN units THEN units[b - 4 * unit]
                      ELSE slots[w][b]
           new == [b \in SlotBytes(w) |-> byte(b)]
<1>3. slots' = [slots EXCEPT ![w] = new]  BY DEF Fill
<1>4. slots = [h \in 0 .. 1 |-> slots[h]]  BY DEF LayoutOK
<1>5. slots' = [h \in 0 .. 1 |-> slots'[h]] /\ slots'[w] = new
      /\ \A h \in 0 .. 1 : h # w => slots'[h] = slots[h]
  <2> HIDE DEF w, new
  <2>1. slots' = [h \in 0 .. 1 |-> IF h = w THEN new ELSE slots[h]]  BY <1>3, <1>4
  <2> QED BY <1>2, <2>1 DEF w
<1>6. \A h \in 0 .. 1 : slots'[h] = [b \in SlotBytes(h) |-> slots'[h][b]]
  <2> TAKE h \in 0 .. 1
  <2>1. CASE h = w
    <3>1. slots'[h] = new  BY <1>5, <2>1
    <3> HIDE DEF byte
    <3> QED BY <2>1, <3>1
  <2>2. CASE h # w
    <3>1. slots'[h] = slots[h]  BY <1>5, <2>2
    <3>2. slots[h] = [b \in SlotBytes(h) |-> slots[h][b]]  BY DEF LayoutOK
    <3> QED BY <3>1, <3>2
  <2> QED BY <2>1, <2>2
<1>7. \A b \in SlotBytes(w) : slots'[w][b] = byte(b)
  <2> HIDE DEF byte
  <2> QED BY <1>5
<1>8. device \in {"cpu", "cuda"}  BY DEF LayoutOK
<1>9. /\ unit \in Nat
      /\ \A i \in 0 .. 4 * Units(r) - 1 : 4 * unit + i \in SlotBytes(w) /\ (4 * unit + i) \div 4 # tag
      /\ \A t \in 0 .. 8 : t < r /\ t % 2 = w =>
           /\ TagUnit(t) # tag
           /\ \A b \in Nat : b \div 4 = TagUnit(t) => b - 4 * unit \notin 0 .. 4 * Units(r) - 1
  BY <1>8, TagUnitFacts
<1>10. ASSUME NEW i \in DOMAIN units PROVE HashByte(r, i)' = units[i]
  <2>1. HashByte(r, i)' = slots'[w][4 * unit + i]  BY <1>1 DEF HashByte, HashUnit
  <2>2. i \in 0 .. 4 * Units(r) - 1 /\ i \in Int
    <3>1. Units(r) \in Nat  BY RoundFacts
    <3> QED BY <3>1
  <2> HIDE DEF w, tag, unit
  <2>3. 4 * unit + i \in SlotBytes(w) /\ (4 * unit + i) \div 4 # tag  BY <1>9, <2>2
  <2>4. (4 * unit + i) - 4 * unit = i  BY <1>9, <2>2
  <2>5. byte(4 * unit + i) = units[i]
    <3> DEFINE j == 4 * unit + i
    <3>1. j \div 4 # tag /\ j - 4 * unit = i  BY <2>3, <2>4
    <3> HIDE DEF j
    <3>2. byte(j) = units[i]  BY <1>10, <3>1
    <3> HIDE DEF byte
    <3> QED BY <3>2 DEF j
  <2> HIDE DEF byte
  <2> QED BY <1>7, <2>1, <2>3, <2>5
<1>11. TagsAreKept'
  <2>1. \A t \in 0 .. 8 : TagUnit(t)' = TagUnit(t)  BY <1>1 DEF TagUnit
  <2>2. \A h \in 0 .. 1 : \A b \in SlotBytes(h) : b \in Nat  BY Sizes
  <2>3. ASSUME NEW t \in 0 .. r, NEW b \in SlotBytes(t % 2), b \div 4 = TagUnit(t)
        PROVE  slots'[t % 2][b] = Tag(t)
    <3>1. t % 2 \in 0 .. 1 /\ t \in 0 .. 8 /\ r \in Nat  OBVIOUS
    <3>2. b \in Nat  BY <2>2, <2>3, <3>1
    <3>3. CASE t = r
      <4>1. byte(b) = Tag(t)  BY <2>3, <3>3
      <4> HIDE DEF byte
      <4> QED BY <1>7, <2>3, <3>3, <4>1
    <3>4. CASE t # r
      <4>1. t < r /\ t \in 0 .. r - 1  BY <3>4
      <4>2. slots[t % 2][b] = Tag(t)  BY <2>3, <4>1 DEF LayoutOK, TagsAreKept
      <4>3. CASE t % 2 # w
        BY <1>5, <3>1, <4>2, <4>3
      <4>4. CASE t % 2 = w
        <5> HIDE DEF w, tag, unit
        <5>1. b \div 4 # tag /\ b - 4 * unit \notin 0 .. 4 * Units(r) - 1
          BY <1>9, <2>3, <3>1, <3>2, <4>1, <4>4
        <5>2. byte(b) = slots[w][b]  BY <5>1
        <5> HIDE DEF byte
        <5> QED BY <1>7, <2>3, <4>2, <4>4, <5>2
      <4> QED BY <4>3, <4>4
    <3> QED BY <3>3, <3>4
  <2>4. 0 .. filled' - 1 = 0 .. r /\ \A t \in 0 .. r : t \in 0 .. 8
    <3>1. filled' - 1 = r /\ r \in Nat  BY <1>1
    <3> QED BY <3>1
  <2> HIDE DEF w, tag, unit, byte, new
  <2> QED BY <2>1, <2>3, <2>4 DEF TagsAreKept
<1> QED BY <1>1, <1>5, <1>6, <1>10, <1>11

\* Slots that nothing is written to yet.
LEMMA LayoutStarts == LayoutInit => LayoutOK
<1> SUFFICES ASSUME LayoutInit PROVE LayoutOK
  OBVIOUS
<1>1. device \in {"cpu", "cuda"} /\ filled = 0
      /\ slots = [h \in 0 .. 1 |-> [b \in SlotBytes(h) |-> Unwritten]]
  BY DEF LayoutInit
<1>2. /\ slots = [h \in 0 .. 1 |-> slots[h]]
      /\ \A h \in 0 .. 1 : slots[h] = [b \in SlotBytes(h) |-> slots[h][b]]
  BY <1>1
<1>3. TagsAreKept
  <2>1. \A t \in 0 .. filled - 1 : FALSE  BY <1>1
  <2> QED BY <2>1 DEF TagsAreKept
<1>4. filled \in 0 .. 9 /\ ~(filled > 0)  BY <1>1
<1> QED BY <1>1, <1>2, <1>3, <1>4 DEF LayoutOK

\* Every round keeps it.
LEMMA LayoutStep == LayoutOK /\ [LayoutNext]_layoutVars => LayoutOK'
<1> SUFFICES ASSUME LayoutOK, [LayoutNext]_layoutVars PROVE LayoutOK'
  OBVIOUS
<1>1. ASSUME NEW r \in 0 .. 8, r = filled, NEW units, DOMAIN units \subseteq 0 .. 4 * Units(r) - 1,
             Fill(r, units),
             \A i \in PrevBo(r + 1) .. 4 * Units(r) - 1 : i \in DOMAIN units /\ units[i] = 27 - 4 * Units(r) + i
      PROVE  LayoutOK'
  <2>1. /\ device' = device /\ filled' = r + 1
        /\ slots' = [h \in 0 .. 1 |-> slots'[h]]
        /\ \A h \in 0 .. 1 : slots'[h] = [b \in SlotBytes(h) |-> slots'[h][b]]
        /\ \A i \in DOMAIN units : HashByte(r, i)' = units[i]
        /\ TagsAreKept'
    BY <1>1, FillFacts
  <2>2. filled' \in 0 .. 9 /\ filled' - 1 = r  BY <2>1
  <2>3. \A i \in PrevBo(r + 1) .. 4 * Units(r) - 1 : HashByte(r, i)' = 27 - 4 * Units(r) + i
    BY <1>1, <2>1
  <2>4. \A i \in PrevBo(filled') .. 4 * Units(filled' - 1) - 1 :
          HashByte(filled - 1, i)' = 27 - 4 * Units(filled' - 1) + i
    <3>1. ASSUME NEW i PROVE HashByte(filled - 1, i)' = HashByte(r, i)'
      BY <2>2 DEF HashByte, HashUnit
    <3> QED BY <2>1, <2>2, <2>3, <3>1
  <2>5. device' \in {"cpu", "cuda"}  BY <2>1 DEF LayoutOK
  <2> QED BY <2>1, <2>2, <2>4, <2>5 DEF LayoutOK
<1>2. CASE FillFromHash
  <2> DEFINE U == Units(0)
             units == [i \in PrevBo(1) .. 4 * U - 1 |-> HASHLEN - HashSize(0) + i - PrevBo(1)]
  <2>1. filled = 0 /\ Fill(0, units)  BY <1>2 DEF FillFromHash, Units
  <2>2. PrevBo(1) = 2 /\ U = 7 /\ HASHLEN = 27 /\ HashSize(0) = 26  BY Sizes
  <2>3. 0 \in 0 .. 8 /\ 0 + 1 = 1  OBVIOUS
  <2>4. DOMAIN units \subseteq 0 .. 4 * Units(0) - 1  BY <2>2
  <2>5. \A i \in PrevBo(0 + 1) .. 4 * Units(0) - 1 : i \in DOMAIN units /\ units[i] = 27 - 4 * Units(0) + i
    BY <2>2
  <2> HIDE DEF units
  <2> QED BY <1>1, <2>1, <2>3, <2>4, <2>5
<1>3. CASE FillFromSlot
  <2> DEFINE r == filled
             U == Units(r)
             V == Units(r - 1)
             units == [i \in 0 .. 4 * U - 1 |-> HashByte(r - 1, 4 * (V - U) + i)]
  <2>1. r \in 1 .. 8 /\ Fill(r, units)
    <3>1. WK - 1 = 8  BY DEF WK
    <3> QED BY <1>3, <3>1 DEF FillFromSlot, Units
  <2>2. r \in 0 .. 8 /\ r - 1 \in 0 .. 8 /\ r - 1 + 1 = r /\ r > 0  BY <2>1
  <2>3. /\ U \in Nat /\ V \in Nat /\ U <= V /\ PrevBo(r) \in Nat /\ PrevBo(r + 1) \in Nat
        /\ HashSize(r) = 4 * U - PrevBo(r + 1) /\ HashSize(r - 1) = 4 * V - PrevBo(r)
        /\ HashSize(r) < HashSize(r - 1)
    <3> DEFINE q == r - 1
    <3> HIDE DEF q, r
    <3>1. /\ HashSize(r) \in Nat /\ U \in 1 .. 7 /\ PrevBo(r + 1) \in 0 .. 3
          /\ HashSize(r) = 4 * U - PrevBo(r + 1)
      BY <2>2, RoundFacts
    <3>2. /\ HashSize(q) \in Nat /\ V \in 1 .. 7 /\ PrevBo(q + 1) \in 0 .. 3
          /\ HashSize(q) = 4 * V - PrevBo(q + 1)
      BY <2>2, RoundFacts DEF q
    <3>3. HashSize(r) < HashSize(q) /\ U <= V  BY <2>1, RoundFacts DEF q
    <3>4. q + 1 = r  BY <2>2 DEF q
    <3>5. HashSize(q) = 4 * V - PrevBo(r) /\ PrevBo(r) \in 0 .. 3  BY <3>2, <3>4
    <3> HIDE DEF U, V
    <3> QED BY <3>1, <3>2, <3>3, <3>5 DEF q
  <2>4. \A i \in PrevBo(r) .. 4 * V - 1 : HashByte(r - 1, i) = 27 - 4 * V + i
    BY <2>2 DEF LayoutOK
  <2> HIDE DEF r, U, V
  <2>5. \A i \in PrevBo(r + 1) .. 4 * U - 1 :
          /\ i \in 0 .. 4 * U - 1
          /\ 4 * (V - U) + i \in PrevBo(r) .. 4 * V - 1
          /\ 27 - 4 * V + (4 * (V - U) + i) = 27 - 4 * U + i
    BY <2>3
  <2>6. \A i \in PrevBo(r + 1) .. 4 * U - 1 : i \in DOMAIN units /\ units[i] = 27 - 4 * U + i
    BY <2>4, <2>5
  <2>7. DOMAIN units \subseteq 0 .. 4 * U - 1  OBVIOUS
  <2> HIDE DEF units
  <2> QED BY <1>1, <2>1, <2>2, <2>6, <2>7 DEF r, U
<1>4. CASE UNCHANGED layoutVars
  <2>1. device' = device /\ filled' = filled /\ slots' = slots  BY <1>4 DEF layoutVars
  <2>2. TagsAreKept'  BY <2>1 DEF TagsAreKept, TagUnit, LayoutOK
  <2>3. \A i : HashByte(filled - 1, i)' = HashByte(filled - 1, i)  BY <2>1 DEF HashByte, HashUnit
  <2> QED BY <2>1, <2>2, <2>3 DEF LayoutOK
<1> QED BY <1>2, <1>3, <1>4 DEF LayoutNext

\* The pieces of a field follow one another within the bytes kept of a hash, and are
\* length bits from the first on.
FieldOK(field, bytes, first, length) ==
  /\ Len(field) \in Nat \ {0}
  /\ \A n \in 1 .. Len(field) :
       /\ field[n][1] \in 0 .. bytes - 1 /\ field[n][2] \in Int /\ field[n][3] \in Int
       /\ From(field[n]) <= Until(field[n])
  /\ \A n \in 2 .. Len(field) : From(field[n]) = Until(field[n - 1])
  /\ 8 * (27 - bytes) + From(field[1]) = first
  /\ Until(field[Len(field)]) - From(field[1]) = length

\* The rest bits of each digit, as written out.
LEMMA RestFields ==
  \A r \in 1 .. 9 : FieldOK(RestField[r], HashSize(r - 1), 21 * r - 7, 7)
<1>1. FieldOK(RestField[1], HashSize(0), 14, 7)
  BY Sizes DEF RestField, FieldOK, From, Until
<1>2. FieldOK(RestField[2], HashSize(1), 35, 7)
  BY Sizes DEF RestField, FieldOK, From, Until
<1>3. FieldOK(RestField[3], HashSize(2), 56, 7)
  BY Sizes DEF RestField, FieldOK, From, Until
<1>4. FieldOK(RestField[4], HashSize(3), 77, 7)
  BY Sizes DEF RestField, FieldOK, From, Until
<1>5. FieldOK(RestField[5], HashSize(4), 98, 7)
  BY Sizes DEF RestField, FieldOK, From, Until
<1>6. FieldOK(RestField[6], HashSize(5), 119, 7)
  BY Sizes DEF RestField, FieldOK, From, Until
<1>7. FieldOK(RestField[7], HashSize(6), 140, 7)
  BY Sizes DEF RestField, FieldOK, From, Until
<1>8. FieldOK(RestField[8], HashSize(7), 161, 7)
  BY Sizes DEF RestField, FieldOK, From, Until
<1>9. FieldOK(RestField[9], HashSize(8), 182, 7)
  BY Sizes DEF RestField, FieldOK, From, Until
<1> SUFFICES ASSUME NEW r \in 1 .. 9
             PROVE  FieldOK(RestField[r], HashSize(r - 1), 21 * r - 7, 7)
  OBVIOUS
<1>10. \/ r = 1 \/ r = 2 \/ r = 3 \/ r = 4 \/ r = 5 \/ r = 6 \/ r = 7 \/ r = 8 \/ r = 9
  OBVIOUS
<1> QED BY <1>1, <1>2, <1>3, <1>4, <1>5, <1>6, <1>7, <1>8, <1>9, <1>10

\* The bucket bits of each next digit, and the whole of the last.
LEMMA NextFields ==
  \A r \in 1 .. 9 : FieldOK(NextField[r], HashSize(r - 1), 21 * r, IF r = 9 THEN 21 ELSE 14)
<1>1. FieldOK(NextField[1], HashSize(0), 21, 14)
  BY Sizes DEF NextField, FieldOK, From, Until
<1>2. FieldOK(NextField[2], HashSize(1), 42, 14)
  BY Sizes DEF NextField, FieldOK, From, Until
<1>3. FieldOK(NextField[3], HashSize(2), 63, 14)
  BY Sizes DEF NextField, FieldOK, From, Until
<1>4. FieldOK(NextField[4], HashSize(3), 84, 14)
  BY Sizes DEF NextField, FieldOK, From, Until
<1>5. FieldOK(NextField[5], HashSize(4), 105, 14)
  BY Sizes DEF NextField, FieldOK, From, Until
<1>6. FieldOK(NextField[6], HashSize(5), 126, 14)
  BY Sizes DEF NextField, FieldOK, From, Until
<1>7. FieldOK(NextField[7], HashSize(6), 147, 14)
  BY Sizes DEF NextField, FieldOK, From, Until
<1>8. FieldOK(NextField[8], HashSize(7), 168, 14)
  BY Sizes DEF NextField, FieldOK, From, Until
<1>9. FieldOK(NextField[9], HashSize(8), 189, 21)
  BY Sizes DEF NextField, FieldOK, From, Until
<1> SUFFICES ASSUME NEW r \in 1 .. 9
             PROVE  FieldOK(NextField[r], HashSize(r - 1), 21 * r, IF r = 9 THEN 21 ELSE 14)
  OBVIOUS
<1>10. \/ r = 1 \/ r = 2 \/ r = 3 \/ r = 4 \/ r = 5 \/ r = 6 \/ r = 7 \/ r = 8 \/ r = 9
  OBVIOUS
<1> QED BY <1>1, <1>2, <1>3, <1>4, <1>5, <1>6, <1>7, <1>8, <1>9, <1>10

\* What round r reads as such a field.
LEMMA BitsFacts ==
  ASSUME LayoutOK, NEW r \in 1 .. 9, r = filled, NEW field, NEW first \in Int, NEW length,
         FieldOK(field, HashSize(r - 1), first, length)
  PROVE  Bits(r, field) = Span(first, length)
<1> DEFINE N == Len(field)
           B == HashSize(r - 1)
           base == 8 * (27 - B)
           piece(p) == [i \in 1 .. p[3] - p[2] + 1 |-> 8 * HashByte(r - 1, PrevBo(r) + p[1]) + p[2] + i - 1]
           s == [n \in 1 .. N |-> piece(field[n])]
<1>1. /\ B \in Nat /\ PrevBo(r) \in Nat /\ B = 4 * Units(r - 1) - PrevBo(r) /\ Units(r - 1) \in Nat
  <2>1. r - 1 \in 0 .. 8 /\ r - 1 + 1 = r  OBVIOUS
  <2> DEFINE q == r - 1
  <2>2. q \in 0 .. 8 /\ q + 1 = r  BY <2>1
  <2> HIDE DEF q
  <2>3. /\ HashSize(q) \in Nat /\ Units(q) \in 1 .. 7 /\ PrevBo(q + 1) \in 0 .. 3
        /\ HashSize(q) = 4 * Units(q) - PrevBo(q + 1)
    BY <2>2, RoundFacts
  <2>4. /\ HashSize(q) \in Nat /\ Units(q) \in Nat /\ PrevBo(r) \in Nat
        /\ HashSize(q) = 4 * Units(q) - PrevBo(r)
    BY <2>2, <2>3
  <2> QED BY <2>4 DEF q
<1>2. \A i \in PrevBo(r) .. 4 * Units(r - 1) - 1 : HashByte(r - 1, i) = 27 - 4 * Units(r - 1) + i
  BY DEF LayoutOK
<1>3. \A k \in 0 .. B - 1 : HashByte(r - 1, PrevBo(r) + k) = 27 - B + k
  <2> TAKE k \in 0 .. B - 1
  <2> DEFINE U == Units(r - 1)
             P == PrevBo(r)
             b == B
  <2>1. b \in Nat /\ P \in Nat /\ b = 4 * U - P /\ U \in Nat /\ k \in 0 .. b - 1  BY <1>1
  <2> HIDE DEF U, P, b
  <2>2. P + k \in P .. 4 * U - 1  BY <2>1
  <2>3. 27 - 4 * U + (P + k) = 27 - b + k  BY <2>1
  <2>4. HashByte(r - 1, P + k) = 27 - 4 * U + (P + k)  BY <1>2, <2>2 DEF U, P
  <2>5. HashByte(r - 1, P + k) = 27 - b + k  BY <2>3, <2>4
  <2> QED BY <2>5 DEF P, b
<1>4. \A n \in 1 .. N : /\ field[n][1] \in 0 .. B - 1 /\ field[n][2] \in Int /\ field[n][3] \in Int
                        /\ From(field[n]) <= Until(field[n])
  BY DEF FieldOK
<1> HIDE DEF N
<1>5. ASSUME NEW n \in 1 .. N
      PROVE  piece(field[n]) = Span(base + From(field[n]), Until(field[n]) - From(field[n]))
  <2> DEFINE k == field[n][1]
             x == field[n][2]
             y == field[n][3]
             byte == HashByte(r - 1, PrevBo(r) + k)
  <2>1. k \in 0 .. B - 1 /\ x \in Int /\ y \in Int  BY <1>4
  <2>2. byte = 27 - B + k  BY <1>3, <2>1
  <2>3. piece(field[n]) = [i \in 1 .. y - x + 1 |-> 8 * byte + x + i - 1]  OBVIOUS
  <2>4. From(field[n]) = 8 * k + x /\ Until(field[n]) = 8 * k + y + 1  BY DEF From, Until
  <2> HIDE DEF piece, k, x, y, byte
  <2>5. Span(base + From(field[n]), Until(field[n]) - From(field[n])) =
          [i \in 1 .. (8 * k + y + 1) - (8 * k + x) |-> (base + (8 * k + x)) + i - 1]
    BY <2>4 DEF Span
  <2> DEFINE b == B
  <2>6. b \in Nat /\ k \in Int /\ byte = 27 - b + k /\ base = 8 * (27 - b)  BY <1>1, <2>1, <2>2
  <2> HIDE DEF b, base
  <2>7. (8 * k + y + 1) - (8 * k + x) = y - x + 1  BY <2>1, <2>6
  <2>8. \A i \in Int : (base + (8 * k + x)) + i - 1 = 8 * byte + x + i - 1  BY <2>1, <2>6
  <2>9. [i \in 1 .. (8 * k + y + 1) - (8 * k + x) |-> (base + (8 * k + x)) + i - 1] =
          [i \in 1 .. y - x + 1 |-> 8 * byte + x + i - 1]
    BY <2>7, <2>8
  <2> QED BY <2>3, <2>5, <2>9
<1>6. /\ N \in Nat \ {0}
      /\ \A n \in 2 .. N : From(field[n]) = Until(field[n - 1])
      /\ base + From(field[1]) = first /\ Until(field[N]) - From(field[1]) = length
  BY DEF FieldOK, N
<1>7. Contiguous(field)
  <2>1. \A n \in 1 .. N : From(field[n]) \in Int /\ Until(field[n]) \in Int
    BY <1>1, <1>4 DEF From, Until
  <2> QED BY <1>4, <1>6, <2>1 DEF Contiguous, N
<1>8. Bits(r, field) = FlattenSeq(s)  BY DEF Bits, N
<1>9. Len(s) = Len(field) /\ \A n \in 1 .. N : s[n] = piece(field[n])
  <2> HIDE DEF piece
  <2>1. Len(s) = N  BY <1>6
  <2> QED BY <2>1 DEF N
<1> HIDE DEF s, piece
<1>10. base \in Int  BY <1>1
<1> HIDE DEF base
<1>11. FlattenSeq(s) = Span(base + From(field[1]), Until(field[N]) - From(field[1]))
  BY <1>5, <1>7, <1>9, <1>10, FieldSpan DEF N
<1> QED BY <1>6, <1>8, <1>11

\* Then a round reads its digit, and the tree nodes are there.
LEMMA LayoutReads == LayoutOK => EachRoundReadsItsDigit /\ TagsAreKept
<1> SUFFICES ASSUME LayoutOK, filled > 0
             PROVE  LET r == filled
                    IN /\ Bits(r, RestField[r]) = Span(r * DIGITBITS - RESTBITS, RESTBITS)
                       /\ Bits(r, NextField[r]) =
                            Span(r * DIGITBITS, IF r = WK THEN DIGITBITS ELSE BUCKBITS)
  BY DEF LayoutOK, EachRoundReadsItsDigit
<1>1. filled \in 1 .. 9  BY DEF LayoutOK
<1>2. PICK r \in 1 .. 9 : r = filled  BY <1>1
<1>3. r * DIGITBITS - RESTBITS = 21 * r - 7 /\ r * DIGITBITS = 21 * r /\ RESTBITS = 7
      /\ (IF r = WK THEN DIGITBITS ELSE BUCKBITS) = IF r = 9 THEN 21 ELSE 14
  BY Sizes DEF WK
<1>4. Bits(r, RestField[r]) = Span(21 * r - 7, 7)
  <2>1. FieldOK(RestField[r], HashSize(r - 1), 21 * r - 7, 7)  BY RestFields
  <2>2. 21 * r - 7 \in Int  OBVIOUS
  <2> QED BY <1>2, <2>1, <2>2, BitsFacts
<1>5. Bits(r, NextField[r]) = Span(21 * r, IF r = 9 THEN 21 ELSE 14)
  <2>1. FieldOK(NextField[r], HashSize(r - 1), 21 * r, IF r = 9 THEN 21 ELSE 14)  BY NextFields
  <2>2. 21 * r \in Int  OBVIOUS
  <2> QED BY <1>2, <2>1, <2>2, BitsFacts
<1> QED BY <1>2, <1>3, <1>4, <1>5

----------------------------------------------------------------------------
(* Both solvers together.                                                  *)

\* Whichever solver runs, what holds of the slots, of a CPU solve and of the device
\* hold; a miner with the device leaves the other solver idle.
SolversOK ==
  /\ LayoutOK
  /\ SolveOK /\ CompleteOK /\ FindsAll
  /\ CudaOK
  /\ device = "cuda" => Idle

\* An idle solver is all right with any table of hashes, the next one's too.
LEMMA IdleNext == (Idle /\ hashes \in Tables => SolveOK /\ CompleteOK /\ FindsAll)'
BY SolveStarts, FindsStarts, PTL

\* Neither solver can be begun in a state that breaks it.
LEMMA SolversStart == SolversInit => SolversOK
<1> SUFFICES ASSUME SolversInit PROVE SolversOK
  OBVIOUS
<1>1. Idle /\ CudaInit /\ LayoutOK  BY LayoutStarts DEF SolversInit
<1>2. hashes \in Tables  BY EquihashAssumption, CudaAssumption DEF SolversInit
<1> QED BY <1>1, <1>2, SolveStarts, FindsStarts, CudaStarts DEF SolversOK

\* A step of one leaves the other as it was, but for the table of hashes.
LEMMA SolversStep == SolversOK /\ [SolversNext]_<<vars, cudaVars, layoutVars>> => SolversOK'
<1> SUFFICES ASSUME SolversOK, [SolversNext]_<<vars, cudaVars, layoutVars>> PROVE SolversOK'
  OBVIOUS
<1>1. SolveOK /\ CompleteOK /\ FindsAll /\ CudaOK /\ LayoutOK  BY DEF SolversOK
<1>2. [LayoutNext]_layoutVars /\ [CudaNext]_cudaVars
  BY DEF SolversNext, FillSlots, SolveCpu, SolveCuda
<1>3. LayoutOK' /\ CudaOK'  BY <1>1, <1>2, LayoutStep, CudaStep
<1>4. device' = device
  BY <1>2 DEF LayoutNext, FillFromHash, FillFromSlot, Fill, layoutVars
<1>5. CASE [Next]_vars /\ (UNCHANGED vars \/ device = "cpu")
  <2>1. SolveOK' /\ CompleteOK' /\ FindsAll'  BY <1>1, <1>5, SolveStep, FindsKept
  <2>2. device' = "cuda" => Idle'  BY <1>4, <1>5 DEF SolversOK, vars, Idle
  <2> QED BY <1>3, <2>1, <2>2 DEF SolversOK
<1>6. CASE device = "cuda" /\ UNCHANGED cpuVars
  <2>1. Idle'  BY <1>6 DEF SolversOK, Idle, cpuVars
  <2>2. hashes' \in Tables  BY <1>3 DEF CudaOK, DeviceOK
  <2>3. SolveOK' /\ CompleteOK' /\ FindsAll'  BY <2>1, <2>2, IdleNext
  <2> QED BY <1>3, <2>1, <2>3 DEF SolversOK
<1> QED BY <1>5, <1>6 DEF SolversNext, FillSlots, SolveCpu, SolveCuda

\* It always holds.
THEOREM SolversCorrect == SolversSpec => []SolversOK
BY SolversStart, SolversStep, PTL DEF SolversSpec

\* The state of either solver is well formed, and a CUDA solve that runs to its end
\* leaves no slot counted.
THEOREM SolversTyped == SolversSpec => []SolversTypeOK
<1>1. SolversOK => SolversTypeOK
  BY SolveIsTyped, CudaShows DEF SolversOK, SolversTypeOK
<1> QED BY <1>1, SolversCorrect, PTL

\* The pool's verifier accepts what either solver reports of its own hashes.
THEOREM ReportsCorrect == SolversSpec => []ReportsAreAccepted
<1>1. SolversOK => ReportsAreAccepted
  BY SolveIsAccepted, CudaShows DEF SolversOK, ReportsAreAccepted
<1> QED BY <1>1, SolversCorrect, PTL

\* Either solver finds every solution that no overflow, no full table and no last
\* word of zero hides, CUDA after cancelled solves too.
THEOREM AllSolutionsFound == SolversSpec => []SolversFindAll
<1>1. SolversOK => SolversFindAll
  BY DEF SolversOK, CudaOK, SolversFindAll
<1> QED BY <1>1, SolversCorrect, PTL

\* Wherever the rounds before have moved its bytes, each round of either solver reads
\* its own digit of the hash, at the sizes of the program.
THEOREM DigitsRead == SolversSpec => []EachRoundReadsItsDigit
BY SolversCorrect, LayoutReads, PTL DEF SolversOK

\* No round overwrites the tree nodes that the rounds before wrote.
THEOREM TagsKept == SolversSpec => []TagsAreKept
BY SolversCorrect, LayoutReads, PTL DEF SolversOK

=============================================================================
