----------------------------- MODULE SumTheorems -----------------------------
(***************************************************************************)
(* Facts about SumOn for every finite set and every function.              *)
(*                                                                         *)
(* The community modules define the sum by a recursive function that takes *)
(* the elements in the order CHOOSE gives them.  That this function exists *)
(* and that the order does not matter are proved by induction on the set,  *)
(* each time as: the subsets for which the fact fails have no least        *)
(* member, hence there are none (SubsetMin).                               *)
(***************************************************************************)
EXTENDS Sums, FiniteSetTheorems, TLAPS

\* A set of subsets of a finite set has a member that includes no other.
LEMMA SubsetMin ==
  ASSUME NEW S, IsFiniteSet(S), NEW T, T \subseteq SUBSET S, T # {}
  PROVE  \E x \in T : \A y \in T : y \subseteq x => y = x
<1> DEFINE R == StrictSubsetOrdering(S)
<1>1. IsWellFoundedOn(R, SUBSET S)
  BY FS_StrictSubsetOrderingWellFounded, FS_FiniteSubsetsOfFinite
<1>2. PICK x \in T : \A y \in T : ~(<<y, x>> \in R)
  <2> HIDE DEF R
  <2> QED BY <1>1, WFMin
<1>3. ASSUME NEW y \in T, y \subseteq x, y # x
      PROVE  <<y, x>> \in R
  BY <1>3 DEF StrictSubsetOrdering
<1>4. \A y \in T : y \subseteq x => y = x
  <2> HIDE DEF R
  <2> QED BY <1>2, <1>3
<1> QED BY <1>4

Pick(s) == CHOOSE x \in s : TRUE

\* g is the function the sum of f over S is the last value of.
Adds(g, f, S) ==
  g = [s \in SUBSET S |-> IF s = {} THEN 0 ELSE f[Pick(s)] + g[s \ {Pick(s)}]]

LEMMA PickIn == ASSUME NEW s, s # {} PROVE Pick(s) \in s
BY DEF Pick

LEMMA SumIsChosen ==
  ASSUME NEW f, NEW S
  PROVE  SumOn(f, S) = (CHOOSE g : Adds(g, f, S))[S]
BY DEF SumOn, MapThenSumSet, MapThenFoldSet, Adds, Pick

\* Two such functions agree where both are defined.
LEMMA AddsAgree ==
  ASSUME NEW f, NEW S, NEW R, IsFiniteSet(S), R \subseteq S,
         NEW g, Adds(g, f, S), NEW h, Adds(h, f, R)
  PROVE  \A s \in SUBSET R : g[s] = h[s]
<1> DEFINE Bad == {s \in SUBSET R : g[s] # h[s]}
<1> SUFFICES ASSUME Bad # {} PROVE FALSE
  OBVIOUS
<1>1. Bad \subseteq SUBSET S  OBVIOUS
<1>2. PICK s \in Bad : \A y \in Bad : y \subseteq s => y = s
  <2> HIDE DEF Bad
  <2> QED BY <1>1, SubsetMin
<1>3. s \in SUBSET R /\ s \in SUBSET S /\ g[s] # h[s]  OBVIOUS
<1>4. g[s] = IF s = {} THEN 0 ELSE f[Pick(s)] + g[s \ {Pick(s)}]
  BY <1>3 DEF Adds
<1>5. h[s] = IF s = {} THEN 0 ELSE f[Pick(s)] + h[s \ {Pick(s)}]
  BY <1>3 DEF Adds
<1>6. CASE s = {}
  BY <1>3, <1>4, <1>5, <1>6
<1>7. CASE s # {}
  <2>1. Pick(s) \in s  BY <1>7, PickIn
  <2>2. s \ {Pick(s)} \notin Bad  BY <1>2, <2>1
  <2>3. g[s \ {Pick(s)}] = h[s \ {Pick(s)}]  BY <1>3, <2>2
  <2> QED BY <1>3, <1>4, <1>5, <1>7, <2>3
<1> QED BY <1>6, <1>7

\* There is such a function for every finite set.
LEMMA AddsExists ==
  ASSUME NEW f, NEW S, IsFiniteSet(S)
  PROVE  \E g : Adds(g, f, S)
<1> DEFINE Bad == {s \in SUBSET S : ~\E g : Adds(g, f, s)}
<1> SUFFICES ASSUME Bad # {} PROVE FALSE
  OBVIOUS
<1>1. PICK s \in Bad : \A y \in Bad : y \subseteq s => y = s
  <2>1. Bad \subseteq SUBSET S  OBVIOUS
  <2> HIDE DEF Bad
  <2> QED BY <2>1, SubsetMin
<1>2. s \subseteq S /\ IsFiniteSet(s)  BY FS_Subset
<1>3. \A t \in SUBSET s : t # s => \E g : Adds(g, f, t)
  BY <1>1, <1>2
<1> DEFINE F(t) == CHOOSE g : Adds(g, f, t)
           G(t) == IF t = {} THEN 0 ELSE f[Pick(t)] + F(t \ {Pick(t)})[t \ {Pick(t)}]
           g == [t \in SUBSET s |-> G(t)]
<1>4. \A t \in SUBSET s : t # s => Adds(F(t), f, t)
  BY <1>3
<1>5. ASSUME NEW t \in SUBSET s, t # s
      PROVE  g[t] = F(t)[t]
  <2> DEFINE Ft == F(t)
  <2>1. Adds(Ft, f, t)  BY <1>4, <1>5
  <2>2. Ft[t] = IF t = {} THEN 0 ELSE f[Pick(t)] + Ft[t \ {Pick(t)}]
    <3> HIDE DEF Ft
    <3> QED BY <2>1 DEF Adds
  <2>3. g[t] = G(t)  OBVIOUS
  <2>4. CASE t = {}
    BY <2>2, <2>3, <2>4
  <2>5. CASE t # {}
    <3> DEFINE u == t \ {Pick(t)}
               Fu == F(u)
    <3>1. Pick(t) \in t  BY <2>5, PickIn
    <3>2. u \in SUBSET t /\ u # s /\ u \in SUBSET s  BY <3>1, <1>5
    <3>3. Adds(Fu, f, u)  BY <1>4, <3>2
    <3>4. IsFiniteSet(t)  BY <1>2, FS_Subset
    <3>5. Ft[u] = Fu[u]
      <4> HIDE DEF Fu, Ft, u
      <4> QED BY <2>1, <3>2, <3>3, <3>4, AddsAgree
    <3> QED BY <2>2, <2>3, <2>5, <3>5
  <2> QED BY <2>4, <2>5
<1>6. Adds(g, f, s)
  <2>1. ASSUME NEW t \in SUBSET s
        PROVE  G(t) = IF t = {} THEN 0 ELSE f[Pick(t)] + g[t \ {Pick(t)}]
    <3>1. CASE t = {}
      BY <3>1
    <3>2. CASE t # {}
      <4>1. Pick(t) \in t  BY <3>2, PickIn
      <4>2. t \ {Pick(t)} \in SUBSET s /\ t \ {Pick(t)} # s  BY <4>1
      <4>3. g[t \ {Pick(t)}] = F(t \ {Pick(t)})[t \ {Pick(t)}]  BY <4>2, <1>5
      <4> QED BY <3>2, <4>3
    <3> QED BY <3>1, <3>2
  <2> HIDE DEF F
  <2> QED BY <2>1 DEF Adds
<1>7. \E h : Adds(h, f, s)
  <2> HIDE DEF g
  <2> QED BY <1>6
<1> QED BY <1>7, <1>1

\* The sum's equation, for the order of CHOOSE.
LEMMA SumPick ==
  ASSUME NEW f, NEW S, IsFiniteSet(S)
  PROVE  SumOn(f, S) =
           IF S = {} THEN 0 ELSE f[Pick(S)] + SumOn(f, S \ {Pick(S)})
<1> DEFINE g(T) == CHOOSE g : Adds(g, f, T)
           T == S \ {Pick(S)}
<1>1. SumOn(f, S) = g(S)[S] /\ SumOn(f, T) = g(T)[T]
  BY SumIsChosen
<1>2. IsFiniteSet(T) /\ T \subseteq S  BY FS_Subset
<1>3. Adds(g(S), f, S)  BY AddsExists
<1>4. Adds(g(T), f, T)  BY <1>2, AddsExists
<1> DEFINE gS == g(S)
           gT == g(T)
<1>5. gS[T] = gT[T]
  <2> HIDE DEF gS, gT, T
  <2>1. Adds(gS, f, S) /\ Adds(gT, f, T)  BY <1>3, <1>4 DEF gS, gT
  <2> QED BY <2>1, <1>2, AddsAgree
<1>6. gS[S] = IF S = {} THEN 0 ELSE f[Pick(S)] + gS[T]
  <2>1. Adds(gS, f, S)  BY <1>3
  <2> HIDE DEF gS
  <2> QED BY <2>1 DEF Adds
<1> QED BY <1>1, <1>5, <1>6

LEMMA SumEmpty == ASSUME NEW f PROVE SumOn(f, {}) = 0
BY SumPick, FS_EmptySet

\* Sums stay in whatever set has zero and the sums of its members.
LEMMA SumClosed ==
  ASSUME NEW f, NEW S, IsFiniteSet(S), NEW N, 0 \in N,
         \A a, b \in N : a + b \in N, \A x \in S : f[x] \in N
  PROVE  SumOn(f, S) \in N
<1> DEFINE Bad == {s \in SUBSET S : SumOn(f, s) \notin N}
<1> SUFFICES ASSUME Bad # {} PROVE FALSE
  OBVIOUS
<1>1. PICK s \in Bad : \A y \in Bad : y \subseteq s => y = s
  <2>1. Bad \subseteq SUBSET S  OBVIOUS
  <2> HIDE DEF Bad
  <2> QED BY <2>1, SubsetMin
<1>2. s \subseteq S /\ IsFiniteSet(s) /\ SumOn(f, s) \notin N  BY FS_Subset
<1>3. s # {}  BY <1>2, SumEmpty
<1>4. Pick(s) \in s /\ f[Pick(s)] \in N  BY <1>2, <1>3, PickIn
<1>5. SumOn(f, s \ {Pick(s)}) \in N  BY <1>1, <1>2, <1>4
<1> QED BY <1>2, <1>3, <1>4, <1>5, SumPick

\* The sum of integers is one.
LEMMA SumInt ==
  ASSUME NEW f, NEW S, IsFiniteSet(S), \A x \in S : f[x] \in Int
  PROVE  SumOn(f, S) \in Int
<1>1. 0 \in Int /\ \A a, b \in Int : a + b \in Int  OBVIOUS
<1> QED BY <1>1, SumClosed

\* The elements may be taken in any order.
THEOREM SumRemove ==
  ASSUME NEW f, NEW S, IsFiniteSet(S), \A x \in S : f[x] \in Int, NEW x \in S
  PROVE  SumOn(f, S) = f[x] + SumOn(f, S \ {x})
<1> DEFINE Bad == {s \in SUBSET S :
                     \E y \in s : SumOn(f, s) # f[y] + SumOn(f, s \ {y})}
<1> SUFFICES ASSUME Bad # {} PROVE FALSE
  OBVIOUS
<1>1. PICK s \in Bad : \A t \in Bad : t \subseteq s => t = s
  <2>1. Bad \subseteq SUBSET S  OBVIOUS
  <2> HIDE DEF Bad
  <2> QED BY <2>1, SubsetMin
<1>2. PICK y \in s : SumOn(f, s) # f[y] + SumOn(f, s \ {y})
  OBVIOUS
<1> DEFINE p == Pick(s)
<1>3. s \subseteq S /\ IsFiniteSet(s) /\ s # {}  BY <1>2, FS_Subset
<1>4. p \in s  BY <1>3, PickIn
<1>5. SumOn(f, s) = f[p] + SumOn(f, s \ {p})  BY <1>3, SumPick
<1>6. y # p  BY <1>2, <1>5
<1>7. SumOn(f, s \ {p}) = f[y] + SumOn(f, (s \ {p}) \ {y})
  <2>1. y \in s \ {p} /\ s \ {p} \in SUBSET S  BY <1>2, <1>3, <1>6
  <2>2. s \ {p} \notin Bad  BY <1>1, <1>4
  <2> QED BY <2>1, <2>2
<1>8. SumOn(f, s \ {y}) = f[p] + SumOn(f, (s \ {y}) \ {p})
  <2>1. p \in s \ {y} /\ s \ {y} \in SUBSET S  BY <1>3, <1>4, <1>6
  <2>2. s \ {y} \notin Bad  BY <1>1, <1>2
  <2> QED BY <2>1, <2>2
<1>9. (s \ {y}) \ {p} = (s \ {p}) \ {y}  OBVIOUS
<1> DEFINE rest == SumOn(f, (s \ {p}) \ {y})
<1>10. f[p] \in Int /\ f[y] \in Int /\ rest \in Int
  <2>1. IsFiniteSet((s \ {p}) \ {y})  BY <1>3, FS_Subset
  <2>2. \A z \in (s \ {p}) \ {y} : f[z] \in Int  BY <1>3
  <2> QED BY <1>3, <1>4, <2>1, <2>2, SumInt
<1>11. f[p] + (f[y] + rest) = f[y] + (f[p] + rest)
  <2> HIDE DEF p, rest
  <2> QED BY <1>10
<1>12. SumOn(f, s) = f[p] + (f[y] + rest)  BY <1>5, <1>7
<1>13. f[y] + SumOn(f, s \ {y}) = f[y] + (f[p] + rest)  BY <1>8, <1>9
<1> QED BY <1>2, <1>11, <1>12, <1>13

LEMMA SumAdd ==
  ASSUME NEW f, NEW S, IsFiniteSet(S), NEW x, x \notin S,
         \A y \in S \union {x} : f[y] \in Int
  PROVE  SumOn(f, S \union {x}) = f[x] + SumOn(f, S)
<1>1. IsFiniteSet(S \union {x})  BY FS_AddElement
<1>2. (S \union {x}) \ {x} = S  OBVIOUS
<1> QED BY <1>1, <1>2, SumRemove

\* Functions that agree on a set have the same sum over it.
LEMMA SumSame ==
  ASSUME NEW f, NEW g, NEW S, IsFiniteSet(S), \A x \in S : f[x] = g[x]
  PROVE  SumOn(f, S) = SumOn(g, S)
<1> DEFINE Bad == {s \in SUBSET S : SumOn(f, s) # SumOn(g, s)}
<1> SUFFICES ASSUME Bad # {} PROVE FALSE
  OBVIOUS
<1>1. PICK s \in Bad : \A t \in Bad : t \subseteq s => t = s
  <2>1. Bad \subseteq SUBSET S  OBVIOUS
  <2> HIDE DEF Bad
  <2> QED BY <2>1, SubsetMin
<1>2. s \subseteq S /\ IsFiniteSet(s) /\ SumOn(f, s) # SumOn(g, s)  BY FS_Subset
<1>3. s # {}  BY <1>2, SumEmpty
<1> DEFINE p == Pick(s)
<1>4. p \in s  BY <1>3, PickIn
<1>5. SumOn(f, s \ {p}) = SumOn(g, s \ {p})  BY <1>1, <1>2, <1>4
<1>6. /\ SumOn(f, s) = f[p] + SumOn(f, s \ {p})
      /\ SumOn(g, s) = g[p] + SumOn(g, s \ {p})
  BY <1>2, <1>3, SumPick
<1>7. f[p] = g[p]  BY <1>2, <1>4
<1> QED BY <1>2, <1>5, <1>6, <1>7

\* The greater of two functions has the greater sum.
THEOREM SumMonotone ==
  ASSUME NEW f, NEW g, NEW S, IsFiniteSet(S),
         \A x \in S : f[x] \in Int /\ g[x] \in Int /\ f[x] <= g[x]
  PROVE  SumOn(f, S) <= SumOn(g, S)
<1> DEFINE Bad == {s \in SUBSET S : ~(SumOn(f, s) <= SumOn(g, s))}
<1> SUFFICES ASSUME Bad # {} PROVE FALSE
  OBVIOUS
<1>1. PICK s \in Bad : \A t \in Bad : t \subseteq s => t = s
  <2>1. Bad \subseteq SUBSET S  OBVIOUS
  <2> HIDE DEF Bad
  <2> QED BY <2>1, SubsetMin
<1>2. s \subseteq S /\ IsFiniteSet(s) /\ ~(SumOn(f, s) <= SumOn(g, s))  BY FS_Subset
<1>3. s # {}  BY <1>2, SumEmpty
<1> DEFINE p == Pick(s)
           F == SumOn(f, s \ {p})
           G == SumOn(g, s \ {p})
<1>4. p \in s  BY <1>3, PickIn
<1>5. F <= G  BY <1>1, <1>2, <1>4
<1>6. SumOn(f, s) = f[p] + F /\ SumOn(g, s) = g[p] + G
  BY <1>2, <1>3, SumPick
<1>7. f[p] \in Int /\ g[p] \in Int /\ f[p] <= g[p]  BY <1>2, <1>4
<1>8. F \in Int /\ G \in Int
  <2>1. IsFiniteSet(s \ {p})  BY <1>2, FS_Subset
  <2>2. \A x \in s \ {p} : f[x] \in Int /\ g[x] \in Int  BY <1>2
  <2> QED BY <2>1, <2>2, SumInt
<1> HIDE DEF p, F, G
<1>9. f[p] + F <= g[p] + G  BY <1>5, <1>7, <1>8
<1> QED BY <1>2, <1>6, <1>9

\* Functions that are added have their sums added.
THEOREM SumPlus ==
  ASSUME NEW f, NEW g, NEW h, NEW S, IsFiniteSet(S),
         \A x \in S : f[x] \in Int /\ g[x] \in Int /\ h[x] = f[x] + g[x]
  PROVE  SumOn(h, S) = SumOn(f, S) + SumOn(g, S)
<1> DEFINE Bad == {s \in SUBSET S : SumOn(h, s) # SumOn(f, s) + SumOn(g, s)}
<1> SUFFICES ASSUME Bad # {} PROVE FALSE
  OBVIOUS
<1>1. PICK s \in Bad : \A t \in Bad : t \subseteq s => t = s
  <2>1. Bad \subseteq SUBSET S  OBVIOUS
  <2> HIDE DEF Bad
  <2> QED BY <2>1, SubsetMin
<1>2. s \subseteq S /\ IsFiniteSet(s) /\ SumOn(h, s) # SumOn(f, s) + SumOn(g, s)
  BY FS_Subset
<1>3. s # {}
  <2>1. SumOn(f, {}) = 0 /\ SumOn(g, {}) = 0 /\ SumOn(h, {}) = 0 + 0  BY SumEmpty
  <2> QED BY <1>2, <2>1
<1> DEFINE p == Pick(s)
           F == SumOn(f, s \ {p})
           G == SumOn(g, s \ {p})
           H == SumOn(h, s \ {p})
<1>4. p \in s  BY <1>3, PickIn
<1>5. H = F + G  BY <1>1, <1>2, <1>4
<1>6. SumOn(f, s) = f[p] + F /\ SumOn(g, s) = g[p] + G /\ SumOn(h, s) = h[p] + H
  BY <1>2, <1>3, SumPick
<1>7. f[p] \in Int /\ g[p] \in Int /\ h[p] = f[p] + g[p]  BY <1>2, <1>4
<1>8. F \in Int /\ G \in Int
  <2>1. IsFiniteSet(s \ {p})  BY <1>2, FS_Subset
  <2>2. \A x \in s \ {p} : f[x] \in Int /\ g[x] \in Int  BY <1>2
  <2> QED BY <2>1, <2>2, SumInt
<1> HIDE DEF p, F, G, H
<1>9. h[p] + H = (f[p] + F) + (g[p] + G)  BY <1>5, <1>7, <1>8
<1> QED BY <1>2, <1>6, <1>9

LEMMA SumZero ==
  ASSUME NEW f, NEW S, IsFiniteSet(S), \A x \in S : f[x] = 0
  PROVE  SumOn(f, S) = 0
<1>1. SumOn(f, S) \in Int  BY SumInt
<1>2. \A x \in S : f[x] \in Int /\ f[x] = f[x] + f[x]  OBVIOUS
<1>3. SumOn(f, S) = SumOn(f, S) + SumOn(f, S)  BY <1>2, SumPlus
<1>4. \A x \in Int : x = x + x => x = 0  OBVIOUS
<1> DEFINE s == SumOn(f, S)
<1>5. s \in Int /\ s = s + s  BY <1>1, <1>3
<1> HIDE DEF s
<1>6. s = 0  BY <1>4, <1>5
<1> QED BY <1>6 DEF s

LEMMA SumNat ==
  ASSUME NEW f, NEW S, IsFiniteSet(S), \A x \in S : f[x] \in Nat
  PROVE  SumOn(f, S) \in Nat
<1> DEFINE z == [x \in S |-> 0]
<1>1. SumOn(z, S) = 0  BY SumZero
<1>2. \A x \in S : z[x] \in Int /\ f[x] \in Int /\ z[x] <= f[x]  OBVIOUS
<1>3. SumOn(z, S) <= SumOn(f, S)
  <2> HIDE DEF z
  <2> QED BY <1>2, SumMonotone
<1>4. SumOn(f, S) \in Int  BY SumInt
<1> QED BY <1>1, <1>3, <1>4

\* The sum over two sets that do not meet.
THEOREM SumUnion ==
  ASSUME NEW f, NEW S, IsFiniteSet(S), NEW T, IsFiniteSet(T), S \intersect T = {},
         \A x \in S \union T : f[x] \in Int
  PROVE  SumOn(f, S \union T) = SumOn(f, S) + SumOn(f, T)
<1> DEFINE Bad == {s \in SUBSET S : SumOn(f, s \union T) # SumOn(f, s) + SumOn(f, T)}
<1> SUFFICES ASSUME Bad # {} PROVE FALSE
  OBVIOUS
<1>1. PICK s \in Bad : \A t \in Bad : t \subseteq s => t = s
  <2>1. Bad \subseteq SUBSET S  OBVIOUS
  <2> HIDE DEF Bad
  <2> QED BY <2>1, SubsetMin
<1>2. s \subseteq S /\ IsFiniteSet(s) /\ SumOn(f, s \union T) # SumOn(f, s) + SumOn(f, T)
  BY FS_Subset
<1>3. SumOn(f, T) \in Int  BY SumInt
<1>4. s # {}
  <2>1. {} \union T = T  OBVIOUS
  <2>2. SumOn(f, {}) = 0  BY SumEmpty
  <2> QED BY <1>2, <1>3, <2>1, <2>2
<1> DEFINE p == Pick(s)
           F == SumOn(f, s \ {p})
<1>5. p \in s  BY <1>4, PickIn
<1>6. SumOn(f, (s \ {p}) \union T) = F + SumOn(f, T)  BY <1>1, <1>2, <1>5
<1>7. SumOn(f, s) = f[p] + F  BY <1>2, <1>4, SumPick
<1>8. SumOn(f, s \union T) = f[p] + SumOn(f, (s \ {p}) \union T)
  <2>1. IsFiniteSet(s \union T)  BY <1>2, FS_Union
  <2>2. \A x \in s \union T : f[x] \in Int  BY <1>2
  <2>3. (s \union T) \ {p} = (s \ {p}) \union T  BY <1>2, <1>5
  <2>4. p \in s \union T  BY <1>5
  <2> QED BY <2>1, <2>2, <2>3, <2>4, SumRemove
<1>9. f[p] \in Int /\ F \in Int
  <2>1. IsFiniteSet(s \ {p})  BY <1>2, FS_Subset
  <2>2. \A x \in s : f[x] \in Int  BY <1>2
  <2> QED BY <1>5, <2>1, <2>2, SumInt
<1> HIDE DEF p, F
<1>10. f[p] + (F + SumOn(f, T)) = (f[p] + F) + SumOn(f, T)  BY <1>3, <1>9
<1> QED BY <1>2, <1>6, <1>7, <1>8, <1>10

\* One value changes.
LEMMA SumChange ==
  ASSUME NEW f, NEW g, NEW S, IsFiniteSet(S), NEW x \in S,
         \A y \in S : f[y] \in Int /\ g[y] \in Int /\ (y # x => g[y] = f[y])
  PROVE  SumOn(g, S) = SumOn(f, S) - f[x] + g[x]
<1> DEFINE F == SumOn(f, S \ {x})
<1>1. IsFiniteSet(S \ {x})  BY FS_Subset
<1>2. SumOn(g, S \ {x}) = F  BY <1>1, SumSame
<1>3. SumOn(f, S) = f[x] + F /\ SumOn(g, S) = g[x] + SumOn(g, S \ {x})  BY SumRemove
<1>4. F \in Int  BY <1>1, SumInt
<1> HIDE DEF F
<1> QED BY <1>2, <1>3, <1>4

\* A subset has no larger sum, if no value is negative.
LEMMA SumSubset ==
  ASSUME NEW f, NEW S, IsFiniteSet(S), \A x \in S : f[x] \in Nat, NEW T \in SUBSET S
  PROVE  SumOn(f, T) <= SumOn(f, S)
<1>1. IsFiniteSet(T) /\ IsFiniteSet(S \ T)  BY FS_Subset
<1>2. SumOn(f, T \union (S \ T)) = SumOn(f, T) + SumOn(f, S \ T)
  <2>1. \A x \in T \union (S \ T) : f[x] \in Int  OBVIOUS
  <2> QED BY <1>1, <2>1, SumUnion
<1>3. T \union (S \ T) = S  OBVIOUS
<1> DEFINE A == SumOn(f, T)
           B == SumOn(f, S \ T)
<1>4. A \in Nat /\ B \in Nat
  <2>1. (\A x \in T : f[x] \in Nat) /\ (\A x \in S \ T : f[x] \in Nat)  OBVIOUS
  <2> QED BY <1>1, <2>1, SumNat
<1>5. SumOn(f, S) = A + B  BY <1>2, <1>3
<1> HIDE DEF A, B
<1>6. A <= SumOn(f, S)  BY <1>4, <1>5
<1> QED BY <1>6 DEF A

LEMMA SumScale ==
  ASSUME NEW f, NEW g, NEW c \in Int, NEW S, IsFiniteSet(S),
         \A x \in S : f[x] \in Int /\ g[x] = c * f[x]
  PROVE  SumOn(g, S) = c * SumOn(f, S)
<1> DEFINE Bad == {s \in SUBSET S : SumOn(g, s) # c * SumOn(f, s)}
<1> SUFFICES ASSUME Bad # {} PROVE FALSE
  OBVIOUS
<1>1. PICK s \in Bad : \A t \in Bad : t \subseteq s => t = s
  <2>1. Bad \subseteq SUBSET S  OBVIOUS
  <2> HIDE DEF Bad
  <2> QED BY <2>1, SubsetMin
<1>2. s \subseteq S /\ IsFiniteSet(s) /\ SumOn(g, s) # c * SumOn(f, s)  BY FS_Subset
<1>3. s # {}
  <2>1. SumOn(f, {}) = 0 /\ SumOn(g, {}) = 0 /\ c * 0 = 0  BY SumEmpty
  <2> QED BY <1>2, <2>1
<1> DEFINE p == Pick(s)
           F == SumOn(f, s \ {p})
<1>4. p \in s  BY <1>3, PickIn
<1>5. SumOn(g, s \ {p}) = c * F  BY <1>1, <1>2, <1>4
<1>6. SumOn(f, s) = f[p] + F /\ SumOn(g, s) = g[p] + SumOn(g, s \ {p})
  BY <1>2, <1>3, SumPick
<1>7. f[p] \in Int /\ g[p] = c * f[p]  BY <1>2, <1>4
<1>8. F \in Int
  <2>1. IsFiniteSet(s \ {p})  BY <1>2, FS_Subset
  <2>2. \A x \in s \ {p} : f[x] \in Int  BY <1>2
  <2> QED BY <2>1, <2>2, SumInt
<1> HIDE DEF p, F
<1>9. c * (f[p] + F) = c * f[p] + c * F  BY <1>7, <1>8
<1> QED BY <1>2, <1>5, <1>6, <1>7, <1>9

\* A bound of every value bounds the sum.
THEOREM SumBound ==
  ASSUME NEW f, NEW c \in Int, NEW S, IsFiniteSet(S),
         \A x \in S : f[x] \in Int /\ f[x] <= c
  PROVE  SumOn(f, S) <= c * Cardinality(S)
<1> DEFINE Bad == {s \in SUBSET S : ~(SumOn(f, s) <= c * Cardinality(s))}
<1> SUFFICES ASSUME Bad # {} PROVE FALSE
  OBVIOUS
<1>1. PICK s \in Bad : \A t \in Bad : t \subseteq s => t = s
  <2>1. Bad \subseteq SUBSET S  OBVIOUS
  <2> HIDE DEF Bad
  <2> QED BY <2>1, SubsetMin
<1>2. s \subseteq S /\ IsFiniteSet(s) /\ ~(SumOn(f, s) <= c * Cardinality(s))
  BY FS_Subset
<1>3. s # {}
  <2>1. SumOn(f, {}) = 0 /\ Cardinality({}) = 0  BY SumEmpty, FS_EmptySet
  <2>2. SumOn(f, {}) <= c * Cardinality({})  BY <2>1
  <2> QED BY <1>2, <2>2
<1> DEFINE p == Pick(s)
           F == SumOn(f, s \ {p})
           n == Cardinality(s \ {p})
<1>4. p \in s  BY <1>3, PickIn
<1>5. F <= c * n  BY <1>1, <1>2, <1>4
<1>6. SumOn(f, s) = f[p] + F  BY <1>2, <1>3, SumPick
<1>7. f[p] \in Int /\ f[p] <= c  BY <1>2, <1>4
<1>8. F \in Int /\ n \in Nat /\ Cardinality(s) = n + 1
  <2>1. IsFiniteSet(s \ {p})  BY <1>2, FS_Subset
  <2>2. \A x \in s \ {p} : f[x] \in Int  BY <1>2
  <2>3. n = Cardinality(s) - 1  BY <1>2, <1>4, FS_RemoveElement
  <2>4. n \in Nat /\ Cardinality(s) \in Nat  BY <2>1, <1>2, FS_CardinalityType
  <2>5. Cardinality(s) = n + 1
    <3> HIDE DEF n
    <3> QED BY <2>3, <2>4
  <2> QED BY <2>1, <2>2, <2>4, <2>5, SumInt
<1> HIDE DEF p, F, n
<1>9. c * (n + 1) = c * n + c  BY <1>8
<1>10. f[p] + F <= c * n + c
  <2>1. c * n \in Int  BY <1>8
  <2> QED BY <1>5, <1>7, <1>8, <2>1
<1> QED BY <1>2, <1>6, <1>8, <1>9, <1>10

\* The sums of a table's columns and rows.
ColumnSums(M, S, W) == [w \in W |-> SumOn([x \in S |-> M[x][w]], S)]
RowSums(M, S, W)    == [x \in S |-> SumOn([w \in W |-> M[x][w]], W)]

THEOREM SumExchange ==
  ASSUME NEW M, NEW S, IsFiniteSet(S), NEW W, IsFiniteSet(W),
         \A x \in S, w \in W : M[x][w] \in Int
  PROVE  SumOn(ColumnSums(M, S, W), W) = SumOn(RowSums(M, S, W), S)
<1> DEFINE Col(w) == [x \in S |-> M[x][w]]
           rowSum == [x \in S |-> SumOn([w \in W |-> M[x][w]], W)]
           Cols(s) == [w \in W |-> SumOn(Col(w), s)]
           Bad == {s \in SUBSET S : SumOn(Cols(s), W) # SumOn(rowSum, s)}
<1> SUFFICES ASSUME Bad # {} PROVE FALSE
  BY DEF ColumnSums, RowSums
<1>1. PICK s \in Bad : \A t \in Bad : t \subseteq s => t = s
  <2>1. Bad \subseteq SUBSET S  OBVIOUS
  <2> HIDE DEF Bad
  <2> QED BY <2>1, SubsetMin
<1>2. s \subseteq S /\ IsFiniteSet(s) /\ SumOn(Cols(s), W) # SumOn(rowSum, s)
  BY FS_Subset
<1>3. s # {}
  <2>1. \A w \in W : SumOn(Col(w), {}) = 0  BY SumEmpty
  <2>2. SumOn(Cols({}), W) = 0
    <3>1. \A w \in W : Cols({})[w] = 0  BY <2>1
    <3> HIDE DEF Cols
    <3> QED BY <3>1, SumZero
  <2>3. SumOn(rowSum, {}) = 0  BY SumEmpty
  <2> QED BY <1>2, <2>2, <2>3
<1> DEFINE p == Pick(s)
           t == s \ {p}
           row == [w \in W |-> M[p][w]]
<1>4. p \in s /\ p \in S  BY <1>2, <1>3, PickIn
<1>5. t \subseteq s /\ t \subseteq S /\ t # s /\ IsFiniteSet(t)  BY <1>2, <1>4, FS_Subset
<1>6. SumOn(Cols(t), W) = SumOn(rowSum, t)  BY <1>1, <1>5
<1>7. SumOn(rowSum, s) = rowSum[p] + SumOn(rowSum, t)  BY <1>2, <1>3, SumPick
<1>8. rowSum[p] = SumOn(row, W)  BY <1>4
<1>9. SumOn(Cols(s), W) = SumOn(row, W) + SumOn(Cols(t), W)
  <2>1. ASSUME NEW w \in W
        PROVE  row[w] \in Int /\ Cols(t)[w] \in Int /\ Cols(s)[w] = row[w] + Cols(t)[w]
    <3> DEFINE c == Col(w)
    <3>1. \A x \in S : c[x] \in Int  OBVIOUS
    <3>2. SumOn(c, s) = c[p] + SumOn(c, t)  BY <1>2, <1>3, SumPick
    <3>3. SumOn(c, t) \in Int
      <4> HIDE DEF c, t
      <4> QED BY <3>1, <1>5, SumInt
    <3>4. c[p] = row[w] /\ row[w] \in Int  BY <1>4
    <3>5. Cols(t)[w] = SumOn(c, t) /\ Cols(s)[w] = SumOn(c, s)  OBVIOUS
    <3> HIDE DEF c, Cols, row, t, p
    <3> QED BY <3>2, <3>3, <3>4, <3>5
  <2> DEFINE f == row
             g == Cols(t)
             h == Cols(s)
  <2>2. \A w \in W : f[w] \in Int /\ g[w] \in Int /\ h[w] = f[w] + g[w]  BY <2>1
  <2> HIDE DEF f, g, h
  <2>3. SumOn(h, W) = SumOn(f, W) + SumOn(g, W)  BY <2>2, SumPlus
  <2> QED BY <2>3 DEF f, g, h
<1> HIDE DEF Cols, rowSum, row, t, p
<1> QED BY <1>2, <1>6, <1>7, <1>8, <1>9

\* The sum over an injective image.
THEOREM SumImage ==
  ASSUME NEW f, NEW k, NEW S, IsFiniteSet(S), \A x \in S : f[k[x]] \in Int,
         \A x, y \in S : k[x] = k[y] => x = y
  PROVE  /\ IsFiniteSet({k[x] : x \in S})
         /\ SumOn(f, {k[x] : x \in S}) = SumOn([x \in S |-> f[k[x]]], S)
<1> DEFINE g == [x \in S |-> f[k[x]]]
           Img(s) == {k[x] : x \in s}
           Bad == {s \in SUBSET S : ~(IsFiniteSet(Img(s)) /\ SumOn(f, Img(s)) = SumOn(g, s))}
<1> SUFFICES ASSUME Bad # {} PROVE FALSE
  OBVIOUS
<1>1. PICK s \in Bad : \A t \in Bad : t \subseteq s => t = s
  <2>1. Bad \subseteq SUBSET S  OBVIOUS
  <2> HIDE DEF Bad
  <2> QED BY <2>1, SubsetMin
<1>2. /\ s \subseteq S /\ IsFiniteSet(s)
      /\ ~(IsFiniteSet(Img(s)) /\ SumOn(f, Img(s)) = SumOn(g, s))
  BY FS_Subset
<1>3. s # {}
  <2>1. Img({}) = {}  OBVIOUS
  <2>2. IsFiniteSet(Img({}))  BY <2>1, FS_EmptySet
  <2>3. SumOn(f, Img({})) = SumOn(g, {})  BY <2>1, SumEmpty
  <2> HIDE DEF Img, g
  <2> QED BY <1>2, <2>2, <2>3
<1> DEFINE p == Pick(s)
           t == s \ {p}
<1>4. p \in s /\ p \in S  BY <1>2, <1>3, PickIn
<1>5. t \in SUBSET S /\ t # s /\ t \subseteq s  BY <1>2, <1>4
<1>6. IsFiniteSet(Img(t)) /\ SumOn(f, Img(t)) = SumOn(g, t)  BY <1>1, <1>5
<1>7. Img(s) = Img(t) \union {k[p]}  BY <1>4
<1>8. k[p] \notin Img(t)  BY <1>2, <1>4
<1>9. SumOn(f, Img(s)) = f[k[p]] + SumOn(f, Img(t))
  <2> DEFINE T == Img(t)
  <2>1. \A y \in T \union {k[p]} : f[y] \in Int  BY <1>4, <1>5
  <2> HIDE DEF T
  <2>2. SumOn(f, T \union {k[p]}) = f[k[p]] + SumOn(f, T)
    BY <1>6, <1>8, <2>1, SumAdd DEF T
  <2> QED BY <2>2, <1>7 DEF T
<1>10. SumOn(g, s) = g[p] + SumOn(g, t)  BY <1>2, <1>3, SumPick
<1>11. g[p] = f[k[p]]  BY <1>4
<1>12. IsFiniteSet(Img(s))
  <2> HIDE DEF Img, t, p
  <2> QED BY <1>6, <1>7, FS_AddElement
<1>13. ~(IsFiniteSet(Img(s)) /\ SumOn(f, Img(s)) = SumOn(g, s))
  BY <1>2
<1>14. SumOn(f, Img(s)) = SumOn(g, s)
  <2> HIDE DEF g, Img, t, p
  <2> QED BY <1>6, <1>9, <1>10, <1>11
<1> HIDE DEF g, Img, t, p
<1> QED BY <1>12, <1>13, <1>14
=============================================================================
