------------------------------ MODULE Equihash ------------------------------
(***************************************************************************)
(* One solve of the CPU solver (cpu_tromp/equi_miner_210.h, cpu_tromp.cpp), *)
(* against the puzzle and the verifier of the pool.                        *)
(*                                                                         *)
(* The tree nodes of all rounds are there at the end, as TagsAreKept of     *)
(* EquihashLayout shows; the hashes only those of the last round.           *)
(***************************************************************************)
EXTENDS EquihashVerifier

CONSTANTS
  NSLOTS,     \* slots of a bucket
  MAXSOLS,    \* solutions stored
  Inputs      \* the tables of hashes to be solved

ASSUME EquihashAssumption ==
  /\ NSLOTS \in Nat \ {0} /\ MAXSOLS \in Nat
  /\ Inputs \subseteq Tables

VARIABLES
  round,     \* the round to come; K + 1 when all are done
  heap,      \* hashes that the last round has stored
  tree,      \* tree nodes of each round
  full,      \* whether a bucket ever overflowed
  sols,      \* the stored solutions
  nsols,     \* number of solutions found
  reported,  \* what solutionf was called with
  status     \* "solving", "reporting", "cancelled" or "done"

vars == <<hashes, round, heap, tree, full, sols, nsols, reported, status>>

Empty == [b \in Buckets |-> <<>>]

\* What is read past the end of sols.
Unstored == <<>>

\* Before the first round.
Idle ==
  /\ round = 0
  /\ heap = Empty /\ tree = [r \in 0 .. K - 1 |-> Empty]
  /\ full = FALSE
  /\ sols = <<>> /\ nsols = 0
  /\ reported = <<>> /\ status = "solving"

Init == hashes \in Inputs /\ Idle

----------------------------------------------------------------------------
(* Rounds.                                                                 *)

\* A tree node: an index, or a bucket and two slots of it.
Leaf(i) == <<i, 0, 0>>
Slots   == 1 .. NSLOTS

\* The order in which nodes are made: bucket by bucket, each slot with those before
\* it, the nearest first.
Before(t, u) ==
  \/ t[1] < u[1]
  \/ t[1] = u[1] /\ (t[3] < u[3] \/ (t[3] = u[3] /\ t[2] > u[2]))

InOrder(nodes) ==
  [n \in 1 .. Cardinality(nodes) |->
     CHOOSE t \in nodes : Cardinality({u \in nodes : Before(u, t)}) = n - 1]

First(n, s) == SubSeq(s, 1, IF Len(s) < n THEN Len(s) ELSE n)

\* getslot0, getslot1: a node goes to the bucket of its hash's next digit; what does
\* not fit is dropped.
OfBucket(b, nodes, hash) == {t \in nodes : Bucket(hash[t][round + 1]) = b}

Store(nodes, hash) ==
  LET stored == [b \in Buckets |-> First(NSLOTS, InOrder(OfBucket(b, nodes, hash)))]
  IN /\ tree' = [tree EXCEPT ![round] = stored]
     /\ heap' = [b \in Buckets |-> [s \in DOMAIN stored[b] |-> hash[stored[b][s]]]]
     /\ full' = (full \/ \E b \in Buckets : Cardinality(OfBucket(b, nodes, hash)) > NSLOTS)

\* digit0
Digit0 ==
  /\ status = "solving" /\ round = 0
  /\ Store({Leaf(i) : i \in Leaves}, [t \in {Leaf(i) : i \in Leaves} |-> hashes[t[1]]])
  /\ round' = 1
  /\ UNCHANGED <<hashes, sols, nsols, reported, status>>

\* collisiondata: the slots of a bucket with the same rest bits.
Collisions ==
  {t \in Buckets \X Slots \X Slots :
     /\ t[2] < t[3] /\ t[3] \in DOMAIN heap[t[1]]
     /\ Rest(heap[t[1]][t[2]][round]) = Rest(heap[t[1]][t[3]][round])}

XorOf(t) == XorHash(heap[t[1]][t[2]], heap[t[1]][t[3]])

\* digit1 to digit8
Digit ==
  /\ status = "solving" /\ round \in 1 .. K - 1
  /\ LET kept == {t \in Collisions : ~TakenForRepeat(XorOf(t))}
     IN Store(kept, [t \in kept |-> XorOf(t)])
  /\ round' = round + 1
  /\ UNCHANGED <<hashes, sols, nsols, reported, status>>

\* prob_disjoint: nodes that share a child are not.
ProbDisjoint(t, u) == t[1] # u[1] \/ (t[2] # u[2] /\ t[3] # u[3])

\* orderindices
Ordered(a, c) == IF a[1] > c[1] THEN c \o a ELSE a \o c

\* listindices0 and listindices1: the leaves of a node of round r, and whether a
\* repeated one was noticed; nodes of even rounds are tested for shared children.
\* below holds the lists of the nodes of the round before.
ListIndices(r, t, below) ==
  LET a == below[t[1]][t[2]]
      c == below[t[1]][t[3]]
  IN [indices |-> Ordered(a.indices, c.indices),
      dup |-> \/ r % 2 = 0 /\ ~ProbDisjoint(tree[r - 1][t[1]][t[2]], tree[r - 1][t[1]][t[3]])
              \/ a.dup \/ c.dup \/ a.indices[1] = c.indices[1]]

Lists[r \in 0 .. K - 1] ==
  [b \in Buckets |-> [s \in DOMAIN tree[r][b] |->
     IF r = 0 THEN [indices |-> <<tree[r][b][s][1]>>, dup |-> FALSE]
     ELSE ListIndices(r, tree[r][b][s], Lists[r - 1])]]

\* Faulty variant: only what was noticed on the way is dropped.
GenuineUnsorted(l) == ~l.dup

\* candidate: no index occurs twice.
Genuine(l) == ~l.dup /\ IsInjective(l.indices)

\* digit9: of each collision the rest of the hash is compared.
DigitK ==
  /\ status = "solving" /\ round = K
  /\ LET hits   == {t \in Collisions : XorOf(t)[K + 1] = 0}
         list   == [t \in hits |-> ListIndices(K, t, Lists[K - 1])]
         proofs == InOrder({t \in hits : Genuine(list[t])})
     IN /\ nsols' = Len(proofs)
        /\ sols' = First(MAXSOLS, [n \in DOMAIN proofs |-> list[proofs[n]].indices])
  /\ round' = K + 1
  /\ status' = "reporting"
  /\ UNCHANGED <<hashes, heap, tree, full, reported>>

----------------------------------------------------------------------------
(* CPU_TROMP::solve.                                                       *)

\* cancelf is asked before each round and after each solution.
Cancel ==
  /\ status = "reporting" \/ (status = "solving" /\ round > 0)
  /\ status' = "cancelled"
  /\ UNCHANGED <<hashes, round, heap, tree, full, sols, nsols, reported>>

\* solutionf is called for all solutions found, whether they were stored or not.
Report ==
  /\ status = "reporting" /\ Len(reported) < nsols
  /\ LET n == Len(reported) + 1
     IN reported' = Append(reported, IF n <= MAXSOLS THEN sols[n] ELSE Unstored)
  /\ UNCHANGED <<hashes, round, heap, tree, full, sols, nsols, status>>

HashDone ==
  /\ status = "reporting" /\ Len(reported) = nsols
  /\ status' = "done"
  /\ UNCHANGED <<hashes, round, heap, tree, full, sols, nsols, reported>>

Next == Digit0 \/ Digit \/ DigitK \/ Cancel \/ Report \/ HashDone

Spec == Init /\ [][Next]_vars

----------------------------------------------------------------------------
(* Properties.                                                             *)

\* The state of a solve; no slot number is out of its bucket.
EquihashTypeOK ==
  /\ round \in 0 .. K + 1
  /\ \A b \in Buckets : Len(heap[b]) <= NSLOTS
  /\ \A r \in 1 .. K - 1, b \in Buckets : \A s \in DOMAIN tree[r][b] :
       LET t == tree[r][b][s] IN t[2] < t[3] /\ t[3] \in DOMAIN tree[r - 1][t[1]]
  /\ Len(sols) <= MAXSOLS /\ Len(sols) <= nsols /\ Len(reported) <= nsols
  /\ status \in {"solving", "reporting", "cancelled", "done"}

\* The pool's verifier accepts whatever the solver stores and reports, though the
\* two were written apart; what is found beyond MAXSOLS is not stored.
ReportedIsAccepted ==
  \A n \in DOMAIN reported : n <= MAXSOLS => IsValidSolution(reported[n])

\* "It ensures the miner finds all possible solutions": each solution of the
\* puzzle is found, if no bucket overflowed, it has room in sols, and no tree
\* within it is taken for a repeat because its last word happens to be zero.
FindsAll ==
  (round = K + 1 /\ ~full) =>
    \A t \in Solutions : t.repeat \/ t.indices \in Range(sols) \/ nsols > MAXSOLS
=============================================================================
