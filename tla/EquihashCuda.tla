---------------------------- MODULE EquihashCuda ----------------------------
(***************************************************************************)
(* Solves of the CUDA solver (cuda_tromp/equi_miner.cu), one after another   *)
(* on the memory of one device.                                            *)
(*                                                                         *)
(* The threads of a kernel take slots in any order, so a bucket is the set  *)
(* of what it holds, and of too many any that fit stay.  Kernels run one    *)
(* after another: host and device are never in the same memory together.    *)
(*                                                                         *)
(* The counters of heap 1 are cleared only by the round that reads them.    *)
(* What a cancelled solve leaves there the next one sorts with its own, as  *)
(* it does whatever the memory held when it was allocated.                  *)
(***************************************************************************)
EXTENDS EquihashVerifier, FiniteSetsExt, SequencesExt

CONSTANTS
  CudaNSLOTS, CudaMAXSOLS,   \* as those of the CPU solver
  CudaInputs,                \* the tables of hashes to be solved
  DeviceMemory,              \* what nslots[1] and heap1 may hold at first
  MaxSolves                  \* bound on the solves

CudaEmpty == [b \in Buckets |-> {}]

\* A slot: its hash, the lists of indices its tree may give (two halves with the
\* same first index stand as their slots do), and the oldest solve that what it
\* was made from belongs to.
SlotOf(hash, lists, from) == [hash |-> hash, lists |-> lists, from |-> from]

\* A heap that is not this solve's: any hashes, in trees that mean nothing (NHASHES is no
\* index).
OldHeap(from) == [Buckets -> SUBSET {SlotOf(h, {<<NHASHES, NHASHES>>}, from) : h \in Hashes}]

ASSUME CudaAssumption ==
  /\ K >= 3
  /\ CudaNSLOTS \in Nat \ {0} /\ CudaMAXSOLS \in Nat /\ MaxSolves \in Nat
  /\ CudaInputs \subseteq Tables
  /\ DeviceMemory \subseteq OldHeap(0)
  /\ \A m \in DeviceMemory, b \in Buckets : Cardinality(m[b]) <= CudaNSLOTS

VARIABLES
  solve,      \* the number of the solve
  digit,      \* the round to come; K + 1 when all are done
  table,      \* what the counted slots of heap 0 and heap 1 hold
  overflown,  \* whether a bucket overflowed in this solve
  nfound,     \* nsols
  solutions,  \* those stored
  calls,      \* what solutionf was called with
  state       \* "idle", "solving", "reporting", "cancelled" or "done"

cudaVars ==
  <<hashes, solve, digit, table, overflown, nfound, solutions, calls, state>>

CudaInit ==
  /\ solve = 0 /\ digit = 0
  /\ table \in {[h \in 0 .. 1 |-> IF h = 0 THEN CudaEmpty ELSE m] : m \in DeviceMemory}
  /\ overflown = FALSE
  /\ nfound = 0 /\ solutions = <<>>
  /\ calls = <<>> /\ state = "idle"

----------------------------------------------------------------------------
(* Kernels.                                                                *)

AtMost(n, S) == IF Cardinality(S) <= n THEN {S} ELSE kSubset(n, S)

\* The unions of one choice from each set of choices.
OneOfEach(choices) ==
  FoldSet(LAMBDA c, acc : {a \union o : a \in acc, o \in c}, {{}}, choices)

\* Round r has made slots and counts on with the counters of its heap: of those of
\* a bucket as many stay as there is room for.
Place(r, made, counted) ==
  LET own(b)  == {e \in made : Bucket(e.hash[r + 1]) = b}
      room(b) == CudaNSLOTS - Cardinality(counted[r % 2][b])
  IN /\ \E kept \in OneOfEach({AtMost(room(b), own(b)) : b \in Buckets}) :
          table' = [counted EXCEPT ![r % 2] = [b \in Buckets |-> @[b] \union (kept \intersect own(b))]]
     /\ overflown' = ((r > 0 /\ overflown) \/ \E b \in Buckets : Cardinality(own(b)) > room(b))
     /\ digit' = r + 1

\* What a solve reads of what was left in heap 1: the slots of a first round as they
\* are; those of a later one lie further on in the heap, and are read as anything.
LeftOver ==
  IF digit <= 2 \/ table[1] = CudaEmpty THEN {table[1]}
  ELSE {m \in OldHeap(solve) : \A b \in Buckets : Cardinality(m[b]) <= Cardinality(table[1][b])}

\* setheadernonce, digitH: the counters of heap 0 are cleared, no others.
Begin ==
  /\ state \in {"idle", "cancelled", "done"} /\ solve < MaxSolves
  /\ hashes' \in IF solve = 0 THEN {hashes} ELSE CudaInputs
  /\ solve' = solve + 1
  /\ \E left \in LeftOver :
       Place(0, {SlotOf(hashes'[i], {<<i>>}, solve') : i \in Leaves},
             [h \in 0 .. 1 |-> IF h = 0 THEN CudaEmpty ELSE left])
  /\ nfound' = 0 /\ solutions' = <<>> /\ calls' = <<>>
  /\ state' = "solving"

\* Faulty variant: the counters of heap 1 are not cleared.
CountedOnlyEven(r) == IF r % 2 = 0 THEN table ELSE [table EXCEPT ![1 - (r % 2)] = CudaEmpty]

\* getnslots0, getnslots1: the round that reads a heap clears its counters.
Counted(r) == [table EXCEPT ![1 - (r % 2)] = CudaEmpty]

\* orderindices
Joined(l, m) == {o \in {l \o m, m \o l} : o[1] <= o[Len(l) + 1]}

\* tree, listindices1 to listindices9.
Node(x, y) ==
  SlotOf(XorHash(x.hash, y.hash),
         UNION {Joined(l, m) : l \in x.lists, m \in y.lists},
         IF x.from < y.from THEN x.from ELSE y.from)

\* collisiondata: slots of a bucket with the same rest bits.
Pairs(r) ==
  UNION {{Node(p[1], p[2]) : p \in
            {q \in bucket \X bucket : q[1] # q[2] /\ Rest(q[1].hash[r]) = Rest(q[2].hash[r])}} :
         bucket \in Range(table[1 - (r % 2)])}

\* digit_1 to digit_8
DigitR ==
  /\ state = "solving" /\ digit < K
  /\ Place(digit, {n \in Pairs(digit) : ~TakenForRepeat(n.hash)}, Counted(digit))
  /\ UNCHANGED <<hashes, solve, nfound, solutions, calls, state>>

\* Faulty variant: indices of the same bin are taken for the same.
ProbDupeBins(l) == \E i, j \in DOMAIN l : i < j /\ l[i] % 2 ^ K = l[j] % 2 ^ K

\* probdupe: a repeat is seen unless another index of its bin comes between.
ProbDupe(l) ==
  \E i, j \in DOMAIN l :
    /\ i < j /\ l[i] = l[j]
    /\ \A n \in i + 1 .. j - 1 : l[n] % 2 ^ K # l[i] % 2 ^ K

\* candidate: what a hit adds to the solutions.  The leaves of what an older solve
\* left are read from this one's slots, and may be any.
Candidate(n) ==
  IF n.from = solve
    THEN {IF ProbDupe(l) THEN {} ELSE {[indices |-> l, own |-> TRUE]} : l \in n.lists}
    ELSE {{}, {[indices |-> CHOOSE l \in n.lists : TRUE, own |-> FALSE]}}

\* digit_9: hits compare the whole last digit; atomicAdd puts them in any order.
DigitLast ==
  /\ state = "solving" /\ digit = K
  /\ LET hits == {n \in Pairs(K) : n.hash[K + 1] = 0}
     IN \E proofs \in OneOfEach({Candidate(n) : n \in hits}) :
          /\ nfound' = Cardinality(proofs)
          /\ \E kept \in AtMost(CudaMAXSOLS, proofs) : solutions' = SetToSeq(kept)
  /\ table' = Counted(K)
  /\ digit' = K + 1
  /\ state' = "reporting"
  /\ UNCHANGED <<hashes, solve, overflown, calls>>

----------------------------------------------------------------------------
(* eq_cuda_context::solve, after the kernels are launched.                 *)

\* cancelf is asked after each kernel but the last, and after each solution.
CudaCancel ==
  /\ state = "solving" \/ (state = "reporting" /\ calls # <<>>)
  /\ state' = "cancelled"
  /\ UNCHANGED <<hashes, solve, digit, table, overflown, nfound, solutions, calls>>

\* Here what was not stored is not reported.
ToReport == Len(calls) < nfound /\ Len(calls) < CudaMAXSOLS

CudaReport ==
  /\ state = "reporting" /\ ToReport
  /\ calls' = Append(calls, solutions[Len(calls) + 1])
  /\ UNCHANGED <<hashes, solve, digit, table, overflown, nfound, solutions, state>>

CudaHashDone ==
  /\ state = "reporting" /\ ~ToReport
  /\ state' = "done"
  /\ UNCHANGED <<hashes, solve, digit, table, overflown, nfound, solutions, calls>>

CudaNext == Begin \/ DigitR \/ DigitLast \/ CudaCancel \/ CudaReport \/ CudaHashDone

CudaSpec == CudaInit /\ hashes \in CudaInputs /\ [][CudaNext]_cudaVars

----------------------------------------------------------------------------
(* Properties.                                                             *)

\* The state of the device; a solve that runs to its end leaves no slot counted, so
\* that whatever was left before it is gone.
CudaTypeOK ==
  /\ solve \in 0 .. MaxSolves /\ digit \in 0 .. K + 1
  /\ \A h \in 0 .. 1, b \in Buckets : Cardinality(table[h][b]) <= CudaNSLOTS
  /\ Len(calls) <= Len(solutions) /\ Len(solutions) <= nfound
  /\ state \in {"idle", "solving", "reporting", "cancelled", "done"}
  /\ state \in {"reporting", "done"} => \A h \in 0 .. 1 : table[h] = CudaEmpty

\* The pool's verifier accepts what is made of this solve's hashes only, unless a
\* repeated index went unseen: "allow false negatives".
CudaReportedIsAccepted ==
  \A n \in DOMAIN calls :
    calls[n].own /\ IsInjective(calls[n].indices) => IsValidSolution(calls[n].indices)

\* Each solution of the puzzle is found, whatever was left by a solve cancelled
\* before, unless that left too little room: no bucket overflows, there is room in
\* sols, and no tree is taken for a repeat because its last word is zero.
CudaFindsAll ==
  (digit = K + 1 /\ ~overflown /\ nfound <= CudaMAXSOLS) =>
    \A t \in Solutions : t.repeat \/ \E n \in DOMAIN solutions : solutions[n].indices = t.indices
=============================================================================
