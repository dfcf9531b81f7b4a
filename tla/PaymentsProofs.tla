--------------------------- MODULE PaymentsProofs ---------------------------
(***************************************************************************)
(* What the payment processor guarantees for every set of workers, blocks, *)
(* heights and overlapping runs, every reward and every number of faults.  *)
(*                                                                         *)
(* The invariants come in layers: BooksInv holds whatever happens, the     *)
(* others as long as the events their names go with have not happened.     *)
(***************************************************************************)
EXTENDS Payments, SumTheorems

----------------------------------------------------------------------------
(* Division rounds down, for amounts and for what is withheld.             *)

LEMMA DivFloor ==
  ASSUME NEW a \in Int, NEW p \in Nat \ {0}
  PROVE  a \div p \in Int /\ p * (a \div p) <= a
BY SMT

LEMMA DivNat ==
  ASSUME NEW a \in Nat, NEW p \in Nat \ {0}
  PROVE  a \div p \in Nat
BY SMT

LEMMA DivExact ==
  ASSUME NEW a \in Int, NEW p \in Nat \ {0}
  PROVE  (a * p) \div p = a
BY SMT

LEMMA DivPart ==
  ASSUME NEW a \in Nat, NEW p \in Nat \ {0}, NEW k \in 0 .. p
  PROVE  (a * (p - k)) \div p <= a
BY SMT

LEMMA CancelFactor ==
  ASSUME NEW a \in Int, NEW b \in Int, NEW p \in Nat \ {0}, p * a <= p * b
  PROVE  a <= b
BY SMT

----------------------------------------------------------------------------
(* Tallies and the amounts computed from them.                             *)

Tally == [Workers -> Nat]
Money == [Workers -> Int]

LEMMA TotalNat == ASSUME NEW t \in Tally PROVE Total(t) \in Nat
BY PaymentsAssumption, SumNat DEF Total, Tally

LEMMA RoundRewardNat ==
  ASSUME NEW t \in Tally, NEW w \in Workers
  PROVE  RoundReward(t, w) \in Nat
<1>1. Total(t) \in Nat  BY TotalNat
<1>2. BlockReward * t[w] \in Nat  BY PaymentsAssumption DEF Tally
<1>3. CASE Total(t) = 0
  BY <1>3 DEF RoundReward
<1>4. CASE Total(t) # 0
  BY <1>1, <1>2, <1>4, DivNat DEF RoundReward
<1> QED BY <1>3, <1>4

\* The workers' parts of a round, each rounded down, are no more than the
\* block's reward.
LEMMA RoundWithinReward ==
  ASSUME NEW t \in Tally
  PROVE  SumOn([w \in Workers |-> RoundReward(t, w)], Workers) <= BlockReward
<1> DEFINE part == [w \in Workers |-> RoundReward(t, w)]
           T == Total(t)
           scaled == [w \in Workers |-> T * part[w]]
           shares == [w \in Workers |-> BlockReward * t[w]]
<1>1. T \in Nat /\ BlockReward \in Nat /\ IsFiniteSet(Workers)
  BY TotalNat, PaymentsAssumption
<1>2. \A w \in Workers : part[w] \in Nat  BY RoundRewardNat
<1>3. SumOn(part, Workers) \in Nat
  <2> HIDE DEF part
  <2> QED BY <1>1, <1>2, SumNat
<1>4. CASE T = 0
  <2>1. \A w \in Workers : part[w] = 0  BY <1>4 DEF RoundReward
  <2> HIDE DEF part
  <2>2. SumOn(part, Workers) = 0  BY <1>1, <2>1, SumZero
  <2> QED BY <1>1, <2>2 DEF part
<1>5. CASE T # 0
  <2>1. ASSUME NEW w \in Workers
        PROVE  scaled[w] \in Int /\ shares[w] \in Int /\ scaled[w] <= shares[w]
    <3>1. part[w] = (BlockReward * t[w]) \div T  BY <1>5 DEF RoundReward
    <3>2. BlockReward * t[w] \in Int  BY <1>1 DEF Tally
    <3> HIDE DEF part, T
    <3>3. T * part[w] \in Int  BY <1>1, <1>2
    <3> QED BY <1>1, <1>5, <3>1, <3>2, <3>3, DivFloor
  <2>2. SumOn(scaled, Workers) <= SumOn(shares, Workers)
    <3> HIDE DEF scaled, shares
    <3> QED BY <1>1, <2>1, SumMonotone
  <2>3. SumOn(scaled, Workers) = T * SumOn(part, Workers)
    <3>1. \A w \in Workers : part[w] \in Int /\ scaled[w] = T * part[w]  BY <1>2
    <3> HIDE DEF scaled, part, T
    <3> QED BY <1>1, <3>1, SumScale
  <2>4. SumOn(shares, Workers) = BlockReward * T
    <3>1. \A w \in Workers : t[w] \in Int /\ shares[w] = BlockReward * t[w]  BY DEF Tally
    <3> HIDE DEF shares
    <3> QED BY <1>1, <3>1, SumScale DEF Total
  <2> HIDE DEF part, T, scaled, shares
  <2>5. T * SumOn(part, Workers) <= T * BlockReward  BY <1>1, <2>2, <2>3, <2>4
  <2>6. SumOn(part, Workers) <= BlockReward  BY <1>1, <1>3, <1>5, <2>5, CancelFactor
  <2> QED BY <2>6 DEF part
<1> QED BY <1>4, <1>5

----------------------------------------------------------------------------
(* What a run holds, by how far it has got.                                *)

Looking  == [pc : {"details"}, balance : Money, blocks : SUBSET Blocks]
Counting == [pc : {"shares"}, balance : Money, blocks : SUBSET Blocks,
             generate : SUBSET Blocks, orphan : SUBSET Blocks, merge : SUBSET Blocks]
Merges   == UNION {[S -> Tally] : S \in SUBSET Blocks}
Paying   == [pc : {"send", "update"}, balance : Money, blocks : SUBSET Blocks,
             generate : SUBSET Blocks, orphan : SUBSET Blocks, withhold : 0 .. (Parts - 1),
             merge : Merges, reward : Tally]

RunType == {Idle} \union Looking \union Counting \union Paying

\* The pc tells the kind of record.
LEMMA RunKinds ==
  ASSUME NEW run \in RunType
  PROVE  /\ run.pc = "idle" <=> run = Idle
         /\ run.pc = "details" <=> run \in Looking
         /\ run.pc = "shares" <=> run \in Counting
         /\ run.pc \in {"send", "update"} <=> run \in Paying
         /\ run.pc \in {"idle", "details", "shares", "send", "update"}
BY DEF RunType, Idle, Looking, Counting, Paying

LEMMA MergesFun ==
  ASSUME NEW m \in Merges
  PROVE  /\ DOMAIN m \in SUBSET Blocks
         /\ m \in [DOMAIN m -> Tally]
BY DEF Merges

\* What is due to a worker, what is sent of it and what the balance changes by.
LEMMA Amounts ==
  ASSUME NEW run \in Paying, NEW w \in Workers
  PROVE  /\ run.balance[w] \in Int /\ run.reward[w] \in Nat
         /\ ToSend(run, w) \in Int
         /\ Sent(run, w) \in Nat
         /\ BalanceChange(run, w) \in Int
<1>1. run.balance[w] \in Int /\ run.reward[w] \in Nat /\ run.withhold \in Int
  BY PaymentsAssumption DEF Paying, Money, Tally
<1>2. ToSend(run, w) \in Int
  <2>1. (run.balance[w] + run.reward[w]) * (Parts - run.withhold) \in Int
    BY <1>1, PaymentsAssumption
  <2> QED BY <2>1, PaymentsAssumption, DivFloor DEF ToSend
<1>3. Sent(run, w) \in Nat  BY <1>2, PaymentsAssumption DEF Sent
<1>4. BalanceChange(run, w) \in Int
  BY <1>1, <1>2 DEF BalanceChange, Smaller, Larger
<1> QED BY <1>1, <1>2, <1>3, <1>4

----------------------------------------------------------------------------
(* The books: whatever happens, what redis and the runs hold is typed, a   *)
(* run only settles blocks it has looked up, the ones it pays for are      *)
(* mature and the ones it merges are orphans, alone at their height.       *)

SameHeight(b, c) == HeightOf[b] = HeightOf[c]

Merging(run) == IF run.pc = "shares" THEN run.merge ELSE DOMAIN run.merge

RunBooks(run, st) ==
  /\ run.pc # "idle" => \A b \in run.blocks : st[b] # "none"
  /\ run.pc \in {"shares", "send", "update"} =>
       /\ run.generate \subseteq run.blocks /\ run.orphan \subseteq run.blocks
       /\ \A b \in run.generate : st[b] = "generate"
       /\ \A b \in run.orphan : st[b] = "orphan"
       /\ Merging(run) \subseteq run.orphan
       /\ \A b \in Merging(run), c \in run.blocks :
            c # b /\ SameHeight(b, c) => st[c] = "orphan"

BooksInv ==
  /\ PaymentsTypeOK
  /\ recorded \in Nat
  /\ runs \in [Runs -> RunType]
  /\ \A b \in pending \union confirmed : status[b] # "none"
  /\ \A b, c \in Blocks :
       status[b] = "generate" /\ status[c] = "generate" /\ SameHeight(b, c) => b = c
  /\ \A r \in Runs : RunBooks(runs[r], status)

LEMMA BooksInit == Init => BooksInv
<1> SUFFICES ASSUME Init PROVE BooksInv
  OBVIOUS
<1>1. PaymentsTypeOK  BY DEF Init, PaymentsTypeOK, None, Statuses
<1>2. Idle \in RunType /\ Idle.pc = "idle"  BY DEF RunType, Idle
<1>3. \A r \in Runs : RunBooks(runs[r], status)
  <2> SUFFICES ASSUME NEW r \in Runs PROVE RunBooks(runs[r], status)
    OBVIOUS
  <2>1. runs[r].pc = "idle"  BY <1>2 DEF Init
  <2> QED BY <2>1 DEF RunBooks
<1> QED BY <1>1, <1>2, <1>3 DEF Init, BooksInv

\* A block once found stays found, once decided stays decided.
StatusMoves ==
  \A b \in Blocks : /\ status[b] # "none" => status'[b] # "none"
                    /\ status[b] \in {"generate", "orphan"} => status'[b] = status[b]

LEMMA RunBooksKept ==
  ASSUME PaymentsTypeOK, StatusMoves, NEW run \in RunType, RunBooks(run, status)
  PROVE  RunBooks(run, status')
<1>1. run.pc # "idle" => run.blocks \subseteq Blocks
  BY RunKinds DEF RunType, Looking, Counting, Paying, Idle
<1>2. CASE run.pc \in {"shares", "send", "update"}
  <2>1. \A b \in run.blocks : status'[b] # "none"  BY <1>1, <1>2 DEF RunBooks, StatusMoves
  <2>2. \A b \in run.blocks : status[b] = "generate" => status'[b] = "generate"
    BY <1>1, <1>2 DEF StatusMoves
  <2>3. \A b \in run.blocks : status[b] = "orphan" => status'[b] = "orphan"
    BY <1>1, <1>2 DEF StatusMoves
  <2> QED BY <1>2, <2>1, <2>2, <2>3 DEF RunBooks
<1>3. CASE run.pc \notin {"shares", "send", "update"}
  BY <1>1, <1>3 DEF RunBooks, StatusMoves
<1> QED BY <1>2, <1>3

\* A step that replaces the record of one run.
LEMMA OneRunBooks ==
  ASSUME BooksInv, UNCHANGED status, NEW r \in Runs, NEW X \in RunType,
         runs' = [runs EXCEPT ![r] = X], RunBooks(X, status)
  PROVE  /\ runs' \in [Runs -> RunType]
         /\ \A q \in Runs : RunBooks(runs'[q], status')
<1>1. \A q \in Runs : runs'[q] = IF q = r THEN X ELSE runs[q]
  BY DEF BooksInv
<1>2. runs' \in [Runs -> RunType]  BY DEF BooksInv
<1> QED BY <1>1, <1>2 DEF BooksInv

LEMMA IdleBooks == Idle \in RunType /\ Idle.pc = "idle" /\ \A st : RunBooks(Idle, st)
BY DEF RunType, Idle, RunBooks

----------------------------------------------------------------------------
(* One lemma per step that changes the books.                              *)

LEMMA RestartBooks ==
  ASSUME BooksInv, Restart
  PROVE  BooksInv'
<1>1. \A r \in Runs : runs'[r] = Idle  BY DEF Restart
<1>2. runs' \in [Runs -> RunType]  BY IdleBooks DEF Restart
<1>3. \A r \in Runs : RunBooks(runs'[r], status')  BY <1>1, IdleBooks
<1> QED BY <1>2, <1>3 DEF BooksInv, Restart, PaymentsTypeOK, redisVars,
                                        lossVars

LEMMA FindBlockBooks ==
  ASSUME BooksInv, FindBlock
  PROVE  BooksInv' /\ StatusMoves
<1> PICK b \in Blocks, w \in Workers, d \in Difficulties :
      /\ recorded' = recorded + d
      /\ status[b] = "none"
      /\ status' = [status EXCEPT ![b] = "immature"]
      /\ rounds' = [rounds EXCEPT ![HeightOf[b]] = [round EXCEPT ![w] = @ + d]]
      /\ due' = [due EXCEPT ![b] = [round EXCEPT ![w] = @ + d]]
      /\ pending' = pending \union {b}
  BY DEF FindBlock, Recorded
<1>0. d \in Nat  BY PaymentsAssumption
<1>1. [round EXCEPT ![w] = @ + d] \in [Workers -> Nat]
  BY <1>0 DEF BooksInv, PaymentsTypeOK
<1>2. b \notin confirmed /\ b \notin pending  BY DEF BooksInv, PaymentsTypeOK
<1>3. StatusMoves  BY DEF StatusMoves, BooksInv, PaymentsTypeOK
<1>4. PaymentsTypeOK'
  <2>1. status' \in [Blocks -> Statuses]  BY DEF BooksInv, PaymentsTypeOK, Statuses
  <2>2. round' \in [Workers -> Nat]  BY DEF FindBlock, None
  <2>3. rounds' \in [Heights -> [Workers -> Nat]] /\ due' \in [Blocks -> [Workers -> Nat]]
    BY <1>1 DEF BooksInv, PaymentsTypeOK
  <2>4. UNCHANGED <<confirmed, balances, paid, displaced, unmerged>>
    BY DEF FindBlock, lossVars
  <2>5. pending' \subseteq Blocks /\ confirmed' \subseteq Blocks \ pending'
    BY <1>2, <2>4 DEF BooksInv, PaymentsTypeOK
  <2>6. \A c \in confirmed' : status'[c] = "generate"
    BY <1>2, <2>4 DEF BooksInv, PaymentsTypeOK
  <2> QED BY <2>1, <2>2, <2>3, <2>4, <2>5, <2>6 DEF BooksInv, PaymentsTypeOK
<1>5. UNCHANGED runs  BY DEF FindBlock, procVars
<1>6. \A r \in Runs : RunBooks(runs'[r], status')
  BY <1>3, <1>5, RunBooksKept DEF BooksInv
<1>7. recorded' \in Nat  BY <1>0 DEF BooksInv
<1>8. \A c \in pending' \union confirmed' : status'[c] # "none"
  BY <1>2 DEF FindBlock, BooksInv, PaymentsTypeOK
<1>9. \A c \in Blocks : status'[c] = "generate" => status[c] = "generate"
  BY DEF BooksInv, PaymentsTypeOK
<1> QED BY <1>3, <1>4, <1>5, <1>6, <1>7, <1>8, <1>9 DEF BooksInv

LEMMA DecideBooks ==
  ASSUME BooksInv, Decide
  PROVE  BooksInv' /\ StatusMoves
<1>1. StatusMoves  BY DEF Decide, StatusMoves, BooksInv, PaymentsTypeOK
<1>2. UNCHANGED <<round, rounds, pending, confirmed, balances, paid, due, recorded, runs,
                  displaced, unmerged>>
  BY DEF Decide, redisVars, procVars, lossVars
<1>3. status' \in [Blocks -> Statuses]  BY DEF Decide, BooksInv, PaymentsTypeOK, Statuses
<1>4. PaymentsTypeOK'
  <2>1. \A c \in confirmed' : status'[c] = "generate"
    BY <1>1, <1>2 DEF BooksInv, PaymentsTypeOK, StatusMoves
  <2> QED BY <1>2, <1>3, <2>1 DEF BooksInv, PaymentsTypeOK
<1>5. \A r \in Runs : RunBooks(runs'[r], status')
  BY <1>1, <1>2, RunBooksKept DEF BooksInv
<1>6. \A c \in pending' \union confirmed' : status'[c] # "none"
  BY <1>1, <1>2 DEF BooksInv, PaymentsTypeOK, StatusMoves
<1>7. \A b, c \in Blocks :
        status'[b] = "generate" /\ status'[c] = "generate" /\ SameHeight(b, c) => b = c
  BY DEF Decide, BooksInv, PaymentsTypeOK, SameHeight
<1> QED BY <1>1, <1>2, <1>4, <1>5, <1>6, <1>7 DEF BooksInv

\* What the steps of a run make of its record.
Looked(run) ==
  [pc |-> "shares", balance |-> run.balance, blocks |-> run.blocks,
   generate |-> Generated(run.blocks), orphan |-> {b \in run.blocks : status[b] = "orphan"},
   merge |-> {b \in {c \in run.blocks : status[c] = "orphan"} : CanDeleteShares(b, run.blocks)}]

Reward(run, w) ==
  SumOn([b \in run.generate |-> RoundReward(rounds[HeightOf[b]], w)], run.generate)

Counted(run) ==
  [pc |-> "send", balance |-> run.balance, blocks |-> run.blocks,
   generate |-> run.generate, orphan |-> run.orphan, withhold |-> 0,
   merge |-> [b \in run.merge |-> rounds[HeightOf[b]]],
   reward |-> [w \in Workers |-> Reward(run, w)]]

LEMMA StartRunBooks ==
  ASSUME BooksInv, NEW r \in Runs, StartRun(r)
  PROVE  BooksInv'
<1> DEFINE X == [pc |-> "details", balance |-> balances, blocks |-> pending]
<1>1. X \in RunType  BY DEF BooksInv, PaymentsTypeOK, RunType, Looking, Money
<1>2. RunBooks(X, status)  BY DEF RunBooks, BooksInv
<1>3. runs' = [runs EXCEPT ![r] = X]  BY DEF StartRun
<1>4. UNCHANGED <<redisVars, status, paid, recorded, due, lossVars>>  BY DEF StartRun
<1> HIDE DEF X
<1>5. runs' \in [Runs -> RunType] /\ \A q \in Runs : RunBooks(runs'[q], status')
  BY <1>1, <1>2, <1>3, <1>4, OneRunBooks
<1> QED BY <1>4, <1>5 DEF BooksInv, PaymentsTypeOK, redisVars, lossVars

LEMMA GetDetailsRun ==
  ASSUME BooksInv, NEW r \in Runs, GetDetails(r)
  PROVE  /\ runs[r] \in Looking /\ Looked(runs[r]) \in Counting
         /\ runs' = [runs EXCEPT ![r] = Looked(runs[r])]
<1>1. runs[r] \in Looking  BY RunKinds DEF BooksInv, GetDetails
<1>2. runs' = [runs EXCEPT ![r] = Looked(runs[r])]  BY DEF GetDetails, Looked
<1>3. Looked(runs[r]) \in Counting  BY <1>1 DEF Looked, Looking, Counting, Generated
<1> QED BY <1>1, <1>2, <1>3

LEMMA GetDetailsBooks ==
  ASSUME BooksInv, NEW r \in Runs, GetDetails(r)
  PROVE  BooksInv'
<1> DEFINE X == Looked(runs[r])
<1>1. runs[r] \in Looking /\ X \in Counting /\ runs' = [runs EXCEPT ![r] = X]
  BY GetDetailsRun
<1>2. X \in RunType  BY <1>1 DEF RunType
<1>3. RunBooks(X, status)
  <2>1. RunBooks(runs[r], status) /\ runs[r].pc = "details"  BY <1>1 DEF BooksInv, Looking
  <2>2. \A b \in runs[r].blocks : status[b] # "none"  BY <2>1 DEF RunBooks
  <2>3. /\ X.pc = "shares" /\ X.blocks = runs[r].blocks
        /\ X.generate = {b \in runs[r].blocks : status[b] = "generate"}
        /\ X.orphan = {b \in runs[r].blocks : status[b] = "orphan"}
        /\ X.merge = {b \in X.orphan : CanDeleteShares(b, runs[r].blocks)}
    BY DEF Looked, Generated
  <2>4. Merging(X) = X.merge  BY <2>3 DEF Merging
  <2>5. \A b \in X.merge, c \in X.blocks : c # b /\ SameHeight(b, c) => status[c] = "orphan"
    BY <2>3 DEF CanDeleteShares, SameHeight
  <2> HIDE DEF X
  <2> QED BY <2>2, <2>3, <2>4, <2>5 DEF RunBooks
<1>4. UNCHANGED <<redisVars, status, paid, recorded, due, lossVars>>  BY DEF GetDetails
<1> HIDE DEF X
<1>5. runs' \in [Runs -> RunType] /\ \A q \in Runs : RunBooks(runs'[q], status')
  BY <1>1, <1>2, <1>3, <1>4, OneRunBooks
<1> QED BY <1>4, <1>5 DEF BooksInv, PaymentsTypeOK, redisVars, lossVars

LEMMA GetSharesRun ==
  ASSUME BooksInv, NEW r \in Runs, GetShares(r)
  PROVE  /\ runs[r] \in Counting /\ Counted(runs[r]) \in Paying
         /\ runs' = [runs EXCEPT ![r] = Counted(runs[r])]
<1>1. runs[r] \in Counting  BY RunKinds DEF BooksInv, GetShares
<1>2. runs' = [runs EXCEPT ![r] = Counted(runs[r])]  BY DEF GetShares, Counted, Reward
<1>3. Counted(runs[r]) \in Paying
  <2> DEFINE run == runs[r]
  <2>1. \A b \in Blocks : rounds[HeightOf[b]] \in Tally
    BY DEF BooksInv, PaymentsTypeOK, Heights, Tally
  <2>2. run.merge \in SUBSET Blocks /\ run.generate \in SUBSET Blocks
    BY <1>1 DEF Counting
  <2>3. [b \in run.merge |-> rounds[HeightOf[b]]] \in Merges
    BY <2>1, <2>2 DEF Merges
  <2>4. ASSUME NEW w \in Workers PROVE Reward(run, w) \in Nat
    <3> DEFINE f == [b \in run.generate |-> RoundReward(rounds[HeightOf[b]], w)]
    <3>1. IsFiniteSet(run.generate)  BY <2>2, PaymentsAssumption, FS_Subset
    <3>2. \A b \in run.generate : f[b] \in Nat  BY <2>1, <2>2, RoundRewardNat
    <3> HIDE DEF f
    <3>3. SumOn(f, run.generate) \in Nat  BY <3>1, <3>2, SumNat
    <3> QED BY <3>3 DEF f, Reward
  <2>5. [w \in Workers |-> Reward(run, w)] \in Tally  BY <2>4 DEF Tally
  <2>6. 0 \in 0 .. (Parts - 1)  BY PaymentsAssumption
  <2> QED BY <1>1, <2>3, <2>5, <2>6 DEF Counted, Counting, Paying
<1> QED BY <1>1, <1>2, <1>3

LEMMA GetSharesBooks ==
  ASSUME BooksInv, NEW r \in Runs, GetShares(r)
  PROVE  BooksInv'
<1> DEFINE X == Counted(runs[r])
<1>1. runs[r] \in Counting /\ X \in Paying /\ runs' = [runs EXCEPT ![r] = X]
  BY GetSharesRun
<1>2. X \in RunType  BY <1>1 DEF RunType
<1>3. RunBooks(X, status)
  <2>1. RunBooks(runs[r], status) /\ runs[r].pc = "shares"  BY <1>1 DEF BooksInv, Counting
  <2>2. /\ X.pc = "send" /\ X.blocks = runs[r].blocks /\ X.generate = runs[r].generate
        /\ X.orphan = runs[r].orphan /\ DOMAIN X.merge = runs[r].merge
    BY DEF Counted
  <2>3. Merging(X) = Merging(runs[r])  BY <2>1, <2>2 DEF Merging
  <2> HIDE DEF X
  <2> QED BY <2>1, <2>2, <2>3 DEF RunBooks
<1>4. UNCHANGED <<redisVars, status, paid, recorded, due, lossVars>>  BY DEF GetShares
<1> HIDE DEF X
<1>5. runs' \in [Runs -> RunType] /\ \A q \in Runs : RunBooks(runs'[q], status')
  BY <1>1, <1>2, <1>3, <1>4, OneRunBooks
<1> QED BY <1>4, <1>5 DEF BooksInv, PaymentsTypeOK, redisVars, lossVars

LEMMA AbortBooks ==
  ASSUME BooksInv, NEW r \in Runs, Abort(r)
  PROVE  BooksInv'
<1>1. runs' = [runs EXCEPT ![r] = Idle]  BY DEF Abort, Finish
<1>2. UNCHANGED <<redisVars, status, paid, recorded, due, lossVars>>  BY DEF Abort
<1>3. runs' \in [Runs -> RunType] /\ \A q \in Runs : RunBooks(runs'[q], status')
  BY <1>1, <1>2, IdleBooks, OneRunBooks
<1> QED BY <1>2, <1>3 DEF BooksInv, PaymentsTypeOK, redisVars, lossVars

Sending(run)  == [run EXCEPT !.pc = "update"]
Withheld(run) == [run EXCEPT !.withhold = @ + 1]

\* The wallet sends to some; the others it owes are displaced, or nobody knows.
PaysSome(run) ==
  \A w \in Workers : paid'[w] \in {paid[w], paid[w] + Sent(run, w)}

PaidBy(run) ==
  /\ PaysSome(run)
  /\ \A w \in Workers : paid'[w] + displaced'[w] = paid[w] + displaced[w] + Sent(run, w)

\* The ways a run's payment can go.
LEMMA SendRun ==
  ASSUME BooksInv, NEW r \in Runs, Send(r)
  PROVE  /\ runs[r] \in Paying /\ runs[r].pc = "send"
         /\ UNCHANGED <<round, rounds, pending, confirmed, balances, status, interval,
                        recorded, due, unmerged>>
         /\ events \subseteq events'
         /\ paid' \in [Workers -> Nat] /\ displaced' \in [Workers -> Nat]
         /\ \/ /\ runs' = [runs EXCEPT ![r] = Sending(runs[r])]
               /\ PaidBy(runs[r])
            \/ /\ runs' = [runs EXCEPT ![r] = Idle]
               /\ PaysSome(runs[r]) /\ UNCHANGED displaced
               /\ "lostReply" \in events'
            \/ /\ runs' = [runs EXCEPT ![r] = Idle]
               /\ UNCHANGED <<paid, displaced>>
            \/ /\ runs' = [runs EXCEPT ![r] = Withheld(runs[r])]
               /\ runs[r].withhold + 1 < Parts
               /\ UNCHANGED <<paid, displaced>>
               /\ "withheld" \in events'
<1> DEFINE run == runs[r]
<1>1. run \in Paying /\ run.pc = "send"  BY RunKinds DEF BooksInv, Send
<1>2. UNCHANGED <<round, rounds, pending, confirmed, balances, status, interval,
                  recorded, due, unmerged>>
  BY DEF Send, redisVars
<1>3. /\ paid \in [Workers -> Nat] /\ displaced \in [Workers -> Nat]
      /\ \A w \in Workers : Sent(run, w) \in Nat
  BY <1>1, Amounts DEF BooksInv, PaymentsTypeOK
<1>4. ASSUME NEW last, Sends(run, last)
      PROVE  PaysSome(run) /\ paid' \in [Workers -> Nat]
  <2> HIDE DEF run
  <2> QED BY <1>3, <1>4 DEF Sends, PaysSome
<1>5. ASSUME NEW last, Sends(run, last), Displaces(run, last)
      PROVE  PaidBy(run) /\ displaced' \in [Workers -> Nat]
  <2>1. PaysSome(run)  BY <1>4, <1>5
  <2> HIDE DEF run
  <2>2. displaced' \in [Workers -> Nat]  BY <1>3, <1>5 DEF Displaces
  <2>3. ASSUME NEW w \in Workers
        PROVE  paid'[w] + displaced'[w] = paid[w] + displaced[w] + Sent(run, w)
    <3>1. paid[w] \in Nat /\ displaced[w] \in Nat /\ Sent(run, w) \in Nat  BY <1>3
    <3>2. CASE w \in last
      <4>1. paid'[w] = paid[w] + Sent(run, w) /\ displaced'[w] = displaced[w]
        BY <1>5, <3>2 DEF Sends, Displaces
      <4> QED BY <3>1, <4>1
    <3>3. CASE w \notin last
      <4>1. paid'[w] = paid[w] /\ displaced'[w] = displaced[w] + Sent(run, w)
        BY <1>5, <3>3 DEF Sends, Displaces
      <4> QED BY <3>1, <4>1
    <3> QED BY <3>2, <3>3
  <2> QED BY <2>1, <2>2, <2>3 DEF PaidBy
<1>6. CASE SkipSend(r)
  <2>1. UNCHANGED <<paid, displaced, events>> /\ runs' = [runs EXCEPT ![r] = Sending(run)]
    BY <1>1, <1>6 DEF SkipSend, Sending
  <2>2. \A w \in Workers : Sent(run, w) = 0
    BY <1>3, <1>6 DEF SkipSend, Payees
  <2> HIDE DEF run
  <2>3. PaidBy(run)  BY <1>3, <2>1, <2>2 DEF PaidBy, PaysSome
  <2> QED BY <1>1, <1>2, <1>3, <2>1, <2>3 DEF run
<1>7. CASE SendMany(r)
  <2>1. CASE /\ \E last \in LastOfAddresses(run) : Sends(run, last) /\ Displaces(run, last)
             /\ runs' = [runs EXCEPT ![r].pc = "update"]
             /\ UNCHANGED <<events, faults>>
    <3>1. /\ PaidBy(run)
          /\ paid' \in [Workers -> Nat] /\ displaced' \in [Workers -> Nat]
      BY <1>4, <1>5, <2>1
    <3>2. runs' = [runs EXCEPT ![r] = Sending(run)]  BY <2>1 DEF Sending
    <3> QED BY <1>1, <1>2, <2>1, <3>1, <3>2
  <2>2. CASE /\ Fault("lostReply")
             /\ \E last \in LastOfAddresses(run) : Sends(run, last)
             /\ Finish(r)
             /\ UNCHANGED displaced
    <3>1. PaysSome(run) /\ paid' \in [Workers -> Nat]  BY <1>4, <2>2
    <3> QED BY <1>1, <1>2, <1>3, <2>2, <3>1 DEF Fault, Finish
  <2>3. CASE Fault("refused") /\ Finish(r) /\ UNCHANGED <<paid, displaced>>
    BY <1>1, <1>2, <1>3, <2>3 DEF Fault, Finish
  <2>4. CASE /\ run.withhold + 1 < Parts
             /\ Fault("withheld")
             /\ runs' = [runs EXCEPT ![r].withhold = @ + 1]
             /\ UNCHANGED <<paid, displaced>>
    <3>1. runs' = [runs EXCEPT ![r] = Withheld(run)]  BY <2>4 DEF Withheld
    <3> QED BY <1>1, <1>2, <1>3, <2>4, <3>1 DEF Fault
  <2> QED BY <1>7, <2>1, <2>2, <2>3, <2>4 DEF SendMany
<1> QED BY <1>6, <1>7 DEF Send

LEMMA PayingKept ==
  ASSUME NEW run \in Paying
  PROVE  /\ Sending(run) \in Paying
         /\ run.withhold + 1 < Parts => Withheld(run) \in Paying
BY PaymentsAssumption DEF Paying, Sending, Withheld

LEMMA SendBooks ==
  ASSUME BooksInv, NEW r \in Runs, Send(r)
  PROVE  BooksInv'
<1> DEFINE run == runs[r]
<1>1. /\ run \in Paying /\ run.pc = "send" /\ RunBooks(run, status)
      /\ UNCHANGED <<round, rounds, pending, confirmed, balances, status, interval,
                     recorded, due, unmerged>>
  BY SendRun DEF BooksInv
<1>3. paid' \in [Workers -> Nat] /\ displaced' \in [Workers -> Nat]
  BY SendRun
<1>4. Sending(run) \in RunType /\ RunBooks(Sending(run), status)
  <2>1. Sending(run) \in RunType  BY <1>1, PayingKept DEF RunType
  <2> DEFINE X == Sending(run)
  <2>2. /\ X.pc = "update" /\ X.blocks = run.blocks /\ X.generate = run.generate
        /\ X.orphan = run.orphan /\ X.merge = run.merge
    BY <1>1 DEF Sending, Paying
  <2>3. Merging(X) = Merging(run)  BY <1>1, <2>2 DEF Merging
  <2> HIDE DEF X, run
  <2>4. RunBooks(X, status)  BY <1>1, <2>2, <2>3 DEF RunBooks
  <2> QED BY <2>1, <2>4 DEF X
<1>5. ASSUME run.withhold + 1 < Parts
      PROVE  Withheld(run) \in RunType /\ RunBooks(Withheld(run), status)
  <2>1. Withheld(run) \in RunType  BY <1>1, <1>5, PayingKept DEF RunType
  <2> DEFINE X == Withheld(run)
  <2>2. /\ X.pc = run.pc /\ X.blocks = run.blocks /\ X.generate = run.generate
        /\ X.orphan = run.orphan /\ X.merge = run.merge
    BY <1>1 DEF Withheld, Paying
  <2>3. Merging(X) = Merging(run)  BY <1>1, <2>2 DEF Merging
  <2> HIDE DEF X, run
  <2>4. RunBooks(X, status)  BY <1>1, <2>2, <2>3 DEF RunBooks
  <2> QED BY <2>1, <2>4 DEF X
<1>6. runs' \in [Runs -> RunType] /\ \A q \in Runs : RunBooks(runs'[q], status')
  <2>1. CASE runs' = [runs EXCEPT ![r] = Sending(run)]
    BY <1>1, <1>4, <2>1, OneRunBooks
  <2>2. CASE runs' = [runs EXCEPT ![r] = Idle]
    BY <1>1, <2>2, IdleBooks, OneRunBooks
  <2>3. CASE runs' = [runs EXCEPT ![r] = Withheld(run)] /\ run.withhold + 1 < Parts
    BY <1>1, <1>5, <2>3, OneRunBooks
  <2> QED BY <2>1, <2>2, <2>3, SendRun
<1> QED BY <1>1, <1>3, <1>6 DEF BooksInv, PaymentsTypeOK

\* What redis takes of the orphans' tallies is no more than they are.
LEMMA MergedNat ==
  ASSUME NEW run \in Paying, NEW w \in Workers
  PROVE  /\ Merged(run, w) \in Nat /\ Added(run, w) \in Nat
         /\ Added(run, w) <= Merged(run, w)
<1> DEFINE D == DOMAIN run.merge
           f == [b \in D |-> run.merge[b][w]]
           g == [b \in D |-> Taken(run, b, w)]
<1>1. D \in SUBSET Blocks /\ run.merge \in [D -> Tally]  BY MergesFun DEF Paying
<1>2. IsFiniteSet(D)  BY <1>1, PaymentsAssumption, FS_Subset
<1>3. \A b \in D : run.merge[b][w] \in Nat  BY <1>1 DEF Tally
<1>4. \A b \in D : f[b] \in Nat /\ g[b] \in Nat /\ g[b] <= f[b]
  BY <1>3 DEF Taken
<1> HIDE DEF D, f, g
<1>5. SumOn(f, D) \in Nat /\ SumOn(g, D) \in Nat  BY <1>2, <1>4, SumNat
<1>6. \A b \in D : f[b] \in Int /\ g[b] \in Int /\ g[b] <= f[b]  BY <1>4
<1>7. SumOn(g, D) <= SumOn(f, D)  BY <1>2, <1>6, SumMonotone
<1> QED BY <1>5, <1>7 DEF D, f, g, Merged, Added

\* The ways the final MULTI can go.
LEMMA UpdateRun ==
  ASSUME BooksInv, NEW r \in Runs, Update(r)
  PROVE  /\ runs[r] \in Paying /\ runs[r].pc = "update"
         /\ UNCHANGED <<status, paid, recorded, due, displaced>>
         /\ events \subseteq events'
         /\ runs' = [runs EXCEPT ![r] = Idle]
         /\ \/ Apply(runs[r]) /\ UNCHANGED <<interval, events>>
            \/ /\ Apply(runs[r]) \/ UNCHANGED <<redisVars, unmerged>>
               /\ interval' = "off"
<1>1. runs[r] \in Paying /\ runs[r].pc = "update"  BY RunKinds DEF BooksInv, Update
<1> QED BY <1>1 DEF Update, Finish, Fault

LEMMA ApplyBooks ==
  ASSUME BooksInv, NEW r \in Runs, runs[r] \in Paying, Apply(runs[r])
  PROVE  /\ round' \in [Workers -> Nat] /\ rounds' \in [Heights -> [Workers -> Nat]]
         /\ balances' \in [Workers -> Int] /\ unmerged' \in [Workers -> Nat]
         /\ pending' \subseteq pending
         /\ confirmed' \subseteq Blocks \ pending'
         /\ \A b \in confirmed' : status[b] = "generate"
<1> DEFINE run == runs[r]
<1>1. ASSUME NEW w \in Workers
      PROVE  /\ round[w] + Added(run, w) \in Nat
             /\ unmerged[w] + Merged(run, w) - Added(run, w) \in Nat
  <2>1. /\ Merged(run, w) \in Nat /\ Added(run, w) \in Nat
        /\ Added(run, w) <= Merged(run, w)
    BY MergedNat
  <2>2. round[w] \in Nat /\ unmerged[w] \in Nat  BY DEF BooksInv, PaymentsTypeOK
  <2> HIDE DEF run
  <2> QED BY <2>1, <2>2
<1>2. round' \in [Workers -> Nat] /\ unmerged' \in [Workers -> Nat]
  <2> HIDE DEF run
  <2> QED BY <1>1 DEF Apply, run
<1>3. rounds' \in [Heights -> [Workers -> Nat]]
  BY DEF Apply, None, BooksInv, PaymentsTypeOK
<1>4. balances' \in [Workers -> Int]
  <2>1. \A w \in Workers : BalanceChange(run, w) \in Int  BY Amounts
  <2> QED BY <2>1 DEF Apply, BooksInv, PaymentsTypeOK
<1>5. \A b \in run.generate : status[b] = "generate"
  BY DEF BooksInv, RunBooks, Paying
<1>6. pending' = pending \ (run.generate \union run.orphan)  BY DEF Apply
<1>7. confirmed' = confirmed \union (pending \intersect run.generate)  BY DEF Apply
<1> QED BY <1>2, <1>3, <1>4, <1>5, <1>6, <1>7 DEF BooksInv, PaymentsTypeOK

LEMMA UpdateBooks ==
  ASSUME BooksInv, NEW r \in Runs, Update(r)
  PROVE  BooksInv'
<1>1. /\ runs[r] \in Paying /\ runs' = [runs EXCEPT ![r] = Idle]
      /\ UNCHANGED <<status, paid, recorded, due, displaced>>
      /\ Apply(runs[r]) \/ UNCHANGED <<redisVars, unmerged>>
  BY UpdateRun
<1>2. runs' \in [Runs -> RunType] /\ \A q \in Runs : RunBooks(runs'[q], status')
  BY <1>1, IdleBooks, OneRunBooks
<1>3. CASE Apply(runs[r])
  BY <1>1, <1>2, <1>3, ApplyBooks DEF BooksInv, PaymentsTypeOK
<1>4. CASE UNCHANGED <<redisVars, unmerged>>
  BY <1>1, <1>2, <1>4 DEF BooksInv, PaymentsTypeOK, redisVars, lossVars
<1> QED BY <1>1, <1>3, <1>4

LEMMA BooksStep ==
  ASSUME BooksInv, [Next]_payVars
  PROVE  BooksInv' /\ StatusMoves
<1>0. ASSUME UNCHANGED status PROVE StatusMoves
  BY <1>0 DEF StatusMoves
<1>1. CASE RecordShare
  <2>1. PICK w \in Workers, d \in Difficulties :
          recorded' = recorded + d /\ round' = [round EXCEPT ![w] = @ + d]
    BY <1>1 DEF RecordShare, Recorded
  <2>2. d \in Nat  BY PaymentsAssumption
  <2>3. round' \in [Workers -> Nat] /\ recorded' \in Nat
    BY <2>1, <2>2 DEF BooksInv, PaymentsTypeOK
  <2> QED BY <1>0, <1>1, <2>3 DEF RecordShare, BooksInv, PaymentsTypeOK, procVars, lossVars
<1>2. CASE FindBlock
  BY <1>2, FindBlockBooks
<1>3. CASE Decide
  BY <1>3, DecideBooks
<1>4. CASE Setup
  BY <1>0, <1>4 DEF Setup, BooksInv, PaymentsTypeOK, redisVars, lossVars
<1>5. CASE Crash
  BY <1>0, <1>5, RestartBooks DEF Crash, Restart
<1>6. ASSUME NEW r \in Runs, Run(r)
      PROVE  BooksInv' /\ StatusMoves
  <2>1. CASE StartRun(r)
    BY <1>0, <2>1, StartRunBooks DEF StartRun
  <2>2. CASE GetDetails(r)
    BY <1>0, <2>2, GetDetailsBooks DEF GetDetails
  <2>3. CASE GetShares(r)
    BY <1>0, <2>3, GetSharesBooks DEF GetShares
  <2>4. CASE Abort(r)
    BY <1>0, <2>4, AbortBooks DEF Abort
  <2>5. CASE Send(r)
    BY <1>0, <2>5, SendBooks DEF Send
  <2>6. CASE Update(r)
    BY <1>0, <2>6, UpdateBooks DEF Update
  <2>7. CASE ThrowInUpdate(r)
    BY <1>0, <2>7, RestartBooks DEF ThrowInUpdate, Restart
  <2> QED BY <1>6, <2>1, <2>2, <2>3, <2>4, <2>5, <2>6, <2>7 DEF Run
<1>7. CASE UNCHANGED payVars
  BY <1>0, <1>7 DEF payVars, redisVars, procVars, lossVars, BooksInv, PaymentsTypeOK
<1> QED BY <1>1, <1>2, <1>3, <1>4, <1>5, <1>6, <1>7 DEF Next

\* Whatever fails, a run settles only blocks it has looked up, pays for none that
\* could still be orphaned and merges no round another block may need.
THEOREM BooksCorrect == Spec => []BooksInv
<1>1. Init => BooksInv  BY BooksInit
<1>2. BooksInv /\ [Next]_payVars => BooksInv'  BY BooksStep
<1> QED BY <1>1, <1>2, PTL DEF Spec

\* At any time what redis holds and what the wallet has sent are amounts and
\* tallies, a block is never both pending and confirmed, and only blocks the
\* chain kept are confirmed.
THEOREM BooksTyped == Spec => []PaymentsTypeOK
<1>1. BooksInv => PaymentsTypeOK  BY DEF BooksInv
<1> QED BY <1>1, BooksCorrect, PTL

----------------------------------------------------------------------------
(* Events are never forgotten.                                             *)

LEMMA EventsGrow == ASSUME BooksInv, [Next]_payVars PROVE events \subseteq events'
<1>1. CASE FindBlock
  BY <1>1 DEF FindBlock
<1>2. ASSUME NEW r \in Runs, Run(r)
      PROVE  events \subseteq events'
  <2>1. CASE Send(r)
    BY <2>1, SendRun
  <2>2. CASE Update(r)
    BY <2>2, UpdateRun
  <2>3. CASE ~Send(r) /\ ~Update(r)
    BY <1>2, <2>3 DEF Run, StartRun, GetDetails, GetShares, Abort, ThrowInUpdate, Fault
  <2> QED BY <2>1, <2>2, <2>3
<1>3. CASE RecordShare \/ Decide \/ Setup \/ Crash \/ UNCHANGED payVars
  BY <1>3 DEF RecordShare, Decide, Setup, Crash, Fault, payVars
<1> QED BY <1>1, <1>2, <1>3 DEF Next

\* What a step of a run, up to the last, does to its record: redis is only read
\* and the blocks are those of its start.
LEMMA RunShape ==
  ASSUME BooksInv, NEW r \in Runs,
         StartRun(r) \/ GetDetails(r) \/ GetShares(r) \/ Abort(r) \/ Send(r)
  PROVE  /\ UNCHANGED <<round, rounds, pending, confirmed, balances, status, interval,
                        recorded, due, unmerged>>
         /\ \E X \in RunType :
              /\ runs' = [runs EXCEPT ![r] = X]
              /\ \/ X.pc = "idle"
                 \/ runs[r].pc = "idle" /\ X.blocks = pending
                 \/ runs[r].pc # "idle" /\ X.blocks = runs[r].blocks
<1> DEFINE Shape(X) == \/ X.pc = "idle"
                       \/ runs[r].pc = "idle" /\ X.blocks = pending
                       \/ runs[r].pc # "idle" /\ X.blocks = runs[r].blocks
<1>1. CASE StartRun(r)
  <2> DEFINE X == [pc |-> "details", balance |-> balances, blocks |-> pending]
  <2>1. X \in RunType  BY DEF BooksInv, PaymentsTypeOK, RunType, Looking, Money
  <2>2. runs' = [runs EXCEPT ![r] = X] /\ X.blocks = pending /\ runs[r].pc = "idle"
    BY <1>1, IdleBooks DEF StartRun
  <2> HIDE DEF X
  <2> QED BY <1>1, <2>1, <2>2 DEF StartRun, redisVars, lossVars
<1>2. CASE GetDetails(r)
  <2>1. /\ runs[r] \in Looking /\ Looked(runs[r]) \in Counting
        /\ runs' = [runs EXCEPT ![r] = Looked(runs[r])]
    BY <1>2, GetDetailsRun
  <2>2. Looked(runs[r]) \in RunType /\ runs[r].pc = "details"
    BY <2>1 DEF RunType, Looking
  <2>3. Looked(runs[r]).blocks = runs[r].blocks  BY DEF Looked
  <2> QED BY <1>2, <2>1, <2>2, <2>3 DEF GetDetails, redisVars, lossVars
<1>3. CASE GetShares(r)
  <2>1. /\ runs[r] \in Counting /\ Counted(runs[r]) \in Paying
        /\ runs' = [runs EXCEPT ![r] = Counted(runs[r])]
    BY <1>3, GetSharesRun
  <2>2. Counted(runs[r]) \in RunType /\ runs[r].pc = "shares"
    BY <2>1 DEF RunType, Counting
  <2>3. Counted(runs[r]).blocks = runs[r].blocks  BY DEF Counted
  <2> QED BY <1>3, <2>1, <2>2, <2>3 DEF GetShares, redisVars, lossVars
<1>4. CASE Abort(r)
  BY <1>4, IdleBooks DEF Abort, Finish, redisVars, lossVars
<1>5. CASE Send(r)
  <2> DEFINE run == runs[r]
  <2>1. run \in Paying /\ run.pc = "send"  BY <1>5, SendRun
  <2>2. Sending(run) \in RunType /\ Sending(run).blocks = run.blocks
    BY <2>1, PayingKept DEF RunType, Sending, Paying
  <2>3. run.withhold + 1 < Parts => Withheld(run) \in RunType
    BY <2>1, PayingKept DEF RunType
  <2>4. Withheld(run).blocks = run.blocks
    BY <2>1 DEF Withheld, Paying
  <2>5. \/ runs' = [runs EXCEPT ![r] = Sending(run)]
        \/ runs' = [runs EXCEPT ![r] = Idle]
        \/ runs' = [runs EXCEPT ![r] = Withheld(run)] /\ run.withhold + 1 < Parts
    BY <1>5, SendRun
  <2>6. UNCHANGED <<round, rounds, pending, confirmed, balances, status, interval,
                    recorded, due, unmerged>>
    BY <1>5, SendRun
  <2> HIDE DEF run
  <2>7. run.pc # "idle"  BY <2>1
  <2> QED BY <2>2, <2>3, <2>4, <2>5, <2>6, <2>7, IdleBooks DEF run
<1> QED BY <1>1, <1>2, <1>3, <1>4, <1>5

----------------------------------------------------------------------------
(* The rounds blocks are paid by.  A run looks up all the pending blocks   *)
(* of a height or none; a round is only gone when the block that could     *)
(* have used it is an orphan or has lost its height to another.            *)

Apart(run, pend) ==
  run.pc # "idle" =>
    \A c \in run.blocks, b \in pend \ run.blocks : ~SameHeight(b, c)

RoundLost(b) ==
  \/ status[b] = "orphan"
  \/ \E c \in Blocks : c # b /\ SameHeight(b, c) /\ status[c] = "generate"

KeepInv ==
  "late" \notin events =>
    /\ \A r \in Runs : Apart(runs[r], pending)
    /\ \A b \in pending : rounds[HeightOf[b]] = None => RoundLost(b)

\* No step takes RoundLost back.
LEMMA LostStaysLost ==
  ASSUME StatusMoves, NEW b \in Blocks, RoundLost(b)
  PROVE  RoundLost(b)'
BY DEF StatusMoves, RoundLost, SameHeight

\* One run's record changes, to one that looked up what is pending or less.
LEMMA OneRunApart ==
  ASSUME BooksInv, \A q \in Runs : Apart(runs[q], pending), pending' \subseteq pending,
         NEW r \in Runs, NEW X, runs' = [runs EXCEPT ![r] = X],
         \/ X.pc = "idle"
         \/ runs[r].pc = "idle" /\ X.blocks = pending
         \/ runs[r].pc # "idle" /\ X.blocks = runs[r].blocks
  PROVE  \A q \in Runs : Apart(runs'[q], pending')
<1>1. \A q \in Runs : runs'[q] = IF q = r THEN X ELSE runs[q]  BY DEF BooksInv
<1>2. Apart(X, pending')  BY DEF Apart
<1>3. \A q \in Runs : Apart(runs[q], pending')  BY DEF Apart
<1> QED BY <1>1, <1>2, <1>3

LEMMA KeepInit == Init => KeepInv
BY DEF Init, KeepInv, Apart

LEMMA FindBlockKeeps ==
  ASSUME BooksInv, KeepInv, FindBlock
  PROVE  KeepInv'
<1> SUFFICES ASSUME "late" \notin events'
             PROVE  /\ \A r \in Runs : Apart(runs'[r], pending')
                    /\ \A b \in pending' : rounds'[HeightOf[b]] = None => RoundLost(b)'
  BY DEF KeepInv
<1> PICK b \in Blocks, w \in Workers, d \in Difficulties :
      /\ status[b] = "none"
      /\ rounds' = [rounds EXCEPT ![HeightOf[b]] = [round EXCEPT ![w] = @ + d]]
      /\ pending' = pending \union {b}
      /\ events' = events \union (IF Overwrites(HeightOf[b]) THEN {"overwrite"} ELSE {})
                          \union (IF ComesLate(HeightOf[b]) THEN {"late"} ELSE {})
  BY DEF FindBlock
<1>1. StatusMoves  BY FindBlockBooks
<1>2. "late" \notin events /\ ~ComesLate(HeightOf[b])  OBVIOUS
<1>3. UNCHANGED runs  BY DEF FindBlock, procVars
<1>4. ASSUME NEW r \in Runs PROVE Apart(runs[r], pending')
  <2>1. Apart(runs[r], pending)  BY <1>2 DEF KeepInv
  <2>2. runs[r].pc # "idle" => \A c \in runs[r].blocks : HeightOf[c] # HeightOf[b]
    BY <1>2, IdleBooks DEF ComesLate
  <2> QED BY <2>1, <2>2 DEF Apart, SameHeight
<1>5. ASSUME NEW c \in pending', rounds'[HeightOf[c]] = None
      PROVE  RoundLost(c)'
  <2>1. [round EXCEPT ![w] = @ + d] # None
    <3>1. d \in Nat \ {0} /\ round \in [Workers -> Nat]
      BY PaymentsAssumption DEF BooksInv, PaymentsTypeOK
    <3> QED BY <3>1 DEF None
  <2>2. c \in Blocks /\ HeightOf[c] \in Heights
    BY DEF BooksInv, PaymentsTypeOK, Heights
  <2>3. HeightOf[c] # HeightOf[b]
    BY <1>5, <2>1, <2>2 DEF BooksInv, PaymentsTypeOK
  <2>4. c \in pending /\ rounds[HeightOf[c]] = None
    BY <1>5, <2>2, <2>3 DEF BooksInv, PaymentsTypeOK
  <2> QED BY <1>1, <1>2, <2>2, <2>4, LostStaysLost DEF KeepInv
<1> QED BY <1>3, <1>4, <1>5

LEMMA UpdateKeeps ==
  ASSUME BooksInv, KeepInv, NEW r \in Runs, Update(r)
  PROVE  KeepInv'
<1> DEFINE run == runs[r]
<1> SUFFICES ASSUME "late" \notin events'
             PROVE  /\ \A q \in Runs : Apart(runs'[q], pending')
                    /\ \A b \in pending' : rounds'[HeightOf[b]] = None => RoundLost(b)'
  BY DEF KeepInv
<1>1. /\ run \in Paying /\ run.pc = "update" /\ status' = status
      /\ events \subseteq events' /\ runs' = [runs EXCEPT ![r] = Idle]
      /\ Apply(run) \/ UNCHANGED redisVars
  BY UpdateRun
<1>2. /\ \A q \in Runs : Apart(runs[q], pending)
      /\ \A b \in pending : rounds[HeightOf[b]] = None => RoundLost(b)
  BY <1>1 DEF KeepInv
<1>3. StatusMoves  BY <1>1 DEF StatusMoves
<1>4. pending' \subseteq pending  BY <1>1, ApplyBooks DEF redisVars
<1>5. \A q \in Runs : Apart(runs'[q], pending')
  BY <1>1, <1>2, <1>4, IdleBooks, OneRunApart
<1>6. ASSUME NEW b \in pending', rounds'[HeightOf[b]] = None
      PROVE  RoundLost(b)'
  <2>1. b \in pending /\ b \in Blocks /\ HeightOf[b] \in Heights
    BY <1>4 DEF BooksInv, PaymentsTypeOK, Heights
  <2>2. CASE rounds[HeightOf[b]] = None
    BY <1>2, <1>3, <2>1, <2>2, LostStaysLost
  <2>3. CASE rounds[HeightOf[b]] # None
    <3>1. /\ HeightOf[b] \in RoundsToDelete(run)
          /\ b \notin run.generate /\ b \notin run.orphan
      <4>1. Apply(run)  BY <1>1, <1>6, <2>3 DEF redisVars
      <4>2. pending' = pending \ (run.generate \union run.orphan)  BY <4>1 DEF Apply
      <4>3. rounds'[HeightOf[b]]
              = IF HeightOf[b] \in RoundsToDelete(run) THEN None ELSE rounds[HeightOf[b]]
        BY <4>1, <2>1 DEF Apply
      <4> HIDE DEF run
      <4> QED BY <1>6, <2>3, <4>2, <4>3
    <3>2. RunBooks(run, status) /\ run.generate \subseteq Blocks /\ Apart(run, pending)
      BY <1>1, <1>2 DEF BooksInv, Paying
    <3>3. PICK c \in run.generate \union DOMAIN run.merge : HeightOf[c] = HeightOf[b]
      BY <3>1 DEF RoundsToDelete
    <3>4. CASE c \in run.generate
      <4>1. status[c] = "generate" /\ c # b /\ c \in Blocks
        BY <1>1, <3>1, <3>2, <3>4 DEF RunBooks
      <4>2. RoundLost(b)  BY <3>3, <4>1 DEF RoundLost, SameHeight
      <4> QED BY <1>3, <2>1, <4>2, LostStaysLost
    <3>5. CASE c \in DOMAIN run.merge
      <4>1. c \in Merging(run)  BY <1>1, <3>5 DEF Merging
      <4>2. c \in run.orphan /\ c \in run.blocks  BY <1>1, <3>2, <4>1 DEF RunBooks
      <4>3. c # b  BY <3>1, <4>2
      <4>4. b \in run.blocks  BY <1>1, <2>1, <3>2, <3>3, <4>2 DEF Apart, SameHeight
      <4>5. status[b] = "orphan"
        BY <1>1, <3>2, <3>3, <4>1, <4>3, <4>4 DEF RunBooks, SameHeight
      <4> QED BY <1>3, <2>1, <4>5, LostStaysLost DEF RoundLost
    <3> QED BY <3>3, <3>4, <3>5
  <2> QED BY <2>2, <2>3
<1> QED BY <1>5, <1>6

LEMMA KeepStep ==
  ASSUME BooksInv, KeepInv, [Next]_payVars
  PROVE  KeepInv'
<1>1. BooksInv' /\ StatusMoves /\ events \subseteq events'  BY BooksStep, EventsGrow
<1>2. ASSUME UNCHANGED <<rounds, pending>>, "late" \notin events'
      PROVE  \A b \in pending' : rounds'[HeightOf[b]] = None => RoundLost(b)'
  BY <1>1, <1>2, LostStaysLost DEF KeepInv, BooksInv, PaymentsTypeOK
<1>3. CASE RecordShare \/ Decide \/ Setup \/ UNCHANGED payVars
  <2>1. UNCHANGED <<rounds, pending, runs>>
    BY <1>3 DEF RecordShare, Decide, Setup, payVars, redisVars, procVars
  <2> QED BY <1>1, <1>2, <2>1 DEF KeepInv
<1>4. CASE FindBlock
  BY <1>4, FindBlockKeeps
<1>5. CASE Restart
  <2>1. UNCHANGED <<rounds, pending>> /\ \A r \in Runs : runs'[r].pc = "idle"
    BY <1>5, IdleBooks DEF Restart, redisVars
  <2>2. \A r \in Runs : Apart(runs'[r], pending')  BY <2>1 DEF Apart
  <2> QED BY <1>2, <2>1, <2>2 DEF KeepInv
<1>6. ASSUME NEW r \in Runs,
             StartRun(r) \/ GetDetails(r) \/ GetShares(r) \/ Abort(r) \/ Send(r)
      PROVE  KeepInv'
  <2>1. UNCHANGED <<rounds, pending>>  BY <1>6, RunShape
  <2>2. ASSUME "late" \notin events'
        PROVE  \A q \in Runs : Apart(runs'[q], pending')
    <3>1. \A q \in Runs : Apart(runs[q], pending)  BY <1>1, <2>2 DEF KeepInv
    <3> QED BY <1>6, <2>1, <3>1, RunShape, OneRunApart
  <2> QED BY <1>2, <2>1, <2>2 DEF KeepInv
<1>7. ASSUME NEW r \in Runs, Update(r)
      PROVE  KeepInv'
  BY <1>7, UpdateKeeps
<1> QED BY <1>3, <1>4, <1>5, <1>6, <1>7 DEF Next, Crash, Run, ThrowInUpdate

\* Unless a block is found at a height a run has looked up, the run settles all
\* the blocks of a height together, and a round goes only when no block needs it.
THEOREM KeepCorrect == Spec => []KeepInv
<1>1. Init => KeepInv  BY KeepInit
<1>2. BooksInv /\ KeepInv /\ [Next]_payVars => KeepInv'  BY KeepStep
<1> QED BY <1>1, <1>2, BooksCorrect, PTL DEF Spec

\* As long as no run meets a block found behind its back at a height it has
\* looked up, a mature block waiting to be paid for has its round, whichever
\* orphans of its height were settled before it.
THEOREM RoundsKept == Spec => []RoundKept
<1>1. BooksInv /\ KeepInv => RoundKept
  <2> SUFFICES ASSUME BooksInv, KeepInv, "late" \notin events,
                      NEW b \in pending, status[b] = "generate",
                      rounds[HeightOf[b]] = None
               PROVE  FALSE
    BY DEF RoundKept
  <2>1. b \in Blocks  BY DEF BooksInv, PaymentsTypeOK
  <2>2. RoundLost(b)  BY DEF KeepInv
  <2> QED BY <2>1, <2>2 DEF RoundLost, BooksInv
<1> QED BY <1>1, BooksCorrect, KeepCorrect, PTL

----------------------------------------------------------------------------
(* While blocks of one height do not meet, the round of a pending block    *)
(* holds the tally the block closed, until the run that settles the block. *)

Met == events \intersect {"overwrite", "late"} # {}

Distinct(S) == \A b, c \in S : SameHeight(b, c) => b = c

DistinctInv ==
  ~Met =>
    /\ Distinct(pending)
    /\ \A r \in Runs : runs[r].pc # "idle" => Distinct(runs[r].blocks)
    /\ \A b \in pending : rounds[HeightOf[b]] = due[b]

LEMMA DistinctInit == Init => DistinctInv
BY DEF Init, DistinctInv, Distinct, Idle

LEMMA FindBlockDistinct ==
  ASSUME BooksInv, DistinctInv, FindBlock
  PROVE  DistinctInv'
<1> SUFFICES ASSUME ~Met' PROVE
      /\ Distinct(pending')
      /\ \A r \in Runs : runs'[r].pc # "idle" => Distinct(runs'[r].blocks)
      /\ \A b \in pending' : rounds'[HeightOf[b]] = due'[b]
  BY DEF DistinctInv, Distinct, SameHeight
<1> PICK b \in Blocks, w \in Workers, d \in Difficulties :
      /\ status[b] = "none"
      /\ rounds' = [rounds EXCEPT ![HeightOf[b]] = [round EXCEPT ![w] = @ + d]]
      /\ due' = [due EXCEPT ![b] = [round EXCEPT ![w] = @ + d]]
      /\ pending' = pending \union {b}
      /\ events' = events \union (IF Overwrites(HeightOf[b]) THEN {"overwrite"} ELSE {})
                          \union (IF ComesLate(HeightOf[b]) THEN {"late"} ELSE {})
  BY DEF FindBlock
<1>1. ~Met /\ ~Overwrites(HeightOf[b])  BY DEF Met
<1>2. UNCHANGED runs  BY DEF FindBlock, procVars
<1>3. \A c \in pending : ~SameHeight(b, c) /\ ~SameHeight(c, b)
  BY <1>1 DEF Overwrites, SameHeight
<1>4. Distinct(pending')  BY <1>1, <1>3 DEF DistinctInv, Distinct
<1>5. ASSUME NEW c \in pending' PROVE rounds'[HeightOf[c]] = due'[c]
  <2>1. HeightOf[b] \in Heights /\ HeightOf[c] \in Heights /\ c \in Blocks
    BY DEF BooksInv, PaymentsTypeOK, Heights
  <2>2. CASE c = b
    BY <2>1, <2>2 DEF BooksInv, PaymentsTypeOK
  <2>3. CASE c # b
    <3>1. c \in pending /\ HeightOf[c] # HeightOf[b]
      BY <1>3, <2>3 DEF SameHeight
    <3> QED BY <1>1, <2>1, <2>3, <3>1 DEF BooksInv, PaymentsTypeOK, DistinctInv
  <2> QED BY <2>2, <2>3
<1> QED BY <1>1, <1>2, <1>4, <1>5 DEF DistinctInv

\* What a run deletes was needed by no block that stays.
LEMMA DeletesNotNeeded ==
  ASSUME BooksInv, KeepInv, DistinctInv, ~Met, NEW r \in Runs,
         runs[r] \in Paying, NEW b \in pending,
         b \notin runs[r].generate, b \notin runs[r].orphan
  PROVE  HeightOf[b] \notin RoundsToDelete(runs[r])
<1> DEFINE run == runs[r]
<1> SUFFICES ASSUME NEW c \in run.generate \union DOMAIN run.merge,
                    HeightOf[c] = HeightOf[b]
             PROVE  FALSE
  BY DEF RoundsToDelete
<1>1. run.pc \in {"send", "update"} /\ RunBooks(run, status) /\ Distinct(run.blocks)
  BY DEF BooksInv, Paying, DistinctInv
<1>2. c \in run.generate \union run.orphan /\ c \in run.blocks
  BY <1>1 DEF RunBooks, Merging
<1>3. Apart(run, pending)  BY DEF KeepInv, Met
<1>4. b \in run.blocks  BY <1>1, <1>2, <1>3 DEF Apart, SameHeight
<1> HIDE DEF run
<1>5. c = b  BY <1>1, <1>2, <1>4 DEF Distinct, SameHeight
<1> QED BY <1>2, <1>5 DEF run

LEMMA DistinctStep ==
  ASSUME BooksInv, KeepInv, DistinctInv, [Next]_payVars
  PROVE  DistinctInv'
<1>1. events \subseteq events'  BY EventsGrow
<1>2. CASE FindBlock
  BY <1>2, FindBlockDistinct
<1>3. CASE RecordShare \/ Decide \/ Setup \/ UNCHANGED payVars
  <2>1. UNCHANGED <<rounds, pending, runs, due>>
    BY <1>3 DEF RecordShare, Decide, Setup, payVars, redisVars, procVars
  <2> QED BY <1>1, <2>1 DEF DistinctInv, Distinct, Met
<1>4. CASE Restart
  <2>1. UNCHANGED <<rounds, pending, due>> /\ \A r \in Runs : runs'[r].pc = "idle"
    BY <1>4, IdleBooks DEF Restart, redisVars
  <2> QED BY <1>1, <2>1 DEF DistinctInv, Distinct, Met
<1>5. ASSUME NEW r \in Runs,
             StartRun(r) \/ GetDetails(r) \/ GetShares(r) \/ Abort(r) \/ Send(r)
      PROVE  DistinctInv'
  <2>1. UNCHANGED <<rounds, pending, due>>  BY <1>5, RunShape
  <2>2. PICK X \in RunType :
          /\ runs' = [runs EXCEPT ![r] = X]
          /\ \/ X.pc = "idle"
             \/ runs[r].pc = "idle" /\ X.blocks = pending
             \/ runs[r].pc # "idle" /\ X.blocks = runs[r].blocks
    BY <1>5, RunShape
  <2>3. \A q \in Runs : runs'[q] = IF q = r THEN X ELSE runs[q]
    BY <2>2 DEF BooksInv
  <2> SUFFICES ASSUME ~Met' PROVE
        /\ Distinct(pending')
        /\ \A q \in Runs : runs'[q].pc # "idle" => Distinct(runs'[q].blocks)
        /\ \A b \in pending' : rounds'[HeightOf[b]] = due'[b]
    BY DEF DistinctInv, Distinct, SameHeight
  <2>4. ~Met  BY <1>1 DEF Met
  <2>5. X.pc # "idle" => Distinct(X.blocks)  BY <2>2, <2>4 DEF DistinctInv
  <2> QED BY <2>1, <2>3, <2>4, <2>5 DEF DistinctInv
<1>6. ASSUME NEW r \in Runs, Update(r)
      PROVE  DistinctInv'
  <2> DEFINE run == runs[r]
  <2>1. /\ run \in Paying /\ due' = due /\ runs' = [runs EXCEPT ![r] = Idle]
        /\ Apply(run) \/ UNCHANGED redisVars
    BY <1>6, UpdateRun
  <2>2. \A q \in Runs : runs'[q] = IF q = r THEN Idle ELSE runs[q]
    BY <2>1 DEF BooksInv
  <2> SUFFICES ASSUME ~Met' PROVE
        /\ Distinct(pending')
        /\ \A q \in Runs : runs'[q].pc # "idle" => Distinct(runs'[q].blocks)
        /\ \A b \in pending' : rounds'[HeightOf[b]] = due'[b]
    BY DEF DistinctInv, Distinct, SameHeight
  <2>3. ~Met  BY <1>1 DEF Met
  <2>4. pending' \subseteq pending  BY <2>1, ApplyBooks DEF redisVars
  <2>5. Distinct(pending')  BY <2>3, <2>4 DEF DistinctInv, Distinct
  <2>6. \A q \in Runs : runs'[q].pc # "idle" => Distinct(runs'[q].blocks)
    BY <2>2, <2>3, IdleBooks DEF DistinctInv
  <2>7. ASSUME NEW b \in pending' PROVE rounds'[HeightOf[b]] = due'[b]
    <3>1. b \in pending /\ HeightOf[b] \in Heights /\ rounds[HeightOf[b]] = due[b]
      BY <2>3, <2>4 DEF BooksInv, PaymentsTypeOK, Heights, DistinctInv
    <3>2. CASE Apply(run)
      <4>1. b \notin run.generate /\ b \notin run.orphan  BY <3>2 DEF Apply
      <4>2. HeightOf[b] \notin RoundsToDelete(run)
        BY <2>1, <2>3, <3>1, <4>1, DeletesNotNeeded
      <4> QED BY <2>1, <3>1, <3>2, <4>2 DEF Apply
    <3>3. CASE UNCHANGED redisVars
      BY <2>1, <3>1, <3>3 DEF redisVars
    <3> QED BY <2>1, <3>2, <3>3
  <2> QED BY <2>5, <2>6, <2>7
<1> QED BY <1>2, <1>3, <1>4, <1>5, <1>6 DEF Next, Crash, Run, ThrowInUpdate

LEMMA DistinctCorrect == Spec => []DistinctInv
<1>1. Init => DistinctInv  BY DistinctInit
<1>2. BooksInv /\ KeepInv /\ DistinctInv /\ [Next]_payVars => DistinctInv'  BY DistinctStep
<1> QED BY <1>1, <1>2, BooksCorrect, KeepCorrect, PTL DEF Spec

----------------------------------------------------------------------------
(* What a run pays covers what its blocks, as far as they are still to be  *)
(* settled, owe.                                                           *)

PartsOf(d, w) == [b \in Blocks |-> RoundReward(d[b], w)]

Covers(run, pend, d) ==
  run.pc \in {"send", "update"} =>
    \A w \in Workers : SumOn(PartsOf(d, w), run.generate \intersect pend) <= run.reward[w]

CoverInv == ~Met => \A r \in Runs : Covers(runs[r], pending, due)

LEMMA PartsNat ==
  ASSUME NEW d \in [Blocks -> Tally], NEW w \in Workers, NEW S \in SUBSET Blocks
  PROVE  /\ \A b \in S : PartsOf(d, w)[b] \in Nat
         /\ SumOn(PartsOf(d, w), S) \in Nat
         /\ IsFiniteSet(S)
<1>1. \A b \in S : PartsOf(d, w)[b] \in Nat  BY RoundRewardNat DEF PartsOf
<1>2. IsFiniteSet(S)  BY PaymentsAssumption, FS_Subset
<1> DEFINE f == PartsOf(d, w)
<1>3. \A b \in S : f[b] \in Nat  BY <1>1
<1> HIDE DEF f
<1>4. SumOn(f, S) \in Nat  BY <1>2, <1>3, SumNat
<1> QED BY <1>1, <1>2, <1>4 DEF f

\* Blocks leave pending, and the tallies of those that stay do not change.
LEMMA CoverKept ==
  ASSUME NEW run \in RunType, NEW pend, NEW d \in [Blocks -> Tally],
         NEW pend2, NEW d2 \in [Blocks -> Tally], Covers(run, pend, d),
         run.pc \in {"send", "update"} =>
           \A b \in run.generate \intersect pend2 : b \in pend /\ d2[b] = d[b]
  PROVE  Covers(run, pend2, d2)
<1> SUFFICES ASSUME run.pc \in {"send", "update"}, NEW w \in Workers
             PROVE  SumOn(PartsOf(d2, w), run.generate \intersect pend2) <= run.reward[w]
  BY DEF Covers
<1> DEFINE S == run.generate \intersect pend
           T == run.generate \intersect pend2
           f == PartsOf(d, w)
           g == PartsOf(d2, w)
<1>1. run \in Paying  BY RunKinds
<1>2. S \in SUBSET Blocks /\ T \in SUBSET S /\ run.reward[w] \in Nat
  BY <1>1 DEF Paying, Tally
<1>3. /\ \A b \in S : f[b] \in Nat
      /\ SumOn(f, S) \in Nat /\ SumOn(f, T) \in Nat /\ IsFiniteSet(S) /\ IsFiniteSet(T)
  <2>1. T \in SUBSET Blocks  BY <1>2
  <2> HIDE DEF S, T
  <2> QED BY <1>2, <2>1, PartsNat
<1>4. \A b \in T : g[b] = f[b]  BY <1>2 DEF PartsOf
<1>5. SumOn(f, S) <= run.reward[w]  BY DEF Covers
<1> HIDE DEF S, T, f, g
<1>6. SumOn(f, T) <= SumOn(f, S)  BY <1>2, <1>3, SumSubset
<1>7. SumOn(g, T) = SumOn(f, T)  BY <1>3, <1>4, SumSame
<1>8. SumOn(g, T) <= run.reward[w]  BY <1>2, <1>3, <1>5, <1>6, <1>7
<1> QED BY <1>8 DEF g, T

LEMMA OneRunCovers ==
  ASSUME BooksInv, \A q \in Runs : Covers(runs[q], pending, due), UNCHANGED due,
         pending' \subseteq pending, NEW r \in Runs, NEW X,
         runs' = [runs EXCEPT ![r] = X], Covers(X, pending', due)
  PROVE  \A q \in Runs : Covers(runs'[q], pending', due')
<1>1. \A q \in Runs : runs'[q] = IF q = r THEN X ELSE runs[q]  BY DEF BooksInv
<1>2. due \in [Blocks -> Tally]  BY DEF BooksInv, PaymentsTypeOK, Tally
<1>3. ASSUME NEW q \in Runs PROVE Covers(runs[q], pending', due')
  <2> DEFINE run == runs[q]
             p2 == pending'
             d2 == due'
  <2>1. run \in RunType /\ Covers(run, pending, due) /\ d2 = due /\ p2 \subseteq pending
    BY DEF BooksInv
  <2> HIDE DEF run, p2, d2
  <2>2. Covers(run, p2, d2)  BY <1>2, <2>1, CoverKept
  <2> QED BY <2>2 DEF run, p2, d2
<1> QED BY <1>1, <1>3

\* A run that counted the shares of the rounds.
LEMMA GetSharesCovers ==
  ASSUME BooksInv, DistinctInv, ~Met, NEW r \in Runs, GetShares(r)
  PROVE  Covers(Counted(runs[r]), pending, due)
<1> DEFINE run == runs[r]
           X == Counted(run)
<1>1. run \in Counting /\ X \in Paying  BY GetSharesRun
<1>2. X.generate = run.generate /\ X.reward = [w \in Workers |-> Reward(run, w)]
  BY DEF Counted
<1> SUFFICES ASSUME NEW w \in Workers
             PROVE  SumOn(PartsOf(due, w), run.generate \intersect pending) <= Reward(run, w)
  <2> HIDE DEF X, run
  <2> QED BY <1>2 DEF Covers, X, run
<1> DEFINE G == run.generate
           T == G \intersect pending
           f == [b \in G |-> RoundReward(rounds[HeightOf[b]], w)]
           g == PartsOf(due, w)
<1>3. G \in SUBSET Blocks /\ T \in SUBSET G /\ IsFiniteSet(G) /\ IsFiniteSet(T)
  BY <1>1, PaymentsAssumption, FS_Subset DEF Counting
<1>4. \A b \in G : f[b] \in Nat
  <2>1. \A b \in G : rounds[HeightOf[b]] \in Tally
    BY <1>3 DEF BooksInv, PaymentsTypeOK, Heights, Tally
  <2> QED BY <2>1, RoundRewardNat
<1>5. \A b \in T : g[b] = f[b]  BY <1>3 DEF PartsOf, DistinctInv
<1> HIDE DEF G, T, f, g
<1>6. SumOn(f, T) <= SumOn(f, G)  BY <1>3, <1>4, SumSubset
<1>7. SumOn(g, T) = SumOn(f, T)  BY <1>3, <1>5, SumSame
<1>8. SumOn(g, T) <= SumOn(f, G)  BY <1>6, <1>7
<1> QED BY <1>8 DEF G, T, f, g, Reward

LEMMA CoverInit == Init => CoverInv
BY DEF Init, CoverInv, Covers, Idle

LEMMA CoverStep ==
  ASSUME BooksInv, KeepInv, DistinctInv, CoverInv, [Next]_payVars
  PROVE  CoverInv'
<1> SUFFICES ASSUME ~Met' PROVE \A q \in Runs : Covers(runs'[q], pending', due')
  BY DEF CoverInv, Covers, PartsOf, RoundReward, Total
<1>1. ~Met  BY EventsGrow DEF Met
<1>2. \A q \in Runs : Covers(runs[q], pending, due)  BY <1>1 DEF CoverInv
<1>3. due \in [Blocks -> Tally] /\ due' \in [Blocks -> Tally]
  BY BooksStep DEF BooksInv, PaymentsTypeOK, Tally
<1>4. CASE RecordShare \/ Decide \/ Setup \/ UNCHANGED payVars
  <2>1. UNCHANGED <<pending, runs, due>>
    BY <1>4 DEF RecordShare, Decide, Setup, payVars, redisVars, procVars
  <2> QED BY <1>2, <2>1
<1>5. CASE FindBlock
  <2> PICK b \in Blocks : /\ status[b] = "none"
                          /\ pending' = pending \union {b}
                          /\ \E t : due' = [due EXCEPT ![b] = t]
    BY <1>5 DEF FindBlock
  <2>1. UNCHANGED runs  BY <1>5 DEF FindBlock, procVars
  <2>2. ASSUME NEW q \in Runs PROVE Covers(runs[q], pending', due')
    <3> DEFINE run == runs[q]
               p2 == pending'
               d2 == due'
    <3>1. run \in RunType /\ Covers(run, pending, due)  BY <1>2 DEF BooksInv
    <3>2. run.pc \in {"send", "update"} => b \notin run.generate
      BY DEF BooksInv, RunBooks
    <3>3. run.pc \in {"send", "update"} => run.generate \subseteq Blocks
      BY <3>1, RunKinds DEF Paying
    <3>4. run.pc \in {"send", "update"} =>
            \A c \in run.generate \intersect p2 : c \in pending /\ d2[c] = due[c]
      BY <1>3, <3>2, <3>3
    <3> HIDE DEF run, p2
    <3>5. Covers(run, p2, d2)  BY <1>3, <3>1, <3>4, CoverKept
    <3> QED BY <3>5 DEF run, p2
  <2> QED BY <2>1, <2>2
<1>6. CASE Restart
  <2>1. \A r \in Runs : runs'[r].pc = "idle"  BY <1>6, IdleBooks DEF Restart
  <2> QED BY <2>1 DEF Covers
<1>7. ASSUME NEW r \in Runs,
             StartRun(r) \/ GetDetails(r) \/ GetShares(r) \/ Abort(r) \/ Send(r)
      PROVE  \A q \in Runs : Covers(runs'[q], pending', due')
  <2>1. UNCHANGED <<pending, due>>  BY <1>7, RunShape
  <2>2. PICK X : runs' = [runs EXCEPT ![r] = X] /\ Covers(X, pending, due)
    <3>1. CASE StartRun(r)
      <4> DEFINE X == [pc |-> "details", balance |-> balances, blocks |-> pending]
      <4>1. Covers(X, pending, due)  BY DEF Covers
      <4>2. runs' = [runs EXCEPT ![r] = X]  BY <3>1 DEF StartRun
      <4> QED BY <4>1, <4>2
    <3>2. CASE GetDetails(r)
      <4>1. Covers(Looked(runs[r]), pending, due)  BY DEF Covers, Looked
      <4> QED BY <3>2, <4>1, GetDetailsRun
    <3>3. CASE GetShares(r)
      BY <1>1, <3>3, GetSharesRun, GetSharesCovers
    <3>4. CASE Abort(r)
      <4>1. Covers(Idle, pending, due)  BY DEF Covers, Idle
      <4>2. runs' = [runs EXCEPT ![r] = Idle]  BY <3>4 DEF Abort, Finish
      <4> QED BY <4>1, <4>2
    <3>5. CASE Send(r)
      <4>1. /\ runs[r] \in Paying /\ runs[r].pc = "send"
            /\ \/ runs' = [runs EXCEPT ![r] = Sending(runs[r])]
               \/ runs' = [runs EXCEPT ![r] = Idle]
               \/ runs' = [runs EXCEPT ![r] = Withheld(runs[r])]
        BY <3>5, SendRun
      <4>2. Covers(runs[r], pending, due)  BY <1>2
      <4>3. Covers(Sending(runs[r]), pending, due)
        BY <4>1, <4>2 DEF Covers, Sending, Paying
      <4>4. Covers(Withheld(runs[r]), pending, due)
        BY <4>1, <4>2 DEF Covers, Withheld, Paying
      <4>5. Covers(Idle, pending, due)  BY DEF Covers, Idle
      <4> QED BY <4>1, <4>3, <4>4, <4>5
    <3> QED BY <1>7, <3>1, <3>2, <3>3, <3>4, <3>5
  <2> QED BY <1>2, <2>1, <2>2, OneRunCovers
<1>8. ASSUME NEW r \in Runs, Update(r)
      PROVE  \A q \in Runs : Covers(runs'[q], pending', due')
  <2>1. /\ runs[r] \in Paying /\ UNCHANGED due /\ runs' = [runs EXCEPT ![r] = Idle]
        /\ Apply(runs[r]) \/ UNCHANGED redisVars
    BY <1>8, UpdateRun
  <2>2. pending' \subseteq pending  BY <2>1, ApplyBooks DEF redisVars
  <2>3. Covers(Idle, pending', due)  BY DEF Covers, Idle
  <2> QED BY <1>2, <2>1, <2>2, <2>3, OneRunCovers
<1> QED BY <1>4, <1>5, <1>6, <1>7, <1>8 DEF Next, Crash, Run, ThrowInUpdate

LEMMA CoverCorrect == Spec => []CoverInv
<1>1. Init => CoverInv  BY CoverInit
<1>2. BooksInv /\ KeepInv /\ DistinctInv /\ CoverInv /\ [Next]_payVars => CoverInv'
  BY CoverStep
<1> QED BY <1>1, <1>2, BooksCorrect, KeepCorrect, DistinctCorrect, PTL DEF Spec

----------------------------------------------------------------------------
(* Nobody is underpaid.  Between sending and updating, a run has paid for  *)
(* balances it has not taken down yet: that much the pool is ahead.        *)

Credit(run, w) == IF run.pc = "update" THEN Sent(run, w) ELSE 0

Credits(w) == SumOn([r \in Runs |-> Credit(runs[r], w)], Runs)

CreditInv ==
  ~Met /\ "withheld" \notin events =>
    /\ \A r \in Runs : runs[r].pc \in {"send", "update"} => runs[r].withhold = 0
    /\ \A w \in Workers : paid[w] + displaced[w] + balances[w] >= Earned(w) + Credits(w)

LEMMA CreditNat ==
  ASSUME NEW run \in RunType, NEW w \in Workers
  PROVE  Credit(run, w) \in Nat
BY RunKinds, Amounts DEF Credit

LEMMA CreditsNat ==
  ASSUME BooksInv, NEW w \in Workers
  PROVE  /\ Credits(w) \in Nat
         /\ \A r \in Runs : Credit(runs[r], w) \in Nat
<1> DEFINE f == [r \in Runs |-> Credit(runs[r], w)]
<1>1. \A r \in Runs : f[r] \in Nat  BY CreditNat DEF BooksInv
<1>2. IsFiniteSet(Runs)  BY PaymentsAssumption
<1>3. SumOn(f, Runs) \in Nat
  <2> HIDE DEF f
  <2> QED BY <1>1, <1>2, SumNat
<1> QED BY <1>1, <1>3 DEF Credits

\* A run with nothing withheld moves, by what it sends and what it changes, just
\* the rewards of its blocks.
LEMMA NetOfRun ==
  ASSUME NEW run \in Paying, run.withhold = 0, NEW w \in Workers
  PROVE  Sent(run, w) + BalanceChange(run, w) = run.reward[w]
<1>1. /\ run.balance[w] \in Int /\ run.reward[w] \in Nat
      /\ ToSend(run, w) \in Int /\ Sent(run, w) \in Nat
  BY Amounts
<1>2. ToSend(run, w) = run.balance[w] + run.reward[w]
  <2>1. ToSend(run, w) = ((run.balance[w] + run.reward[w]) * Parts) \div Parts
    <3>1. Parts - 0 = Parts  BY PaymentsAssumption
    <3> QED BY <3>1 DEF ToSend
  <2>2. run.balance[w] + run.reward[w] \in Int  BY <1>1
  <2> QED BY <2>1, <2>2, PaymentsAssumption, DivExact
<1>3. CASE Sent(run, w) > 0
  <2>1. Sent(run, w) = ToSend(run, w)  BY <1>1, <1>3 DEF Sent
  <2>2. BalanceChange(run, w) = -run.balance[w]
    BY <1>1, <1>2, <1>3 DEF BalanceChange, Smaller
  <2> QED BY <1>1, <1>2, <2>1, <2>2
<1>4. CASE ~(Sent(run, w) > 0)
  <2>1. Sent(run, w) = 0  BY <1>1, <1>4
  <2>2. BalanceChange(run, w) = run.reward[w]
    BY <1>1, <1>2, <1>4 DEF BalanceChange, Larger
  <2> QED BY <1>1, <2>1, <2>2
<1> QED BY <1>3, <1>4

\* What the confirmed blocks owe is a sum over any table that agrees with due.
LEMMA EarnedIs ==
  ASSUME BooksInv, NEW w \in Workers
  PROVE  /\ Earned(w) = SumOn(PartsOf(due, w), confirmed)
         /\ Earned(w) \in Nat
<1> DEFINE f == [b \in confirmed |-> RoundReward(due[b], w)]
           g == PartsOf(due, w)
<1>1. confirmed \in SUBSET Blocks /\ due \in [Blocks -> Tally]
  BY DEF BooksInv, PaymentsTypeOK, Tally
<1>2. IsFiniteSet(confirmed) /\ SumOn(g, confirmed) \in Nat  BY <1>1, PartsNat
<1>3. \A b \in confirmed : f[b] = g[b]  BY <1>1 DEF PartsOf
<1> HIDE DEF f, g
<1>4. SumOn(f, confirmed) = SumOn(g, confirmed)  BY <1>2, <1>3, SumSame
<1> QED BY <1>2, <1>4 DEF f, g, Earned

\* FindBlock changes no tally the confirmed blocks are paid by.
LEMMA EarnedKept ==
  ASSUME BooksInv, BooksInv', NEW w \in Workers, UNCHANGED confirmed,
         \A b \in confirmed : due'[b] = due[b]
  PROVE  Earned(w)' = Earned(w)
<1> DEFINE f == PartsOf(due, w)
           g == PartsOf(due', w)
<1>1. Earned(w) = SumOn(f, confirmed)  BY EarnedIs
<1>2. Earned(w)' = SumOn(g, confirmed)
  <2>1. Earned(w)' = SumOn([b \in confirmed' |-> RoundReward(due'[b], w)], confirmed')
    BY DEF Earned, RoundReward, Total
  <2> DEFINE h == [b \in confirmed |-> RoundReward(due'[b], w)]
  <2>2. confirmed \in SUBSET Blocks  BY DEF BooksInv, PaymentsTypeOK
  <2>3. IsFiniteSet(confirmed)  BY <2>2, PaymentsAssumption, FS_Subset
  <2>4. \A b \in confirmed : h[b] = g[b]  BY <2>2 DEF PartsOf
  <2>5. Earned(w)' = SumOn(h, confirmed)  BY <2>1
  <2> HIDE DEF g, h
  <2> QED BY <2>3, <2>4, <2>5, SumSame
<1>3. confirmed \in SUBSET Blocks  BY DEF BooksInv, PaymentsTypeOK
<1>4. IsFiniteSet(confirmed)  BY <1>3, PaymentsAssumption, FS_Subset
<1>5. \A b \in confirmed : f[b] = g[b]  BY <1>3 DEF PartsOf
<1> HIDE DEF f, g
<1> QED BY <1>1, <1>2, <1>4, <1>5, SumSame

\* A step of one run.
LEMMA CreditsChange ==
  ASSUME BooksInv, NEW r \in Runs, NEW X \in RunType,
         runs' = [runs EXCEPT ![r] = X], NEW w \in Workers
  PROVE  Credits(w)' = Credits(w) - Credit(runs[r], w) + Credit(X, w)
<1> DEFINE f == [q \in Runs |-> Credit(runs[q], w)]
           g == [q \in Runs |-> Credit(runs'[q], w)]
<1>1. \A q \in Runs : runs'[q] = IF q = r THEN X ELSE runs[q]  BY DEF BooksInv
<1>2. \A q \in Runs : f[q] \in Int /\ g[q] \in Int /\ (q # r => g[q] = f[q])
  <2>1. \A q \in Runs : runs[q] \in RunType /\ runs'[q] \in RunType  BY <1>1 DEF BooksInv
  <2>2. \A q \in Runs : Credit(runs[q], w) \in Nat /\ Credit(runs'[q], w) \in Nat
    BY <2>1, CreditNat
  <2> QED BY <1>1, <2>2
<1>3. f[r] = Credit(runs[r], w) /\ g[r] = Credit(X, w)  BY <1>1
<1>4. SumOn(g, Runs) = SumOn(f, Runs) - f[r] + g[r]
  <2> HIDE DEF f, g
  <2> QED BY <1>2, PaymentsAssumption, SumChange
<1>5. Credits(w) = SumOn(f, Runs)  BY DEF Credits
<1>6. Credits(w)' = SumOn(g, Runs)  BY DEF Credits, Credit, Sent, ToSend
<1> QED BY <1>3, <1>4, <1>5, <1>6

\* The final MULTI moves the run's blocks to the confirmed ones.
LEMMA EarnedGrows ==
  ASSUME BooksInv, BooksInv', NEW r \in Runs, runs[r] \in Paying, Apply(runs[r]),
         UNCHANGED due, NEW w \in Workers
  PROVE  Earned(w)' = Earned(w)
                        + SumOn(PartsOf(due, w), runs[r].generate \intersect pending)
<1> DEFINE f == PartsOf(due, w)
           T == runs[r].generate \intersect pending
<1>1. confirmed' = confirmed \union T  BY DEF Apply
<1>2. /\ confirmed \in SUBSET Blocks /\ T \in SUBSET Blocks /\ confirmed' \in SUBSET Blocks
      /\ confirmed \intersect T = {} /\ due \in [Blocks -> Tally]
  BY DEF BooksInv, PaymentsTypeOK, Tally
<1>3. /\ IsFiniteSet(confirmed) /\ IsFiniteSet(T)
      /\ \A b \in confirmed \union T : f[b] \in Int
  <2>1. IsFiniteSet(confirmed) /\ \A b \in confirmed : f[b] \in Nat  BY <1>2, PartsNat
  <2>2. IsFiniteSet(T) /\ \A b \in T : f[b] \in Nat
    <3> HIDE DEF T
    <3> QED BY <1>2, PartsNat
  <2> HIDE DEF f, T
  <2> QED BY <2>1, <2>2
<1>4. Earned(w) = SumOn(f, confirmed)  BY EarnedIs
<1>5. Earned(w)' = SumOn(f, confirmed')
  <2> DEFINE c2 == confirmed'
             h == [b \in c2 |-> RoundReward(due[b], w)]
  <2>1. Earned(w)' = SumOn(h, c2)  BY DEF Earned, RoundReward, Total
  <2>2. IsFiniteSet(c2)  BY <1>2, PaymentsAssumption, FS_Subset
  <2>3. \A b \in c2 : h[b] = f[b]  BY <1>2 DEF PartsOf
  <2> HIDE DEF h, f, c2
  <2>4. SumOn(h, c2) = SumOn(f, c2)  BY <2>2, <2>3, SumSame
  <2> QED BY <2>1, <2>4 DEF c2
<1> HIDE DEF f, T
<1>6. SumOn(f, confirmed \union T) = SumOn(f, confirmed) + SumOn(f, T)
  BY <1>2, <1>3, SumUnion
<1> QED BY <1>1, <1>4, <1>5, <1>6 DEF f, T

\* What is unchanged or only grows keeps the account.
LEMMA CreditKept ==
  ASSUME BooksInv, BooksInv', NEW w \in Workers,
         paid[w] + displaced[w] + balances[w] >= Earned(w) + Credits(w),
         Earned(w)' = Earned(w), Credits(w)' <= Credits(w),
         paid'[w] + displaced'[w] >= paid[w] + displaced[w], balances'[w] = balances[w]
  PROVE  paid'[w] + displaced'[w] + balances'[w] >= Earned(w)' + Credits(w)'
<1>1. Earned(w) \in Nat /\ Credits(w) \in Nat  BY EarnedIs, CreditsNat
<1>2. Credits(w)' \in Nat
  <2>1. \A q \in Runs : runs'[q] \in RunType  BY DEF BooksInv
  <2> DEFINE f == [q \in Runs |-> Credit(runs'[q], w)]
  <2>2. \A q \in Runs : f[q] \in Nat  BY <2>1, CreditNat
  <2>3. SumOn(f, Runs) \in Nat
    <3> HIDE DEF f
    <3> QED BY <2>2, PaymentsAssumption, SumNat
  <2>4. Credits(w)' = SumOn(f, Runs)  BY DEF Credits, Credit, Sent, ToSend
  <2> QED BY <2>3, <2>4
<1>3. /\ paid[w] \in Int /\ displaced[w] \in Int /\ balances[w] \in Int
      /\ paid'[w] \in Int /\ displaced'[w] \in Int /\ balances'[w] \in Int
  BY DEF BooksInv, PaymentsTypeOK
<1> QED BY <1>1, <1>2, <1>3

LEMMA SendCredits ==
  ASSUME BooksInv, BooksInv', CreditInv, NEW r \in Runs, Send(r),
         ~Met', "withheld" \notin events'
  PROVE  /\ \A q \in Runs : runs'[q].pc \in {"send", "update"} => runs'[q].withhold = 0
         /\ \A w \in Workers : paid'[w] + displaced'[w] + balances'[w] >= Earned(w)' + Credits(w)'
<1> DEFINE run == runs[r]
<1>1. /\ run \in Paying /\ run.pc = "send" /\ events \subseteq events'
      /\ UNCHANGED <<confirmed, balances, due>>
      /\ paid' \in [Workers -> Nat] /\ displaced' \in [Workers -> Nat]
      /\ \/ runs' = [runs EXCEPT ![r] = Sending(run)] /\ PaidBy(run)
         \/ /\ runs' = [runs EXCEPT ![r] = Idle] /\ UNCHANGED displaced
            /\ PaysSome(run) \/ UNCHANGED paid
  BY SendRun
<1>2. /\ \A q \in Runs : runs[q].pc \in {"send", "update"} => runs[q].withhold = 0
      /\ \A w \in Workers : paid[w] + displaced[w] + balances[w] >= Earned(w) + Credits(w)
  BY <1>1 DEF CreditInv, Met
<1>3. ASSUME NEW w \in Workers
      PROVE  /\ Sent(run, w) \in Nat /\ balances[w] \in Int
             /\ paid[w] \in Nat /\ displaced[w] \in Nat
             /\ Earned(w) \in Nat /\ Credits(w) \in Nat
             /\ Credit(run, w) = 0 /\ Earned(w)' = Earned(w)
  <2>1. Sent(run, w) \in Nat  BY <1>1, Amounts
  <2>2. Credit(run, w) = 0  BY <1>1 DEF Credit
  <2>3. Earned(w)' = Earned(w)  BY <1>1, EarnedKept
  <2> QED BY <2>1, <2>2, <2>3, EarnedIs, CreditsNat DEF BooksInv, PaymentsTypeOK
<1>4. CASE runs' = [runs EXCEPT ![r] = Sending(run)] /\ PaidBy(run)
  <2> DEFINE X == Sending(run)
  <2>1. X \in Paying /\ X \in RunType  BY <1>1, PayingKept DEF RunType
  <2>2. X.pc = "update" /\ X.withhold = 0 /\ \A w \in Workers : Sent(X, w) = Sent(run, w)
    BY <1>1, <1>2 DEF Sending, Paying, Sent, ToSend
  <2>3. \A q \in Runs : runs'[q] = IF q = r THEN X ELSE runs[q]  BY <1>4 DEF BooksInv
  <2>4. ASSUME NEW w \in Workers
        PROVE  paid'[w] + displaced'[w] + balances'[w] >= Earned(w)' + Credits(w)'
    <3> DEFINE c == Credits(w)
               c2 == Credits(w)'
               e == Earned(w)
               e2 == Earned(w)'
    <3>1. c2 = c - Credit(run, w) + Credit(X, w)  BY <1>4, <2>1, CreditsChange
    <3>2. Credit(X, w) = Sent(run, w)  BY <2>2 DEF Credit
    <3>3. /\ paid'[w] + displaced'[w] = paid[w] + displaced[w] + Sent(run, w)
          /\ balances'[w] = balances[w]
      BY <1>1, <1>4 DEF PaidBy
    <3>4. /\ Sent(run, w) \in Nat /\ paid[w] \in Nat /\ displaced[w] \in Nat
          /\ paid'[w] \in Nat /\ displaced'[w] \in Nat /\ balances[w] \in Int
          /\ e \in Nat /\ c \in Nat /\ Credit(run, w) = 0 /\ e2 = e
      BY <1>1, <1>3
    <3>5. paid[w] + displaced[w] + balances[w] >= e + c  BY <1>2
    <3> HIDE DEF c, c2, e, e2, X, run
    <3> QED BY <3>1, <3>2, <3>3, <3>4, <3>5 DEF c2, e2
  <2>5. \A q \in Runs : runs'[q].pc \in {"send", "update"} => runs'[q].withhold = 0
    BY <1>2, <2>2, <2>3
  <2> QED BY <2>4, <2>5
<1>5. CASE /\ runs' = [runs EXCEPT ![r] = Idle] /\ UNCHANGED displaced
           /\ PaysSome(run) \/ UNCHANGED paid
  <2>1. \A q \in Runs : runs'[q] = IF q = r THEN Idle ELSE runs[q]  BY <1>5 DEF BooksInv
  <2>2. \A q \in Runs : runs'[q].pc \in {"send", "update"} => runs'[q].withhold = 0
    BY <1>2, <2>1, IdleBooks
  <2>3. ASSUME NEW w \in Workers
        PROVE  paid'[w] + displaced'[w] + balances'[w] >= Earned(w)' + Credits(w)'
    <3>1. Credits(w)' = Credits(w) - Credit(run, w) + Credit(Idle, w)
      BY <1>5, IdleBooks, CreditsChange
    <3>2. Credit(Idle, w) = 0  BY IdleBooks DEF Credit
    <3>3. Credits(w)' <= Credits(w)  BY <1>3, <3>1, <3>2
    <3>4. paid'[w] >= paid[w] /\ displaced'[w] = displaced[w] /\ balances'[w] = balances[w]
      BY <1>1, <1>3, <1>5 DEF PaysSome
    <3>5. paid'[w] + displaced'[w] >= paid[w] + displaced[w]
      BY <1>1, <1>3, <3>4
    <3> QED BY <1>2, <1>3, <3>3, <3>4, <3>5, CreditKept
  <2> QED BY <2>2, <2>3
<1> QED BY <1>1, <1>4, <1>5

LEMMA UpdateCredits ==
  ASSUME BooksInv, BooksInv', CoverInv, CreditInv, NEW r \in Runs, Update(r),
         ~Met', "withheld" \notin events'
  PROVE  /\ \A q \in Runs : runs'[q].pc \in {"send", "update"} => runs'[q].withhold = 0
         /\ \A w \in Workers : paid'[w] + displaced'[w] + balances'[w] >= Earned(w)' + Credits(w)'
<1> DEFINE run == runs[r]
<1>1. /\ run \in Paying /\ run.pc = "update" /\ events \subseteq events'
      /\ UNCHANGED <<paid, displaced, due>> /\ runs' = [runs EXCEPT ![r] = Idle]
      /\ Apply(run) \/ UNCHANGED redisVars
  BY UpdateRun
<1>2. /\ \A q \in Runs : runs[q].pc \in {"send", "update"} => runs[q].withhold = 0
      /\ \A w \in Workers : paid[w] + displaced[w] + balances[w] >= Earned(w) + Credits(w)
      /\ Covers(run, pending, due)
  BY <1>1 DEF CreditInv, CoverInv, Met
<1>3. \A q \in Runs : runs'[q] = IF q = r THEN Idle ELSE runs[q]  BY <1>1 DEF BooksInv
<1>4. \A q \in Runs : runs'[q].pc \in {"send", "update"} => runs'[q].withhold = 0
  BY <1>2, <1>3, IdleBooks
<1>5. ASSUME NEW w \in Workers
      PROVE  Credits(w)' = Credits(w) - Sent(run, w)
  <2>1. Credits(w)' = Credits(w) - Credit(run, w) + Credit(Idle, w)
    BY <1>1, IdleBooks, CreditsChange
  <2>2. Credit(Idle, w) = 0 /\ Credit(run, w) = Sent(run, w)
    BY <1>1, IdleBooks DEF Credit
  <2>3. Credits(w) \in Nat /\ Sent(run, w) \in Nat  BY <1>1, CreditsNat, Amounts
  <2> QED BY <2>1, <2>2, <2>3
<1>6. ASSUME UNCHANGED redisVars, NEW w \in Workers
      PROVE  paid'[w] + displaced'[w] + balances'[w] >= Earned(w)' + Credits(w)'
  <2>1. Credits(w) \in Nat /\ Sent(run, w) \in Nat  BY <1>1, CreditsNat, Amounts
  <2>2. Credits(w)' <= Credits(w)  BY <1>5, <2>1
  <2>3. UNCHANGED <<confirmed, balances>>  BY <1>6 DEF redisVars
  <2>4. Earned(w)' = Earned(w)  BY <1>1, <2>3, EarnedKept
  <2>5. paid'[w] + displaced'[w] >= paid[w] + displaced[w]
    BY <1>1 DEF BooksInv, PaymentsTypeOK
  <2> QED BY <1>2, <2>2, <2>3, <2>4, <2>5, CreditKept
<1>7. ASSUME Apply(run), NEW w \in Workers
      PROVE  paid'[w] + displaced'[w] + balances'[w] >= Earned(w)' + Credits(w)'
  <2> DEFINE owed == SumOn(PartsOf(due, w), run.generate \intersect pending)
             c == Credits(w)
             c2 == Credits(w)'
             e == Earned(w)
             e2 == Earned(w)'
  <2>1. e2 = e + owed  BY <1>1, <1>7, EarnedGrows
  <2>2. owed \in Nat
    <3>1. run.generate \intersect pending \in SUBSET Blocks  BY <1>1 DEF Paying
    <3>2. due \in [Blocks -> Tally]  BY DEF BooksInv, PaymentsTypeOK, Tally
    <3> QED BY <3>1, <3>2, PartsNat
  <2>3. owed <= run.reward[w]  BY <1>1, <1>2 DEF Covers
  <2>4. Sent(run, w) + BalanceChange(run, w) = run.reward[w]
    BY <1>1, <1>2, NetOfRun
  <2>5. /\ run.reward[w] \in Nat /\ Sent(run, w) \in Nat /\ BalanceChange(run, w) \in Int
        /\ e \in Nat /\ c \in Nat
        /\ paid[w] \in Int /\ displaced[w] \in Int /\ balances[w] \in Int
    BY <1>1, Amounts, EarnedIs, CreditsNat DEF BooksInv, PaymentsTypeOK
  <2>6. /\ paid'[w] = paid[w] /\ displaced'[w] = displaced[w]
        /\ balances'[w] = balances[w] + BalanceChange(run, w)
    BY <1>1, <1>7 DEF Apply
  <2>7. c2 = c - Sent(run, w)  BY <1>5
  <2>8. paid[w] + displaced[w] + balances[w] >= e + c  BY <1>2
  <2> HIDE DEF owed, c, c2, e, e2, run
  <2>9. paid[w] + displaced[w] + (balances[w] + BalanceChange(run, w)) >= e2 + c2
    BY <2>1, <2>2, <2>3, <2>4, <2>5, <2>7, <2>8
  <2> QED BY <2>6, <2>9 DEF e2, c2
<1> QED BY <1>1, <1>4, <1>6, <1>7

LEMMA CreditInit == Init => CreditInv
<1> SUFFICES ASSUME Init PROVE CreditInv
  OBVIOUS
<1>1. \A r \in Runs : runs[r] = Idle  BY DEF Init
<1>2. ASSUME NEW w \in Workers PROVE paid[w] + displaced[w] + balances[w] >= Earned(w) + Credits(w)
  <2> DEFINE f == [b \in confirmed |-> RoundReward(due[b], w)]
             g == [r \in Runs |-> Credit(runs[r], w)]
  <2>1. SumOn(f, confirmed) = 0
    <3>1. confirmed = {}  BY DEF Init
    <3> HIDE DEF f
    <3> QED BY <3>1, SumEmpty
  <2>2. SumOn(g, Runs) = 0
    <3>1. \A r \in Runs : g[r] = 0  BY <1>1, IdleBooks DEF Credit
    <3> HIDE DEF g
    <3> QED BY <3>1, PaymentsAssumption, SumZero
  <2>3. paid[w] = 0 /\ displaced[w] = 0 /\ balances[w] = 0  BY DEF Init, None
  <2>4. Earned(w) = 0 /\ Credits(w) = 0  BY <2>1, <2>2 DEF Earned, Credits
  <2> QED BY <2>3, <2>4
<1> QED BY <1>1, <1>2, IdleBooks DEF CreditInv

LEMMA CreditStep ==
  ASSUME BooksInv, CoverInv, CreditInv, [Next]_payVars
  PROVE  CreditInv'
<1> DEFINE Kept ==
      /\ \A q \in Runs : runs'[q].pc \in {"send", "update"} => runs'[q].withhold = 0
      /\ \A w \in Workers : paid'[w] + displaced'[w] + balances'[w] >= Earned(w)' + Credits(w)'
<1> SUFFICES ASSUME ~Met', "withheld" \notin events' PROVE Kept
  BY DEF CreditInv
<1>1. BooksInv' /\ events \subseteq events'  BY BooksStep, EventsGrow
<1>2. /\ \A q \in Runs : runs[q].pc \in {"send", "update"} => runs[q].withhold = 0
      /\ \A w \in Workers : paid[w] + displaced[w] + balances[w] >= Earned(w) + Credits(w)
  BY <1>1 DEF CreditInv, Met
<1>3. ASSUME UNCHANGED <<confirmed, paid, displaced, balances>>,
             \A b \in confirmed : due'[b] = due[b], \A w \in Workers : Credits(w)' <= Credits(w), NEW w \in Workers
      PROVE  paid'[w] + displaced'[w] + balances'[w] >= Earned(w)' + Credits(w)'
  <2>1. paid'[w] + displaced'[w] >= paid[w] + displaced[w] /\ balances'[w] = balances[w]
    BY <1>3 DEF BooksInv, PaymentsTypeOK
  <2>2. Earned(w)' = Earned(w)  BY <1>1, <1>3, EarnedKept
  <2> QED BY <1>1, <1>2, <1>3, <2>1, <2>2, CreditKept
<1>4. ASSUME UNCHANGED runs, NEW w \in Workers
      PROVE  Credits(w)' <= Credits(w)
  <2>1. Credits(w)' = Credits(w)  BY <1>4 DEF Credits, Credit, Sent, ToSend
  <2> QED BY <2>1, CreditsNat
<1>5. CASE RecordShare \/ Decide \/ Setup \/ UNCHANGED payVars
  <2>1. UNCHANGED <<confirmed, paid, displaced, balances, due, runs>>
    BY <1>5 DEF RecordShare, Decide, Setup, payVars, redisVars, procVars, lossVars
  <2> QED BY <1>2, <1>3, <1>4, <2>1
<1>6. CASE FindBlock
  <2>1. UNCHANGED <<confirmed, paid, displaced, balances, runs>>  
    BY <1>6 DEF FindBlock, procVars, lossVars
  <2>2. \A b \in confirmed : due'[b] = due[b]
    BY <1>6 DEF FindBlock, BooksInv, PaymentsTypeOK
  <2> QED BY <1>2, <1>3, <1>4, <2>1, <2>2
<1>7. CASE Restart
  <2>1. UNCHANGED <<confirmed, paid, displaced, balances, due>>  
    BY <1>7 DEF Restart, redisVars, lossVars
  <2>2. \A r \in Runs : runs'[r] = Idle  BY <1>7 DEF Restart
  <2>3. ASSUME NEW w \in Workers PROVE Credits(w)' <= Credits(w)
    <3> DEFINE g == [r \in Runs |-> Credit(runs'[r], w)]
    <3>1. \A r \in Runs : g[r] = 0  BY <2>2, IdleBooks DEF Credit
    <3>2. SumOn(g, Runs) = 0
      <4> HIDE DEF g
      <4> QED BY <3>1, PaymentsAssumption, SumZero
    <3>3. Credits(w)' = 0  BY <3>2 DEF Credits, Credit, Sent, ToSend
    <3> QED BY <3>3, CreditsNat
  <2> QED BY <1>3, <2>1, <2>2, <2>3, IdleBooks
<1>8. ASSUME NEW r \in Runs, StartRun(r) \/ GetDetails(r) \/ GetShares(r) \/ Abort(r)
      PROVE  Kept
  <2>1. UNCHANGED <<confirmed, paid, displaced, balances, due>>
    BY <1>8 DEF StartRun, GetDetails, GetShares, Abort, redisVars, lossVars
  <2>2. PICK X \in RunType :
          /\ runs' = [runs EXCEPT ![r] = X]
          /\ X.pc # "update" /\ (X.pc = "send" => X.withhold = 0)
    <3>1. CASE StartRun(r)
      <4> DEFINE X == [pc |-> "details", balance |-> balances, blocks |-> pending]
      <4>1. X \in RunType  BY DEF BooksInv, PaymentsTypeOK, RunType, Looking, Money
      <4>2. runs' = [runs EXCEPT ![r] = X] /\ X.pc = "details"  BY <3>1 DEF StartRun
      <4> HIDE DEF X
      <4> QED BY <4>1, <4>2
    <3>2. CASE GetDetails(r)
      <4>1. Looked(runs[r]) \in RunType /\ Looked(runs[r]).pc = "shares"
        BY <3>2, GetDetailsRun DEF RunType, Counting
      <4> QED BY <3>2, <4>1, GetDetailsRun
    <3>3. CASE GetShares(r)
      <4>1. /\ Counted(runs[r]) \in RunType /\ Counted(runs[r]).pc = "send"
            /\ Counted(runs[r]).withhold = 0
        BY <3>3, GetSharesRun DEF RunType, Counted
      <4> QED BY <3>3, <4>1, GetSharesRun
    <3>4. CASE Abort(r)
      BY <3>4, IdleBooks DEF Abort, Finish
    <3> QED BY <1>8, <3>1, <3>2, <3>3, <3>4
  <2>3. \A q \in Runs : runs'[q] = IF q = r THEN X ELSE runs[q]  BY <2>2 DEF BooksInv
  <2>4. ASSUME NEW w \in Workers PROVE Credits(w)' <= Credits(w)
    <3>1. Credits(w)' = Credits(w) - Credit(runs[r], w) + Credit(X, w)
      BY <2>2, CreditsChange
    <3>2. Credit(X, w) = 0  BY <2>2 DEF Credit
    <3>3. Credits(w) \in Nat /\ Credit(runs[r], w) \in Nat  BY CreditsNat
    <3> QED BY <3>1, <3>2, <3>3
  <2>5. \A q \in Runs : runs'[q].pc \in {"send", "update"} => runs'[q].withhold = 0
    BY <1>2, <2>2, <2>3
  <2> QED BY <1>3, <2>1, <2>4, <2>5
<1>9. ASSUME NEW r \in Runs, Send(r)
      PROVE  Kept
  BY <1>1, <1>9, SendCredits
<1>10. ASSUME NEW r \in Runs, Update(r)
       PROVE  Kept
  BY <1>1, <1>10, UpdateCredits
<1> QED BY <1>5, <1>6, <1>7, <1>8, <1>9, <1>10 DEF Next, Crash, Run, ThrowInUpdate

\* What the workers have, sent, displaced or on their balance, is what confirmed
\* blocks owe them and what runs have sent but not yet taken off the balances.
THEOREM CreditCorrect == Spec => []CreditInv
<1>1. Init => CreditInv  BY CreditInit
<1>2. BooksInv /\ CoverInv /\ CreditInv /\ [Next]_payVars => CreditInv'  BY CreditStep
<1> QED BY <1>1, <1>2, BooksCorrect, CoverCorrect, PTL DEF Spec

----------------------------------------------------------------------------
(* A name that has its address for itself is displaced from no payment.    *)

OwnInv == \A w \in Workers : OwnAddress(w) => displaced[w] = 0

LEMMA OwnIsLast ==
  ASSUME NEW run \in Paying, NEW last \in LastOfAddresses(run),
         NEW w \in Workers, OwnAddress(w), w \notin last
  PROVE  Sent(run, w) = 0
<1>1. SUFFICES ASSUME w \in Payees(run) PROVE FALSE
  BY Amounts DEF Payees
<1> DEFINE S == {v \in last : AddressOf[v] = AddressOf[w]}
<1>2. last \subseteq Workers /\ Cardinality(S) = 1
  BY <1>1 DEF LastOfAddresses, Payees
<1>3. S = {}  BY <1>2 DEF OwnAddress
<1>4. Cardinality(S) = 0  BY <1>3, FS_EmptySet
<1> QED BY <1>2, <1>4

LEMMA OwnStep ==
  ASSUME BooksInv, OwnInv, [Next]_payVars
  PROVE  OwnInv'
<1>1. SUFFICES ASSUME NEW w \in Workers, OwnAddress(w) PROVE displaced'[w] = 0
  BY DEF OwnInv, OwnAddress
<1>2. displaced[w] = 0 /\ displaced \in [Workers -> Nat]
  BY <1>1 DEF OwnInv, BooksInv, PaymentsTypeOK
<1>3. CASE UNCHANGED displaced
  BY <1>2, <1>3
<1>4. ASSUME NEW r \in Runs, NEW last \in LastOfAddresses(runs[r]),
             runs[r] \in Paying, Displaces(runs[r], last)
      PROVE  displaced'[w] = 0
  <2>1. w \notin last => Sent(runs[r], w) = 0  BY <1>1, <1>4, OwnIsLast
  <2> QED BY <1>2, <1>4, <2>1 DEF Displaces
<1>5. ASSUME NEW r \in Runs, Send(r) PROVE displaced'[w] = 0
  <2>1. runs[r] \in Paying  BY <1>5, SendRun
  <2>2. UNCHANGED displaced
          \/ \E last \in LastOfAddresses(runs[r]) : Displaces(runs[r], last)
    BY <1>5 DEF Send, SkipSend, SendMany
  <2> QED BY <1>3, <1>4, <2>1, <2>2
<1>6. ASSUME NEW r \in Runs,
             \/ StartRun(r) \/ GetDetails(r) \/ GetShares(r) \/ Abort(r)
             \/ Update(r) \/ ThrowInUpdate(r)
      PROVE  UNCHANGED displaced
  BY <1>6 DEF StartRun, GetDetails, GetShares, Abort, Update, ThrowInUpdate, Restart, lossVars
<1>7. CASE RecordShare \/ FindBlock \/ Decide \/ Setup \/ Crash \/ UNCHANGED payVars
  BY <1>3, <1>7 DEF RecordShare, FindBlock, Decide, Setup, Crash, Restart, lossVars, payVars
<1> QED BY <1>3, <1>5, <1>6, <1>7 DEF Next, Run

LEMMA OwnCorrect == Spec => []OwnInv
<1>1. Init => OwnInv  BY DEF Init, None, OwnInv
<1>2. BooksInv /\ OwnInv /\ [Next]_payVars => OwnInv'  BY OwnStep
<1> QED BY <1>1, <1>2, BooksCorrect, PTL DEF Spec

----------------------------------------------------------------------------

\* Overlapping runs, crashes, lost answers and a failing redis never cost a miner:
\* what was sent for a worker and what is on its balance cover its part of every
\* confirmed block, unless fees were withheld or blocks of a height met; if it shares
\* its address, with what another name displaced.
THEOREM NobodyUnderpaid == Spec => []NeverUnderpaid
<1>1. BooksInv /\ CreditInv /\ OwnInv => NeverUnderpaid
  <2> SUFFICES ASSUME BooksInv, CreditInv, OwnInv,
                      events \intersect {"withheld", "overwrite", "late"} = {},
                      NEW w \in Workers
               PROVE  /\ paid[w] + displaced[w] + balances[w] >= Earned(w)
                      /\ OwnAddress(w) => paid[w] + balances[w] >= Earned(w)
    BY DEF NeverUnderpaid
  <2>1. ~Met /\ "withheld" \notin events  BY DEF Met
  <2>2. paid[w] + displaced[w] + balances[w] >= Earned(w) + Credits(w)  BY <2>1 DEF CreditInv
  <2>3. /\ Earned(w) \in Nat /\ Credits(w) \in Nat
        /\ paid[w] \in Int /\ displaced[w] \in Int /\ balances[w] \in Int
    BY EarnedIs, CreditsNat DEF BooksInv, PaymentsTypeOK
  <2>4. paid[w] + displaced[w] + balances[w] >= Earned(w)  BY <2>2, <2>3
  <2>5. OwnAddress(w) => displaced[w] = 0  BY DEF OwnInv
  <2> QED BY <2>3, <2>4, <2>5
<1> QED BY <1>1, BooksCorrect, CreditCorrect, OwnCorrect, PTL

----------------------------------------------------------------------------
(* Without overlaps there is one run at a time, and the blocks it looked   *)
(* up stay pending until it settles them.                                  *)

AloneInv ==
  "overlap" \notin events =>
    /\ \A q, r \in Runs : runs[q].pc # "idle" /\ runs[r].pc # "idle" => q = r
    /\ \A r \in Runs : runs[r].pc # "idle" => runs[r].blocks \subseteq pending

LEMMA AloneInit == Init => AloneInv
BY IdleBooks DEF Init, AloneInv

LEMMA AloneStep ==
  ASSUME BooksInv, AloneInv, [Next]_payVars
  PROVE  AloneInv'
<1> SUFFICES ASSUME "overlap" \notin events'
             PROVE  /\ \A q, r \in Runs : runs'[q].pc # "idle" /\ runs'[r].pc # "idle" => q = r
                    /\ \A r \in Runs : runs'[r].pc # "idle" => runs'[r].blocks \subseteq pending'
  BY DEF AloneInv
<1>1. "overlap" \notin events  BY EventsGrow
<1>2. /\ \A q, r \in Runs : runs[q].pc # "idle" /\ runs[r].pc # "idle" => q = r
      /\ \A r \in Runs : runs[r].pc # "idle" => runs[r].blocks \subseteq pending
  BY <1>1 DEF AloneInv
<1>3. CASE RecordShare \/ FindBlock \/ Decide \/ Setup \/ UNCHANGED payVars
  <2>1. UNCHANGED runs /\ pending \subseteq pending'
    BY <1>3 DEF RecordShare, FindBlock, Decide, Setup, payVars, redisVars, procVars
  <2> QED BY <1>2, <2>1
<1>4. CASE Restart
  BY <1>4, IdleBooks DEF Restart
<1>5. ASSUME NEW r \in Runs,
             StartRun(r) \/ GetDetails(r) \/ GetShares(r) \/ Abort(r) \/ Send(r)
      PROVE  /\ \A q, p \in Runs : runs'[q].pc # "idle" /\ runs'[p].pc # "idle" => q = p
             /\ \A q \in Runs : runs'[q].pc # "idle" => runs'[q].blocks \subseteq pending'
  <2>1. UNCHANGED pending  BY <1>5, RunShape
  <2>2. PICK X \in RunType :
          /\ runs' = [runs EXCEPT ![r] = X]
          /\ \/ X.pc = "idle"
             \/ runs[r].pc = "idle" /\ X.blocks = pending
             \/ runs[r].pc # "idle" /\ X.blocks = runs[r].blocks
    BY <1>5, RunShape
  <2>3. \A q \in Runs : runs'[q] = IF q = r THEN X ELSE runs[q]  BY <2>2 DEF BooksInv
  <2>4. CASE runs[r].pc = "idle"
    <3>1. StartRun(r)
      BY <1>5, <2>4, SendRun DEF GetDetails, GetShares, Abort
    <3>2. \A q \in Runs : runs[q].pc = "idle"
      BY <3>1, IdleBooks DEF StartRun
    <3> QED BY <2>1, <2>2, <2>3, <2>4, <3>2
  <2>5. CASE runs[r].pc # "idle"
    BY <1>2, <2>1, <2>2, <2>3, <2>5
  <2> QED BY <2>4, <2>5
<1>6. ASSUME NEW r \in Runs, Update(r)
      PROVE  \A q \in Runs : runs'[q].pc = "idle"
  <2>1. runs[r].pc = "update" /\ runs' = [runs EXCEPT ![r] = Idle]  BY <1>6, UpdateRun
  <2>2. \A q \in Runs : runs'[q] = IF q = r THEN Idle ELSE runs[q]
    BY <2>1 DEF BooksInv
  <2> QED BY <1>2, <2>1, <2>2, IdleBooks
<1> QED BY <1>3, <1>4, <1>5, <1>6 DEF Next, Crash, Run, ThrowInUpdate

LEMMA AloneCorrect == Spec => []AloneInv
<1>1. Init => AloneInv  BY AloneInit
<1>2. BooksInv /\ AloneInv /\ [Next]_payVars => AloneInv'  BY AloneStep
<1> QED BY <1>1, <1>2, BooksCorrect, PTL DEF Spec

----------------------------------------------------------------------------
(* Every share is in one tally.                                            *)

RoundTotals(rs) == [h \in Heights |-> Total(rs[h])]
DueTotals(d)    == [b \in Blocks |-> Total(d[b])]

Entangled == Met \/ "overlap" \in events

\* A round that is there is a pending block's; a run merges the rounds of all the
\* orphans it settles, as those blocks closed them; and the shares add up.
LedgerInv ==
  ~Entangled =>
    /\ \A h \in Heights : rounds[h] # None => \E b \in pending : HeightOf[b] = h
    /\ \A r \in Runs : runs[r].pc \in {"shares", "send", "update"} =>
                         Merging(runs[r]) = runs[r].orphan
    /\ \A r \in Runs : runs[r].pc \in {"send", "update"} =>
                         \A b \in Merging(runs[r]) : runs[r].merge[b] = due[b]
    /\ recorded = Total(round) + Total(unmerged) + SumOn(RoundTotals(rounds), Heights)
                    + SumOn(DueTotals(due), confirmed)

LEMMA HeightsFinite == IsFiniteSet(Heights)
<1>1. HeightOf \in Surjection(Blocks, Heights)
  BY PaymentsAssumption DEF Surjection, Heights
<1> QED BY <1>1, PaymentsAssumption, FS_Surjection

LEMMA TotalNone == Total(None) = 0
<1>1. \A w \in Workers : None[w] = 0  BY DEF None
<1> QED BY <1>1, PaymentsAssumption, SumZero DEF Total

LEMMA TotalMore ==
  ASSUME NEW t \in Tally, NEW w \in Workers, NEW d \in Difficulties
  PROVE  Total([t EXCEPT ![w] = @ + d]) = Total(t) + d
<1> DEFINE u == [t EXCEPT ![w] = @ + d]
<1>0. d \in Nat  BY PaymentsAssumption
<1>1. \A v \in Workers : t[v] \in Int /\ u[v] \in Int /\ (v # w => u[v] = t[v])
  BY <1>0 DEF Tally
<1>2. u[w] = t[w] + d  BY DEF Tally
<1>3. SumOn(u, Workers) = SumOn(t, Workers) - t[w] + u[w]
  <2> HIDE DEF u
  <2> QED BY <1>1, PaymentsAssumption, SumChange
<1>4. SumOn(t, Workers) \in Nat /\ t[w] \in Nat  BY TotalNat DEF Total, Tally
<1> QED BY <1>0, <1>2, <1>3, <1>4 DEF Total

LEMMA TotalsNat ==
  ASSUME BooksInv, NEW S \in SUBSET Heights, NEW T \in SUBSET Blocks
  PROVE  /\ IsFiniteSet(S) /\ IsFiniteSet(T)
         /\ \A h \in S : RoundTotals(rounds)[h] \in Nat
         /\ \A b \in T : DueTotals(due)[b] \in Nat
         /\ SumOn(RoundTotals(rounds), S) \in Nat
         /\ SumOn(DueTotals(due), T) \in Nat
<1> DEFINE f == RoundTotals(rounds)
           g == DueTotals(due)
<1>1. IsFiniteSet(S) /\ IsFiniteSet(T)
  BY HeightsFinite, PaymentsAssumption, FS_Subset
<1>2. \A h \in S : f[h] \in Nat
  BY TotalNat DEF RoundTotals, BooksInv, PaymentsTypeOK, Tally
<1>3. \A b \in T : g[b] \in Nat
  BY TotalNat DEF DueTotals, BooksInv, PaymentsTypeOK, Tally
<1> HIDE DEF f, g
<1>4. SumOn(f, S) \in Nat /\ SumOn(g, T) \in Nat  BY <1>1, <1>2, <1>3, SumNat
<1> QED BY <1>1, <1>2, <1>3, <1>4 DEF f, g

\* The tallies of a set of blocks, worker by worker added to the current round or to
\* what redis did not take.
LEMMA TotalMerged ==
  ASSUME BooksInv, BooksInv', NEW run \in Paying, Apply(run),
         \A b \in DOMAIN run.merge : run.merge[b] = due[b]
  PROVE  Total(round') + Total(unmerged')
           = Total(round) + Total(unmerged) + SumOn(DueTotals(due), DOMAIN run.merge)
<1> DEFINE D == DOMAIN run.merge
           M == run.merge
           added == [w \in Workers |-> SumOn([b \in D |-> M[b][w]], D)]
           sums == [b \in D |-> SumOn([w \in Workers |-> M[b][w]], Workers)]
           g == DueTotals(due)
           pot == [w \in Workers |-> round[w] + unmerged[w]]
           pot2 == [w \in Workers |-> round'[w] + unmerged'[w]]
<1>1. D \in SUBSET Blocks /\ M \in [D -> Tally]  BY MergesFun DEF Paying
<1>2. IsFiniteSet(D) /\ IsFiniteSet(Workers)  BY <1>1, PaymentsAssumption, FS_Subset
<1>3. \A b \in D, w \in Workers : M[b][w] \in Nat
  <2> HIDE DEF D, M
  <2> QED BY <1>1 DEF Tally
<1>4. SumOn(added, Workers) = SumOn(sums, D)
  <2> HIDE DEF D, M
  <2>1. \A b \in D, w \in Workers : M[b][w] \in Int  BY <1>3
  <2>2. SumOn(ColumnSums(M, D, Workers), Workers) = SumOn(RowSums(M, D, Workers), D)
    BY <1>2, <2>1, SumExchange
  <2>3. added = ColumnSums(M, D, Workers) /\ sums = RowSums(M, D, Workers)
    BY DEF ColumnSums, RowSums
  <2> HIDE DEF added, sums
  <2> QED BY <2>2, <2>3
<1>5. SumOn(sums, D) = SumOn(g, D)
  <2>1. ASSUME NEW b \in D PROVE sums[b] = g[b]
    <3>1. M[b] = due[b] /\ b \in Blocks /\ due[b] \in Tally
      BY <1>1 DEF BooksInv, PaymentsTypeOK, Tally
    <3>2. due[b] = [w \in Workers |-> due[b][w]]  BY <3>1 DEF Tally
    <3>3. [w \in Workers |-> M[b][w]] = due[b]  BY <3>1, <3>2
    <3>4. sums[b] = SumOn(due[b], Workers)  BY <3>3
    <3>5. g[b] = SumOn(due[b], Workers)  BY <3>1 DEF DueTotals, Total
    <3> QED BY <3>4, <3>5
  <2> HIDE DEF sums, g, D
  <2> QED BY <1>2, <2>1, SumSame
<1>6. ASSUME NEW w \in Workers
      PROVE  /\ round[w] \in Int /\ unmerged[w] \in Int /\ pot[w] = round[w] + unmerged[w]
             /\ round'[w] \in Int /\ unmerged'[w] \in Int
             /\ pot2[w] = round'[w] + unmerged'[w]
             /\ pot[w] \in Int /\ added[w] \in Int /\ pot2[w] = pot[w] + added[w]
  <2>1. /\ round[w] \in Nat /\ unmerged[w] \in Nat
        /\ round'[w] \in Nat /\ unmerged'[w] \in Nat
    BY DEF BooksInv, PaymentsTypeOK
  <2>2. Merged(run, w) \in Nat /\ Added(run, w) \in Nat  BY MergedNat
  <2>3. /\ round'[w] = round[w] + Added(run, w)
        /\ unmerged'[w] = unmerged[w] + Merged(run, w) - Added(run, w)
    BY DEF Apply
  <2>4. added[w] = Merged(run, w)  BY DEF Merged
  <2>5. pot[w] = round[w] + unmerged[w] /\ pot2[w] = round'[w] + unmerged'[w]
    OBVIOUS
  <2> HIDE DEF added, pot, pot2
  <2> QED BY <2>1, <2>2, <2>3, <2>4, <2>5
<1> DEFINE now == round'
           lost == unmerged'
<1> HIDE DEF added, sums, g, D, M, pot, pot2, now, lost
<1>7. SumOn(pot, Workers) = SumOn(round, Workers) + SumOn(unmerged, Workers)
  BY <1>2, <1>6, SumPlus
<1>8. SumOn(pot2, Workers) = SumOn(now, Workers) + SumOn(lost, Workers)
  BY <1>2, <1>6, SumPlus DEF now, lost
<1>9. SumOn(pot2, Workers) = SumOn(pot, Workers) + SumOn(added, Workers)
  BY <1>2, <1>6, SumPlus
<1> QED BY <1>4, <1>5, <1>7, <1>8, <1>9 DEF Total, now, lost, g, D

\* The final MULTI takes every tally it deletes to the current round, but for what
\* redis does not take, or to a confirmed block.
LEMMA ApplyLedger ==
  ASSUME BooksInv, BooksInv', DistinctInv, AloneInv, LedgerInv, ~Entangled,
         NEW r \in Runs, runs[r] \in Paying, Apply(runs[r])
  PROVE  Total(round') + Total(unmerged') + SumOn(RoundTotals(rounds'), Heights)
             + SumOn(DueTotals(due), confirmed')
           = Total(round) + Total(unmerged) + SumOn(RoundTotals(rounds), Heights)
               + SumOn(DueTotals(due), confirmed)
<1> DEFINE run == runs[r]
           G == run.generate
           O == DOMAIN run.merge
           S == G \union O
           D == {HeightOf[b] : b \in S}
           rest == Heights \ D
           f == RoundTotals(rounds)
           f2 == RoundTotals(rounds')
           g == DueTotals(due)
<1>1. /\ run.pc \in {"send", "update"} /\ RunBooks(run, status) /\ Merging(run) = O
      /\ O = run.orphan
  <2>1. run.pc \in {"send", "update"} /\ RunBooks(run, status)  BY DEF Paying, BooksInv
  <2>2. Merging(run) = O  BY <2>1 DEF Merging
  <2> QED BY <2>1, <2>2 DEF LedgerInv
<1>2. run.blocks \subseteq pending /\ ~Met
  BY <1>1 DEF AloneInv, Entangled
<1>3. G \intersect O = {} /\ G \subseteq pending /\ O \subseteq pending
  <2> HIDE DEF run
  <2> QED BY <1>1, <1>2 DEF RunBooks
<1>4. /\ S \subseteq pending /\ S \in SUBSET Blocks /\ G \in SUBSET Blocks
      /\ O \in SUBSET Blocks /\ D \in SUBSET Heights /\ rest \in SUBSET Heights
      /\ confirmed \in SUBSET Blocks /\ confirmed \intersect G = {}
  BY <1>3 DEF BooksInv, PaymentsTypeOK, Heights
<1>5. /\ IsFiniteSet(S) /\ IsFiniteSet(G) /\ IsFiniteSet(O) /\ IsFiniteSet(D)
      /\ IsFiniteSet(rest) /\ IsFiniteSet(confirmed)
  <2> HIDE DEF S, G, O, D, rest
  <2> QED BY <1>4, HeightsFinite, PaymentsAssumption, FS_Subset
<1>6. /\ \A h \in Heights : f[h] \in Nat
      /\ \A b \in Blocks : g[b] \in Nat
  BY TotalsNat
<1>7. SumOn(f, D) = SumOn(g, G) + SumOn(g, O)
  <2> DEFINE k == [b \in S |-> f[HeightOf[b]]]
  <2>1. SumOn(f, D) = SumOn(k, S)
    <3>1. \A b \in S : f[HeightOf[b]] \in Int  BY <1>4, <1>6 DEF Heights
    <3>2. \A b, c \in S : HeightOf[b] = HeightOf[c] => b = c
      BY <1>2, <1>4 DEF DistinctInv, Distinct, SameHeight
    <3> HIDE DEF f, S
    <3> QED BY <1>5, <3>1, <3>2, SumImage
  <2>2. \A b \in S : k[b] = g[b]
    <3>1. \A b \in S : rounds[HeightOf[b]] = due[b]  BY <1>2, <1>4 DEF DistinctInv
    <3>2. \A b \in S : f[HeightOf[b]] = Total(rounds[HeightOf[b]])
      BY <1>4 DEF Heights, RoundTotals
    <3>3. \A b \in S : g[b] = Total(due[b])  BY <1>4 DEF DueTotals
    <3> HIDE DEF f, g, S
    <3> QED BY <3>1, <3>2, <3>3
  <2>3. SumOn(k, S) = SumOn(g, S)
    <3> HIDE DEF k, g, S
    <3> QED BY <1>5, <2>2, SumSame
  <2>4. SumOn(g, G \union O) = SumOn(g, G) + SumOn(g, O)
    <3>1. \A b \in G \union O : g[b] \in Int  BY <1>4, <1>6
    <3> HIDE DEF g, G, O
    <3> QED BY <1>3, <1>5, <3>1, SumUnion
  <2> QED BY <2>1, <2>3, <2>4
<1>8. SumOn(f, Heights) = SumOn(f, D) + SumOn(f, rest)
  <2>1. D \union rest = Heights /\ D \intersect rest = {}  BY <1>4
  <2>2. \A h \in D \union rest : f[h] \in Int  BY <1>6, <2>1
  <2> HIDE DEF f, D, rest
  <2> QED BY <1>5, <2>1, <2>2, SumUnion
<1>9. SumOn(f2, Heights) = SumOn(f, rest)
  <2>1. \A h \in D : f2[h] = 0
    BY <1>4, TotalNone DEF RoundTotals, Apply, RoundsToDelete
  <2>2. \A h \in rest : f2[h] = f[h]
    BY DEF RoundTotals, Apply, RoundsToDelete
  <2>3. D \union rest = Heights /\ D \intersect rest = {}  BY <1>4
  <2>4. \A h \in D \union rest : f2[h] \in Int  BY <1>6, <2>1, <2>2, <2>3
  <2> HIDE DEF f, f2, D, rest
  <2>5. SumOn(f2, D \union rest) = SumOn(f2, D) + SumOn(f2, rest)
    BY <1>5, <2>3, <2>4, SumUnion
  <2>6. SumOn(f2, D) = 0  BY <1>5, <2>1, SumZero
  <2>7. SumOn(f2, rest) = SumOn(f, rest)  BY <1>5, <2>2, SumSame
  <2>8. SumOn(f, rest) \in Int
    <3>1. \A h \in rest : f[h] \in Int  BY <1>6, <2>3
    <3> QED BY <1>5, <3>1, SumInt
  <2>9. SumOn(f2, D \union rest) = SumOn(f, rest)  BY <2>5, <2>6, <2>7, <2>8
  <2>10. SumOn(f2, D \union rest) = SumOn(f2, Heights)  BY <2>3
  <2> QED BY <2>9, <2>10
<1>10. SumOn(g, confirmed') = SumOn(g, confirmed) + SumOn(g, G)
  <2>1. confirmed' = confirmed \union G  BY <1>3 DEF Apply
  <2>2. \A b \in confirmed \union G : g[b] \in Int  BY <1>4, <1>6
  <2> HIDE DEF g, G
  <2>3. SumOn(g, confirmed \union G) = SumOn(g, confirmed) + SumOn(g, G)
    BY <1>4, <1>5, <2>2, SumUnion
  <2> QED BY <2>1, <2>3
<1>11. Total(round') + Total(unmerged') = Total(round) + Total(unmerged) + SumOn(g, O)
  <2>1. \A b \in O : run.merge[b] = due[b]  BY <1>1 DEF LedgerInv
  <2> QED BY <2>1, TotalMerged
<1>12. /\ Total(round) + Total(unmerged) \in Nat /\ SumOn(g, G) \in Nat /\ SumOn(g, O) \in Nat
       /\ SumOn(f, rest) \in Nat /\ SumOn(g, confirmed) \in Nat
  <2>1. Total(round) + Total(unmerged) \in Nat
    <3>1. Total(round) \in Nat /\ Total(unmerged) \in Nat
      BY TotalNat DEF BooksInv, PaymentsTypeOK, Tally
    <3> QED BY <3>1
  <2>2. SumOn(g, G) \in Nat /\ SumOn(g, O) \in Nat /\ SumOn(g, confirmed) \in Nat
    <3> HIDE DEF G, O
    <3> QED BY <1>4, TotalsNat
  <2>3. SumOn(f, rest) \in Nat
    <3> HIDE DEF rest
    <3> QED BY <1>4, TotalsNat
  <2> QED BY <2>1, <2>2, <2>3
<1> DEFINE tr == Total(round) + Total(unmerged)
           tr2 == Total(round') + Total(unmerged')
           sf == SumOn(f, Heights)
           sf2 == SumOn(f2, Heights)
           sr == SumOn(f, rest)
           sd == SumOn(f, D)
           sc == SumOn(g, confirmed)
           sc2 == SumOn(g, confirmed')
           sg == SumOn(g, G)
           so == SumOn(g, O)
<1>13. tr2 + sf2 + sc2 = tr + sf + sc
  <2>1. /\ sd = sg + so /\ sf = sd + sr /\ sf2 = sr /\ sc2 = sc + sg /\ tr2 = tr + so
        /\ tr \in Nat /\ sg \in Nat /\ so \in Nat /\ sr \in Nat /\ sc \in Nat
    BY <1>7, <1>8, <1>9, <1>10, <1>11, <1>12
  <2> HIDE DEF tr, tr2, sf, sf2, sr, sd, sc, sc2, sg, so
  <2> QED BY <2>1
<1> QED BY <1>13

\* The conjuncts of LedgerInv, for the steps to keep one by one.
RoundsPending == \A h \in Heights : rounds[h] # None => \E b \in pending : HeightOf[b] = h

MergesWhole(run, d) ==
  /\ run.pc \in {"shares", "send", "update"} => Merging(run) = run.orphan
  /\ run.pc \in {"send", "update"} => \A b \in Merging(run) : run.merge[b] = d[b]

Balanced ==
  recorded = Total(round) + Total(unmerged) + SumOn(RoundTotals(rounds), Heights)
               + SumOn(DueTotals(due), confirmed)

LEMMA LedgerParts ==
  LedgerInv <=> (~Entangled => /\ RoundsPending
                               /\ \A r \in Runs : MergesWhole(runs[r], due)
                               /\ Balanced)
BY DEF LedgerInv, RoundsPending, MergesWhole, Balanced

LEMMA BalancedKept ==
  ASSUME Balanced, UNCHANGED <<recorded, round, unmerged, rounds, due, confirmed>>
  PROVE  Balanced'
BY DEF Balanced, RoundTotals, DueTotals, Total

\* Two states with the same tallies of the confirmed blocks.
LEMMA DueKept ==
  ASSUME BooksInv, BooksInv', \A b \in confirmed : due'[b] = due[b]
  PROVE  SumOn(DueTotals(due'), confirmed) = SumOn(DueTotals(due), confirmed)
<1> DEFINE f == DueTotals(due)
           g == DueTotals(due')
<1>1. confirmed \in SUBSET Blocks  BY DEF BooksInv, PaymentsTypeOK
<1>2. IsFiniteSet(confirmed)  BY <1>1, PaymentsAssumption, FS_Subset
<1>3. \A b \in confirmed : f[b] = g[b]  BY <1>1 DEF DueTotals
<1> HIDE DEF f, g
<1>4. SumOn(g, confirmed) = SumOn(f, confirmed)  BY <1>2, <1>3, SumSame
<1> QED BY <1>4 DEF f, g

LEMMA RecordShareLedger ==
  ASSUME BooksInv, Balanced, RecordShare
  PROVE  Balanced'
<1>1. PICK w \in Workers, d \in Difficulties :
        recorded' = recorded + d /\ round' = [round EXCEPT ![w] = @ + d]
  BY DEF RecordShare, Recorded
<1>2. d \in Nat /\ round \in Tally /\ unmerged \in Tally
  BY PaymentsAssumption DEF BooksInv, PaymentsTypeOK, Tally
<1>3. Total(round') = Total(round) + d  BY <1>1, <1>2, TotalMore
<1>4. UNCHANGED <<rounds, due, confirmed, unmerged>>  BY DEF RecordShare, lossVars
<1> DEFINE a == Total(round)
           u == Total(unmerged)
           b == SumOn(RoundTotals(rounds), Heights)
           c == SumOn(DueTotals(due), confirmed)
<1>5. a \in Nat /\ u \in Nat /\ b \in Nat /\ c \in Nat
  <2>1. confirmed \in SUBSET Blocks /\ Heights \in SUBSET Heights
    BY DEF BooksInv, PaymentsTypeOK
  <2> QED BY <1>2, <2>1, TotalNat, TotalsNat
<1>6. recorded = a + u + b + c  BY DEF Balanced
<1>7. recorded' = (a + d) + u + b + c
  <2> HIDE DEF a, u, b, c
  <2> QED BY <1>1, <1>2, <1>5, <1>6
<1>8. Balanced' <=> recorded' = Total(round') + Total(unmerged')
                                  + SumOn(RoundTotals(rounds'), Heights)
                                  + SumOn(DueTotals(due'), confirmed')
  BY DEF Balanced, RoundTotals, DueTotals, Total
<1> QED BY <1>3, <1>4, <1>7, <1>8

LEMMA FindBlockLedger ==
  ASSUME BooksInv, BooksInv', ~Met', RoundsPending, Balanced, FindBlock
  PROVE  RoundsPending' /\ Balanced'
<1> PICK b \in Blocks, w \in Workers, d \in Difficulties :
      /\ recorded' = recorded + d
      /\ status[b] = "none"
      /\ rounds' = [rounds EXCEPT ![HeightOf[b]] = [round EXCEPT ![w] = @ + d]]
      /\ due' = [due EXCEPT ![b] = [round EXCEPT ![w] = @ + d]]
      /\ pending' = pending \union {b}
      /\ events' = events \union (IF Overwrites(HeightOf[b]) THEN {"overwrite"} ELSE {})
                          \union (IF ComesLate(HeightOf[b]) THEN {"late"} ELSE {})
  BY DEF FindBlock, Recorded
<1> DEFINE h0 == HeightOf[b]
           tally == [round EXCEPT ![w] = @ + d]
           f == RoundTotals(rounds)
           f2 == RoundTotals(rounds')
<1>1. ~Overwrites(h0)  BY DEF Met
<1>2. h0 \in Heights  BY DEF Heights
<1>3. rounds[h0] = None  BY <1>1, <1>2 DEF RoundsPending, Overwrites
<1>4. \A h \in Heights : rounds'[h] = IF h = h0 THEN tally ELSE rounds[h]
  BY <1>2 DEF BooksInv, PaymentsTypeOK
<1>5. RoundsPending'
  BY <1>2, <1>4 DEF RoundsPending
<1>6. /\ round \in Tally /\ unmerged \in Tally /\ d \in Nat
      /\ Total(tally) = Total(round) + d
  BY TotalMore, PaymentsAssumption DEF BooksInv, PaymentsTypeOK, Tally
<1>7. \A h \in Heights : f[h] \in Nat /\ f2[h] \in Nat
  BY TotalNat DEF RoundTotals, BooksInv, PaymentsTypeOK, Tally
<1>8. f[h0] = 0 /\ f2[h0] = Total(round) + d
  BY <1>2, <1>3, <1>4, <1>6, TotalNone DEF RoundTotals
<1>9. \A h \in Heights : h # h0 => f2[h] = f[h]  BY <1>4 DEF RoundTotals
<1>10. SumOn(f2, Heights) = SumOn(f, Heights) - f[h0] + f2[h0]
  <2> HIDE DEF f, f2, h0
  <2> QED BY <1>2, <1>7, <1>9, HeightsFinite, SumChange
<1>11. SumOn(DueTotals(due'), confirmed) = SumOn(DueTotals(due), confirmed)
  <2>1. \A c \in confirmed : due'[c] = due[c]  BY DEF BooksInv, PaymentsTypeOK
  <2> QED BY <2>1, DueKept
<1>12. UNCHANGED <<confirmed, unmerged>> /\ round' = None
  BY DEF FindBlock, lossVars
<1> DEFINE x == Total(round)
           u == Total(unmerged)
           y == SumOn(f, Heights)
           z == SumOn(DueTotals(due), confirmed)
<1>13. x \in Nat /\ u \in Nat /\ y \in Nat /\ z \in Nat
  <2>1. confirmed \in SUBSET Blocks /\ Heights \in SUBSET Heights
    BY DEF BooksInv, PaymentsTypeOK
  <2> QED BY <1>6, <2>1, TotalNat, TotalsNat
<1>14. recorded = x + u + y + z  BY DEF Balanced
<1>15. SumOn(f2, Heights) = y + x + d
  <2>1. SumOn(f2, Heights) = y - 0 + (x + d)  BY <1>8, <1>10
  <2> HIDE DEF x, y, f2
  <2> QED BY <1>6, <1>13, <2>1
<1>16. recorded' = 0 + u + (y + x + d) + z
  <2> HIDE DEF x, u, y, z
  <2> QED BY <1>6, <1>13, <1>14
<1>17. Balanced' <=> recorded' = Total(round') + Total(unmerged')
                                   + SumOn(RoundTotals(rounds'), Heights)
                                   + SumOn(DueTotals(due'), confirmed')
  BY DEF Balanced, RoundTotals, DueTotals, Total
<1> QED BY <1>5, <1>11, <1>12, <1>15, <1>16, <1>17, TotalNone

LEMMA UpdateLedger ==
  ASSUME BooksInv, BooksInv', DistinctInv, AloneInv, LedgerInv, ~Entangled,
         NEW r \in Runs, Update(r)
  PROVE  RoundsPending' /\ Balanced'
<1> DEFINE run == runs[r]
<1>1. /\ run \in Paying /\ run.pc = "update" /\ UNCHANGED <<due, recorded>>
      /\ Apply(run) \/ UNCHANGED <<redisVars, unmerged>>
  BY UpdateRun
<1>2. RoundsPending /\ MergesWhole(run, due) /\ Balanced  BY LedgerParts
<1>3. CASE UNCHANGED <<redisVars, unmerged>>
  <2>1. UNCHANGED <<round, unmerged, rounds, pending, confirmed>>  BY <1>3 DEF redisVars
  <2> QED BY <1>1, <1>2, <2>1, BalancedKept DEF RoundsPending
<1>4. CASE Apply(run)
  <2>1. RoundsPending'
    <3> SUFFICES ASSUME NEW h \in Heights, rounds'[h] # None
                 PROVE  \E b \in pending' : HeightOf[b] = h
      BY DEF RoundsPending
    <3>1. h \notin RoundsToDelete(run) /\ rounds[h] # None  BY <1>4 DEF Apply
    <3>2. PICK b \in pending : HeightOf[b] = h  BY <1>2, <3>1 DEF RoundsPending
    <3>3. run.orphan = DOMAIN run.merge  BY <1>1, <1>2 DEF MergesWhole, Merging
    <3>4. b \notin run.generate /\ b \notin run.orphan
      BY <3>1, <3>2, <3>3 DEF RoundsToDelete
    <3> QED BY <1>4, <3>2, <3>4 DEF Apply
  <2>2. Balanced' <=> recorded' = Total(round') + Total(unmerged')
                                    + SumOn(RoundTotals(rounds'), Heights)
                                    + SumOn(DueTotals(due'), confirmed')
    BY DEF Balanced, RoundTotals, DueTotals, Total
  <2> QED BY <1>1, <1>2, <1>4, <2>1, <2>2, ApplyLedger DEF Balanced
<1> QED BY <1>1, <1>3, <1>4

LEMMA LedgerInit == Init => LedgerInv
<1> SUFFICES ASSUME Init PROVE LedgerInv
  OBVIOUS
<1> DEFINE f == RoundTotals(rounds)
           g == DueTotals(due)
<1>1. \A h \in Heights : f[h] = 0
  BY TotalNone DEF Init, RoundTotals
<1>2. SumOn(f, Heights) = 0
  <2> HIDE DEF f
  <2> QED BY <1>1, HeightsFinite, SumZero
<1>3. SumOn(g, confirmed) = 0
  <2>1. confirmed = {}  BY DEF Init
  <2> HIDE DEF g
  <2> QED BY <2>1, SumEmpty
<1>4. Total(round) = 0 /\ Total(unmerged) = 0 /\ recorded = 0  BY TotalNone DEF Init
<1>5. Balanced  BY <1>2, <1>3, <1>4 DEF Balanced
<1>6. RoundsPending  BY DEF Init, RoundsPending
<1>7. \A r \in Runs : MergesWhole(runs[r], due)  BY IdleBooks DEF Init, MergesWhole
<1> QED BY <1>5, <1>6, <1>7, LedgerParts

\* One run's record changes to one that merges whole rounds; no tally it merges does.
LEMMA OneRunMerges ==
  ASSUME BooksInv, \A q \in Runs : MergesWhole(runs[q], due), UNCHANGED due,
         NEW r \in Runs, NEW X, runs' = [runs EXCEPT ![r] = X], MergesWhole(X, due)
  PROVE  \A q \in Runs : MergesWhole(runs'[q], due')
<1>1. \A q \in Runs : runs'[q] = IF q = r THEN X ELSE runs[q]  BY DEF BooksInv
<1> QED BY <1>1

LEMMA RunMerges ==
  ASSUME BooksInv, DistinctInv, AloneInv, LedgerInv, ~Entangled, NEW r \in Runs,
         StartRun(r) \/ GetDetails(r) \/ GetShares(r) \/ Abort(r) \/ Send(r)
  PROVE  \E X : runs' = [runs EXCEPT ![r] = X] /\ MergesWhole(X, due)
<1>0. MergesWhole(runs[r], due) /\ RunBooks(runs[r], status) /\ ~Met
  BY LedgerParts DEF BooksInv, Entangled
<1>1. CASE StartRun(r)
  <2> DEFINE X == [pc |-> "details", balance |-> balances, blocks |-> pending]
  <2>1. MergesWhole(X, due)  BY DEF MergesWhole
  <2>2. runs' = [runs EXCEPT ![r] = X]  BY <1>1 DEF StartRun
  <2> QED BY <2>1, <2>2
<1>2. CASE GetDetails(r)
  <2> DEFINE run == runs[r]
             X == Looked(run)
  <2>1. run \in Looking /\ runs' = [runs EXCEPT ![r] = X]  BY <1>2, GetDetailsRun
  <2>2. Distinct(run.blocks)  BY <1>0, <2>1 DEF DistinctInv, Looking
  <2>3. \A b \in run.blocks : CanDeleteShares(b, run.blocks)
    BY <2>2 DEF CanDeleteShares, Distinct, SameHeight
  <2>4. X.pc = "shares" /\ X.merge = X.orphan  BY <2>3 DEF Looked
  <2> HIDE DEF X
  <2>5. MergesWhole(X, due)  BY <2>4 DEF MergesWhole, Merging
  <2> QED BY <2>1, <2>5
<1>3. CASE GetShares(r)
  <2> DEFINE run == runs[r]
             X == Counted(run)
  <2>1. run \in Counting /\ runs' = [runs EXCEPT ![r] = X]  BY <1>3, GetSharesRun
  <2>2. run.pc = "shares" /\ Merging(run) = run.merge
    BY <2>1 DEF Counting, Merging
  <2>3. run.merge = run.orphan /\ run.merge \subseteq run.blocks /\ run.blocks \subseteq pending
    BY <1>0, <2>2 DEF MergesWhole, RunBooks, AloneInv, Entangled
  <2>4. \A b \in run.merge : rounds[HeightOf[b]] = due[b]
    BY <1>0, <2>3 DEF DistinctInv
  <2>5. /\ X.pc = "send" /\ X.orphan = run.orphan /\ DOMAIN X.merge = run.merge
        /\ \A b \in run.merge : X.merge[b] = rounds[HeightOf[b]]
    BY DEF Counted
  <2> HIDE DEF X, run
  <2>6. Merging(X) = run.merge  BY <2>5 DEF Merging
  <2>7. MergesWhole(X, due)  BY <2>3, <2>4, <2>5, <2>6 DEF MergesWhole
  <2> QED BY <2>1, <2>7 DEF run
<1>4. CASE Abort(r)
  <2>1. MergesWhole(Idle, due)  BY IdleBooks DEF MergesWhole
  <2>2. runs' = [runs EXCEPT ![r] = Idle]  BY <1>4 DEF Abort, Finish
  <2> QED BY <2>1, <2>2
<1>5. CASE Send(r)
  <2> DEFINE run == runs[r]
  <2>1. /\ run \in Paying /\ run.pc = "send"
        /\ \/ runs' = [runs EXCEPT ![r] = Sending(run)]
           \/ runs' = [runs EXCEPT ![r] = Idle]
           \/ runs' = [runs EXCEPT ![r] = Withheld(run)]
    BY <1>5, SendRun
  <2>2. MergesWhole(Idle, due)  BY IdleBooks DEF MergesWhole
  <2>3. MergesWhole(Sending(run), due)
    <3> DEFINE X == Sending(run)
    <3>1. X.pc = "update" /\ X.orphan = run.orphan /\ X.merge = run.merge
      BY <2>1 DEF Sending, Paying
    <3> HIDE DEF X, run
    <3>2. Merging(X) = Merging(run)  BY <2>1, <3>1 DEF Merging
    <3> QED BY <1>0, <2>1, <3>1, <3>2 DEF MergesWhole, X, run
  <2>4. MergesWhole(Withheld(run), due)
    <3> DEFINE X == Withheld(run)
    <3>1. X.pc = "send" /\ X.orphan = run.orphan /\ X.merge = run.merge
      BY <2>1 DEF Withheld, Paying
    <3> HIDE DEF X, run
    <3>2. Merging(X) = Merging(run)  BY <2>1, <3>1 DEF Merging
    <3> QED BY <1>0, <2>1, <3>1, <3>2 DEF MergesWhole, X, run
  <2> QED BY <2>1, <2>2, <2>3, <2>4
<1> QED BY <1>1, <1>2, <1>3, <1>4, <1>5

LEMMA LedgerStep ==
  ASSUME BooksInv, DistinctInv, AloneInv, LedgerInv, [Next]_payVars
  PROVE  LedgerInv'
<1> DEFINE Kept == /\ RoundsPending'
                   /\ \A q \in Runs : MergesWhole(runs'[q], due')
                   /\ Balanced'
<1> SUFFICES ASSUME ~Entangled' PROVE Kept
  BY DEF LedgerInv, RoundsPending, MergesWhole, Balanced, Merging
<1>1. BooksInv' /\ ~Entangled /\ ~Met'  BY BooksStep, EventsGrow DEF Entangled, Met
<1>2. RoundsPending /\ (\A q \in Runs : MergesWhole(runs[q], due)) /\ Balanced
  BY <1>1, LedgerParts
<1>3. ASSUME UNCHANGED <<rounds, pending>> PROVE RoundsPending'
  BY <1>2, <1>3 DEF RoundsPending
<1>4. CASE RecordShare
  <2>1. UNCHANGED <<rounds, pending, runs, due>>  BY <1>4 DEF RecordShare, procVars
  <2> QED BY <1>2, <1>3, <1>4, <2>1, RecordShareLedger
<1>5. CASE FindBlock
  <2>1. UNCHANGED runs  BY <1>5 DEF FindBlock, procVars
  <2>2. ASSUME NEW q \in Runs PROVE MergesWhole(runs[q], due')
    <3> DEFINE run == runs[q]
    <3>1. RunBooks(run, status) /\ run \in RunType  BY DEF BooksInv
    <3>2. \A b \in Blocks : status[b] = "orphan" => due'[b] = due[b]
      BY <1>5 DEF FindBlock, BooksInv, PaymentsTypeOK
    <3>3. run.pc \in {"send", "update"} => \A b \in Merging(run) : due'[b] = due[b]
      <4> SUFFICES ASSUME run.pc \in {"send", "update"}, NEW b \in Merging(run)
                   PROVE  due'[b] = due[b]
        OBVIOUS
      <4>1. run \in Paying  BY <3>1, RunKinds
      <4>2. b \in run.orphan /\ run.orphan \subseteq Blocks  BY <3>1, <4>1 DEF RunBooks, Paying
      <4>3. status[b] = "orphan"  BY <3>1, <4>2 DEF RunBooks
      <4> QED BY <3>2, <4>2, <4>3
    <3>4. MergesWhole(run, due)  BY <1>2
    <3> HIDE DEF run
    <3>5. MergesWhole(run, due')  BY <3>3, <3>4 DEF MergesWhole
    <3> QED BY <3>5 DEF run
  <2> QED BY <1>1, <1>2, <1>5, <2>1, <2>2, FindBlockLedger
<1>6. CASE Decide \/ Setup \/ UNCHANGED payVars
  <2>1. UNCHANGED <<round, unmerged, rounds, pending, confirmed, runs, due, recorded>>
    BY <1>6 DEF Decide, Setup, payVars, redisVars, procVars, lossVars
  <2> QED BY <1>2, <1>3, <2>1, BalancedKept
<1>7. CASE Restart
  <2>1. UNCHANGED <<round, unmerged, rounds, pending, confirmed, due, recorded>>
    BY <1>7 DEF Restart, redisVars, lossVars
  <2>2. \A q \in Runs : MergesWhole(runs'[q], due')
    BY <1>7, IdleBooks DEF Restart, MergesWhole
  <2> QED BY <1>2, <1>3, <2>1, <2>2, BalancedKept
<1>8. ASSUME NEW r \in Runs,
             StartRun(r) \/ GetDetails(r) \/ GetShares(r) \/ Abort(r) \/ Send(r)
      PROVE  Kept
  <2>1. UNCHANGED <<round, unmerged, rounds, pending, confirmed, due, recorded>>
    BY <1>8, RunShape
  <2>2. \A q \in Runs : MergesWhole(runs'[q], due')
    <3>1. PICK X : runs' = [runs EXCEPT ![r] = X] /\ MergesWhole(X, due)
      BY <1>1, <1>8, RunMerges
    <3> QED BY <1>2, <2>1, <3>1, OneRunMerges
  <2> QED BY <1>2, <1>3, <2>1, <2>2, BalancedKept
<1>9. ASSUME NEW r \in Runs, Update(r)
      PROVE  Kept
  <2>1. UNCHANGED due /\ runs' = [runs EXCEPT ![r] = Idle]  BY <1>9, UpdateRun
  <2>2. MergesWhole(Idle, due)  BY IdleBooks DEF MergesWhole
  <2>3. \A q \in Runs : MergesWhole(runs'[q], due')  BY <1>2, <2>1, <2>2, OneRunMerges
  <2> QED BY <1>1, <1>9, <2>3, UpdateLedger
<1> QED BY <1>4, <1>5, <1>6, <1>7, <1>8, <1>9 DEF Next, Crash, Run, ThrowInUpdate

\* The tallies of the current round, of the rounds that wait and of the blocks
\* paid for make up the shares recorded, with what redis did not take of those a
\* run merged back.
THEOREM LedgerCorrect == Spec => []LedgerInv
<1>1. Init => LedgerInv  BY LedgerInit
<1>2. BooksInv /\ DistinctInv /\ AloneInv /\ LedgerInv /\ [Next]_payVars => LedgerInv'
  BY LedgerStep
<1> QED BY <1>1, <1>2, BooksCorrect, DistinctCorrect, AloneCorrect, PTL DEF Spec

----------------------------------------------------------------------------
(* Redis takes what is whole, and the tallies of a worker without a share  *)
(* of fractional difficulty all are.                                       *)

LEMMA ModZero ==
  ASSUME NEW n \in Nat, NEW p \in Nat \ {0}, n % p = 0
  PROVE  n = p * (n \div p)
BY SMT

LEMMA ModMultiple ==
  ASSUME NEW n \in Nat, NEW p \in Nat \ {0}
  PROVE  (p * n) % p = 0
BY SMT

LEMMA WholeSum ==
  ASSUME NEW m \in Nat, NEW n \in Nat, Whole(m), Whole(n)
  PROVE  Whole(m + n)
<1> DEFINE i == m \div Unit
           j == n \div Unit
<1>1. i \in Nat /\ j \in Nat  BY PaymentsAssumption, DivNat
<1>2. m = Unit * i /\ n = Unit * j  BY PaymentsAssumption, ModZero DEF Whole
<1> HIDE DEF i, j
<1>3. m + n = Unit * (i + j)  BY <1>1, <1>2, PaymentsAssumption
<1>4. i + j \in Nat  BY <1>1
<1> QED BY <1>3, <1>4, PaymentsAssumption, ModMultiple DEF Whole

LEMMA WholeZero == Whole(0)
BY PaymentsAssumption, SMT DEF Whole

WholeRun(run, w) ==
  run.pc \in {"send", "update"} => \A b \in DOMAIN run.merge : Whole(run.merge[b][w])

WholeInv ==
  \A w \in Workers \ fractional :
    /\ Whole(round[w]) /\ unmerged[w] = 0
    /\ \A h \in Heights : Whole(rounds[h][w])
    /\ \A r \in Runs : WholeRun(runs[r], w)

\* A share leaves a tally whole, or its worker among those it need not be for.
LEMMA WholeShare ==
  ASSUME BooksInv, WholeInv, NEW v \in Workers, NEW d \in Difficulties, Recorded(v, d),
         NEW w \in Workers \ fractional'
  PROVE  /\ w \in Workers \ fractional
         /\ Whole([round EXCEPT ![v] = @ + d][w])
<1>1. w \in Workers \ fractional /\ (w = v => Whole(d))  BY DEF Recorded
<1>2. d \in Nat /\ round \in [Workers -> Nat]
  BY PaymentsAssumption DEF BooksInv, PaymentsTypeOK
<1>3. Whole(round[w]) /\ round[w] \in Nat  BY <1>1, <1>2 DEF WholeInv
<1>4. CASE w = v
  BY <1>1, <1>2, <1>3, <1>4, WholeSum
<1>5. CASE w # v
  BY <1>1, <1>2, <1>3, <1>5
<1> QED BY <1>1, <1>4, <1>5

\* Of whole tallies redis takes all.
LEMMA WholeMerge ==
  ASSUME NEW run \in Paying, NEW w \in Workers, WholeRun(run, w),
         run.pc = "update", round[w] \in Nat, Whole(round[w])
  PROVE  Added(run, w) = Merged(run, w) /\ Whole(round[w] + Added(run, w))
<1> DEFINE D == DOMAIN run.merge
           f == [b \in D |-> run.merge[b][w]]
           g == [b \in D |-> Taken(run, b, w)]
           N == {n \in Nat : Whole(n)}
<1>1. D \in SUBSET Blocks /\ run.merge \in [D -> Tally]  BY MergesFun DEF Paying
<1>2. IsFiniteSet(D)  BY <1>1, PaymentsAssumption, FS_Subset
<1>3. \A b \in D : run.merge[b][w] \in Nat /\ Whole(run.merge[b][w])
  BY <1>1 DEF Tally, WholeRun
<1>4. f = g /\ \A b \in D : f[b] \in N  BY <1>3 DEF Taken
<1>5. 0 \in N /\ \A a, b \in N : a + b \in N  BY WholeZero, WholeSum
<1>6. Added(run, w) = SumOn(g, D) /\ Merged(run, w) = SumOn(f, D)
  BY DEF Added, Merged
<1>7. SumOn(f, D) \in N
  <2> HIDE DEF D, f, N
  <2> QED BY <1>2, <1>4, <1>5, SumClosed
<1>8. Added(run, w) = Merged(run, w) /\ Added(run, w) \in N
  <2> HIDE DEF D, f, g, N
  <2> QED BY <1>4, <1>6, <1>7
<1> QED BY <1>8, WholeSum

LEMMA WholeInit == Init => WholeInv
BY WholeZero, IdleBooks DEF Init, None, WholeInv, WholeRun

\* A run's record is replaced by one that holds whole tallies.
LEMMA OneRunWhole ==
  ASSUME BooksInv, WholeInv, NEW r \in Runs, NEW X, runs' = [runs EXCEPT ![r] = X],
         UNCHANGED <<round, rounds, fractional, unmerged>>,
         \A w \in Workers \ fractional : WholeRun(X, w)
  PROVE  WholeInv'
<1>1. ASSUME NEW w \in Workers \ fractional', NEW q \in Runs PROVE WholeRun(runs'[q], w)
  BY <1>1 DEF WholeInv, BooksInv
<1> QED BY <1>1 DEF WholeInv, Whole, WholeRun

LEMMA WholeStep ==
  ASSUME BooksInv, WholeInv, [Next]_payVars
  PROVE  WholeInv'
<1>1. CASE RecordShare
  <2>1. PICK v \in Workers, d \in Difficulties :
          Recorded(v, d) /\ round' = [round EXCEPT ![v] = @ + d]
    BY <1>1 DEF RecordShare
  <2>2. UNCHANGED <<rounds, unmerged, runs>>  BY <1>1 DEF RecordShare, procVars, lossVars
  <2> QED BY <2>1, <2>2, WholeShare DEF WholeInv, WholeRun, Whole
<1>2. CASE FindBlock
  <2>1. PICK b \in Blocks, v \in Workers, d \in Difficulties :
          /\ Recorded(v, d)
          /\ rounds' = [rounds EXCEPT ![HeightOf[b]] = [round EXCEPT ![v] = @ + d]]
    BY <1>2 DEF FindBlock
  <2>2. UNCHANGED <<unmerged, runs>> /\ round' = None
    BY <1>2 DEF FindBlock, procVars, lossVars
  <2> SUFFICES ASSUME NEW w \in Workers \ fractional'
               PROVE  /\ Whole(round'[w]) /\ unmerged'[w] = 0
                      /\ \A h \in Heights : Whole(rounds'[h][w])
                      /\ \A r \in Runs : WholeRun(runs'[r], w)
    BY DEF WholeInv, WholeRun, Whole
  <2>3. w \in Workers \ fractional /\ Whole([round EXCEPT ![v] = @ + d][w])
    BY <2>1, WholeShare
  <2>4. Whole(round'[w])  BY <2>2, WholeZero DEF None
  <2>5. \A h \in Heights : Whole(rounds'[h][w])
    BY <2>1, <2>3 DEF WholeInv, BooksInv, PaymentsTypeOK
  <2> QED BY <2>2, <2>3, <2>4, <2>5 DEF WholeInv
<1>3. CASE Decide \/ Setup \/ UNCHANGED payVars
  <2>1. UNCHANGED <<round, rounds, fractional, unmerged, runs>>
    BY <1>3 DEF Decide, Setup, payVars, redisVars, procVars, lossVars
  <2> QED BY <2>1 DEF WholeInv, WholeRun, Whole
<1>4. CASE Restart
  <2>1. /\ UNCHANGED <<round, rounds, fractional, unmerged>>
        /\ \A r \in Runs : runs'[r] = Idle
    BY <1>4 DEF Restart, redisVars, lossVars
  <2> QED BY <2>1, IdleBooks DEF WholeInv, WholeRun, Whole
<1>5. ASSUME NEW r \in Runs, StartRun(r) \/ GetDetails(r) \/ Abort(r)
      PROVE  WholeInv'
  <2>1. UNCHANGED <<round, rounds, fractional, unmerged>>
    BY <1>5 DEF StartRun, GetDetails, Abort, redisVars, lossVars
  <2>2. \E X : /\ runs' = [runs EXCEPT ![r] = X]
               /\ X.pc \notin {"send", "update"}
    BY <1>5, IdleBooks DEF StartRun, GetDetails, Abort, Finish
  <2> QED BY <2>1, <2>2, OneRunWhole DEF WholeRun
<1>6. ASSUME NEW r \in Runs, GetShares(r)
      PROVE  WholeInv'
  <2> DEFINE X == Counted(runs[r])
  <2>1. runs[r] \in Counting /\ runs' = [runs EXCEPT ![r] = X]  BY <1>6, GetSharesRun
  <2>2. UNCHANGED <<round, rounds, fractional, unmerged>>
    BY <1>6 DEF GetShares, redisVars, lossVars
  <2>3. /\ DOMAIN X.merge \subseteq Blocks
        /\ \A b \in DOMAIN X.merge : X.merge[b] = rounds[HeightOf[b]]
    BY <2>1 DEF Counted, Counting
  <2>4. \A w \in Workers \ fractional : WholeRun(X, w)
    BY <2>3 DEF WholeInv, WholeRun, Heights
  <2> HIDE DEF X
  <2> QED BY <2>1, <2>2, <2>4, OneRunWhole
<1>7. ASSUME NEW r \in Runs, Send(r)
      PROVE  WholeInv'
  <2>1. /\ runs[r] \in Paying /\ runs[r].pc = "send"
        /\ UNCHANGED <<round, rounds, unmerged>>
    BY <1>7, SendRun
  <2>2. UNCHANGED fractional  BY <1>7 DEF Send
  <2>3. PICK X \in {Sending(runs[r]), Withheld(runs[r]), Idle} :
          runs' = [runs EXCEPT ![r] = X]
    BY <1>7, SendRun
  <2>4. X.pc \notin {"send", "update"} \/ X.merge = runs[r].merge
    BY <2>1, IdleBooks DEF Sending, Withheld, Paying
  <2>5. \A w \in Workers \ fractional : WholeRun(X, w)
    BY <2>1, <2>4 DEF WholeInv, WholeRun
  <2> QED BY <2>1, <2>2, <2>3, <2>5, OneRunWhole
<1>8. ASSUME NEW r \in Runs, Update(r)
      PROVE  WholeInv'
  <2> DEFINE run == runs[r]
  <2>1. /\ run \in Paying /\ run.pc = "update"
        /\ runs' = [runs EXCEPT ![r] = Idle]
        /\ Apply(run) \/ UNCHANGED <<redisVars, unmerged>>
    BY <1>8, UpdateRun
  <2>2. UNCHANGED fractional  BY <1>8 DEF Update
  <2>3. ASSUME NEW w \in Workers, NEW q \in Runs, WholeRun(runs[q], w)
        PROVE  WholeRun(runs'[q], w)
    BY <2>1, <2>3, IdleBooks DEF WholeRun, BooksInv
  <2>4. CASE UNCHANGED <<redisVars, unmerged>>
    BY <2>2, <2>3, <2>4 DEF WholeInv, Whole, WholeRun, redisVars
  <2>5. CASE Apply(run)
    <3> SUFFICES ASSUME NEW w \in Workers \ fractional
                 PROVE  /\ Whole(round'[w]) /\ unmerged'[w] = 0
                        /\ \A h \in Heights : Whole(rounds'[h][w])
                        /\ \A q \in Runs : WholeRun(runs'[q], w)
      BY <2>2 DEF WholeInv, WholeRun, Whole
    <3>1. /\ Whole(round[w]) /\ unmerged[w] = 0 /\ WholeRun(run, w)
          /\ \A h \in Heights : Whole(rounds[h][w])
          /\ \A q \in Runs : WholeRun(runs[q], w)
      BY DEF WholeInv
    <3>2. round[w] \in Nat  BY DEF BooksInv, PaymentsTypeOK
    <3>3. Added(run, w) = Merged(run, w) /\ Whole(round[w] + Added(run, w))
      BY <2>1, <3>1, <3>2, WholeMerge
    <3>4. Merged(run, w) \in Nat  BY <2>1, MergedNat
    <3> HIDE DEF run
    <3>5. round'[w] = round[w] + Added(run, w)
      BY <2>5 DEF Apply
    <3>6. unmerged'[w] = unmerged[w] + Merged(run, w) - Added(run, w)
      BY <2>5 DEF Apply
    <3>7. unmerged'[w] = 0  BY <3>1, <3>3, <3>4, <3>6
    <3>8. \A h \in Heights : Whole(rounds'[h][w])
      BY <2>5, <3>1, WholeZero DEF Apply, None
    <3> QED BY <2>3, <3>1, <3>3, <3>5, <3>7, <3>8
  <2> QED BY <2>1, <2>4, <2>5
<1> QED BY <1>1, <1>2, <1>3, <1>4, <1>5, <1>6, <1>7, <1>8
        DEF Next, Crash, Run, ThrowInUpdate

LEMMA WholeCorrect == Spec => []WholeInv
<1>1. Init => WholeInv  BY WholeInit
<1>2. BooksInv /\ WholeInv /\ [Next]_payVars => WholeInv'  BY WholeStep
<1> QED BY <1>1, <1>2, BooksCorrect, PTL DEF Spec

----------------------------------------------------------------------------

\* Every share recorded stays in one tally until a confirmed block has paid for
\* it, or goes with an orphan's tally that redis did not take, through crashes and a
\* failing redis, while runs do not overlap and blocks of one height do not meet;
\* and redis takes whatever a worker has whose shares' difficulties are whole.
THEOREM SharesKept == Spec => []SharesConserved
<1>1. BooksInv /\ LedgerInv /\ WholeInv => SharesConserved
  <2> SUFFICES ASSUME BooksInv, LedgerInv, WholeInv,
                      events \intersect {"overlap", "overwrite", "late"} = {}
               PROVE  recorded = Total(round) + Total(unmerged)
                        + SumOn([h \in Heights |-> Total(rounds[h])], Heights)
                        + SumOn([b \in confirmed |-> Total(due[b])], confirmed)
    BY DEF SharesConserved, WholeInv
  <2>1. ~Entangled  BY DEF Entangled, Met
  <2> DEFINE f == DueTotals(due)
             g == [b \in confirmed |-> Total(due[b])]
  <2>2. confirmed \in SUBSET Blocks  BY DEF BooksInv, PaymentsTypeOK
  <2>3. IsFiniteSet(confirmed)  BY <2>2, PaymentsAssumption, FS_Subset
  <2>4. \A b \in confirmed : f[b] = g[b]  BY <2>2 DEF DueTotals
  <2>5. SumOn(f, confirmed) = SumOn(g, confirmed)
    <3> HIDE DEF f, g
    <3> QED BY <2>3, <2>4, SumSame
  <2> QED BY <2>1, <2>5 DEF LedgerInv, RoundTotals
<1> QED BY <1>1, BooksCorrect, LedgerCorrect, WholeCorrect, PTL

----------------------------------------------------------------------------
(* The pool pays no more than the chain gave it.                           *)

Safe == events \intersect {"overlap", "crash", "lostReply"} = {}

Matured(st) == {b \in Blocks : st[b] = "generate"}

\* n blocks give no less than the amount m.
Backed(m, n) == m <= BlockReward * n

Rewarded(run) ==
  run.pc \in {"send", "update"} => Backed(Total(run.reward), Cardinality(run.generate))

\* The balances once the run has updated them.
After(run, bal) == [w \in Workers |-> bal[w] + BalanceChange(run, w)]

Settles(run, pd, bal, conf) ==
  run.pc = "update" =>
    Backed(Total(pd) + Total(After(run, bal)), Cardinality(conf) + Cardinality(run.generate))

\* All the money there is, sent or on a balance, was earned by confirmed blocks;
\* while a run is updating, by those it is about to confirm as well.  Once redis
\* has failed the balances may be stale and no run starts any more.
Sound ==
  /\ interval # "on" => \A r \in Runs : runs[r].pc = "idle"
  /\ interval # "off" => \A w \in Workers : balances[w] >= 0
  /\ \A r \in Runs : runs[r].pc # "idle" => runs[r].balance = balances
  /\ \A r \in Runs : Rewarded(runs[r]) /\ Settles(runs[r], paid, balances, confirmed)
  /\ interval # "off" /\ (\A r \in Runs : runs[r].pc # "update") =>
       Backed(Total(paid) + Total(balances), Cardinality(confirmed))
  /\ interval = "off" => Backed(Total(paid), Cardinality(Matured(status)))

MoneyInv == Safe => Sound

\* A run that withholds fees moves no more than its rewards, and leaves no
\* balance below zero that was not.
LEMMA NetAtMost ==
  ASSUME NEW run \in Paying, NEW w \in Workers, run.balance[w] >= 0
  PROVE  /\ Sent(run, w) + BalanceChange(run, w) <= run.reward[w]
         /\ run.balance[w] + BalanceChange(run, w) >= 0
<1> DEFINE t == ToSend(run, w)
           b == run.balance[w]
           m == run.reward[w]
           s == Sent(run, w)
           c == BalanceChange(run, w)
<1>1. b \in Nat /\ m \in Nat /\ t \in Int /\ s \in Nat /\ c \in Int
  BY Amounts
<1>2. t <= b + m
  <2>1. run.withhold \in 0 .. Parts
    BY PaymentsAssumption DEF Paying
  <2>2. b + m \in Nat  BY <1>1
  <2>3. t = ((b + m) * (Parts - run.withhold)) \div Parts  BY DEF ToSend
  <2> HIDE DEF t, b, m
  <2> QED BY <2>1, <2>2, <2>3, PaymentsAssumption, DivPart
<1>3. CASE s > 0
  <2>1. s = t  BY <1>1, <1>3 DEF Sent
  <2>2. c = -(IF b < t THEN b ELSE t)  BY <1>3 DEF BalanceChange, Smaller
  <2> HIDE DEF t, b, m, s, c
  <2>3. s + c <= m /\ b + c >= 0  BY <1>1, <1>2, <2>1, <2>2
  <2> QED BY <2>3 DEF s, c, m, b
<1>4. CASE ~(s > 0)
  <2>1. s = 0  BY <1>1, <1>4
  <2>2. c = IF t - b < 0 THEN 0 ELSE t - b  BY <1>4 DEF BalanceChange, Larger
  <2> HIDE DEF t, b, m, s, c
  <2>3. s + c <= m /\ b + c >= 0  BY <1>1, <1>2, <2>1, <2>2
  <2> QED BY <2>3 DEF s, c, m, b
<1> QED BY <1>3, <1>4

LEMMA TotalInt == ASSUME NEW t \in Money PROVE Total(t) \in Int
BY PaymentsAssumption, SumInt DEF Total, Money

LEMMA AfterInt ==
  ASSUME BooksInv, NEW run \in Paying
  PROVE  After(run, balances) \in Money
BY Amounts DEF After, Money, BooksInv, PaymentsTypeOK

\* The rewards of a run's blocks.
LEMMA CountedRewarded ==
  ASSUME BooksInv, NEW r \in Runs, GetShares(r)
  PROVE  Rewarded(Counted(runs[r]))
<1> DEFINE run == runs[r]
           X == Counted(run)
           G == run.generate
           M == [b \in G |-> [w \in Workers |-> RoundReward(rounds[HeightOf[b]], w)]]
           rew == [w \in Workers |-> Reward(run, w)]
           row == RowSums(M, G, Workers)
<1>1. run \in Counting  BY GetSharesRun
<1>2. G \in SUBSET Blocks /\ IsFiniteSet(G) /\ IsFiniteSet(Workers)
  BY <1>1, PaymentsAssumption, FS_Subset DEF Counting
<1>3. \A b \in G : rounds[HeightOf[b]] \in Tally
  BY <1>2 DEF BooksInv, PaymentsTypeOK, Heights, Tally
<1>4. \A b \in G, w \in Workers : M[b][w] \in Nat
  BY <1>3, RoundRewardNat
<1>5. rew = ColumnSums(M, G, Workers)
  <2>1. ASSUME NEW w \in Workers
        PROVE  Reward(run, w) = SumOn([b \in G |-> M[b][w]], G)
    <3> DEFINE f == [b \in G |-> RoundReward(rounds[HeightOf[b]], w)]
               g == [b \in G |-> M[b][w]]
    <3>1. \A b \in G : f[b] = g[b]  OBVIOUS
    <3>2. SumOn(f, G) = SumOn(g, G)
      <4> HIDE DEF f, g, G
      <4> QED BY <1>2, <3>1, SumSame
    <3> QED BY <3>2 DEF Reward
  <2> HIDE DEF M, G
  <2> QED BY <2>1 DEF ColumnSums
<1>6. SumOn(ColumnSums(M, G, Workers), Workers) = SumOn(row, G)
  <2>1. \A b \in G, w \in Workers : M[b][w] \in Int  BY <1>4
  <2> HIDE DEF M, G
  <2> QED BY <1>2, <2>1, SumExchange
<1>7. \A b \in G : row[b] \in Int /\ row[b] <= BlockReward
  <2> SUFFICES ASSUME NEW b \in G PROVE row[b] \in Int /\ row[b] <= BlockReward
    OBVIOUS
  <2> DEFINE t == rounds[HeightOf[b]]
             f == [w \in Workers |-> RoundReward(t, w)]
             g == [w \in Workers |-> M[b][w]]
  <2>1. row[b] = SumOn(g, Workers)  BY DEF RowSums
  <2>2. t \in Tally  BY <1>3
  <2>3. \A w \in Workers : f[w] \in Int /\ f[w] = g[w]
    BY <2>2, RoundRewardNat
  <2>4. SumOn(f, Workers) <= BlockReward
    <3> HIDE DEF t
    <3> QED BY <2>2, RoundWithinReward
  <2> HIDE DEF f, g, row, G
  <2>5. SumOn(f, Workers) = SumOn(g, Workers) /\ SumOn(f, Workers) \in Int
    BY <1>2, <2>3, SumSame, SumInt
  <2> QED BY <2>1, <2>4, <2>5
<1>8. SumOn(row, G) <= BlockReward * Cardinality(G)
  <2>1. BlockReward \in Int  BY PaymentsAssumption
  <2> HIDE DEF row, G
  <2> QED BY <1>2, <1>7, <2>1, SumBound
<1>9. X.reward = rew /\ X.generate = G  BY DEF Counted
<1>10. Total(X.reward) = SumOn(row, G)  BY <1>5, <1>6, <1>9 DEF Total
<1> QED BY <1>8, <1>9, <1>10 DEF Rewarded, Backed

LEMMA BackedMore ==
  ASSUME NEW m \in Int, NEW n \in Int, NEW m2 \in Int, NEW n2 \in Int,
         Backed(m, n), m2 <= m, n <= n2
  PROVE  Backed(m2, n2)
<1>1. BlockReward \in Nat  BY PaymentsAssumption
<1> QED BY <1>1 DEF Backed

LEMMA BlocksFinite ==
  ASSUME NEW S \in SUBSET Blocks, NEW T \in SUBSET S
  PROVE  /\ IsFiniteSet(S) /\ IsFiniteSet(T)
         /\ Cardinality(S) \in Nat /\ Cardinality(T) \in Nat
         /\ Cardinality(T) <= Cardinality(S)
<1>1. IsFiniteSet(S)  BY PaymentsAssumption, FS_Subset
<1>2. IsFiniteSet(T) /\ Cardinality(T) <= Cardinality(S)  BY <1>1, FS_Subset
<1> QED BY <1>1, <1>2, FS_CardinalityType

\* A run whose blocks are still pending confirms all it pays for.
LEMMA Confirms ==
  ASSUME BooksInv, NEW r \in Runs, runs[r] \in Paying, runs[r].blocks \subseteq pending
  PROVE  /\ pending \intersect runs[r].generate = runs[r].generate
         /\ confirmed \union runs[r].generate \subseteq Matured(status)
         /\ Cardinality(confirmed \union runs[r].generate)
              = Cardinality(confirmed) + Cardinality(runs[r].generate)
<1> DEFINE G == runs[r].generate
<1>1. G \subseteq pending /\ \A b \in G : status[b] = "generate"
  BY DEF BooksInv, RunBooks, Paying
<1>2. /\ confirmed \in SUBSET Blocks /\ G \in SUBSET Blocks /\ confirmed \intersect G = {}
      /\ \A b \in confirmed : status[b] = "generate"
  BY <1>1 DEF BooksInv, PaymentsTypeOK
<1>3. IsFiniteSet(confirmed) /\ IsFiniteSet(G)  BY <1>2, PaymentsAssumption, FS_Subset
<1>4. Cardinality(confirmed) \in Nat /\ Cardinality(G) \in Nat
  BY <1>3, FS_CardinalityType
<1>5. Cardinality(confirmed \intersect G) = 0  BY <1>2, FS_EmptySet
<1> HIDE DEF G
<1>6. Cardinality(confirmed \union G) = Cardinality(confirmed) + Cardinality(G)
  <2> DEFINE both == confirmed \intersect G
             all  == confirmed \union G
  <2>1. Cardinality(all) = Cardinality(confirmed) + Cardinality(G) - Cardinality(both)
    BY <1>3, FS_Union
  <2> HIDE DEF all
  <2> QED BY <1>4, <1>5, <2>1 DEF all
<1>7. confirmed \union G \subseteq Matured(status)  BY <1>1, <1>2 DEF Matured
<1> QED BY <1>1, <1>6, <1>7 DEF G

\* At any time the blocks of the chain back what was sent.
LEMMA PaidBacked ==
  ASSUME BooksInv, AloneInv, Safe, Sound
  PROVE  Backed(Total(paid), Cardinality(Matured(status)))
<1>1. Total(paid) \in Nat /\ Total(balances) \in Int
  BY TotalNat, TotalInt DEF BooksInv, PaymentsTypeOK, Tally, Money
<1>2. /\ confirmed \in SUBSET Blocks /\ confirmed \subseteq Matured(status)
      /\ Matured(status) \in SUBSET Blocks
  BY DEF BooksInv, PaymentsTypeOK, Matured
<1>3. CASE interval = "off"
  BY <1>3 DEF Sound
<1>4. CASE interval # "off" /\ \A r \in Runs : runs[r].pc # "update"
  <2>1. \A w \in Workers : balances[w] \in Nat
    <3>1. \A w \in Workers : balances[w] >= 0  BY <1>4 DEF Sound
    <3>2. \A w \in Workers : balances[w] \in Int  BY DEF BooksInv, PaymentsTypeOK
    <3> QED BY <3>1, <3>2
  <2>2. Total(balances) \in Nat  BY <2>1, PaymentsAssumption, SumNat DEF Total
  <2>3. Backed(Total(paid) + Total(balances), Cardinality(confirmed))  BY <1>4 DEF Sound
  <2>4. /\ Cardinality(confirmed) \in Nat /\ Cardinality(Matured(status)) \in Nat
        /\ Cardinality(confirmed) <= Cardinality(Matured(status))
    BY <1>2, BlocksFinite
  <2> QED BY <1>1, <2>2, <2>3, <2>4, BackedMore
<1>5. ASSUME interval # "off", NEW r \in Runs, runs[r].pc = "update"
      PROVE  Backed(Total(paid), Cardinality(Matured(status)))
  <2> DEFINE run == runs[r]
             B == After(run, balances)
  <2>1. run \in Paying /\ run.balance = balances /\ run.blocks \subseteq pending
    BY <1>5, RunKinds DEF BooksInv, Sound, AloneInv, Safe
  <2>2. Backed(Total(paid) + Total(B), Cardinality(confirmed) + Cardinality(run.generate))
    BY <1>5 DEF Sound, Settles
  <2>3. \A w \in Workers : B[w] \in Nat
    <3> SUFFICES ASSUME NEW w \in Workers PROVE B[w] \in Nat
      OBVIOUS
    <3>1. run.balance[w] >= 0  BY <1>5, <2>1 DEF Sound
    <3>2. B[w] = run.balance[w] + BalanceChange(run, w)  BY <2>1 DEF After
    <3>3. B[w] >= 0  BY <2>1, <3>1, <3>2, NetAtMost
    <3>4. B[w] \in Int  BY <2>1, AfterInt DEF Money
    <3> QED BY <3>3, <3>4
  <2>4. Total(B) \in Nat
    <3> HIDE DEF B
    <3> QED BY <2>3, PaymentsAssumption, SumNat DEF Total
  <2>5. /\ confirmed \union run.generate \subseteq Matured(status)
        /\ Cardinality(confirmed \union run.generate)
             = Cardinality(confirmed) + Cardinality(run.generate)
    BY <2>1, Confirms
  <2>6. /\ Cardinality(confirmed \union run.generate) \in Nat
        /\ Cardinality(Matured(status)) \in Nat
        /\ Cardinality(confirmed \union run.generate) <= Cardinality(Matured(status))
    BY <1>2, <2>5, BlocksFinite
  <2> HIDE DEF run, B
  <2> QED BY <1>1, <2>2, <2>4, <2>5, <2>6, BackedMore
<1> QED BY <1>3, <1>4, <1>5

LEMMA MoneyInit == Init => MoneyInv
<1> SUFFICES ASSUME Init PROVE Sound
  BY DEF MoneyInv
<1>1. \A r \in Runs : runs[r].pc = "idle"  BY IdleBooks DEF Init
<1>2. \A r \in Runs : Rewarded(runs[r]) /\ Settles(runs[r], paid, balances, confirmed)
  BY <1>1 DEF Rewarded, Settles
<1>3. Total(paid) = 0 /\ Total(balances) = 0 /\ Cardinality(confirmed) = 0
  BY TotalNone, FS_EmptySet DEF Init
<1>4. Backed(0 + 0, 0)  BY PaymentsAssumption DEF Backed
<1>5. \A w \in Workers : balances[w] >= 0  BY DEF Init, None
<1>6. interval = "setup"  BY DEF Init
<1> QED BY <1>1, <1>2, <1>3, <1>4, <1>5, <1>6 DEF Sound

\* More blocks mature, and nothing else happens to the money.
LEMMA QuietMoney ==
  ASSUME BooksInv, BooksInv', Sound, StatusMoves,
         UNCHANGED <<paid, balances, confirmed, interval, runs>>
  PROVE  Sound'
<1>1. /\ Matured(status) \subseteq Matured(status') /\ Matured(status') \in SUBSET Blocks
  BY DEF StatusMoves, Matured
<1>2. /\ Cardinality(Matured(status)) \in Nat /\ Cardinality(Matured(status')) \in Nat
      /\ Cardinality(Matured(status)) <= Cardinality(Matured(status'))
  BY <1>1, BlocksFinite
<1>3. Total(paid) \in Int
  BY TotalNat DEF BooksInv, PaymentsTypeOK, Tally
<1>4. interval = "off" => Backed(Total(paid), Cardinality(Matured(status')))
  BY <1>2, <1>3, BackedMore DEF Sound
<1> QED BY <1>4 DEF Sound

\* A run that neither sends nor updates.
LEMMA OneRunMoney ==
  ASSUME BooksInv, Sound, UNCHANGED <<paid, balances, confirmed, status, interval>>,
         NEW r \in Runs, runs[r].pc # "update", NEW X, runs' = [runs EXCEPT ![r] = X],
         X.pc # "update", Rewarded(X),
         X.pc # "idle" => interval = "on" /\ X.balance = balances
  PROVE  Sound'
<1>1. \A q \in Runs : runs'[q] = IF q = r THEN X ELSE runs[q]  BY DEF BooksInv
<1>2. Settles(X, paid, balances, confirmed)  BY DEF Settles
<1>3. \A q \in Runs : Rewarded(runs'[q]) /\ Settles(runs'[q], paid, balances, confirmed)
  BY <1>1, <1>2 DEF Sound
<1>4. (\A q \in Runs : runs'[q].pc # "update") => \A q \in Runs : runs[q].pc # "update"
  BY <1>1
<1>5. interval # "on" => \A q \in Runs : runs'[q].pc = "idle"
  BY <1>1 DEF Sound
<1>6. \A q \in Runs : runs'[q].pc # "idle" => runs'[q].balance = balances
  BY <1>1 DEF Sound
<1> QED BY <1>3, <1>4, <1>5, <1>6 DEF Sound


\* The wallet sends, and the run is to update.
LEMMA SendMoney ==
  ASSUME BooksInv, AloneInv, Safe, Sound, NEW r \in Runs, Send(r),
         runs' = [runs EXCEPT ![r] = Sending(runs[r])], PaysSome(runs[r])
  PROVE  Sound'
<1> DEFINE run == runs[r]
           X == Sending(run)
           A == After(X, balances)
           G == run.generate
<1>1. /\ run \in Paying /\ run.pc = "send"
      /\ UNCHANGED <<confirmed, balances, status, interval>> /\ paid' \in Tally
  BY SendRun DEF Tally
<1>2. /\ X \in Paying /\ X.pc = "update" /\ X.balance = run.balance /\ X.generate = G
      /\ X.reward = run.reward
      /\ \A w \in Workers : Sent(X, w) = Sent(run, w)
  BY <1>1, PayingKept DEF Sending, Paying, Sent, ToSend
<1>3. interval = "on" /\ run.balance = balances /\ Rewarded(run)
  BY <1>1 DEF Sound
<1>4. /\ \A q \in Runs : runs'[q] = IF q = r THEN X ELSE runs[q]
      /\ \A q \in Runs : q # r => runs[q].pc = "idle"
  BY <1>1 DEF BooksInv, AloneInv, Safe
<1>5. Backed(Total(paid) + Total(balances), Cardinality(confirmed))
  BY <1>1, <1>3, <1>4 DEF Sound
<1>6. Backed(Total(run.reward), Cardinality(G))  BY <1>1, <1>3 DEF Rewarded
<1>7. Total(paid') + Total(A) <= (Total(paid) + Total(balances)) + Total(run.reward)
  <2> DEFINE pd == paid'
             now  == [w \in Workers |-> pd[w] + A[w]]
             had  == [w \in Workers |-> paid[w] + balances[w]]
             most == [w \in Workers |-> had[w] + run.reward[w]]
  <2>1. ASSUME NEW w \in Workers
        PROVE  /\ pd[w] \in Int /\ A[w] \in Int /\ now[w] = pd[w] + A[w]
               /\ paid[w] \in Int /\ balances[w] \in Int /\ had[w] = paid[w] + balances[w]
               /\ run.reward[w] \in Int /\ most[w] = had[w] + run.reward[w]
               /\ now[w] <= most[w]
    <3>1. Sent(X, w) + BalanceChange(X, w) <= X.reward[w]
      <4>1. X.balance[w] >= 0  BY <1>2, <1>3 DEF Sound
      <4> HIDE DEF X
      <4> QED BY <1>2, <4>1, NetAtMost
    <3>2. Sent(X, w) \in Int /\ BalanceChange(X, w) \in Int /\ X.reward[w] \in Int
      <4> HIDE DEF X
      <4> QED BY <1>2, Amounts
    <3>3. pd[w] \in Int /\ pd[w] <= paid[w] + Sent(X, w)
      <4>1. Sent(run, w) \in Nat  BY <1>1, Amounts
      <4>2. pd[w] \in Nat /\ paid[w] \in Nat  BY <1>1 DEF Tally, BooksInv, PaymentsTypeOK
      <4>3. pd[w] \in {paid[w], paid[w] + Sent(run, w)}  BY DEF PaysSome
      <4>4. Sent(X, w) = Sent(run, w)  BY <1>2
      <4> HIDE DEF X, pd, run
      <4> QED BY <4>1, <4>2, <4>3, <4>4
    <3>4. A[w] = balances[w] + BalanceChange(X, w)  BY DEF After
    <3>5. paid[w] \in Int /\ balances[w] \in Int  BY DEF BooksInv, PaymentsTypeOK
    <3>6. /\ now[w] = pd[w] + A[w] /\ had[w] = paid[w] + balances[w]
          /\ most[w] = had[w] + X.reward[w] /\ X.reward = run.reward
      BY <1>2
    <3> HIDE DEF X, A, pd, now, had, most, run
    <3> QED BY <3>1, <3>2, <3>3, <3>4, <3>5, <3>6
  <2>2. \A w \in Workers : had[w] \in Int /\ now[w] \in Int /\ most[w] \in Int  BY <2>1
  <2> DEFINE rw == run.reward
  <2>3. IsFiniteSet(Workers)  BY PaymentsAssumption
  <2> HIDE DEF A, pd, now, had, most, rw
  <2>4. SumOn(now, Workers) = SumOn(pd, Workers) + SumOn(A, Workers)
    BY <2>1, <2>3, SumPlus
  <2>5. SumOn(had, Workers) = SumOn(paid, Workers) + SumOn(balances, Workers)
    BY <2>1, <2>3, SumPlus
  <2>6. SumOn(most, Workers) = SumOn(had, Workers) + SumOn(rw, Workers)
    BY <2>1, <2>2, <2>3, SumPlus DEF rw
  <2>7. SumOn(now, Workers) <= SumOn(most, Workers)
    BY <2>1, <2>2, <2>3, SumMonotone
  <2> QED BY <2>4, <2>5, <2>6, <2>7 DEF Total, pd, rw
<1>8. Settles(X, paid', balances, confirmed)
  <2>1. Total(paid) \in Nat /\ Total(balances) \in Int /\ Total(run.reward) \in Nat
    BY <1>1, TotalNat, TotalInt DEF BooksInv, PaymentsTypeOK, Tally, Money, Paying
  <2>2. Total(paid') \in Int  BY <1>1, TotalNat
  <2>3. Total(A) \in Int
    <3> HIDE DEF X
    <3> QED BY <1>2, AfterInt, TotalInt
  <2>4. Cardinality(confirmed) \in Nat /\ Cardinality(G) \in Nat
    BY <1>1, BlocksFinite DEF BooksInv, PaymentsTypeOK, Paying
  <2> DEFINE had == Total(paid) + Total(balances)
             rw == Total(run.reward)
             now == Total(paid') + Total(A)
             c == Cardinality(confirmed)
             g == Cardinality(G)
  <2>5. /\ had \in Int /\ rw \in Int /\ now \in Int /\ c \in Int /\ g \in Int
        /\ now <= had + rw /\ Backed(had, c) /\ Backed(rw, g)
    BY <1>5, <1>6, <1>7, <2>1, <2>2, <2>3, <2>4
  <2>6. Backed(now, c + g)
    <3> HIDE DEF had, rw, now, c, g
    <3> QED BY <2>5, PaymentsAssumption DEF Backed
  <2> HIDE DEF X
  <2> QED BY <1>2, <2>6 DEF Settles
<1>9. Rewarded(X)  BY <1>2, <1>6 DEF Rewarded
<1> HIDE DEF X, A, G, run
<1>10. \A q \in Runs : Rewarded(runs'[q]) /\ Settles(runs'[q], paid', balances, confirmed)
  BY <1>4, <1>8, <1>9 DEF Rewarded, Settles
<1>11. runs'[r].pc = "update"  BY <1>2, <1>4
<1>12. \A q \in Runs : runs'[q].pc # "idle" => runs'[q].balance = balances
  BY <1>2, <1>3, <1>4
<1> QED BY <1>1, <1>3, <1>10, <1>11, <1>12 DEF Sound

\* The final MULTI goes through, or redis fails and no run starts any more.
LEMMA UpdateMoney ==
  ASSUME BooksInv, AloneInv, Safe, Sound, NEW r \in Runs, Update(r)
  PROVE  Sound'
<1> DEFINE run == runs[r]
<1>1. /\ run \in Paying /\ run.pc = "update"
      /\ UNCHANGED <<status, paid>>
      /\ runs' = [runs EXCEPT ![r] = Idle]
      /\ \/ Apply(run) /\ UNCHANGED interval
         \/ interval' = "off"
  BY UpdateRun
<1>2. /\ interval = "on" /\ run.balance = balances /\ run.blocks \subseteq pending
      /\ Settles(run, paid, balances, confirmed)
  BY <1>1 DEF Sound, AloneInv, Safe
<1>3. \A q \in Runs : runs'[q].pc = "idle"
  <2>1. \A q \in Runs : runs'[q] = IF q = r THEN Idle ELSE runs[q]
    BY <1>1 DEF BooksInv
  <2>2. \A q \in Runs : q # r => runs[q].pc = "idle"
    BY <1>1 DEF AloneInv, Safe
  <2> QED BY <2>1, <2>2, IdleBooks
<1>4. \A q \in Runs : Rewarded(runs'[q]) /\ Settles(runs'[q], paid', balances', confirmed')
  BY <1>3 DEF Rewarded, Settles
<1>5. CASE interval' = "off"
  <2>1. Backed(Total(paid), Cardinality(Matured(status)))  BY PaidBacked
  <2> QED BY <1>1, <1>3, <1>4, <1>5, <2>1 DEF Sound
<1>6. CASE Apply(run) /\ UNCHANGED interval
  <2>1. balances' = After(run, balances)  BY <1>6 DEF Apply, After
  <2>2. ASSUME NEW w \in Workers PROVE balances'[w] >= 0
    <3>1. run.balance[w] >= 0  BY <1>2 DEF Sound
    <3>2. run.balance[w] + BalanceChange(run, w) >= 0  BY <1>1, <3>1, NetAtMost
    <3> QED BY <1>2, <2>1, <3>2 DEF After
  <2>3. /\ confirmed' = confirmed \union run.generate
        /\ Cardinality(confirmed') = Cardinality(confirmed) + Cardinality(run.generate)
    BY <1>1, <1>2, <1>6, Confirms DEF Apply
  <2>4. Backed(Total(paid) + Total(balances'), Cardinality(confirmed'))
    BY <1>1, <1>2, <2>1, <2>3 DEF Settles
  <2> QED BY <1>1, <1>2, <1>3, <1>4, <1>6, <2>2, <2>4 DEF Sound
<1> QED BY <1>1, <1>5, <1>6

LEMMA MoneyStep ==
  ASSUME BooksInv, AloneInv, MoneyInv, [Next]_payVars
  PROVE  MoneyInv'
<1> SUFFICES ASSUME Safe' PROVE Sound'
  BY DEF MoneyInv
<1>1. BooksInv' /\ StatusMoves /\ Safe  BY BooksStep, EventsGrow DEF Safe
<1>2. Sound  BY <1>1 DEF MoneyInv
<1>3. CASE RecordShare \/ FindBlock \/ Decide \/ UNCHANGED payVars
  <2>1. UNCHANGED <<paid, balances, confirmed, interval, runs>>
    BY <1>3 DEF RecordShare, FindBlock, Decide, payVars, redisVars, procVars
  <2> QED BY <1>1, <1>2, <2>1, QuietMoney
<1>4. CASE Setup
  <2>1. /\ interval = "setup" /\ interval' \in {"on", "off"}
        /\ UNCHANGED <<paid, balances, confirmed, status, runs>>
    BY <1>4 DEF Setup, redisVars
  <2>2. Backed(Total(paid), Cardinality(Matured(status)))  BY <1>1, <1>2, PaidBacked
  <2> QED BY <1>2, <2>1, <2>2 DEF Sound
<1>5. CASE Crash
  BY <1>5 DEF Crash, Fault, Safe
<1>6. ASSUME NEW r \in Runs, Run(r)
      PROVE  Sound'
  <2>1. CASE StartRun(r)
    <3> DEFINE X == [pc |-> "details", balance |-> balances, blocks |-> pending]
    <3>1. /\ runs' = [runs EXCEPT ![r] = X] /\ runs[r].pc = "idle" /\ interval = "on"
          /\ UNCHANGED <<paid, balances, confirmed, status, interval>>
      BY <2>1, IdleBooks DEF StartRun, redisVars
    <3>2. X.pc = "details" /\ X.balance = balances  OBVIOUS
    <3> HIDE DEF X
    <3>3. Rewarded(X)  BY <3>2 DEF Rewarded
    <3> QED BY <1>2, <3>1, <3>2, <3>3, OneRunMoney
  <2>2. CASE GetDetails(r)
    <3> DEFINE X == Looked(runs[r])
    <3>1. /\ runs' = [runs EXCEPT ![r] = X] /\ runs[r].pc = "details"
          /\ UNCHANGED <<paid, balances, confirmed, status, interval>>
      BY <2>2, GetDetailsRun DEF GetDetails, redisVars
    <3>2. X.pc = "shares" /\ X.balance = runs[r].balance  BY DEF Looked
    <3>3. interval = "on" /\ runs[r].balance = balances  BY <1>2, <3>1 DEF Sound
    <3> HIDE DEF X
    <3>4. Rewarded(X)  BY <3>2 DEF Rewarded
    <3> QED BY <1>2, <3>1, <3>2, <3>3, <3>4, OneRunMoney
  <2>3. CASE GetShares(r)
    <3> DEFINE X == Counted(runs[r])
    <3>1. /\ runs' = [runs EXCEPT ![r] = X] /\ runs[r].pc = "shares"
          /\ UNCHANGED <<paid, balances, confirmed, status, interval>>
      BY <2>3, GetSharesRun DEF GetShares, redisVars
    <3>2. X.pc = "send" /\ X.balance = runs[r].balance  BY DEF Counted
    <3>3. interval = "on" /\ runs[r].balance = balances  BY <1>2, <3>1 DEF Sound
    <3>4. Rewarded(X)  BY <2>3, CountedRewarded
    <3> HIDE DEF X
    <3> QED BY <1>2, <3>1, <3>2, <3>3, <3>4, OneRunMoney
  <2>4. CASE Abort(r)
    <3>1. /\ runs' = [runs EXCEPT ![r] = Idle] /\ runs[r].pc # "update"
          /\ UNCHANGED <<paid, balances, confirmed, status, interval>>
      BY <2>4 DEF Abort, Finish, redisVars
    <3>2. Idle.pc = "idle" /\ Rewarded(Idle)  BY IdleBooks DEF Rewarded
    <3> QED BY <1>2, <3>1, <3>2, OneRunMoney
  <2>5. CASE Send(r)
    <3> DEFINE run == runs[r]
    <3>1. /\ run \in Paying /\ run.pc = "send"
          /\ UNCHANGED <<confirmed, balances, status, interval>>
          /\ \/ runs' = [runs EXCEPT ![r] = Sending(run)] /\ PaysSome(run)
             \/ runs' = [runs EXCEPT ![r] = Idle] /\ paid' = paid
             \/ runs' = [runs EXCEPT ![r] = Withheld(run)] /\ paid' = paid
      BY <2>5, SendRun DEF Safe, PaidBy
    <3>2. CASE runs' = [runs EXCEPT ![r] = Sending(run)] /\ PaysSome(run)
      BY <1>1, <1>2, <2>5, <3>2, SendMoney
    <3>3. CASE runs' = [runs EXCEPT ![r] = Idle] /\ paid' = paid
      <4>1. Idle.pc = "idle" /\ Rewarded(Idle)  BY IdleBooks DEF Rewarded
      <4> QED BY <1>2, <3>1, <3>3, <4>1, OneRunMoney
    <3>4. CASE runs' = [runs EXCEPT ![r] = Withheld(run)] /\ paid' = paid
      <4> DEFINE X == Withheld(run)
      <4>1. /\ X.pc = "send" /\ X.balance = run.balance /\ X.generate = run.generate
            /\ X.reward = run.reward
        BY <3>1 DEF Withheld, Paying
      <4>2. interval = "on" /\ run.balance = balances /\ Rewarded(run)
        BY <1>2, <3>1 DEF Sound
      <4> HIDE DEF X
      <4>3. Rewarded(X)  BY <3>1, <4>1, <4>2 DEF Rewarded
      <4> QED BY <1>2, <3>1, <3>4, <4>1, <4>2, <4>3, OneRunMoney DEF X
    <3> QED BY <3>1, <3>2, <3>3, <3>4
  <2>6. CASE Update(r)
    BY <1>1, <1>2, <2>6, UpdateMoney
  <2>7. CASE ThrowInUpdate(r)
    BY <2>7 DEF ThrowInUpdate, Fault, Safe
  <2> QED BY <1>6, <2>1, <2>2, <2>3, <2>4, <2>5, <2>6, <2>7 DEF Run
<1> QED BY <1>3, <1>4, <1>5, <1>6 DEF Next

\* Until an overlap, a crash or a lost answer, money sent and money on a balance
\* is money that confirmed blocks earned.
THEOREM MoneyCorrect == Spec => []MoneyInv
<1>1. Init => MoneyInv  BY MoneyInit
<1>2. BooksInv /\ AloneInv /\ MoneyInv /\ [Next]_payVars => MoneyInv'  BY MoneyStep
<1> QED BY <1>1, <1>2, BooksCorrect, AloneCorrect, PTL DEF Spec

\* No double payout: without an overlap of runs, a crash or an answer of the
\* wallet that is lost, the pool never sends more than the rewards of the blocks
\* the chain kept, whatever the daemon refuses and however redis fails.
THEOREM PaidFromRewards == Spec => []PaidWithinRewards
<1>1. BooksInv /\ AloneInv /\ MoneyInv => PaidWithinRewards
  BY PaidBacked DEF PaidWithinRewards, MoneyInv, Safe, Backed, Matured
<1> QED BY <1>1, BooksCorrect, AloneCorrect, MoneyCorrect, PTL
=============================================================================
