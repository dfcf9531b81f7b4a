------------------------------ MODULE Payments ------------------------------
(***************************************************************************)
(* The payment processor (libs/paymentProcessor.js): every interval a run  *)
(* looks up what became of the blocks booked for payment, splits the       *)
(* reward of the confirmed ones among the shares of their round, has the   *)
(* wallet send what is due, and at last writes all of it to redis.         *)
(*                                                                         *)
(* A run is a chain of requests, so the pool's own writes to redis come    *)
(* between its steps, and so does the next run when it takes longer than   *)
(* the interval.  The master restarts the process when it dies.            *)
(*                                                                         *)
(* Amounts are in the smallest unit, and so are difficulties: Unit of them  *)
(* are 1.  The daemon's and the network's part is external.                *)
(***************************************************************************)
EXTENDS Integers, FiniteSets, Sums

CONSTANTS
  Workers,      \* names miners submit shares under
  AddressOf,    \* getProperAddress: the address of each, not always its own
  Blocks,       \* blocks the pool may find, a member of blocksPending each
  HeightOf,     \* their heights
  BlockReward,
  MinPayment,   \* minPaymentSatoshis
  Parts,        \* withholdPercent goes up by one of so many parts, 100 in the code
  Difficulties, \* of jobs
  Unit,         \* 10^9 in the code
  MaxRecorded,  \* bound: difficulty recorded
  Runs,         \* bound: names for the runs under way at a time
  MaxFaults     \* bound: faults of the daemon, of redis and of the process

ASSUME PaymentsAssumption ==
  /\ IsFiniteSet(Workers) /\ IsFiniteSet(Blocks) /\ IsFiniteSet(Runs)
  /\ HeightOf \in [Blocks -> Nat]
  /\ BlockReward \in Nat /\ MinPayment \in Nat \ {0}
  /\ Parts \in Nat \ {0}
  /\ Difficulties \subseteq Nat \ {0} /\ Unit \in Nat \ {0}
  /\ MaxRecorded \in Nat /\ MaxFaults \in Nat

Heights == {HeightOf[b] : b \in Blocks}

VARIABLES
  round,      \* shares:roundCurrent
  rounds,     \* shares:round<height>
  pending,    \* blocksPending
  confirmed,  \* blocksConfirmed
  balances,   \* balances
  status,     \* what the daemon says of a block; "none" before it is found
  paid,       \* what the wallet has sent for each worker
  interval,   \* paymentInterval: "setup" before it is set, "on", "off"
  runs,       \* the runs under way
  recorded,   \* history: the difficulty of all shares recorded
  fractional, \* history: workers with a share whose difficulty is no whole number
  due,        \* history: the tally of the round each block closed
  displaced,  \* history: sent for a worker on the books, but not by the wallet
  unmerged,   \* history: what redis did not take of orphans' tallies
  events,     \* history: what went wrong so far
  faults

redisVars == <<round, rounds, pending, confirmed, balances>>
procVars  == <<interval, runs>>
lossVars  == <<displaced, unmerged>>
payVars   == <<redisVars, status, paid, procVars, recorded, fractional, due, lossVars,
               events, faults>>

None   == [w \in Workers |-> 0]
Idle   == [pc |-> "idle"]
Total(tally)    == SumOn(tally, Workers)
Larger(x, y)    == IF x < y THEN y ELSE x
Smaller(x, y)   == IF x < y THEN x ELSE y

Init ==
  /\ round = None
  /\ rounds = [h \in Heights |-> None]
  /\ pending = {}
  /\ confirmed = {}
  /\ balances = None
  /\ status = [b \in Blocks |-> "none"]
  /\ paid = None
  /\ interval = "setup"
  /\ runs = [r \in Runs |-> Idle]
  /\ recorded = 0 /\ fractional = {}
  /\ due = [b \in Blocks |-> None]
  /\ displaced = None /\ unmerged = None
  /\ events = {}
  /\ faults = 0

Fault(e) ==
  /\ faults < MaxFaults
  /\ faults' = faults + 1
  /\ events' = events \union {e}

----------------------------------------------------------------------------
(* The pool records shares and the network decides over blocks.            *)

Whole(n) == n % Unit = 0

\* A share of difficulty d.
Recorded(w, d) ==
  /\ recorded + d <= MaxRecorded
  /\ recorded' = recorded + d
  /\ fractional' = IF Whole(d) THEN fractional ELSE fractional \union {w}

RecordShare ==
  /\ \E w \in Workers, d \in Difficulties :
       Recorded(w, d) /\ round' = [round EXCEPT ![w] = @ + d]
  /\ UNCHANGED <<rounds, pending, confirmed, balances, status, paid, procVars, due,
                 lossVars, events, faults>>

\* Another block of the height has not been settled: RENAME replaces its tally.
Overwrites(h) == \E c \in pending : HeightOf[c] = h

\* A run has looked up another block of the height and will delete its round.
ComesLate(h) ==
  \E r \in Runs : runs[r] # Idle /\ \E c \in runs[r].blocks : HeightOf[c] = h

\* The share that makes a block closes the round.
FindBlock ==
  /\ \E b \in Blocks, w \in Workers, d \in Difficulties :
       LET h == HeightOf[b]
           tally == [round EXCEPT ![w] = @ + d] IN
         /\ Recorded(w, d)
         /\ status[b] = "none"
         /\ status' = [status EXCEPT ![b] = "immature"]
         /\ rounds' = [rounds EXCEPT ![h] = tally]
         /\ due' = [due EXCEPT ![b] = tally]
         /\ pending' = pending \union {b}
         /\ events' = events \union (IF Overwrites(h) THEN {"overwrite"} ELSE {})
                             \union (IF ComesLate(h) THEN {"late"} ELSE {})
  /\ round' = None
  /\ UNCHANGED <<confirmed, balances, paid, procVars, lossVars, faults>>

\* One block of a height at most stays on the chain.
Decide ==
  /\ \E b \in Blocks :
       /\ status[b] = "immature"
       /\ \/ status' = [status EXCEPT ![b] = "orphan"]
          \/ /\ \A c \in Blocks : HeightOf[c] = HeightOf[b] => status[c] # "generate"
             /\ status' = [status EXCEPT ![b] = "generate"]
  /\ UNCHANGED <<redisVars, paid, procVars, recorded, fractional, due, lossVars,
                 events, faults>>

----------------------------------------------------------------------------
(* SetupForPool, and a run of processPayments.                             *)

\* The daemon must own the pool's address and tell its precision; if it does
\* not, nothing asks again.
Setup ==
  /\ interval = "setup"
  /\ \/ interval' = "on" /\ UNCHANGED <<events, faults>>
     \/ Fault("setup") /\ interval' = "off"
  /\ UNCHANGED <<redisVars, status, paid, runs, recorded, fractional, due, lossVars>>

Finish(r) == runs' = [runs EXCEPT ![r] = Idle]

\* The interval fires, whether or not the last run has ended; one MULTI reads
\* the balances and the blocks.
StartRun(r) ==
  /\ interval = "on"
  /\ runs[r] = Idle
  /\ runs' = [runs EXCEPT ![r] = [pc |-> "details", balance |-> balances, blocks |-> pending]]
  /\ events' = IF \E q \in Runs : runs[q] # Idle
                 THEN events \union {"overlap"} ELSE events
  /\ UNCHANGED <<redisVars, status, paid, interval, recorded, fractional, due, lossVars,
                 faults>>

\* Faulty variant: rounds of other blocks are not looked at.
CanDeleteAll(b, blocks) == TRUE

\* canDeleteShares: no other block of the height may still need the round.
CanDeleteShares(b, blocks) ==
  \A c \in blocks \ {b} : HeightOf[c] = HeightOf[b] => status[c] = "orphan"

\* Faulty variant: blocks that can still be orphaned are paid for.
SettledEarly(blocks) == {b \in blocks : status[b] # "orphan"}

\* Blocks the daemon has as mature.
Generated(blocks) == {b \in blocks : status[b] = "generate"}

\* gettransaction for each block, in one batch.  A block the daemon does not
\* know is "kicked" and treated like an orphan.
GetDetails(r) ==
  /\ runs[r].pc = "details"
  /\ LET blocks == runs[r].blocks
         orphans == {b \in blocks : status[b] = "orphan"} IN
       runs' = [runs EXCEPT ![r] =
                  [pc |-> "shares", balance |-> @.balance, blocks |-> blocks,
                   generate |-> Generated(blocks), orphan |-> orphans,
                   merge |-> {b \in orphans : CanDeleteShares(b, blocks)}]]
  /\ UNCHANGED <<redisVars, status, paid, interval, recorded, fractional, due, lossVars,
                 events, faults>>

\* Floor of each worker's percentage; a round without shares pays nobody.
RoundReward(tally, w) ==
  IF Total(tally) = 0 THEN 0 ELSE (BlockReward * tally[w]) \div Total(tally)

\* The tallies of the rounds, in one MULTI.
GetShares(r) ==
  /\ runs[r].pc = "shares"
  /\ runs' = [runs EXCEPT ![r] =
       [pc |-> "send", balance |-> @.balance, blocks |-> @.blocks,
        generate |-> @.generate, orphan |-> @.orphan, withhold |-> 0,
        merge |-> [b \in @.merge |-> rounds[HeightOf[b]]],
        reward |-> [w \in Workers |->
                      SumOn([b \in @.generate |-> RoundReward(rounds[HeightOf[b]], w)],
                            @.generate)]]]
  /\ UNCHANGED <<redisVars, status, paid, interval, recorded, fractional, due, lossVars,
                 events, faults>>

\* An error in one of the look-ups ends the run.
Abort(r) ==
  /\ runs[r].pc \in {"details", "shares"}
  /\ Finish(r)
  /\ UNCHANGED <<redisVars, status, paid, interval, recorded, fractional, due, lossVars,
                 events, faults>>

ToSend(run, w) == ((run.balance[w] + run.reward[w]) * (Parts - run.withhold)) \div Parts

Sent(run, w) == IF ToSend(run, w) >= MinPayment THEN ToSend(run, w) ELSE 0

\* Faulty variant: the whole amount sent is taken off the balance.
ChangeBySent(run, w) ==
  IF Sent(run, w) > 0 THEN -ToSend(run, w) ELSE Larger(ToSend(run, w) - run.balance[w], 0)

BalanceChange(run, w) ==
  IF Sent(run, w) > 0
    THEN -Smaller(run.balance[w], ToSend(run, w))
    ELSE Larger(ToSend(run, w) - run.balance[w], 0)

Payees(run) == {w \in Workers : Sent(run, w) > 0}

\* addressAmounts: of several names with one address the last one's amount stands for
\* all.
LastOfAddresses(run) ==
  {last \in SUBSET Payees(run) :
     \A w \in Payees(run) : Cardinality({v \in last : AddressOf[v] = AddressOf[w]}) = 1}

Sends(run, last) ==
  paid' = [w \in Workers |-> IF w \in last THEN paid[w] + Sent(run, w) ELSE paid[w]]

\* All names are taken for paid.
Displaces(run, last) ==
  displaced' = [w \in Workers |->
                  IF w \in last THEN displaced[w] ELSE displaced[w] + Sent(run, w)]

\* sendmany is not called when nobody reaches the minimum.
SkipSend(r) ==
  /\ Payees(runs[r]) = {}
  /\ UNCHANGED <<paid, displaced, events, faults>>
  /\ runs' = [runs EXCEPT ![r].pc = "update"]

SendMany(r) ==
  /\ Payees(runs[r]) # {}
  /\ \/ \* the wallet sends and says so,
        /\ \E last \in LastOfAddresses(runs[r]) :
             Sends(runs[r], last) /\ Displaces(runs[r], last)
        /\ runs' = [runs EXCEPT ![r].pc = "update"]
        /\ UNCHANGED <<events, faults>>
     \/ \* or its answer is lost and counts as an error, which ends the run,
        /\ Fault("lostReply")
        /\ \E last \in LastOfAddresses(runs[r]) : Sends(runs[r], last)
        /\ Finish(r)
        /\ UNCHANGED displaced
     \/ \* or it refuses,
        /\ Fault("refused")
        /\ Finish(r)
        /\ UNCHANGED <<paid, displaced>>
     \/ \* or it lacks the fee (error -6) and is asked again for less.
        /\ runs[r].withhold + 1 < Parts
        /\ Fault("withheld")
        /\ runs' = [runs EXCEPT ![r].withhold = @ + 1]
        /\ UNCHANGED <<paid, displaced>>

Send(r) ==
  /\ runs[r].pc = "send"
  /\ SkipSend(r) \/ SendMany(r)
  /\ UNCHANGED <<redisVars, status, interval, recorded, fractional, due, unmerged>>

\* Faulty variant: the rounds of orphans stay.
RoundsOfPaid(run) == {HeightOf[b] : b \in run.generate}

RoundsToDelete(run) == {HeightOf[b] : b \in run.generate \union DOMAIN run.merge}

\* HINCRBY takes whole numbers, and only if the field is one.
Taken(run, b, w) ==
  IF Whole(run.merge[b][w]) /\ Whole(round[w]) THEN run.merge[b][w] ELSE 0

\* What of the orphans' tallies is a worker's, and what of it redis takes.
Merged(run, w) == SumOn([b \in DOMAIN run.merge |-> run.merge[b][w]], DOMAIN run.merge)
Added(run, w)  == SumOn([b \in DOMAIN run.merge |-> Taken(run, b, w)], DOMAIN run.merge)

\* The final MULTI.  HINCRBY adds the tally of every orphan that may go, even
\* if two of them name the same round; where it fails the others go on, the DEL of
\* the rounds too, and there is no error.
Apply(run) ==
  /\ pending' = pending \ (run.generate \union run.orphan)
  /\ confirmed' = confirmed \union (pending \intersect run.generate)
  /\ round' = [w \in Workers |-> round[w] + Added(run, w)]
  /\ unmerged' = [w \in Workers |-> unmerged[w] + Merged(run, w) - Added(run, w)]
  /\ rounds' = [h \in Heights |-> IF h \in RoundsToDelete(run) THEN None ELSE rounds[h]]
  /\ balances' = [w \in Workers |-> balances[w] + BalanceChange(run, w)]

\* No commands, no MULTI.
NothingToWrite(run) ==
  /\ run.generate = {} /\ run.orphan = {}
  /\ \A w \in Workers : BalanceChange(run, w) = 0 /\ Sent(run, w) = 0

\* An orphan's round that is gone makes moveSharesToCurrent throw.
Throws(run) == \E b \in DOMAIN run.merge : run.merge[b] = None

Update(r) ==
  /\ runs[r].pc = "update"
  /\ ~Throws(runs[r])
  /\ \/ /\ Apply(runs[r])
        /\ Finish(r)
        /\ UNCHANGED <<interval, events, faults>>
     \/ \* "Disabling payment processing to prevent possible double-payouts"
        /\ ~NothingToWrite(runs[r])
        /\ Fault("redis")
        /\ interval' = "off"
        /\ Finish(r)
        /\ Apply(runs[r]) \/ UNCHANGED <<redisVars, unmerged>>
  /\ UNCHANGED <<status, paid, recorded, fractional, due, displaced>>

\* The process dies; init.js starts it again.
Restart ==
  /\ interval' = "setup"
  /\ runs' = [r \in Runs |-> Idle]
  /\ UNCHANGED <<redisVars, status, paid, recorded, fractional, due, lossVars>>

ThrowInUpdate(r) ==
  /\ runs[r].pc = "update"
  /\ Throws(runs[r])
  /\ Fault("crash")
  /\ Restart

Crash == Fault("crash") /\ Restart

----------------------------------------------------------------------------

Run(r) ==
  \/ StartRun(r) \/ GetDetails(r) \/ GetShares(r) \/ Abort(r)
  \/ Send(r) \/ Update(r) \/ ThrowInUpdate(r)

Next == RecordShare \/ FindBlock \/ Decide \/ Setup \/ Crash \/ \E r \in Runs : Run(r)

Spec == Init /\ [][Next]_payVars

----------------------------------------------------------------------------
(* Properties.                                                             *)

Statuses == {"none", "immature", "generate", "orphan"}

\* What redis holds, and the rounds a run can leave behind: a block is never
\* both pending and confirmed, and only blocks the chain kept are confirmed.
PaymentsTypeOK ==
  /\ round \in [Workers -> Nat] /\ rounds \in [Heights -> [Workers -> Nat]]
  /\ pending \subseteq Blocks /\ confirmed \subseteq Blocks \ pending
  /\ \A b \in confirmed : status[b] = "generate"
  /\ balances \in [Workers -> Int] /\ paid \in [Workers -> Nat]
  /\ status \in [Blocks -> Statuses]
  /\ due \in [Blocks -> [Workers -> Nat]]
  /\ displaced \in [Workers -> Nat] /\ unmerged \in [Workers -> Nat]

\* What the confirmed blocks owe a worker.
Earned(w) == SumOn([b \in confirmed |-> RoundReward(due[b], w)], confirmed)

OwnAddress(w) == \A v \in Workers : AddressOf[v] = AddressOf[w] => v = w

\* Overlapping runs, crashes, lost answers and a failing redis cost the pool
\* money, never a miner: once a block is confirmed its workers have their part
\* of it, sent or on their balance; only one who shares an address may miss what
\* another name of it displaced from a payment.  (Withheld fees and rounds that
\* another block of the height replaced are excepted.)
NeverUnderpaid ==
  events \intersect {"withheld", "overwrite", "late"} = {} =>
    \A w \in Workers :
      /\ paid[w] + displaced[w] + balances[w] >= Earned(w)
      /\ OwnAddress(w) => paid[w] + balances[w] >= Earned(w)

\* "to prevent possible double-payouts": without an overlap, a crash or a lost
\* answer the wallet never sends more than the chain gave for the pool's blocks.
PaidWithinRewards ==
  events \intersect {"overlap", "crash", "lostReply"} = {} =>
    Total(paid) <= BlockReward * Cardinality({b \in Blocks : status[b] = "generate"})

\* Shares of orphaned blocks go back to the current round: each share recorded is
\* in one tally until a confirmed block has paid for it, through crashes and
\* failures of redis, while blocks of one height do not meet.  Only of workers with a
\* share of fractional difficulty may redis not take back a tally.
SharesConserved ==
  /\ events \intersect {"overlap", "overwrite", "late"} = {} =>
       recorded = Total(round) + Total(unmerged)
                    + SumOn([h \in Heights |-> Total(rounds[h])], Heights)
                    + SumOn([b \in confirmed |-> Total(due[b])], confirmed)
  /\ \A w \in Workers \ fractional : unmerged[w] = 0

\* A block that can be paid for has a round to be paid by: an orphan of its
\* height that is settled first leaves the round to it.
RoundKept ==
  "late" \notin events =>
    \A b \in pending : status[b] = "generate" => rounds[HeightOf[b]] # None
=============================================================================
