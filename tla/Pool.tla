-------------------------------- MODULE Pool --------------------------------
(***************************************************************************)
(* The pool around its job manager (stratum-pool/lib/pool.js): templates   *)
(* polled from the coin daemons, shares credited to the miners at once,    *)
(* and the submission of their blocks, which ends, some replies and a      *)
(* second later, in the share being recorded.                              *)
(*                                                                         *)
(* Every call to a daemon is an HTTP request of its own, so answers arrive *)
(* in any order.  The daemons follow one chain; it and their answers are   *)
(* external.  Every job's block is worth submitting: the miners' target is *)
(* the block's.                                                            *)
(***************************************************************************)
EXTENDS JobManager, ShareProcessor

CONSTANTS
  Daemons,        \* options.daemons
  DaemonsRefuse,  \* whether a daemon may fail a call or refuse a block
  Genesis,        \* the block the chain starts with
  MaxFlight,      \* bound: answers on a given block on their way at a time
  MaxReorgs       \* bound: times the chain replaces its last block

ASSUME PoolAssumption ==
  /\ DaemonsRefuse \in BOOLEAN
  /\ Genesis \in Blocks /\ HeightOf[Genesis] = 1
  /\ MaxFlight \in Nat /\ MaxReorgs \in Nat
  /\ \A b \in Blocks : HeightOf[b] + 1 \in Heights

VARIABLES
  chain,     \* the daemons' best chain, by height
  solvedBy,  \* block -> the share it was made from, for the pool's own
  reorgs,
  flight,    \* block -> getblocktemplate answers on their way that build on it
  stage,     \* per share, how far its recording is
  replies    \* per share, each daemon's reply to submitblock

chainVars == <<chain, solvedBy, reorgs>>
pipeVars  == <<stage, replies>>
poolVars  == <<jmVars, redisVars, chainVars, flight, pipeVars>>

PoolInit ==
  /\ Init
  /\ RedisInit
  /\ chain = <<Genesis>>
  /\ solvedBy = [b \in Blocks |-> 0]
  /\ reorgs = 0
  /\ flight = [b \in Blocks |-> 0]
  /\ stage = <<>>
  /\ replies = <<>>

----------------------------------------------------------------------------
(* The chain.                                                              *)

Tip == chain[Len(chain)]

\* Blocks known from the chain as it is or was, of others or the pool's own.
Used == {chain[h] : h \in 1 .. Len(chain)}
          \union {b \in Blocks : flight[b] > 0 \/ solvedBy[b] # 0 \/ b \in seen}

\* A block found on top of the last one, by share i or, for 0, by others.
Extend(b, i) ==
  /\ b \notin Used
  /\ HeightOf[b] = Len(chain) + 1
  /\ chain' = Append(chain, b)
  /\ solvedBy' = [solvedBy EXCEPT ![b] = i]
  /\ UNCHANGED reorgs

OthersFind ==
  /\ \E b \in Blocks : Extend(b, 0)
  /\ UNCHANGED <<jmVars, redisVars, flight, pipeVars>>

\* The last block loses to a rival, a new one or one that had lost before.
Reorganize ==
  /\ reorgs < MaxReorgs
  /\ \E b \in Blocks \ {Tip} :
       /\ HeightOf[b] = Len(chain)
       /\ chain' = [chain EXCEPT ![Len(chain)] = b]
  /\ reorgs' = reorgs + 1
  /\ UNCHANGED <<jmVars, redisVars, solvedBy, flight, pipeVars>>

----------------------------------------------------------------------------
(* Polling, notifications and the poll two seconds after a block: all end  *)
(* in a getblocktemplate whose answer runs processTemplate.                *)

\* A daemon answers from the chain it has at that moment.
AnswerTemplate ==
  /\ flight[Tip] < MaxFlight
  /\ flight' = [flight EXCEPT ![Tip] = @ + 1]
  /\ UNCHANGED <<jmVars, redisVars, chainVars, pipeVars>>

\* An answer that is an error changes nothing.
TemplateError(b) ==
  /\ DaemonsRefuse
  /\ flight[b] > 0
  /\ flight' = [flight EXCEPT ![b] = @ - 1]
  /\ UNCHANGED <<jmVars, redisVars, chainVars, pipeVars>>

DeliverTemplate(b) ==
  /\ flight[b] > 0
  /\ IsNew(b) => Len(jobs) < MaxJobs
  /\ flight' = [flight EXCEPT ![b] = @ - 1]
  /\ ProcessTemplate(b)
  /\ UNCHANGED <<redisVars, chainVars, pipeVars>>

----------------------------------------------------------------------------
(* Shares.                                                                 *)

\* The height of the block a share's job looks for.
ShareHeight(i) == HeightOf[jobs[log[i].job].base] + 1

\* 'submit': the miner has its verdict at once.  A rejected share is recorded
\* in the same step, a credited one is first submitted to every daemon.
SubmitShare ==
  /\ jobs # <<>>
  /\ ReceiveShare
  /\ LET i == Len(log) + 1 IN
       IF log'[i].verdict = "ok"
         THEN /\ stage' = Append(stage, "submitting")
              /\ replies' = Append(replies, [d \in Daemons |-> "none"])
              /\ UNCHANGED redisVars
         ELSE /\ stage' = Append(stage, "rejected")
              /\ replies' = Append(replies, [d \in Daemons |-> "none"])
              /\ HandleShare(FALSE, FALSE, i, 0)
  /\ UNCHANGED <<chainVars, flight>>

\* Faulty variant: a reply does not finish its item of async.each.
CallbackNever(rs) == FALSE

\* cmd calls back when every daemon has replied.
CallbackDue(rs) == \A d \in Daemons : rs[d] # "none"

\* Faulty variant: the replies are not looked at.
AfterAnyReplies(rs) == IF ~CallbackDue(rs) THEN "submitting" ELSE "checking"

\* SubmitBlock goes on only if no reply was an error or "rejected".
AfterReplies(rs) ==
  IF ~CallbackDue(rs) THEN "submitting"
  ELSE IF \E d \in Daemons : rs[d] = "bad" THEN "lost" ELSE "checking"

\* A daemon takes the block as its best, or not: it has one already, or a rival
\* was there first.  Its reply may be lost either way.
ReplySubmit(i, d) ==
  /\ stage[i] = "submitting"
  /\ replies[i][d] = "none"
  /\ \E r \in IF DaemonsRefuse THEN {"ok", "bad"} ELSE {"ok"} :
       /\ replies' = [replies EXCEPT ![i][d] = r]
       /\ stage' = [stage EXCEPT ![i] = AfterReplies(replies'[i])]
  /\ \/ UNCHANGED chainVars
     \/ jobs[log[i].job].base = Tip /\ \E b \in Blocks : Extend(b, i)
  /\ UNCHANGED <<jmVars, redisVars, flight>>

\* Faulty variant: any block at the height will do.
AnyBlockThere(i) == ShareHeight(i) <= Len(chain)

\* getHeaderByBlockNumber at the share's height has the job's header: the
\* header is the template's, whichever solution the block carries.
HeaderOnChain(i) ==
  /\ ShareHeight(i) <= Len(chain)
  /\ LET j == solvedBy[chain[ShareHeight(i)]] IN
       j # 0 /\ log[j].job = log[i].job

\* CheckBlockAccepted; an error counts as no.
CheckBlockAccepted(i) ==
  /\ stage[i] = "checking"
  /\ \E isAccepted \in {HeaderOnChain(i)} \union (IF DaemonsRefuse THEN {FALSE} ELSE {}) :
       HandleShare(TRUE, isAccepted, i, ShareHeight(i))
  /\ stage' = [stage EXCEPT ![i] = "recorded"]
  /\ UNCHANGED <<jmVars, chainVars, flight, replies>>

----------------------------------------------------------------------------

Shares == 1 .. Len(stage)

Daemon == AnswerTemplate \/ \E b \in Blocks : DeliverTemplate(b) \/ TemplateError(b)

Recording ==
  \E i \in Shares : CheckBlockAccepted(i) \/ \E d \in Daemons : ReplySubmit(i, d)

PoolNext == OthersFind \/ Reorganize \/ Daemon \/ SubmitShare \/ Recording

PoolSpec == PoolInit /\ [][PoolNext]_poolVars

\* The polling timer fires for ever, and the daemons answer.
PoolFairness ==
  /\ WF_poolVars(AnswerTemplate)
  /\ \A b \in Blocks : WF_poolVars(DeliverTemplate(b))
  /\ WF_poolVars(Recording)

PoolFairSpec == PoolSpec /\ PoolFairness

----------------------------------------------------------------------------
(* Properties.                                                             *)

Stages == {"rejected", "submitting", "checking", "recorded", "lost"}

\* The parts fit together: a stage and replies for every share processed, and
\* tallies of shares that exist.
PoolTypeOK ==
  /\ TypeOK
  /\ stage \in Seq(Stages) /\ Len(stage) = Len(log)
  /\ replies \in Seq([Daemons -> {"none", "ok", "bad"}]) /\ Len(replies) = Len(log)
  /\ round \in SUBSET Shares
  /\ rounds \in [Heights -> SUBSET Shares]
  /\ blocksPending \in SUBSET (Shares \X Heights)
  /\ chain \in Seq(Blocks) /\ chain # <<>>
  /\ solvedBy \in [Blocks -> {0} \union Shares]
  /\ reorgs \in Nat
  /\ flight \in [Blocks -> Nat]

\* The shares some tally of redis holds.
Counted == round \union UNION {rounds[h] : h \in Heights}

\* A share earns its miner a part of one block at most: it is never in two
\* rounds, nor in a closed round and the current one.
ShareInOneRound ==
  /\ \A h \in Heights : round \intersect rounds[h] = {}
  /\ \A g, h \in Heights : g # h => rounds[g] \intersect rounds[h] = {}

\* What is counted was credited to its miner, and every daemon took its block
\* first, although credit is given before any of them is asked.
CountedWasAccepted ==
  \A i \in Counted :
    log[i].verdict = "ok" /\ \A d \in Daemons : replies[i][d] = "ok"

\* A block is only booked for payment if a solution of its job made a block
\* of that height on the daemons' chain, whatever others mined meanwhile.
PendingWasMined ==
  \A p \in blocksPending :
    \E b \in Blocks :
      /\ HeightOf[b] = p[2]
      /\ solvedBy[b] # 0
      /\ log[solvedBy[b]].job = log[p[1]].job

\* The shares submitted during a round are those its block pays
\* (paymentProcessor.js): nothing recorded is dropped from the tallies.
RoundsKeepShares ==
  \A i \in Shares : stage[i] = "recorded" => i \in Counted

\* The pool, whatever its daemons answer in whatever order, keeps the promises
\* of RoundLedger: a share is entered once, and closed rounds stay as they are.
Ledger == INSTANCE RoundLedger WITH
  Entries <- 1 .. MaxShares,
  entered <- {i \in Shares : stage[i] = "recorded"},
  open    <- round,
  closed  <- rounds,
  booked  <- blocksPending

KeepsLedger == Ledger!Spec

\* Once the chain rests, the miners come to work on its last block and stay
\* there: late answers on older or rival blocks do not take them off for good.
SettlesOnTip ==
  \A b \in Blocks :
    <>[](Tip = b) => <>[](Current # NoJob /\ jobs[Current].base = b)

\* A credited share is recorded, if no daemon fails.
CreditedIsRecorded ==
  \A i \in 1 .. MaxShares :
    (i \in Shares /\ stage[i] = "submitting")
      ~> (i \in Shares /\ stage[i] = "recorded")
=============================================================================
