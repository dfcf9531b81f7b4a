--------------------------- MODULE ShareProcessor ---------------------------
(***************************************************************************)
(* What the pool keeps in redis about shares and blocks, and the one       *)
(* transaction that writes it (libs/shareProcessor.js).                    *)
(*                                                                         *)
(* A share is a number; a tally of a worker's difficulties is the set of   *)
(* the shares that went into it.                                           *)
(***************************************************************************)
EXTENDS Naturals

CONSTANTS Heights   \* heights of the blocks miners look for

VARIABLES
  round,          \* shares:roundCurrent
  rounds,         \* shares:round<height>, for each height
  blocksPending   \* blocks to be paid: the share and its height

redisVars == <<round, rounds, blocksPending>>

RedisInit ==
  /\ round = {}
  /\ rounds = [h \in Heights |-> {}]
  /\ blocksPending = {}

\* Faulty variant: the round's shares are copied to the block's round.
CloseRoundKeeping(tally, h) ==
  /\ round' = tally
  /\ rounds' = [rounds EXCEPT ![h] = tally]

\* RENAME: a key of that name is replaced.
CloseRound(tally, h) ==
  /\ round' = {}
  /\ rounds' = [rounds EXCEPT ![h] = tally]

\* handleShare(isValidShare, isValidBlock, shareData), as one MULTI.
HandleShare(isValidShare, isValidBlock, share, height) ==
  LET tally == IF isValidShare THEN round \union {share} ELSE round IN
    IF isValidBlock
      THEN /\ CloseRound(tally, height)
           /\ blocksPending' = blocksPending \union {<<share, height>>}
      ELSE /\ round' = tally
           /\ UNCHANGED <<rounds, blocksPending>>
=============================================================================
