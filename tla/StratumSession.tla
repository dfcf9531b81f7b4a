--------------------------- MODULE StratumSession ---------------------------
(***************************************************************************)
(* A miner's stratum session: the client (libstratum/StratumClient.cpp)    *)
(* and the server (stratum-pool/lib/stratum.js) at the two ends of one TCP *)
(* connection, through losses, reconnections and restarts of the pool.     *)
(*                                                                         *)
(* A job is the life of the pool it was made in and its number there; the  *)
(* number is all that is sent.  A nonce stands for the extraNonce1 a job   *)
(* is searched with; the pool completes a submitted nonce with the         *)
(* session's own, so a share found with another is no solution.            *)
(***************************************************************************)
EXTENDS Naturals, Sequences

CONSTANTS
  MaxJobs,       \* bound: jobs in one life of the pool
  MaxDrops,      \* bound: connections lost or closed by the server
  MaxRestarts,   \* bound: times the pool's worker is started again
  MaxShares      \* bound: shares submitted

ASSUME SessionAssumption ==
  /\ MaxJobs \in Nat \ {0}
  /\ MaxDrops \in Nat /\ MaxRestarts \in Nat /\ MaxShares \in Nat

Jobs   == [life : 0 .. MaxRestarts, id : 1 .. MaxJobs]
NoJob  == [life |-> 0, id |-> 0]
Idle   == [job |-> NoJob, nonce |-> 0]

VARIABLES
  \* the pool
  poolJob,     \* jobManager.currentJob
  nextNonce,   \* extraNonceCounter
  registered,  \* whether the connection is in stratumClients
  extraNonce1, \* of the session; 0 before the subscription
  firstJob,    \* the job sent with the answer to the subscription
  auth,        \* "no", "asked" while the daemon is, "yes"
  log,         \* the shares handled, with their verdicts
  \* the connection
  link,
  toPool, toMiner,
  drops, restarts,
  \* the miner
  connected,   \* m_connected
  leftover,    \* half a line in m_responseBuffer
  nonce1,      \* AionMiner::nonce1
  lastJob,     \* p_current
  given,       \* what the slots were given last; Idle after a null job
  solving,     \* what the solver threads work on: given, some time later
  submitted

poolVars  == <<poolJob, nextNonce, registered, extraNonce1, firstJob, auth, log>>
linkVars  == <<link, drops, restarts>>
minerVars == <<connected, leftover, nonce1, lastJob, given, solving, submitted>>
vars == <<poolVars, linkVars, toPool, toMiner, minerVars>>

Init ==
  /\ poolJob = [life |-> 0, id |-> 1]
  /\ nextNonce = 1
  /\ registered = FALSE
  /\ extraNonce1 = 0
  /\ firstJob = NoJob
  /\ auth = "no"
  /\ log = <<>>
  /\ link = "down"
  /\ toPool = <<>> /\ toMiner = <<>>
  /\ drops = 0 /\ restarts = 0
  /\ connected = FALSE
  /\ leftover = FALSE
  /\ nonce1 = 0
  /\ lastJob = NoJob
  /\ given = Idle /\ solving = Idle
  /\ submitted = 0

----------------------------------------------------------------------------
(* Messages.                                                               *)

Subscribe        == [type |-> "subscribe"]
Authorize        == [type |-> "authorize"]
Submission(w)    == [type |-> "submit", work |-> w]
SubscribeReply(n) == [type |-> "subscribed", nonce |-> n]
AuthorizeReply   == [type |-> "authorized"]
Notify(j)        == [type |-> "notify", job |-> j]

\* What is written while the connection is lost goes nowhere.
Written(channel, msgs) == IF link = "up" THEN channel \o msgs ELSE channel

----------------------------------------------------------------------------
(* The connection.                                                         *)

\* connect(), and handleNewClient at the other end: the client is among those
\* jobs are broadcast to before it has subscribed.
Connect ==
  /\ ~connected
  /\ connected' = TRUE
  /\ link' = "up"
  /\ toPool' = <<Subscribe>> /\ toMiner' = <<>>
  /\ registered' = TRUE
  /\ extraNonce1' = 0 /\ firstJob' = NoJob /\ auth' = "no"
  /\ UNCHANGED <<poolJob, nextNonce, log, drops, restarts>>
  /\ UNCHANGED <<leftover, nonce1, lastJob, given, solving, submitted>>

LinkDrops ==
  /\ link = "up" /\ drops < MaxDrops
  /\ drops' = drops + 1
  /\ link' = "down"
  /\ UNCHANGED <<poolVars, restarts, toPool, toMiner, minerVars>>

\* 'close': the server forgets the client and what it had sent.
ServerCloses ==
  /\ link = "down" /\ registered
  /\ registered' = FALSE
  /\ toPool' = <<>>
  /\ UNCHANGED <<poolJob, nextNonce, extraNonce1, firstJob, auth, log, linkVars,
                 toMiner, minerVars>>

\* read_until throws, perhaps with complete messages unread and half a line in
\* the buffer, which is kept.  reconnect() pauses the threads; p_current stays.
ReadFails ==
  /\ connected /\ link = "down"
  /\ connected' = FALSE
  /\ given' = Idle
  /\ toMiner' = <<>>
  /\ \E half \in IF toMiner # <<>> THEN BOOLEAN ELSE {FALSE} :
       leftover' = (leftover \/ half)
  /\ UNCHANGED <<poolVars, linkVars, toPool, nonce1, lastJob, solving, submitted>>

----------------------------------------------------------------------------
(* The server.                                                             *)

\* Faulty variant: jobs go to the authorized clients.
ReachedAuthorized == registered /\ auth = "yes"

\* The clients jobs are broadcast to.
Reached == registered

\* A new block: broadcastMiningJobs.
NewBlock ==
  /\ poolJob.id < MaxJobs
  /\ poolJob' = [poolJob EXCEPT !.id = @ + 1]
  /\ toMiner' = IF Reached THEN Written(toMiner, <<Notify(poolJob')>>) ELSE toMiner
  /\ UNCHANGED <<nextNonce, registered, extraNonce1, firstJob, auth, log, linkVars,
                 toPool, minerVars>>

\* The same, when the client has sent no share for connectionTimeout: it is
\* disconnected and does not get the job.
NewBlockTimesOut ==
  /\ poolJob.id < MaxJobs
  /\ registered /\ link = "up" /\ drops < MaxDrops
  /\ poolJob' = [poolJob EXCEPT !.id = @ + 1]
  /\ link' = "down"
  /\ drops' = drops + 1
  /\ UNCHANGED <<nextNonce, registered, extraNonce1, firstJob, auth, log, restarts,
                 toPool, toMiner, minerVars>>

Handle(type) ==
  /\ registered /\ link = "up"
  /\ toPool # <<>> /\ Head(toPool).type = type
  /\ toPool' = Tail(toPool)

\* Faulty variant: the counter stands still.
NonceAfterSame(n) == n

\* ExtraNonceCounter.next, which starts elsewhere in each life of the pool.
NonceAfter(n) == n + 1

\* The answer and the current job, in this order.
HandleSubscribe ==
  /\ Handle("subscribe")
  /\ extraNonce1' = nextNonce
  /\ nextNonce' = NonceAfter(nextNonce)
  /\ firstJob' = poolJob
  /\ toMiner' = Written(toMiner, <<SubscribeReply(nextNonce), Notify(poolJob)>>)
  /\ UNCHANGED <<poolJob, registered, auth, log, linkVars, minerVars>>

\* validateaddress is asked of the daemon.
HandleAuthorize ==
  /\ Handle("authorize")
  /\ auth' = "asked"
  /\ UNCHANGED <<poolJob, nextNonce, registered, extraNonce1, firstJob, log,
                 linkVars, toMiner, minerVars>>

AnswerAuthorize ==
  /\ registered /\ auth = "asked"
  /\ auth' = "yes"
  /\ toMiner' = Written(toMiner, <<AuthorizeReply>>)
  /\ UNCHANGED <<poolJob, nextNonce, registered, extraNonce1, firstJob, log,
                 linkVars, toPool, minerVars>>

\* The job is looked up by its number in the pool's present life.
Verdict(w) ==
  IF auth # "yes" THEN "unauthorized"
  ELSE IF w.job.id > poolJob.id THEN "unknown"
  ELSE IF w.job.life # poolJob.life \/ w.nonce # extraNonce1 THEN "invalid"
  ELSE "ok"

HandleSubmit ==
  /\ Handle("submit")
  /\ LET w == Head(toPool).work IN
       log' = Append(log, [work |-> w, first |-> firstJob, verdict |-> Verdict(w)])
  /\ UNCHANGED <<poolJob, nextNonce, registered, extraNonce1, firstJob, auth,
                 linkVars, toMiner, minerVars>>

\* The worker process ends and is forked again: its jobs, its clients and its
\* job counter are gone.
PoolRestarts ==
  /\ restarts < MaxRestarts
  /\ restarts' = restarts + 1
  /\ poolJob' = [life |-> poolJob.life + 1, id |-> 1]
  /\ link' = "down"
  /\ registered' = FALSE /\ auth' = "no"
  /\ toPool' = <<>>
  /\ UNCHANGED <<nextNonce, extraNonce1, firstJob, log, drops, toMiner, minerVars>>

Server == HandleSubscribe \/ HandleAuthorize \/ AnswerAuthorize \/ HandleSubmit

----------------------------------------------------------------------------
(* The client.                                                             *)

Read(type) ==
  /\ connected
  /\ toMiner # <<>> /\ ~leftover /\ Head(toMiner).type = type
  /\ toMiner' = Tail(toMiner)

\* The first line of a connection completes what the last one left; it is no
\* JSON and is dropped.
ReadGarbled ==
  /\ connected
  /\ toMiner # <<>> /\ leftover
  /\ toMiner' = Tail(toMiner)
  /\ leftover' = FALSE
  /\ UNCHANGED <<poolVars, linkVars, toPool, connected, nonce1, lastJob, given,
                 solving, submitted>>

\* Faulty variant: the first session's nonce is kept.
ReadSubscribedOnce ==
  /\ Read("subscribed")
  /\ nonce1' = IF nonce1 = 0 THEN Head(toMiner).nonce ELSE nonce1
  /\ toPool' = Written(toPool, <<Authorize>>)
  /\ UNCHANGED <<poolVars, linkVars, connected, leftover, lastJob, given, solving,
                 submitted>>

\* Faulty variant: authorized once, as a reconnection to the same pool.
ReadSubscribedSilent ==
  /\ Read("subscribed")
  /\ nonce1' = Head(toMiner).nonce
  /\ toPool' = IF nonce1 = 0 THEN Written(toPool, <<Authorize>>) ELSE toPool
  /\ UNCHANGED <<poolVars, linkVars, connected, leftover, lastJob, given, solving,
                 submitted>>

ReadSubscribed ==
  /\ Read("subscribed")
  /\ nonce1' = Head(toMiner).nonce
  /\ toPool' = Written(toPool, <<Authorize>>)
  /\ UNCHANGED <<poolVars, linkVars, connected, leftover, lastJob, given, solving,
                 submitted>>

ReadAuthorized ==
  /\ Read("authorized")
  /\ UNCHANGED <<poolVars, linkVars, toPool, connected, leftover, nonce1, lastJob,
                 given, solving, submitted>>

\* parseJob takes the nonce as it is; a job with p_current's number is dropped.
ReadNotify ==
  /\ Read("notify")
  /\ LET j == Head(toMiner).job IN
       IF lastJob.id = j.id
         THEN UNCHANGED <<lastJob, given>>
         ELSE lastJob' = j /\ given' = [job |-> j, nonce |-> nonce1]
  /\ UNCHANGED <<poolVars, linkVars, toPool, connected, leftover, nonce1, solving,
                 submitted>>

Client ==
  ReadGarbled \/ ReadSubscribed \/ ReadAuthorized \/ ReadNotify \/ ReadFails

\* The solver threads turn to what they were given (module MinerThread).
TurnToWork ==
  /\ solving # given
  /\ solving' = given
  /\ UNCHANGED <<poolVars, linkVars, toPool, toMiner, connected, leftover, nonce1,
                 lastJob, given, submitted>>

\* A solution is sent from its solver thread on whatever connection there is.
SubmitShare ==
  /\ solving # Idle
  /\ link = "up" /\ connected
  /\ submitted < MaxShares
  /\ submitted' = submitted + 1
  /\ toPool' = Append(toPool, Submission(solving))
  /\ UNCHANGED <<poolVars, linkVars, toMiner, connected, leftover, nonce1, lastJob,
                 given, solving>>

----------------------------------------------------------------------------

Next ==
  \/ Connect \/ LinkDrops \/ ServerCloses
  \/ NewBlock \/ NewBlockTimesOut \/ Server \/ PoolRestarts
  \/ Client \/ TurnToWork \/ SubmitShare

Spec == Init /\ [][Next]_vars

\* Both ends go on reading, the daemon answers, the client reconnects every
\* three seconds and the solver threads come to their work.
FairSpec ==
  /\ Spec
  /\ WF_vars(Server) /\ WF_vars(Client) /\ WF_vars(Connect) /\ WF_vars(TurnToWork)

----------------------------------------------------------------------------
(* Properties.                                                             *)

Work == [job : Jobs \union {NoJob}, nonce : Nat]

\* Messages and state have the shapes the handlers expect.
SessionTypeOK ==
  /\ poolJob \in Jobs
  /\ nextNonce \in Nat /\ extraNonce1 < nextNonce /\ nonce1 < nextNonce
  /\ registered \in BOOLEAN /\ connected \in BOOLEAN /\ leftover \in BOOLEAN
  /\ firstJob \in Jobs \union {NoJob} /\ lastJob \in Jobs \union {NoJob}
  /\ auth \in {"no", "asked", "yes"}
  /\ link \in {"up", "down"}
  /\ given \in Work /\ solving \in Work
  /\ \A i \in 1 .. Len(toMiner) :
       toMiner[i].type = "notify" => toMiner[i].job \in Jobs
  /\ \A i \in 1 .. Len(toPool) :
       toPool[i].type = "submit" => toPool[i].work \in Work \ {Idle}

NotAfter(j, k) == j.life < k.life \/ (j.life = k.life /\ j.id <= k.id)

\* A share is refused as invalid only if its job is not younger than the one
\* sent with the subscription: each later job of the session is searched with
\* the session's own nonce, whatever solver threads of an earlier session, a
\* broadcast before the subscription or a restarted pool left behind.
RefusedOnlyEarly ==
  \A i \in 1 .. Len(log) :
    log[i].verdict = "invalid" => NotAfter(log[i].work.job, log[i].first)

\* On a connection that lasts the client is authorized, unless half a line of
\* the connection before it spoils the answer to its subscription.
HandshakeCompletes ==
  (link = "up" /\ toPool = <<Subscribe>> /\ ~leftover)
    ~> (link = "down" \/ auth = "yes")

\* Each job that is broadcast to a subscribed client is worked on, with the
\* session's nonce, unless the connection is lost or a younger job follows.
NextJobReaches ==
  \A j \in Jobs :
    (link = "up" /\ poolJob = j /\ j # firstJob /\ nonce1 \in {extraNonce1} \ {0})
      ~> \/ link = "down" \/ poolJob # j
         \/ solving = [job |-> j, nonce |-> extraNonce1]

\* "Once connected the client should begin receiving work within several
\* seconds": it comes to work on something.
ConnectedGetsWork ==
  (link = "up" /\ toPool = <<Subscribe>> /\ ~leftover)
    ~> (link = "down" \/ solving # Idle)
=============================================================================
