------------------------ MODULE StratumSessionProofs ------------------------
(***************************************************************************)
(* For every number of jobs, lost connections, restarts and shares: the    *)
(* two ends understand each other, and the pool refuses as invalid only    *)
(* shares of jobs not younger than the session.                            *)
(***************************************************************************)
EXTENDS StratumSession, SequenceTheorems, TLAPS

\* The jobs, with the one that stands for none.
AnyJob == Jobs \union {NoJob}

\* What the channels carry.
ToPool  == {Subscribe, Authorize} \union {Submission(w) : w \in Work \ {Idle}}
ToMiner == {AuthorizeReply} \union {SubscribeReply(n) : n \in Nat}
             \union {Notify(j) : j \in Jobs}

Verdicts == {"unauthorized", "unknown", "invalid", "ok"}

\* The types behind SessionTypeOK, with the number of lives the pool has had.
ValuesOK ==
  /\ poolJob \in Jobs /\ poolJob.life = restarts
  /\ nextNonce \in Nat \ {0} /\ extraNonce1 \in 0 .. nextNonce - 1
  /\ nonce1 \in 0 .. nextNonce - 1
  /\ registered \in BOOLEAN /\ connected \in BOOLEAN /\ leftover \in BOOLEAN
  /\ firstJob \in AnyJob /\ lastJob \in AnyJob
  /\ auth \in {"no", "asked", "yes"}
  /\ link \in {"up", "down"}
  /\ drops \in Nat /\ restarts \in 0 .. MaxRestarts /\ submitted \in Nat
  /\ given \in Work /\ solving \in Work

\* What is on its way; an answer to the subscription is that of the session.
ChannelsOK ==
  /\ toPool \in Seq(ToPool) /\ toMiner \in Seq(ToMiner)
  /\ \A i \in 1 .. Len(toMiner) :
       toMiner[i].type = "subscribed" => toMiner[i].nonce = extraNonce1

LogOK == log \in Seq([work : Work, first : AnyJob, verdict : Verdicts])

StateOK == ValuesOK /\ ChannelsOK /\ LogOK

\* The work some solver thread or share of the miner is about.
Works == {given, solving} \union {w \in Work : Submission(w) \in Range(toPool)}

\* No job is younger than the pool's, and within a session none is of an
\* earlier life than the one it began with.
JobsInv ==
  /\ \A w \in Works : NotAfter(w.job, poolJob)
  /\ \A i \in 1 .. Len(toMiner) :
       toMiner[i].type = "notify" => NotAfter(toMiner[i].job, poolJob)
  /\ registered /\ extraNonce1 # 0 => firstJob.life = poolJob.life

\* The subscription is asked for first and once, and answered before the
\* authorization is asked for.
SubscriptionInv ==
  /\ \A i \in 1 .. Len(toPool) :
       toPool[i] = Subscribe => i = 1 /\ extraNonce1 = 0
  /\ extraNonce1 = 0 =>
       /\ auth = "no" /\ Authorize \notin Range(toPool)
       /\ \A i \in 1 .. Len(toMiner) : toMiner[i].type # "subscribed"
  /\ \A i, j \in 1 .. Len(toMiner) :
       toMiner[i].type = "subscribed" /\ toMiner[j].type = "subscribed" => i = j

\* While the answer is on its way, all work and the jobs before it are early;
\* and nobody has asked for the authorization.
AnswerInv ==
  \A i \in 1 .. Len(toMiner) :
    toMiner[i].type = "subscribed" =>
      /\ auth = "no" /\ Authorize \notin Range(toPool)
      /\ \A w \in Works : NotAfter(w.job, firstJob)
      /\ \A j \in 1 .. i - 1 :
           toMiner[j].type = "notify" => NotAfter(toMiner[j].job, firstJob)

\* Once it is asked for, the miner has the session's nonce, and searches with it
\* all but the early jobs.
AuthorizationInv ==
  auth # "no" \/ Authorize \in Range(toPool) =>
    /\ extraNonce1 # 0 /\ nonce1 = extraNonce1
    /\ \A w \in Works : NotAfter(w.job, firstJob) \/ w.nonce = extraNonce1

SessionInv ==
  StateOK /\ JobsInv /\ SubscriptionInv /\ AnswerInv /\ AuthorizationInv

----------------------------------------------------------------------------
(* Jobs, messages and channels.                                            *)

LEMMA JobFacts ==
  /\ \A j \in AnyJob : j.life \in Nat /\ j.id \in Nat
  /\ \A w \in Work : w.job \in AnyJob /\ w.nonce \in Nat
  /\ Idle \in Work /\ NoJob \in AnyJob /\ Idle.job = NoJob /\ Jobs \subseteq AnyJob
BY SessionAssumption DEF AnyJob, Jobs, NoJob, Work, Idle

\* The order of jobs.
LEMMA NotAfterFacts ==
  /\ \A j \in AnyJob : NotAfter(j, j) /\ NotAfter(NoJob, j)
  /\ \A j, k, l \in AnyJob : NotAfter(j, k) /\ NotAfter(k, l) => NotAfter(j, l)
<1>1. \A j \in AnyJob : j.life \in Nat /\ j.id \in Nat
  BY JobFacts
<1>2. NoJob.life = 0 /\ NoJob.id = 0
  BY DEF NoJob
<1> QED BY <1>1, <1>2 DEF NotAfter

\* What the messages carry, and that they are told apart.
LEMMA MessageFacts ==
  /\ Subscribe \in ToPool /\ Authorize \in ToPool /\ AuthorizeReply \in ToMiner
  /\ \A w \in Work \ {Idle} : Submission(w) \in ToPool
  /\ \A w : Submission(w).type = "submit" /\ Submission(w).work = w
            /\ Submission(w) # Subscribe /\ Submission(w) # Authorize
  /\ Subscribe.type = "subscribe" /\ Authorize.type = "authorize" /\ Subscribe # Authorize
  /\ \A n \in Nat : SubscribeReply(n) \in ToMiner
  /\ \A n : SubscribeReply(n).type = "subscribed" /\ SubscribeReply(n).nonce = n
  /\ \A j \in Jobs : Notify(j) \in ToMiner
  /\ \A j : Notify(j).type = "notify" /\ Notify(j).job = j
  /\ AuthorizeReply.type = "authorized"
BY DEF ToPool, ToMiner, Subscribe, Authorize, AuthorizeReply, Submission, SubscribeReply, Notify

\* What a message of each type is.
LEMMA MessageKinds ==
  /\ \A m \in ToPool :
       /\ m.type = "subscribe" => m = Subscribe
       /\ m.type = "authorize" => m = Authorize
       /\ m.type = "submit" => m.work \in Work \ {Idle} /\ m = Submission(m.work)
  /\ \A m \in ToMiner :
       /\ m.type = "subscribed" => m.nonce \in Nat
       /\ m.type = "notify" => m.job \in Jobs
BY DEF ToPool, ToMiner, Subscribe, Authorize, AuthorizeReply, Submission, SubscribeReply, Notify

\* A message more at the end of a channel.
LEMMA OneMore ==
  ASSUME NEW S, NEW s \in Seq(S), NEW m \in S
  PROVE  /\ Append(s, m) \in Seq(S) /\ Len(s) \in Nat
         /\ Len(Append(s, m)) = Len(s) + 1
         /\ \A i \in 1 .. Len(s) : Append(s, m)[i] = s[i]
         /\ Append(s, m)[Len(s) + 1] = m
         /\ \A x \in Range(Append(s, m)) : x \in Range(s) \/ x = m
<1>1. /\ Append(s, m) \in Seq(S) /\ Len(s) \in Nat
      /\ Len(Append(s, m)) = Len(s) + 1
      /\ \A i \in 1 .. Len(s) : Append(s, m)[i] = s[i]
      /\ Append(s, m)[Len(s) + 1] = m
  BY AppendProperties, LenProperties
<1>2. /\ Range(Append(s, m)) = {Append(s, m)[i] : i \in 1 .. Len(s) + 1}
      /\ Range(s) = {s[i] : i \in 1 .. Len(s)}
  BY <1>1, RangeEquality
<1> QED BY <1>1, <1>2

\* It is written if the connection is there.
LEMMA OneWritten ==
  ASSUME NEW S, NEW s \in Seq(S), NEW m \in S
  PROVE  Written(s, <<m>>) = s \/ Written(s, <<m>>) = Append(s, m)
BY AppendIsConcat DEF Written

\* The first message is taken.
LEMMA OneRead ==
  ASSUME NEW S, NEW s \in Seq(S), s # <<>>
  PROVE  /\ Head(s) \in S /\ Tail(s) \in Seq(S)
         /\ Len(s) \in Nat /\ Len(Tail(s)) = Len(s) - 1 /\ 1 \in 1 .. Len(s)
         /\ Head(s) = s[1] /\ Head(s) \in Range(s)
         /\ \A i \in 1 .. Len(Tail(s)) : i + 1 \in 1 .. Len(s) /\ Tail(s)[i] = s[i + 1]
         /\ Range(Tail(s)) \subseteq Range(s)
<1>1. /\ Head(s) \in S /\ Tail(s) \in Seq(S) /\ Len(Tail(s)) = Len(s) - 1
      /\ \A i \in 1 .. Len(Tail(s)) : Tail(s)[i] = s[i + 1]
  BY HeadTailProperties
<1>2. Len(s) \in Nat \ {0}
  BY EmptySeq
<1>3. Head(s) = s[1]
  BY <1>2
<1>4. /\ Range(s) = {s[i] : i \in 1 .. Len(s)}
      /\ Range(Tail(s)) = {Tail(s)[i] : i \in 1 .. Len(Tail(s))}
  BY <1>1, RangeEquality
<1>5. \A i \in 1 .. Len(Tail(s)) : i + 1 \in 1 .. Len(s)
  BY <1>1, <1>2
<1> QED BY <1>1, <1>2, <1>3, <1>4, <1>5

LEMMA EmptyChannels ==
  /\ \A S : <<>> \in Seq(S)
  /\ Len(<<>>) = 0 /\ Range(<<>>) = {}
BY DEF Range

----------------------------------------------------------------------------
(* Steps within a session.                                                 *)

\* The miner may take up this work: it is early, or the answer to the
\* subscription is not on its way and the session's nonce goes with it.
MayTake(w) ==
  /\ NotAfter(w.job, poolJob')
  /\ \/ NotAfter(w.job, firstJob)
     \/ /\ \A i \in 1 .. Len(toMiner') : toMiner'[i].type # "subscribed"
        /\ auth' # "no" \/ Authorize \in Range(toPool') => w.nonce = extraNonce1

\* A step that neither opens a connection nor handles or reads a subscription:
\* the channels lose their first messages (d and e of them) and get others.
Continues(d, e) ==
  /\ NotAfter(poolJob, poolJob') /\ poolJob' \in Jobs
  /\ registered' => registered /\ poolJob'.life = poolJob.life
  /\ UNCHANGED <<firstJob, extraNonce1, nonce1>>
  /\ \A i \in 1 .. Len(toMiner') :
       \/ i + d \in 1 .. Len(toMiner) /\ toMiner'[i] = toMiner[i + d]
       \/ /\ i + d > Len(toMiner) /\ toMiner'[i].type # "subscribed"
          /\ toMiner'[i].type = "notify" => NotAfter(toMiner'[i].job, poolJob')
  /\ \A i \in 1 .. Len(toPool') :
       \/ i + e \in 1 .. Len(toPool) /\ toPool'[i] = toPool[i + e]
       \/ toPool'[i] # Subscribe
  /\ Authorize \in Range(toPool') => Authorize \in Range(toPool)
  /\ auth' # "no" => auth # "no" \/ Authorize \in Range(toPool)
  /\ \A w \in Works' : w \in Works \/ MayTake(w)

LEMMA WorksTyped ==
  ASSUME StateOK
  PROVE  Works \subseteq Work
BY DEF StateOK, ValuesOK, ChannelsOK, Works

LEMMA ContinuesKeeps ==
  ASSUME SessionInv, StateOK', NEW d \in Nat, NEW e \in Nat, Continues(d, e)
  PROVE  SessionInv'
<1> USE DEF SessionInv
<1>1. /\ \A w \in Works : w.job \in AnyJob
      /\ poolJob \in AnyJob /\ poolJob' \in AnyJob /\ firstJob \in AnyJob
      /\ Len(toMiner) \in Nat /\ Len(toPool) \in Nat
      /\ Len(toMiner') \in Nat /\ Len(toPool') \in Nat
  BY WorksTyped, JobFacts, LenProperties DEF StateOK, ValuesOK, ChannelsOK, Continues
<1>2. \A i \in 1 .. Len(toMiner) :
        toMiner[i].type = "notify" => toMiner[i].job \in AnyJob
  BY MessageKinds, JobFacts, ElementOfSeq DEF StateOK, ValuesOK, ChannelsOK
<1>3. JobsInv'
  <2>1. ASSUME NEW w \in Works' PROVE NotAfter(w.job, poolJob')
    BY <1>1, NotAfterFacts DEF JobsInv, Continues, MayTake
  <2>2. ASSUME NEW i \in 1 .. Len(toMiner'), toMiner'[i].type = "notify"
        PROVE  NotAfter(toMiner'[i].job, poolJob')
    BY <1>1, <1>2, <2>2, NotAfterFacts DEF JobsInv, Continues
  <2>3. registered' /\ extraNonce1' # 0 => firstJob'.life = poolJob'.life
    BY DEF JobsInv, Continues
  <2> QED BY <2>1, <2>2, <2>3 DEF JobsInv, NotAfter
<1>4. ASSUME NEW i \in 1 .. Len(toMiner'), toMiner'[i].type = "subscribed"
      PROVE  i + d \in 1 .. Len(toMiner) /\ toMiner'[i] = toMiner[i + d]
  BY <1>4 DEF Continues
<1>5. SubscriptionInv'
  <2>1. ASSUME NEW i \in 1 .. Len(toPool'), toPool'[i] = Subscribe
        PROVE  i = 1 /\ extraNonce1' = 0
    <3>1. i + e \in 1 .. Len(toPool) /\ toPool[i + e] = Subscribe
      BY <2>1 DEF Continues
    <3>2. i + e = 1 /\ extraNonce1 = 0
      BY <3>1 DEF SubscriptionInv
    <3> QED BY <3>2 DEF Continues
  <2>2. extraNonce1' = 0 =>
          /\ auth' = "no" /\ Authorize \notin Range(toPool')
          /\ \A i \in 1 .. Len(toMiner') : toMiner'[i].type # "subscribed"
    BY <1>4 DEF SubscriptionInv, Continues
  <2>3. ASSUME NEW i \in 1 .. Len(toMiner'), NEW j \in 1 .. Len(toMiner'),
               toMiner'[i].type = "subscribed", toMiner'[j].type = "subscribed"
        PROVE  i = j
    <3>1. i + d = j + d
      BY <1>4, <2>3 DEF SubscriptionInv
    <3> QED BY <3>1
  <2> QED BY <2>1, <2>2, <2>3 DEF SubscriptionInv, Subscribe, Authorize
<1>6. AnswerInv'
  <2> SUFFICES ASSUME NEW i \in 1 .. Len(toMiner'), toMiner'[i].type = "subscribed"
               PROVE  /\ auth' = "no" /\ Authorize \notin Range(toPool')
                      /\ \A w \in Works' : NotAfter(w.job, firstJob')
                      /\ \A j \in 1 .. i - 1 :
                           toMiner'[j].type = "notify" => NotAfter(toMiner'[j].job, firstJob')
    BY DEF AnswerInv, NotAfter, Authorize
  <2> DEFINE k == i + d
  <2>1. /\ auth = "no" /\ Authorize \notin Range(toPool)
        /\ \A w \in Works : NotAfter(w.job, firstJob)
        /\ \A j \in 1 .. k - 1 :
             toMiner[j].type = "notify" => NotAfter(toMiner[j].job, firstJob)
    <3>1. k \in 1 .. Len(toMiner) /\ toMiner[k].type = "subscribed"
      BY <1>4
    <3> HIDE DEF k
    <3> QED BY <3>1 DEF AnswerInv
  <2>2. ASSUME NEW w \in Works' PROVE NotAfter(w.job, firstJob')
    <3>1. firstJob' = firstJob  BY DEF Continues
    <3>2. w \in Works \/ NotAfter(w.job, firstJob')
      <4>1. w \in Works \/ MayTake(w)  BY <2>2 DEF Continues
      <4>2. \E n \in 1 .. Len(toMiner') : toMiner'[n].type = "subscribed"  OBVIOUS
      <4>3. MayTake(w) => NotAfter(w.job, firstJob')
        BY <3>1, <4>2 DEF MayTake, NotAfter
      <4> QED BY <4>1, <4>3
    <3> QED BY <2>1, <3>1, <3>2
  <2>3. ASSUME NEW j \in 1 .. i - 1, toMiner'[j].type = "notify"
        PROVE  NotAfter(toMiner'[j].job, firstJob')
    <3>1. j \in 1 .. Len(toMiner') /\ j + d \in 1 .. i + d - 1 /\ j + d <= Len(toMiner)
      BY <1>1, <1>4
    <3>2. toMiner'[j] = toMiner[j + d]
      <4>1. \/ toMiner'[j] = toMiner[j + d]
            \/ j + d > Len(toMiner)
        BY <3>1 DEF Continues
      <4>2. ~(j + d > Len(toMiner))  BY <1>1, <3>1
      <4> QED BY <4>1, <4>2
    <3> QED BY <2>1, <2>3, <3>1, <3>2 DEF Continues
  <2> QED BY <2>1, <2>2, <2>3 DEF Continues
<1>7. AuthorizationInv'
  <2> SUFFICES ASSUME auth' # "no" \/ Authorize \in Range(toPool')
               PROVE  /\ extraNonce1' # 0 /\ nonce1' = extraNonce1'
                      /\ \A w \in Works' :
                           NotAfter(w.job, firstJob') \/ w.nonce = extraNonce1'
    BY DEF AuthorizationInv, NotAfter, Authorize
  <2>1. /\ extraNonce1 # 0 /\ nonce1 = extraNonce1
        /\ \A w \in Works : NotAfter(w.job, firstJob) \/ w.nonce = extraNonce1
    BY DEF AuthorizationInv, Continues
  <2> QED BY <2>1 DEF Continues, MayTake
<1> QED BY <1>3, <1>5, <1>6, <1>7

\* What a step does to a channel: it loses its first message, all of them or
\* none, and perhaps gets one at the end.
Shift(q, r, d) ==
  \A i \in 1 .. Len(r) : i + d \in 1 .. Len(q) /\ r[i] = q[i + d]

LEMMA Shifts ==
  ASSUME NEW S, NEW q \in Seq(S)
  PROVE  /\ Shift(q, q, 0) /\ Shift(q, <<>>, 0)
         /\ q # <<>> => Shift(q, Tail(q), 1)
<1>1. Len(q) \in Nat
  BY LenProperties
<1>2. q # <<>> => Shift(q, Tail(q), 1)
  BY OneRead DEF Shift
<1> QED BY <1>1, <1>2 DEF Shift

\* Nothing but subscriptions changes the nonces and the first job; jobs go on.
LEMMA OrderKept ==
  ASSUME StateOK
  PROVE  /\ NotAfter(poolJob, poolJob) /\ poolJob \in AnyJob /\ firstJob \in AnyJob
         /\ \A w \in Works : w.job \in AnyJob
         /\ NotAfter(Idle.job, poolJob) /\ NotAfter(Idle.job, firstJob)
BY WorksTyped, JobFacts, NotAfterFacts DEF StateOK, ValuesOK, ChannelsOK

\* The connection is lost, or the server notices.
LEMMA LostKeeps ==
  ASSUME SessionInv, LinkDrops \/ ServerCloses
  PROVE  SessionInv'
<1> USE DEF SessionInv
<1>1. /\ toPool' = toPool \/ toPool' = <<>>
      /\ toMiner' = toMiner /\ given' = given /\ solving' = solving /\ poolJob' = poolJob
      /\ auth' = auth
      /\ registered' => registered
      /\ UNCHANGED <<firstJob, extraNonce1, nonce1>>
  BY DEF LinkDrops, ServerCloses, poolVars, minerVars, linkVars
<1>2. toPool \in Seq(ToPool) /\ toMiner \in Seq(ToMiner)
  BY DEF StateOK, ValuesOK, ChannelsOK
<1>3. StateOK'
  <2>1. ValuesOK'
    <3>1. CASE LinkDrops
      BY <3>1 DEF LinkDrops, poolVars, minerVars, StateOK, ValuesOK
    <3>2. CASE ServerCloses
      BY <3>2 DEF ServerCloses, minerVars, linkVars, StateOK, ValuesOK
    <3> QED BY <3>1, <3>2
  <2>2. ChannelsOK'
    BY <1>1, EmptyChannels DEF StateOK, ChannelsOK
  <2>3. LogOK'
    BY DEF LinkDrops, ServerCloses, poolVars, StateOK, LogOK
  <2> QED BY <2>1, <2>2, <2>3 DEF StateOK
<1>4. Shift(toMiner, toMiner', 0) /\ Shift(toPool, toPool', 0)
  BY <1>1, <1>2, Shifts
<1>5. Range(toPool') \subseteq Range(toPool)
  BY <1>1, EmptyChannels
<1>6. Works' \subseteq Works
  BY <1>1, <1>5 DEF Works
<1>7. Continues(0, 0)
  BY <1>1, <1>4, <1>5, <1>6, OrderKept DEF Continues, Shift, StateOK, ValuesOK, ChannelsOK
<1> QED BY <1>3, <1>7, ContinuesKeeps

LEMMA ReadFailsKeeps ==
  ASSUME SessionInv, ReadFails
  PROVE  SessionInv'
<1> USE DEF SessionInv
<1>1. toPool \in Seq(ToPool) /\ toMiner \in Seq(ToMiner)
  BY DEF StateOK, ValuesOK, ChannelsOK
<1>2. /\ toMiner' = <<>> /\ given' = Idle
      /\ UNCHANGED <<poolJob, nextNonce, registered, extraNonce1, firstJob, auth, log,
                     link, drops, restarts, toPool, nonce1, lastJob, solving, submitted>>
      /\ connected' \in BOOLEAN /\ leftover' \in BOOLEAN
  BY DEF ReadFails, poolVars, linkVars, StateOK, ValuesOK, ChannelsOK
<1>3. StateOK'
  <2>1. ValuesOK'
    BY <1>2, JobFacts DEF StateOK, ValuesOK
  <2>2. ChannelsOK'
    BY <1>2, EmptyChannels DEF StateOK, ChannelsOK
  <2>3. LogOK'
    BY <1>2 DEF StateOK, LogOK
  <2> QED BY <2>1, <2>2, <2>3 DEF StateOK
<1>4. Shift(toMiner, toMiner', 0) /\ Shift(toPool, toPool', 0)
  BY <1>1, <1>2, Shifts
<1>5. \A w \in Works' : w \in Works \/ w = Idle
  BY <1>2 DEF Works
<1>6. \A w \in Works' : w \in Works \/ MayTake(w)
  BY <1>2, <1>5, OrderKept DEF MayTake
<1>7. Continues(0, 0)
  BY <1>2, <1>4, <1>6, OrderKept DEF Continues, Shift, StateOK, ValuesOK, ChannelsOK
<1> QED BY <1>3, <1>7, ContinuesKeeps

\* The solver threads come to their work; a solution is sent.
LEMMA TurnKeeps ==
  ASSUME SessionInv, TurnToWork
  PROVE  SessionInv'
<1> USE DEF SessionInv
<1>1. toPool \in Seq(ToPool) /\ toMiner \in Seq(ToMiner)
  BY DEF StateOK, ValuesOK, ChannelsOK
<1>2. StateOK'
  BY DEF TurnToWork, poolVars, linkVars, StateOK, ValuesOK, ChannelsOK, LogOK
<1>3. Works' \subseteq Works
  BY DEF TurnToWork, Works
<1>4. Shift(toMiner, toMiner', 0) /\ Shift(toPool, toPool', 0)
  BY <1>1, Shifts DEF TurnToWork
<1>5. Continues(0, 0)
  BY <1>3, <1>4, OrderKept DEF Continues, Shift, StateOK, ValuesOK, ChannelsOK, TurnToWork, poolVars
<1> QED BY <1>2, <1>5, ContinuesKeeps

LEMMA SubmitShareKeeps ==
  ASSUME SessionInv, SubmitShare
  PROVE  SessionInv'
<1> USE DEF SessionInv
<1> DEFINE m == Submission(solving)
<1>1. /\ toPool \in Seq(ToPool) /\ toMiner \in Seq(ToMiner) /\ solving \in Work
      /\ toPool' = Append(toPool, m) /\ m \in ToPool
      /\ m # Subscribe /\ m # Authorize
  BY MessageFacts DEF StateOK, ValuesOK, ChannelsOK, SubmitShare
<1> HIDE DEF m
<1>2. /\ toPool' \in Seq(ToPool) /\ Len(toPool) \in Nat /\ Len(toPool') = Len(toPool) + 1
      /\ \A i \in 1 .. Len(toPool) : toPool'[i] = toPool[i]
      /\ toPool'[Len(toPool) + 1] = m
      /\ \A x \in Range(toPool') : x \in Range(toPool) \/ x = m
  BY <1>1, OneMore
<1>3. StateOK'
  <2>1. ValuesOK'
    BY DEF SubmitShare, poolVars, linkVars, StateOK, ValuesOK
  <2>2. ChannelsOK'
    BY <1>2 DEF SubmitShare, poolVars, StateOK, ChannelsOK
  <2>3. LogOK'
    BY DEF SubmitShare, poolVars, StateOK, LogOK
  <2> QED BY <2>1, <2>2, <2>3 DEF StateOK
<1>4. Works' \subseteq Works
  <2>1. \A w : Submission(w) = m => w = solving
    BY MessageFacts DEF m
  <2>2. given' = given /\ solving' = solving
    BY DEF SubmitShare
  <2>3. \A w \in Work : Submission(w) \in Range(toPool') =>
          Submission(w) \in Range(toPool) \/ w = solving
    BY <1>2, <2>1
  <2> QED BY <2>2, <2>3 DEF Works
<1>5. Shift(toMiner, toMiner', 0)
  BY <1>1, Shifts DEF SubmitShare
<1>6. \A i \in 1 .. Len(toPool') :
        \/ i + 0 \in 1 .. Len(toPool) /\ toPool'[i] = toPool[i + 0]
        \/ toPool'[i] # Subscribe
  BY <1>1, <1>2
<1>7. Authorize \in Range(toPool') => Authorize \in Range(toPool)
  BY <1>1, <1>2
<1>8. Continues(0, 0)
  BY <1>4, <1>5, <1>6, <1>7, OrderKept DEF Continues, Shift, StateOK, ValuesOK, ChannelsOK, SubmitShare, poolVars
<1> QED BY <1>3, <1>8, ContinuesKeeps

\* A message that is no answer to a subscription is added for the miner; its job
\* is the pool's.
LEMMA TellingMiner ==
  ASSUME StateOK, poolJob' \in Jobs, NEW m \in ToMiner, m.type # "subscribed",
         m.type = "notify" => m.job = poolJob',
         toMiner' = toMiner \/ toMiner' = Written(toMiner, <<m>>)
  PROVE  /\ toMiner' \in Seq(ToMiner)
         /\ \A i \in 1 .. Len(toMiner') :
              toMiner'[i].type = "subscribed" => toMiner'[i].nonce = extraNonce1
         /\ \A i \in 1 .. Len(toMiner') :
              \/ i + 0 \in 1 .. Len(toMiner) /\ toMiner'[i] = toMiner[i + 0]
              \/ /\ i + 0 > Len(toMiner) /\ toMiner'[i].type # "subscribed"
                 /\ toMiner'[i].type = "notify" => NotAfter(toMiner'[i].job, poolJob')
<1>1. toMiner \in Seq(ToMiner) /\ Len(toMiner) \in Nat
  BY LenProperties DEF StateOK, ChannelsOK
<1>2. toMiner' = toMiner \/ toMiner' = Append(toMiner, m)
  BY <1>1, OneWritten
<1>3. NotAfter(poolJob', poolJob')
  BY NotAfterFacts, JobFacts
<1>4. CASE toMiner' = toMiner
  BY <1>1, <1>4 DEF StateOK, ChannelsOK
<1>5. CASE toMiner' = Append(toMiner, m)
  <2>1. /\ toMiner' \in Seq(ToMiner) /\ Len(toMiner') = Len(toMiner) + 1
        /\ \A i \in 1 .. Len(toMiner) : toMiner'[i] = toMiner[i]
        /\ toMiner'[Len(toMiner) + 1] = m
    BY <1>1, <1>5, OneMore
  <2>2. \A i \in 1 .. Len(toMiner') : i \in 1 .. Len(toMiner) \/ i = Len(toMiner) + 1
    BY <1>1, <2>1
  <2>3. ASSUME NEW i \in 1 .. Len(toMiner')
        PROVE  /\ toMiner'[i].type = "subscribed" => toMiner'[i].nonce = extraNonce1
               /\ \/ i + 0 \in 1 .. Len(toMiner) /\ toMiner'[i] = toMiner[i + 0]
                  \/ /\ i + 0 > Len(toMiner) /\ toMiner'[i].type # "subscribed"
                     /\ toMiner'[i].type = "notify" => NotAfter(toMiner'[i].job, poolJob')
    <3>1. CASE i \in 1 .. Len(toMiner)
      BY <1>1, <2>1, <3>1 DEF StateOK, ChannelsOK
    <3>2. CASE i = Len(toMiner) + 1
      BY <1>1, <1>3, <2>1, <3>2
    <3> QED BY <2>2, <3>1, <3>2
  <2> QED BY <2>1, <2>3
<1> QED BY <1>2, <1>4, <1>5

LEMMA NewBlockKeeps ==
  ASSUME SessionInv, NewBlock \/ NewBlockTimesOut
  PROVE  SessionInv'
<1> USE DEF SessionInv
<1>1. /\ poolJob' = [poolJob EXCEPT !.id = @ + 1] /\ poolJob.id < MaxJobs
      /\ UNCHANGED <<nextNonce, registered, extraNonce1, firstJob, auth, log, toPool,
                     connected, leftover, nonce1, lastJob, given, solving, submitted, restarts>>
      /\ link' = link \/ link' = "down"
      /\ drops' = drops \/ drops' = drops + 1
      /\ toMiner' = toMiner \/ toMiner' = Written(toMiner, <<Notify(poolJob')>>)
  BY DEF NewBlock, NewBlockTimesOut, minerVars, linkVars
<1>2. /\ poolJob' \in Jobs /\ poolJob'.life = poolJob.life /\ NotAfter(poolJob, poolJob')
  BY <1>1, SessionAssumption DEF StateOK, ValuesOK, Jobs, NotAfter
<1>3. /\ toMiner' \in Seq(ToMiner)
      /\ \A i \in 1 .. Len(toMiner') :
           toMiner'[i].type = "subscribed" => toMiner'[i].nonce = extraNonce1
      /\ \A i \in 1 .. Len(toMiner') :
           \/ i + 0 \in 1 .. Len(toMiner) /\ toMiner'[i] = toMiner[i + 0]
           \/ /\ i + 0 > Len(toMiner) /\ toMiner'[i].type # "subscribed"
              /\ toMiner'[i].type = "notify" => NotAfter(toMiner'[i].job, poolJob')
  <2> DEFINE m == Notify(poolJob')
  <2>1. m \in ToMiner /\ m.type # "subscribed" /\ m.job = poolJob'
    BY <1>2, MessageFacts
  <2>2. toMiner' = toMiner \/ toMiner' = Written(toMiner, <<m>>)
    BY <1>1
  <2> HIDE DEF m
  <2> QED BY <1>2, <2>1, <2>2, TellingMiner
<1>4. StateOK'
  <2>1. ValuesOK'
    BY <1>1, <1>2 DEF StateOK, ValuesOK
  <2>2. ChannelsOK'
    BY <1>1, <1>3 DEF StateOK, ChannelsOK
  <2>3. LogOK'
    BY <1>1 DEF StateOK, LogOK
  <2> QED BY <2>1, <2>2, <2>3 DEF StateOK
<1>5. Shift(toPool, toPool', 0)
  BY <1>1, Shifts DEF StateOK, ChannelsOK
<1>6. Works' \subseteq Works
  BY <1>1 DEF Works
<1>7. Continues(0, 0)
  BY <1>1, <1>2, <1>3, <1>5, <1>6 DEF Continues, Shift
<1> QED BY <1>4, <1>7, ContinuesKeeps

\* The worker process ends: the connection is lost with all that was asked on it.
LEMMA PoolRestartsKeeps ==
  ASSUME SessionInv, PoolRestarts
  PROVE  SessionInv'
<1> USE DEF SessionInv
<1>1. /\ poolJob' = [life |-> poolJob.life + 1, id |-> 1] /\ restarts' = restarts + 1
      /\ restarts < MaxRestarts /\ registered' = FALSE /\ auth' = "no" /\ toPool' = <<>>
      /\ link' = "down"
      /\ UNCHANGED <<nextNonce, extraNonce1, firstJob, log, toMiner, drops,
                     connected, leftover, nonce1, lastJob, given, solving, submitted>>
  BY DEF PoolRestarts, minerVars
<1>2. poolJob' \in Jobs /\ poolJob'.life = restarts' /\ NotAfter(poolJob, poolJob')
  BY <1>1, SessionAssumption DEF StateOK, ValuesOK, Jobs, NotAfter
<1>3. StateOK'
  <2>1. ValuesOK'
    <3>1. restarts' \in 0 .. MaxRestarts
      BY <1>1, SessionAssumption DEF StateOK, ValuesOK
    <3>2. registered' \in BOOLEAN /\ auth' \in {"no", "asked", "yes"} /\ link' \in {"up", "down"}
      BY <1>1
    <3> QED BY <1>1, <1>2, <3>1, <3>2 DEF StateOK, ValuesOK
  <2>2. ChannelsOK'
    BY <1>1, EmptyChannels DEF StateOK, ChannelsOK
  <2>3. LogOK'
    BY <1>1 DEF StateOK, LogOK
  <2> QED BY <2>1, <2>2, <2>3 DEF StateOK
<1>4. Shift(toPool, toPool', 0) /\ Shift(toMiner, toMiner', 0)
  BY <1>1, Shifts DEF StateOK, ChannelsOK
<1>5. Works' \subseteq Works /\ Range(toPool') = {}
  BY <1>1, EmptyChannels DEF Works
<1>6. Continues(0, 0)
  BY <1>1, <1>2, <1>4, <1>5 DEF Continues, Shift
<1> QED BY <1>3, <1>6, ContinuesKeeps

\* The next message of the miner is taken from its channel.
LEMMA HandledFacts ==
  ASSUME StateOK, NEW type, Handle(type)
  PROVE  /\ toPool # <<>> /\ Head(toPool) \in ToPool /\ Head(toPool).type = type
         /\ Head(toPool) = toPool[1] /\ 1 \in 1 .. Len(toPool) /\ Head(toPool) \in Range(toPool)
         /\ toPool' \in Seq(ToPool) /\ Shift(toPool, toPool', 1)
         /\ Range(toPool') \subseteq Range(toPool)
         /\ registered /\ link = "up"
BY OneRead DEF Handle, StateOK, ChannelsOK, Shift

LEMMA AuthorizingKeeps ==
  ASSUME SessionInv, HandleAuthorize \/ HandleSubmit
  PROVE  SessionInv'
<1> USE DEF SessionInv
<1>1. /\ UNCHANGED <<poolJob, nextNonce, registered, extraNonce1, firstJob, toMiner, link,
                     drops, restarts, connected, leftover, nonce1, lastJob, given, solving,
                     submitted>>
      /\ HandleAuthorize => auth' = "asked" /\ log' = log
      /\ HandleSubmit => auth' = auth
  BY DEF HandleAuthorize, HandleSubmit, minerVars, linkVars
<1>2. /\ toPool' \in Seq(ToPool) /\ Shift(toPool, toPool', 1)
      /\ Range(toPool') \subseteq Range(toPool)
      /\ HandleAuthorize => Authorize \in Range(toPool)
      /\ HandleSubmit => Head(toPool).type = "submit" /\ Head(toPool) \in ToPool
  BY HandledFacts, MessageKinds DEF HandleAuthorize, HandleSubmit
<1>3. StateOK'
  <2>1. ValuesOK'
    BY <1>1 DEF StateOK, ValuesOK
  <2>2. ChannelsOK'
    BY <1>1, <1>2 DEF StateOK, ChannelsOK
  <2>3. LogOK'
    <3>1. CASE HandleAuthorize
      BY <1>1, <3>1 DEF StateOK, LogOK
    <3>2. CASE HandleSubmit
      <4> DEFINE w == Head(toPool).work
      <4>1. w \in Work
        BY <1>2, <3>2, MessageKinds
      <4>2. Verdict(w) \in Verdicts
        BY DEF Verdict, Verdicts
      <4>3. log' = Append(log, [work |-> w, first |-> firstJob, verdict |-> Verdict(w)])
        BY <3>2 DEF HandleSubmit
      <4> HIDE DEF w
      <4>4. [work |-> w, first |-> firstJob, verdict |-> Verdict(w)]
              \in [work : Work, first : AnyJob, verdict : Verdicts]
        BY <4>1, <4>2 DEF StateOK, ValuesOK
      <4> DEFINE entry == [work |-> w, first |-> firstJob, verdict |-> Verdict(w)]
      <4> HIDE DEF entry
      <4> QED BY <4>3, <4>4, AppendProperties DEF StateOK, LogOK, entry
    <3> QED BY <3>1, <3>2
  <2> QED BY <2>1, <2>2, <2>3 DEF StateOK
<1>4. Works' \subseteq Works
  BY <1>1, <1>2 DEF Works
<1>5. Shift(toMiner, toMiner', 0)
  BY <1>1, Shifts DEF StateOK, ChannelsOK
<1>6. auth' # "no" => auth # "no" \/ Authorize \in Range(toPool)
  BY <1>1, <1>2
<1>7. Continues(0, 1)
  BY <1>1, <1>2, <1>4, <1>5, <1>6, OrderKept DEF Continues, Shift, StateOK, ValuesOK
<1> QED BY <1>3, <1>7, ContinuesKeeps

LEMMA AnswerAuthorizeKeeps ==
  ASSUME SessionInv, AnswerAuthorize
  PROVE  SessionInv'
<1> USE DEF SessionInv
<1>1. /\ UNCHANGED <<poolJob, nextNonce, registered, extraNonce1, firstJob, log, toPool, link,
                     drops, restarts, connected, leftover, nonce1, lastJob, given, solving,
                     submitted>>
      /\ auth = "asked" /\ auth' = "yes"
      /\ toMiner' = Written(toMiner, <<AuthorizeReply>>)
  BY DEF AnswerAuthorize, minerVars, linkVars
<1>2. AuthorizeReply \in ToMiner /\ AuthorizeReply.type \notin {"subscribed", "notify"}
  BY MessageFacts
<1>3. /\ toMiner' \in Seq(ToMiner)
      /\ \A i \in 1 .. Len(toMiner') :
           toMiner'[i].type = "subscribed" => toMiner'[i].nonce = extraNonce1
      /\ \A i \in 1 .. Len(toMiner') :
           \/ i + 0 \in 1 .. Len(toMiner) /\ toMiner'[i] = toMiner[i + 0]
           \/ /\ i + 0 > Len(toMiner) /\ toMiner'[i].type # "subscribed"
              /\ toMiner'[i].type = "notify" => NotAfter(toMiner'[i].job, poolJob')
  BY <1>1, <1>2, TellingMiner DEF StateOK, ValuesOK
<1>4. StateOK'
  <2>1. ValuesOK'
    BY <1>1 DEF StateOK, ValuesOK
  <2>2. ChannelsOK'
    BY <1>1, <1>3 DEF StateOK, ChannelsOK
  <2>3. LogOK'
    BY <1>1 DEF StateOK, LogOK
  <2> QED BY <2>1, <2>2, <2>3 DEF StateOK
<1>5. Shift(toPool, toPool', 0)
  BY <1>1, Shifts DEF StateOK, ChannelsOK
<1>6. Works' \subseteq Works
  BY <1>1 DEF Works
<1>7. Continues(0, 0)
  BY <1>1, <1>3, <1>5, <1>6, OrderKept DEF Continues, Shift, StateOK, ValuesOK
<1> QED BY <1>4, <1>7, ContinuesKeeps

----------------------------------------------------------------------------
(* What the miner reads, and the subscription.                             *)

\* The next message of the pool is taken from its channel.
LEMMA ReadFacts ==
  ASSUME StateOK, toMiner # <<>>, toMiner' = Tail(toMiner)
  PROVE  /\ Head(toMiner) \in ToMiner /\ Head(toMiner) = toMiner[1]
         /\ 1 \in 1 .. Len(toMiner) /\ Len(toMiner) \in Nat
         /\ toMiner' \in Seq(ToMiner) /\ Shift(toMiner, toMiner', 1)
         /\ Len(toMiner') = Len(toMiner) - 1
         /\ \A i \in 1 .. Len(toMiner') :
              toMiner'[i].type = "subscribed" => toMiner'[i].nonce = extraNonce1
<1>1. /\ Head(toMiner) \in ToMiner /\ toMiner' \in Seq(ToMiner)
      /\ Len(toMiner) \in Nat /\ Len(toMiner') = Len(toMiner) - 1 /\ 1 \in 1 .. Len(toMiner)
      /\ Head(toMiner) = toMiner[1]
      /\ \A i \in 1 .. Len(toMiner') : i + 1 \in 1 .. Len(toMiner) /\ toMiner'[i] = toMiner[i + 1]
  BY OneRead DEF StateOK, ChannelsOK
<1> QED BY <1>1 DEF Shift, StateOK, ChannelsOK

LEMMA ReadOthersKeeps ==
  ASSUME SessionInv, ReadGarbled \/ ReadAuthorized \/ ReadNotify
  PROVE  SessionInv'
<1> USE DEF SessionInv
<1> DEFINE head == Head(toMiner)
<1>1. /\ UNCHANGED <<poolJob, nextNonce, registered, extraNonce1, firstJob, auth, log, toPool,
                     link, drops, restarts, connected, nonce1, solving, submitted>>
      /\ leftover' \in BOOLEAN
      /\ toMiner # <<>> /\ toMiner' = Tail(toMiner)
      /\ \/ UNCHANGED <<lastJob, given>>
         \/ /\ head.type = "notify" /\ lastJob' = head.job
            /\ given' = [job |-> head.job, nonce |-> nonce1]
  BY DEF ReadGarbled, ReadAuthorized, ReadNotify, Read, poolVars, linkVars, StateOK, ValuesOK
<1>2. /\ head \in ToMiner /\ head = toMiner[1] /\ 1 \in 1 .. Len(toMiner)
      /\ toMiner' \in Seq(ToMiner) /\ Shift(toMiner, toMiner', 1)
      /\ \A i \in 1 .. Len(toMiner') :
           toMiner'[i].type = "subscribed" => toMiner'[i].nonce = extraNonce1
  BY <1>1, ReadFacts
<1>3. head.type = "notify" => head.job \in Jobs
  BY <1>2, MessageKinds
<1> HIDE DEF head
<1>4. StateOK'
  <2>1. ValuesOK'
    BY <1>1, <1>3, JobFacts DEF StateOK, ValuesOK, AnyJob, Work
  <2>2. ChannelsOK'
    BY <1>1, <1>2 DEF StateOK, ChannelsOK
  <2>3. LogOK'
    BY <1>1 DEF StateOK, LogOK
  <2> QED BY <2>1, <2>2, <2>3 DEF StateOK
<1>5. Shift(toPool, toPool', 0)
  BY <1>1, Shifts DEF StateOK, ChannelsOK
<1>6. ASSUME NEW w \in Works' PROVE w \in Works \/ MayTake(w)
  <2>1. CASE w \in Works
    BY <2>1
  <2>2. CASE w \notin Works
    <3>1. head.type = "notify" /\ w = [job |-> head.job, nonce |-> nonce1]
      BY <1>1, <2>2 DEF Works
    <3>2. NotAfter(w.job, poolJob')
      BY <1>1, <1>2, <3>1 DEF JobsInv
    <3>3. ASSUME NEW i \in 1 .. Len(toMiner'), toMiner'[i].type = "subscribed"
          PROVE  NotAfter(w.job, firstJob)
      <4> DEFINE k == i + 1
      <4>1. k \in 1 .. Len(toMiner) /\ toMiner[k].type = "subscribed" /\ 1 \in 1 .. k - 1
        BY <1>2, <3>3 DEF Shift
      <4> HIDE DEF k
      <4> QED BY <1>2, <3>1, <4>1 DEF AnswerInv
    <3>4. auth' # "no" \/ Authorize \in Range(toPool') => w.nonce = extraNonce1
      BY <1>1, <3>1 DEF AuthorizationInv
    <3> QED BY <3>2, <3>3, <3>4 DEF MayTake
  <2> QED BY <2>1, <2>2
<1>7. Continues(1, 0)
  BY <1>1, <1>2, <1>5, <1>6, OrderKept DEF Continues, Shift, StateOK, ValuesOK
<1> QED BY <1>4, <1>7, ContinuesKeeps

\* A new connection: nothing is on its way but the subscription.
LEMMA ConnectKeeps ==
  ASSUME SessionInv, Connect
  PROVE  SessionInv'
<1> USE DEF SessionInv
<1>1. /\ connected' = TRUE /\ link' = "up" /\ toPool' = <<Subscribe>> /\ toMiner' = <<>>
      /\ registered' = TRUE /\ extraNonce1' = 0 /\ firstJob' = NoJob /\ auth' = "no"
      /\ UNCHANGED <<poolJob, nextNonce, log, drops, restarts, leftover, nonce1, lastJob,
                     given, solving, submitted>>
  BY DEF Connect
<1>2. /\ toPool' \in Seq(ToPool) /\ Len(toPool') = 1 /\ toPool'[1] = Subscribe
      /\ Range(toPool') = {Subscribe} /\ Len(toMiner') = 0
  BY <1>1, MessageFacts, EmptyChannels DEF Range
<1>3. StateOK'
  <2>1. ValuesOK'
    BY <1>1, JobFacts DEF StateOK, ValuesOK
  <2>2. ChannelsOK'
    BY <1>1, <1>2, EmptyChannels DEF StateOK, ChannelsOK
  <2>3. LogOK'
    BY <1>1 DEF StateOK, LogOK
  <2> QED BY <2>1, <2>2, <2>3 DEF StateOK
<1>4. Works' \subseteq Works /\ Authorize \notin Range(toPool')
  BY <1>1, <1>2, MessageFacts DEF Works
<1>5. JobsInv'
  BY <1>1, <1>2, <1>4 DEF JobsInv, NotAfter
<1>6. SubscriptionInv'
  BY <1>1, <1>2, <1>4 DEF SubscriptionInv, Authorize, Subscribe
<1>7. AnswerInv'
  BY <1>1, <1>2 DEF AnswerInv
<1>8. AuthorizationInv'
  BY <1>1, <1>4 DEF AuthorizationInv, Authorize
<1> QED BY <1>3, <1>5, <1>6, <1>7, <1>8

\* The answer and the job of the subscription go out behind what was broadcast
\* before it; all there is so far is early.
LEMMA HandleSubscribeKeeps ==
  ASSUME SessionInv, HandleSubscribe
  PROVE  SessionInv'
<1> USE DEF SessionInv
<1> DEFINE n == Len(toMiner)
<1>1. /\ extraNonce1' = nextNonce /\ nextNonce' = nextNonce + 1 /\ firstJob' = poolJob
      /\ UNCHANGED <<poolJob, registered, auth, log, link, drops, restarts, connected, leftover,
                     nonce1, lastJob, given, solving, submitted>>
  BY DEF HandleSubscribe, NonceAfter, linkVars, minerVars
<1>2. /\ Head(toPool) = toPool[1] /\ 1 \in 1 .. Len(toPool)
      /\ Head(toPool) \in ToPool /\ Head(toPool).type = "subscribe"
      /\ toPool' \in Seq(ToPool) /\ Shift(toPool, toPool', 1)
      /\ Range(toPool') \subseteq Range(toPool) /\ registered /\ link = "up"
  BY HandledFacts DEF HandleSubscribe
<1>3. /\ extraNonce1 = 0 /\ auth = "no" /\ Authorize \notin Range(toPool)
      /\ \A i \in 1 .. n : toMiner[i].type # "subscribed"
  BY <1>2, MessageKinds DEF SubscriptionInv
<1>4. /\ n \in Nat /\ toMiner' \in Seq(ToMiner) /\ Len(toMiner') = n + 2
      /\ \A i \in 1 .. n : toMiner'[i] = toMiner[i]
      /\ toMiner'[n + 1] = SubscribeReply(nextNonce)
      /\ toMiner'[n + 2] = Notify(poolJob)
  <2> DEFINE r == SubscribeReply(nextNonce)
  <2> DEFINE m == Notify(poolJob)
  <2>1. toMiner \in Seq(ToMiner) /\ n \in Nat
    BY LenProperties DEF StateOK, ChannelsOK
  <2>2. r \in ToMiner /\ m \in ToMiner
    BY MessageFacts DEF StateOK, ValuesOK
  <2>3. toMiner' = toMiner \o <<r, m>>
    BY <1>2 DEF HandleSubscribe, Written
  <2> HIDE DEF r, m
  <2>4. <<r, m>> \in Seq(ToMiner) /\ Len(<<r, m>>) = 2
    BY <2>2
  <2>5. /\ toMiner' \in Seq(ToMiner) /\ Len(toMiner') = n + 2
        /\ \A i \in 1 .. n + 2 :
             toMiner'[i] = IF i <= n THEN toMiner[i] ELSE <<r, m>>[i - n]
    BY <2>1, <2>3, <2>4, ConcatProperties
  <2> HIDE DEF n
  <2>6. toMiner'[n + 1] = r /\ toMiner'[n + 2] = m
    <3>1. toMiner'[n + 1] = <<r, m>>[1]
      BY <2>1, <2>5
    <3>2. toMiner'[n + 2] = <<r, m>>[2]
      BY <2>1, <2>5
    <3> QED BY <3>1, <3>2
  <2> QED BY <2>1, <2>5, <2>6 DEF r, m
<1>5. \A i \in 1 .. Len(toMiner') : i \in 1 .. n \/ i = n + 1 \/ i = n + 2
  BY <1>4
<1>6. /\ toMiner'[n + 1].type = "subscribed" /\ toMiner'[n + 1].nonce = nextNonce
      /\ toMiner'[n + 2].type = "notify" /\ toMiner'[n + 2].job = poolJob
  BY <1>4, MessageFacts
<1> HIDE DEF n
<1>7. \A i \in 1 .. Len(toMiner') : toMiner'[i].type = "subscribed" => i = n + 1
  BY <1>3, <1>4, <1>5, <1>6 DEF n
<1>8. Works' \subseteq Works
  BY <1>1, <1>2 DEF Works
<1>9. StateOK'
  <2>1. ValuesOK'
    BY <1>1, JobFacts DEF StateOK, ValuesOK
  <2>2. ChannelsOK'
    BY <1>1, <1>2, <1>4, <1>6, <1>7 DEF ChannelsOK
  <2>3. LogOK'
    BY <1>1 DEF StateOK, LogOK
  <2> QED BY <2>1, <2>2, <2>3 DEF StateOK
<1>10. ASSUME NEW i \in 1 .. Len(toMiner'), toMiner'[i].type = "notify"
       PROVE  NotAfter(toMiner'[i].job, poolJob)
  BY <1>4, <1>5, <1>6, <1>10, OrderKept DEF JobsInv, n
<1>11. JobsInv'
  BY <1>1, <1>8, <1>10 DEF JobsInv, NotAfter
<1>12. SubscriptionInv'
  <2>1. \A i \in 1 .. Len(toPool') : toPool'[i] # Subscribe
    BY <1>2 DEF Shift, SubscriptionInv
  <2>2. extraNonce1' # 0
    BY <1>1 DEF StateOK, ValuesOK
  <2>3. \A i, j \in 1 .. Len(toMiner') :
          toMiner'[i].type = "subscribed" /\ toMiner'[j].type = "subscribed" => i = j
    BY <1>7
  <2> QED BY <2>1, <2>2, <2>3 DEF SubscriptionInv, Subscribe
<1>13. AnswerInv'
  <2> SUFFICES ASSUME NEW i \in 1 .. Len(toMiner'), toMiner'[i].type = "subscribed"
               PROVE  /\ auth' = "no" /\ Authorize \notin Range(toPool')
                      /\ \A w \in Works' : NotAfter(w.job, firstJob')
                      /\ \A j \in 1 .. i - 1 :
                           toMiner'[j].type = "notify" => NotAfter(toMiner'[j].job, firstJob')
    BY DEF AnswerInv, NotAfter, Authorize
  <2>1. \A w \in Works' : NotAfter(w.job, firstJob')
    BY <1>1, <1>8 DEF JobsInv
  <2>2. \A j \in 1 .. i - 1 : j \in 1 .. Len(toMiner')
    BY <1>4
  <2> QED BY <1>1, <1>2, <1>3, <1>10, <2>1, <2>2
<1>14. AuthorizationInv'
  BY <1>1, <1>2, <1>3 DEF AuthorizationInv, Authorize
<1> QED BY <1>9, <1>11, <1>12, <1>13, <1>14

\* The miner has the session's nonce, and asks for the authorization.
LEMMA ReadSubscribedKeeps ==
  ASSUME SessionInv, ReadSubscribed
  PROVE  SessionInv'
<1> USE DEF SessionInv
<1>1. /\ UNCHANGED <<poolJob, nextNonce, registered, extraNonce1, firstJob, auth, log, link,
                     drops, restarts, connected, leftover, lastJob, given, solving, submitted>>
      /\ toMiner # <<>> /\ toMiner' = Tail(toMiner) /\ Head(toMiner).type = "subscribed"
      /\ nonce1' = Head(toMiner).nonce
      /\ toPool' = Written(toPool, <<Authorize>>)
  BY DEF ReadSubscribed, Read, poolVars, linkVars
<1>2. /\ Head(toMiner) = toMiner[1] /\ 1 \in 1 .. Len(toMiner)
      /\ toMiner' \in Seq(ToMiner) /\ Shift(toMiner, toMiner', 1)
      /\ \A i \in 1 .. Len(toMiner') :
           toMiner'[i].type = "subscribed" => toMiner'[i].nonce = extraNonce1
  BY <1>1, ReadFacts
<1>3. /\ nonce1' = extraNonce1 /\ extraNonce1 # 0
      /\ auth = "no" /\ Authorize \notin Range(toPool)
      /\ \A w \in Works : NotAfter(w.job, firstJob)
  BY <1>1, <1>2 DEF StateOK, ChannelsOK, SubscriptionInv, AnswerInv
<1>4. \A i \in 1 .. Len(toMiner') : toMiner'[i].type # "subscribed"
  <2> SUFFICES ASSUME NEW i \in 1 .. Len(toMiner'), toMiner'[i].type = "subscribed"
               PROVE  FALSE
    OBVIOUS
  <2>1. i + 1 \in 1 .. Len(toMiner) /\ toMiner[i + 1].type = "subscribed"
    BY <1>2 DEF Shift
  <2>2. i + 1 = 1
    BY <1>1, <1>2, <2>1 DEF SubscriptionInv
  <2> QED BY <2>2
<1>5. toPool \in Seq(ToPool) /\ Authorize \in ToPool
  BY MessageFacts DEF StateOK, ChannelsOK
<1>6. toPool' = toPool \/ toPool' = Append(toPool, Authorize)
  BY <1>1, <1>5, OneWritten
<1>7. /\ toPool' \in Seq(ToPool)
      /\ \A i \in 1 .. Len(toPool') :
           (i \in 1 .. Len(toPool) /\ toPool'[i] = toPool[i]) \/ toPool'[i] = Authorize
      /\ \A x \in Range(toPool') : x \in Range(toPool) \/ x = Authorize
  <2>1. CASE toPool' = toPool
    BY <1>5, <2>1
  <2>2. CASE toPool' = Append(toPool, Authorize)
    <3>1. /\ toPool' \in Seq(ToPool) /\ Len(toPool) \in Nat /\ Len(toPool') = Len(toPool) + 1
          /\ \A i \in 1 .. Len(toPool) : toPool'[i] = toPool[i]
          /\ toPool'[Len(toPool) + 1] = Authorize
          /\ \A x \in Range(toPool') : x \in Range(toPool) \/ x = Authorize
      BY <1>5, <2>2, OneMore
    <3> QED BY <3>1
  <2> QED BY <1>6, <2>1, <2>2
<1>8. Works' \subseteq Works
  BY <1>1, <1>7, MessageFacts DEF Works
<1>9. StateOK'
  <2>1. ValuesOK'
    BY <1>1, <1>3 DEF StateOK, ValuesOK
  <2>2. ChannelsOK'
    BY <1>1, <1>2, <1>7 DEF ChannelsOK
  <2>3. LogOK'
    BY <1>1 DEF StateOK, LogOK
  <2> QED BY <2>1, <2>2, <2>3 DEF StateOK
<1>10. JobsInv'
  BY <1>1, <1>2, <1>8 DEF JobsInv, Shift, NotAfter
<1>11. SubscriptionInv'
  BY <1>1, <1>3, <1>4, <1>7, MessageFacts DEF SubscriptionInv, Subscribe
<1>12. AnswerInv'
  BY <1>4 DEF AnswerInv
<1>13. AuthorizationInv'
  BY <1>1, <1>3, <1>8 DEF AuthorizationInv, NotAfter
<1> QED BY <1>9, <1>10, <1>11, <1>12, <1>13

----------------------------------------------------------------------------
(* The session.                                                            *)

\* How the two ends of a session stand to each other: the subscription is
\* answered before the authorization is asked for, and once it is, the miner
\* searches every job but the early ones with the session's nonce.
THEOREM SessionCorrect == Spec => []SessionInv
<1>1. Init => SessionInv
  <2> SUFFICES ASSUME Init PROVE SessionInv
    OBVIOUS
  <2>1. /\ toPool = <<>> /\ toMiner = <<>> /\ log = <<>>
        /\ poolJob = [life |-> 0, id |-> 1] /\ nextNonce = 1
        /\ registered = FALSE /\ extraNonce1 = 0 /\ firstJob = NoJob /\ auth = "no"
        /\ link = "down" /\ drops = 0 /\ restarts = 0 /\ connected = FALSE /\ leftover = FALSE
        /\ nonce1 = 0 /\ lastJob = NoJob /\ given = Idle /\ solving = Idle /\ submitted = 0
    BY DEF Init
  <2>2. poolJob \in Jobs
    BY <2>1, SessionAssumption DEF Jobs
  <2>3. ValuesOK
    <3>1. registered \in BOOLEAN /\ connected \in BOOLEAN /\ leftover \in BOOLEAN
      BY <2>1
    <3>2. 0 \in 0 .. MaxRestarts
      BY SessionAssumption
    <3> QED BY <2>1, <2>2, <3>1, <3>2, JobFacts DEF ValuesOK
  <2>4. ChannelsOK /\ LogOK
    BY <2>1, EmptyChannels DEF ChannelsOK, LogOK
  <2>5. Range(toPool) = {} /\ Len(toPool) = 0 /\ Len(toMiner) = 0
    BY <2>1, EmptyChannels
  <2>6. \A w \in Works : w = Idle
    BY <2>1, <2>5 DEF Works
  <2>7. JobsInv
    <3>1. NotAfter(Idle.job, poolJob)
      BY <2>2, JobFacts, NotAfterFacts
    <3> QED BY <2>1, <2>5, <2>6, <3>1 DEF JobsInv
  <2>8. SubscriptionInv /\ AnswerInv /\ AuthorizationInv
    BY <2>1, <2>5 DEF SubscriptionInv, AnswerInv, AuthorizationInv
  <2> QED BY <2>3, <2>4, <2>7, <2>8 DEF SessionInv, StateOK
<1>2. SessionInv /\ [Next]_vars => SessionInv'
  <2> SUFFICES ASSUME SessionInv, [Next]_vars PROVE SessionInv'
    OBVIOUS
  <2>1. CASE Connect  BY <2>1, ConnectKeeps
  <2>2. CASE LinkDrops \/ ServerCloses  BY <2>2, LostKeeps
  <2>3. CASE NewBlock \/ NewBlockTimesOut  BY <2>3, NewBlockKeeps
  <2>4. CASE HandleSubscribe  BY <2>4, HandleSubscribeKeeps
  <2>5. CASE HandleAuthorize \/ HandleSubmit  BY <2>5, AuthorizingKeeps
  <2>6. CASE AnswerAuthorize  BY <2>6, AnswerAuthorizeKeeps
  <2>7. CASE PoolRestarts  BY <2>7, PoolRestartsKeeps
  <2>8. CASE ReadGarbled \/ ReadAuthorized \/ ReadNotify  BY <2>8, ReadOthersKeeps
  <2>9. CASE ReadSubscribed  BY <2>9, ReadSubscribedKeeps
  <2>10. CASE ReadFails  BY <2>10, ReadFailsKeeps
  <2>11. CASE TurnToWork  BY <2>11, TurnKeeps
  <2>12. CASE SubmitShare  BY <2>12, SubmitShareKeeps
  <2>13. CASE UNCHANGED vars
    BY <2>13 DEF vars, poolVars, linkVars, minerVars, SessionInv, StateOK, ValuesOK, ChannelsOK,
       LogOK, JobsInv, SubscriptionInv, AnswerInv, AuthorizationInv, Works, NotAfter
  <2> QED BY <2>1, <2>2, <2>3, <2>4, <2>5, <2>6, <2>7, <2>8, <2>9, <2>10, <2>11, <2>12, <2>13
          DEF Next, Server, Client
<1> QED BY <1>1, <1>2, PTL DEF Spec

\* The messages and the state have the shapes the handlers expect.
THEOREM SessionTyped == Spec => []SessionTypeOK
<1>1. SessionInv => SessionTypeOK
  <2> SUFFICES ASSUME SessionInv PROVE SessionTypeOK
    OBVIOUS
  <2>1. ValuesOK /\ ChannelsOK
    BY DEF SessionInv, StateOK
  <2>2. \A i \in 1 .. Len(toMiner) : toMiner[i].type = "notify" => toMiner[i].job \in Jobs
    BY <2>1, ElementOfSeq, MessageKinds DEF ChannelsOK
  <2>3. \A i \in 1 .. Len(toPool) : toPool[i].type = "submit" => toPool[i].work \in Work \ {Idle}
    BY <2>1, ElementOfSeq, MessageKinds DEF ChannelsOK
  <2> QED BY <2>1, <2>2, <2>3 DEF ValuesOK, SessionTypeOK, AnyJob
<1> QED BY <1>1, SessionCorrect, PTL

\* The pool calls invalid only what was found on a job not younger than the one
\* the session began with, whatever connections, sessions and lives of the pool
\* came before.
THEOREM OnlyEarlyRefused == Spec => []RefusedOnlyEarly
<1>1. Init => RefusedOnlyEarly
  BY EmptyChannels DEF Init, RefusedOnlyEarly
<1>2. SessionInv /\ RefusedOnlyEarly /\ [Next]_vars => RefusedOnlyEarly'
  <2> SUFFICES ASSUME SessionInv, RefusedOnlyEarly, [Next]_vars PROVE RefusedOnlyEarly'
    OBVIOUS
  <2>1. CASE HandleSubmit
    <3> DEFINE w == Head(toPool).work
    <3> DEFINE entry == [work |-> w, first |-> firstJob, verdict |-> Verdict(w)]
    <3>1. /\ registered /\ Head(toPool) \in ToPool /\ Head(toPool).type = "submit"
          /\ Head(toPool) \in Range(toPool)
      BY <2>1, HandledFacts DEF HandleSubmit, SessionInv
    <3>2. w \in Works /\ w.job \in AnyJob
      BY <3>1, MessageKinds, JobFacts DEF Works
    <3> HIDE DEF w
    <3>3. Verdict(w) = "invalid" => NotAfter(w.job, firstJob)
      <4> SUFFICES ASSUME Verdict(w) = "invalid" PROVE NotAfter(w.job, firstJob)
        OBVIOUS
      <4>1. auth = "yes" /\ (w.job.life # poolJob.life \/ w.nonce # extraNonce1)
        BY DEF Verdict
      <4>2. /\ extraNonce1 # 0
            /\ NotAfter(w.job, firstJob) \/ w.nonce = extraNonce1
        BY <3>2, <4>1 DEF SessionInv, AuthorizationInv
      <4>3. NotAfter(w.job, poolJob) /\ firstJob.life = poolJob.life
        BY <3>1, <3>2, <4>2 DEF SessionInv, JobsInv
      <4> QED BY <4>1, <4>2, <4>3 DEF NotAfter
    <3>4. log' = Append(log, entry) /\ Len(log) \in Nat
      BY <2>1, LenProperties DEF HandleSubmit, SessionInv, StateOK, LogOK, w
    <3>5. entry.work = w /\ entry.first = firstJob /\ entry.verdict = Verdict(w)
      OBVIOUS
    <3> HIDE DEF entry
    <3>6. /\ Len(log') = Len(log) + 1 /\ log'[Len(log) + 1] = entry
          /\ \A i \in 1 .. Len(log) : log'[i] = log[i]
      BY <3>4 DEF SessionInv, StateOK, LogOK
    <3>7. ASSUME NEW i \in 1 .. Len(log'), log'[i].verdict = "invalid"
          PROVE  NotAfter(log'[i].work.job, log'[i].first)
      BY <3>3, <3>4, <3>5, <3>6, <3>7 DEF RefusedOnlyEarly
    <3> QED BY <3>7 DEF RefusedOnlyEarly, NotAfter
  <2>2. CASE UNCHANGED log
    BY <2>2 DEF RefusedOnlyEarly, NotAfter
  <2> QED BY <2>1, <2>2 DEF Next, Server, Client, vars, poolVars, Connect, LinkDrops, ServerCloses,
       NewBlock, NewBlockTimesOut, HandleSubscribe, HandleAuthorize, AnswerAuthorize, PoolRestarts,
       ReadGarbled, ReadSubscribed, ReadAuthorized, ReadNotify, ReadFails, TurnToWork, SubmitShare
<1> QED BY <1>1, <1>2, SessionCorrect, PTL DEF Spec
=============================================================================
