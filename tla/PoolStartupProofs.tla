-------------------------- MODULE PoolStartupProofs --------------------------
(***************************************************************************)
(* For every number of daemons and whatever condition they come and go in,  *)
(* a worker makes one stratum server, and daemons that only have to sync    *)
(* are waited for.                                                         *)
(***************************************************************************)
EXTENDS PoolStartup, TLAPS

\* What the type invariant does not say of itself but rests on: a dead worker
\* has no job.
StateInv ==
  /\ StartupTypeOK
  /\ reports \in [info : Nat, peers : Nat]
  /\ phase = "dead" => ~hasJob

\* Why a worker whose daemons only sync goes on: every call is with a daemon that
\* will answer it, and one that said it was synced has not fallen back.
SteadyInv ==
  steady =>
    /\ \A d \in Daemons : daemon[d] \in {"syncing", "up"}
    /\ phase # "dead"
    /\ phase \in {"online", "sync", "first"} =>
         asked # {} /\ asked \union DOMAIN answers = Daemons
    /\ phase = "detect" => asked = {Main}
    /\ phase = "sync" =>
         \A d \in DOMAIN answers : answers[d] # "notSynced" => daemon[d] = "up"
    /\ phase = "first" => DOMAIN answers = {} /\ \A d \in Daemons : daemon[d] = "up"

----------------------------------------------------------------------------
(* The answers of the daemons.                                             *)

\* An answer noted is added to those at hand, which stay.
LEMMA NotedFacts ==
  ASSUME NEW d, d \notin DOMAIN answers
  PROVE  /\ DOMAIN Noted(d) = DOMAIN answers \union {d}
         /\ Noted(d)[d] = AnswerOf(d)
         /\ \A e \in DOMAIN answers : Noted(d)[e] = answers[e]
BY DEF Noted

\* What the daemons of a steady start answer.
LEMMA SteadyAnswers ==
  ASSUME NEW d, daemon[d] \in {"syncing", "up"}
  PROVE  /\ daemon[d] = "up" => AnswerOf(d) = "ok"
         /\ daemon[d] = "syncing" /\ phase \in {"sync", "first"} => AnswerOf(d) = "notSynced"
         /\ phase \in {"online", "detect"} => AnswerOf(d) = "ok"
BY DEF AnswerOf

LEMMA NothingThere ==
  /\ DOMAIN NoAnswers = {}
  /\ NoReports \in [info : Nat, peers : Nat]
  /\ NoReports.info + NoReports.peers = 0
BY DEF NoAnswers, NoReports

\* A worker that has just died holds nothing of the start.
LEMMA CrashedState ==
  ASSUME StateInv, Crash, daemon' \in [Daemons -> Conditions], steady' \in BOOLEAN,
         changes' \in 0 .. MaxChanges, notices' \in 0 .. MaxNotices
  PROVE  StateInv'
<1>1. StartupTypeOK'
  <2>1. reports'.info + reports'.peers \in 0 .. MaxReports
    BY NothingThere, StartupAssumption DEF Crash
  <2>2. DOMAIN answers' = {}
    BY NothingThere DEF Crash
  <2> QED BY <2>1, <2>2 DEF Crash, StartupTypeOK, Asking
<1>2. reports' \in [info : Nat, peers : Nat]
  BY NothingThere DEF Crash
<1> QED BY <1>1, <1>2 DEF StateInv, Crash

\* The type invariant, and the record of the reports in flight.
THEOREM StateCorrect == Spec => []StateInv
<1>1. Init => StateInv
  <2> SUFFICES ASSUME Init PROVE StateInv
    OBVIOUS
  <2>1. steady \in BOOLEAN
    BY ZenonT(30) DEF Init
  <2>2. reports.info + reports.peers \in 0 .. MaxReports
    BY StartupAssumption, NothingThere DEF Init
  <2>3. /\ phase = "online" /\ asked = Daemons /\ answers = NoAnswers
        /\ servers = 0 /\ hasJob = FALSE /\ reports = NoReports
        /\ changes = 0 /\ notices = 0 /\ daemon \in [Daemons -> Conditions]
    BY DEF Init
  <2>4. hasJob \in BOOLEAN
    BY <2>3, Zenon
  <2>5. /\ reports \in [info : Nat, peers : Nat]
        /\ DOMAIN answers = {}
    BY <2>3, NothingThere
  <2>6. changes \in 0 .. MaxChanges /\ notices \in 0 .. MaxNotices /\ servers \in Nat
    BY <2>3, StartupAssumption
  <2>7. ~hasJob
    BY <2>3
  <2> QED BY <2>1, <2>2, <2>3, <2>4, <2>5, <2>6, <2>7 DEF StateInv, StartupTypeOK, Asking
<1>2. StateInv /\ [Next]_vars => StateInv'
  <2> SUFFICES ASSUME StateInv, [Next]_vars
               PROVE  StateInv'
    OBVIOUS
  <2> USE StartupAssumption DEF StateInv, StartupTypeOK, Asking
  <2>1. CASE \E d \in Daemons : Change(d)
    BY <2>1 DEF Change
  <2>2. CASE \E d \in Daemons : NeverAnswered(d)
    BY <2>2 DEF NeverAnswered
  <2>3. ASSUME NEW d \in Daemons, d \in asked, Note(d), daemon[d] # "mute",
               UNCHANGED <<daemon, servers, hasJob, reports, changes, notices, steady>>,
               phase # "first"
        PROVE  StateInv'
    <3>1. DOMAIN Noted(d) = DOMAIN answers \union {d}
      BY <2>3, NotedFacts
    <3> QED BY <2>3, <3>1 DEF Note
  <2>4. CASE \E d \in Daemons : Online(d)
    BY <2>3, <2>4 DEF Online, Answered, Ask, NoAnswers
  <2>5. CASE \E d \in Daemons : CheckSynced(d)
    BY <2>3, <2>5 DEF CheckSynced, Answered, Ask, NoAnswers
  <2>6. CASE \E d \in Daemons : FirstTemplate(d)
    <3> PICK d \in Daemons : FirstTemplate(d)
      BY <2>6
    <3>1. d \in asked /\ d \notin DOMAIN answers
      BY DEF FirstTemplate, Answered
    <3>2. /\ DOMAIN Noted(d) = DOMAIN answers \union {d}
          /\ Noted(d)[d] = AnswerOf(d)
          /\ \A e \in DOMAIN answers : Noted(d)[e] = answers[e]
      BY <3>1, NotedFacts
    <3>3. phase' = "first" => "ok" \notin {answers'[e] : e \in DOMAIN answers'}
      BY <3>1, <3>2 DEF FirstTemplate
    <3>a. hasJob' \in BOOLEAN
      <4>1. hasJob' = TRUE \/ hasJob' = hasJob
        BY DEF FirstTemplate
      <4> QED BY <4>1, Zenon DEF StateInv, StartupTypeOK
    <3>b. servers' \in Nat /\ phase' \in {"first", "listening", "serving"}
      BY DEF FirstTemplate
    <3>4. /\ servers' \in Nat /\ hasJob' \in BOOLEAN
          /\ phase' \in {"first", "listening", "serving"}
      BY <3>a, <3>b
    <3>5. asked' \subseteq Daemons /\ DOMAIN answers' \subseteq Daemons \ asked'
      BY <3>1, <3>2 DEF FirstTemplate
    <3>6. UNCHANGED <<daemon, reports, changes, notices, steady>>
      BY DEF FirstTemplate, Answered
    <3> QED BY <3>3, <3>4, <3>5, <3>6
  <2>7. CASE Detected
    BY <2>7 DEF Detected, Answered, Ask, NoAnswers
  <2>8. CASE DetectFails
    BY <2>3, <2>8 DEF DetectFails, Answered
  <2>9. CASE DetectThrows
    BY <2>9, CrashedState DEF DetectThrows, Answered
  <2>10. CASE RetrySync
    BY <2>10 DEF RetrySync, Ask, NoAnswers
  <2>11. CASE Started
    BY <2>11 DEF Started
  <2>12. CASE Respawn
    BY <2>12 DEF Respawn, Ask, NoAnswers
  <2>13. CASE ReportInfo
    <3>1. CASE Crash
      BY <2>13, <3>1, CrashedState DEF ReportInfo
    <3>2. CASE ~Crash
      BY <2>13, <3>2 DEF ReportInfo
    <3> QED BY <3>1, <3>2
  <2>14. CASE ReportPeers
    <3>1. CASE Crash
      BY <2>14, <3>1, CrashedState DEF ReportPeers
    <3>2. CASE ~Crash
      BY <2>14, <3>2 DEF ReportPeers
    <3> QED BY <3>1, <3>2
  <2>15. CASE BlockNotice
    <3>a. steady' \in BOOLEAN
      BY <2>15, Zenon DEF BlockNotice
    <3>b. notices' \in 0 .. MaxNotices /\ UNCHANGED <<daemon, changes>>
      BY <2>15 DEF BlockNotice
    <3>1. /\ notices' \in 0 .. MaxNotices /\ steady' \in BOOLEAN
          /\ UNCHANGED <<daemon, changes>>
      BY <3>a, <3>b
    <3>2. CASE Crash
      BY <3>1, <3>2, CrashedState
    <3>3. CASE ~Crash
      <4>1. UNCHANGED <<phase, asked, answers, servers, hasJob, reports>>
        BY <2>15, <3>3 DEF BlockNotice
      <4> QED BY <3>1, <4>1
    <3> QED BY <3>2, <3>3
  <2>16. CASE UNCHANGED vars
    BY <2>16 DEF vars
  <2> QED
    BY <2>1, <2>2, <2>4, <2>5, <2>6, <2>7, <2>8, <2>9, <2>10, <2>11, <2>12, <2>13,
       <2>14, <2>15, <2>16 DEF Next, Reply
<1> QED BY <1>1, <1>2, PTL DEF Spec

\* Every variable has its type; what a daemon was asked it has not answered.
COROLLARY TypeCorrect == Spec => []StartupTypeOK
<1>1. StateInv => StartupTypeOK
  BY DEF StateInv
<1> QED BY <1>1, StateCorrect, PTL

----------------------------------------------------------------------------
(* One server.                                                             *)

\* A worker makes one stratum server, with a job for its first client, however
\* many daemons answer the first getblocktemplate and in whatever order.
THEOREM ServerIsOne == Spec => []OneServer
<1>1. Init => OneServer
  BY DEF Init, OneServer
<1>2. StateInv /\ OneServer /\ [Next]_vars => OneServer'
  <2> SUFFICES ASSUME StateInv, OneServer, [Next]_vars
               PROVE  OneServer'
    OBVIOUS
  <2>0. servers \in Nat
    BY DEF StateInv, StartupTypeOK
  <2> USE DEF OneServer
  <2>1. CASE \E d \in Daemons : Change(d)
    BY <2>1 DEF Change
  <2>2. CASE \E d \in Daemons : NeverAnswered(d)
    BY <2>2 DEF NeverAnswered
  <2>3. CASE \E d \in Daemons : Online(d)
    BY <2>3 DEF Online, Ask, Note
  <2>4. CASE \E d \in Daemons : CheckSynced(d)
    BY <2>4 DEF CheckSynced, Ask, Note
  <2>5. CASE \E d \in Daemons : FirstTemplate(d)
    <3> PICK d \in Daemons : FirstTemplate(d)
      BY <2>5
    <3>1. CASE phase = "first"
      BY <2>0, <3>1 DEF FirstTemplate
    <3>2. CASE phase # "first"
      BY <2>0, <3>2 DEF FirstTemplate
    <3> QED BY <3>1, <3>2
  <2>6. CASE Detected \/ DetectFails
    BY <2>6 DEF Detected, DetectFails, Ask, Note
  <2>7. CASE DetectThrows \/ Crash
    BY <2>7 DEF DetectThrows, Crash
  <2>8. CASE RetrySync \/ Started \/ Respawn
    BY <2>8 DEF RetrySync, Started, Respawn, Ask
  <2>9. CASE ReportInfo
    BY <2>7, <2>9 DEF ReportInfo
  <2>10. CASE ReportPeers
    BY <2>7, <2>10 DEF ReportPeers
  <2>11. CASE BlockNotice
    BY <2>7, <2>11 DEF BlockNotice
  <2>12. CASE UNCHANGED vars
    BY <2>12 DEF vars
  <2> QED
    BY <2>1, <2>2, <2>3, <2>4, <2>5, <2>6, <2>7, <2>8, <2>9, <2>10, <2>11, <2>12
    DEF Next, Reply
<1> QED BY <1>1, <1>2, StateCorrect, PTL DEF Spec

----------------------------------------------------------------------------
(* Syncing.                                                                *)

\* A start whose daemons only have to sync comes to no end before it serves.
THEOREM SyncingAwaited == Spec => []SyncingIsAwaited
<1> USE StartupAssumption
<1>1. Init => SteadyInv
  BY NothingThere DEF Init, SteadyInv
<1>2. StateInv /\ SteadyInv /\ [Next]_vars => SteadyInv'
  <2> SUFFICES ASSUME StateInv, SteadyInv, [Next]_vars, steady'
               PROVE  SteadyInv'
    BY DEF SteadyInv
  <2>0. /\ daemon \in [Daemons -> Conditions] /\ asked \subseteq Daemons
        /\ DOMAIN answers \subseteq Daemons \ asked
    BY DEF StateInv, StartupTypeOK
  <2>1. CASE \E d \in Daemons : Change(d)
    BY <2>0, <2>1 DEF Change, SteadyInv
  <2>2. ASSUME UNCHANGED <<daemon, steady>> PROVE SteadyInv'
    <3> USE <2>2
    <3>1. steady /\ \A d \in Daemons : daemon[d] \in {"syncing", "up"}
      BY DEF SteadyInv
    <3>2. ASSUME NEW d \in Daemons, Reply(d)
          PROVE  SteadyInv'
      <4>1. d \in asked /\ d \notin DOMAIN answers /\ Main \in Daemons
        BY <2>0, <3>2 DEF Reply, NeverAnswered, Online, CheckSynced, FirstTemplate, Detected,
             DetectFails, DetectThrows, Answered
      <4>2. /\ DOMAIN Noted(d) = DOMAIN answers \union {d}
            /\ Noted(d)[d] = AnswerOf(d)
            /\ \A e \in DOMAIN answers : Noted(d)[e] = answers[e]
        BY <4>1, NotedFacts
      <4>3. /\ daemon[d] = "up" => AnswerOf(d) = "ok"
            /\ daemon[d] = "syncing" /\ phase \in {"sync", "first"} =>
                 AnswerOf(d) = "notSynced"
            /\ phase \in {"online", "detect"} => AnswerOf(d) = "ok"
        BY <3>1, SteadyAnswers
      <4>4. CASE Online(d)
        BY <3>1, <4>1, <4>2, <4>4, NothingThere DEF SteadyInv, Online, Ask, Note, Collected
      <4>5. CASE CheckSynced(d)
        BY <3>1, <4>1, <4>2, <4>3, <4>5, NothingThere
        DEF SteadyInv, CheckSynced, Ask, Note, Collected, Synced
      <4>6. CASE FirstTemplate(d)
        BY <3>1, <4>1, <4>2, <4>3, <4>6 DEF SteadyInv, FirstTemplate
      <4>7. CASE d = Main /\ (Detected \/ DetectFails \/ DetectThrows)
        BY <3>1, <4>3, <4>7, NothingThere
        DEF SteadyInv, Detected, DetectFails, DetectThrows, Ask
      <4>8. CASE NeverAnswered(d)
        BY <3>1, <4>8 DEF NeverAnswered
      <4> QED BY <3>2, <4>4, <4>5, <4>6, <4>7, <4>8 DEF Reply
    <3>3. CASE RetrySync \/ Started \/ Respawn
      BY <3>1, <3>3, NothingThere DEF SteadyInv, RetrySync, Started, Respawn, Ask
    <3>4. CASE UNCHANGED <<phase, asked, answers>>
      BY <3>4 DEF SteadyInv
    <3>5. CASE ReportInfo
      BY <3>1, <3>4, <3>5 DEF ReportInfo, Failing
    <3>6. CASE ReportPeers
      BY <3>1, <3>4, <3>6 DEF ReportPeers
    <3>7. CASE BlockNotice
      BY <3>1, <3>7 DEF BlockNotice
    <3>8. CASE UNCHANGED vars
      BY <3>4, <3>8 DEF vars
    <3>9. CASE \E d \in Daemons : Change(d)
      BY <2>1, <3>9
    <3> QED BY <3>2, <3>3, <3>5, <3>6, <3>7, <3>8, <3>9 DEF Next
  <2>3. \/ \E d \in Daemons : Change(d)
        \/ UNCHANGED <<daemon, steady>>
    BY DEF Next, Reply, NeverAnswered, Online, CheckSynced, FirstTemplate, Detected,
       DetectFails, DetectThrows, Answered, RetrySync, Started, Respawn, ReportInfo,
       ReportPeers, BlockNotice, vars
  <2> QED BY <2>1, <2>2, <2>3
<1>3. SteadyInv => SyncingIsAwaited
  BY DEF SteadyInv, SyncingIsAwaited, Stuck, Asking
<1> QED BY <1>1, <1>2, <1>3, StateCorrect, PTL DEF Spec
=============================================================================
