----------------------------- MODULE PoolStartup -----------------------------
(***************************************************************************)
(* The start of a pool in its worker (stratum-pool/lib/pool.js, start) and  *)
(* its calls to the daemons (daemon.js): online, coin data, blockchain      *)
(* synced, first job, stratum server; with daemons that come and go         *)
(* meanwhile, and the worker forked again when an exception ends it.        *)
(*                                                                         *)
(* A call is asked of every daemon at once and each answers when it likes,  *)
(* by the condition it is then in.  A worker whose call will have no answer *)
(* any more stays as it is for good.                                        *)
(***************************************************************************)
EXTENDS Naturals, FiniteSets

CONSTANTS
  Daemons,      \* options.daemons
  Main,         \* the first one, the only one asked for the coin data
  FirstFork,    \* whether this is fork 0, which reports the daemons' progress
  MaxChanges,   \* bound: changes in the condition of a daemon
  MaxNotices,   \* bound: block notifications
  MaxReports    \* bound: progress reports in flight

ASSUME StartupAssumption ==
  /\ Main \in Daemons /\ IsFiniteSet(Daemons)
  /\ FirstFork \in BOOLEAN
  /\ MaxChanges \in Nat /\ MaxNotices \in Nat /\ MaxReports \in Nat

VARIABLES
  daemon,    \* the condition each daemon is in
  phase,     \* the step of start() the worker is in
  asked,     \* daemons whose answer to its call is outstanding
  answers,   \* what the others answered
  servers,   \* stratum servers made in this life of the worker
  hasJob,    \* jobManager.currentJob is defined
  reports,   \* progress reports waiting for getinfo, and for getpeerinfo
  changes, notices,
  steady     \* history: all daemons were syncing or up, and none fell back

vars == <<daemon, phase, asked, answers, servers, hasJob, reports, changes, notices,
          steady>>

\* "mute": answers 401 or what is no JSON; "erring": answers with an error;
\* "alone": has to sync and has no peers yet.
Conditions == {"down", "mute", "erring", "alone", "syncing", "up"}

Asking    == {"online", "detect", "sync", "first"}
NoAnswers == [d \in {} |-> "ok"]
NoReports == [info |-> 0, peers |-> 0]

Init ==
  /\ daemon \in [Daemons -> Conditions]
  /\ phase = "online" /\ asked = Daemons /\ answers = NoAnswers
  /\ servers = 0 /\ hasJob = FALSE
  /\ reports = NoReports
  /\ changes = 0 /\ notices = 0
  /\ steady = (\A d \in Daemons : daemon[d] \in {"syncing", "up"})

----------------------------------------------------------------------------
(* Daemons.                                                                *)

Change(d) ==
  /\ changes < MaxChanges
  /\ changes' = changes + 1
  /\ \E now \in Conditions \ {daemon[d]} :
       /\ daemon' = [daemon EXCEPT ![d] = now]
       /\ steady' = (steady /\ daemon[d] = "syncing" /\ now = "up")
  /\ UNCHANGED <<phase, asked, answers, servers, hasJob, reports, notices>>

\* What a daemon that answers says; "notSynced" is error -10.
AnswerOf(d) ==
  CASE daemon[d] = "down"   -> "offline"
    [] daemon[d] = "erring" -> "error"
    [] daemon[d] \in {"alone", "syncing"} ->
         IF phase \in {"online", "detect"} THEN "ok" ELSE "notSynced"
    [] daemon[d] = "up"     -> "ok"

----------------------------------------------------------------------------
(* The worker's calls.                                                     *)

Ask(next, ds) ==
  /\ phase' = next
  /\ asked' = ds
  /\ answers' = NoAnswers

\* An uncaught exception ends the process, with all it had asked.
Crash ==
  /\ phase' = "dead"
  /\ asked' = {} /\ answers' = NoAnswers
  /\ servers' = 0 /\ hasJob' = FALSE
  /\ reports' = NoReports

\* performHttpRequest returns without calling back.
NeverAnswered(d) ==
  /\ d \in asked /\ daemon[d] = "mute"
  /\ asked' = asked \ {d}
  /\ UNCHANGED <<daemon, phase, answers, servers, hasJob, reports, changes, notices,
                 steady>>

Answered(d) ==
  /\ d \in asked /\ daemon[d] # "mute"
  /\ UNCHANGED <<daemon, changes, notices, steady>>

Noted(d) ==
  [e \in DOMAIN answers \union {d} |-> IF e = d THEN AnswerOf(d) ELSE answers[e]]

\* cmd calls back with the last answer.
Collected(d) == DOMAIN Noted(d) = Daemons

Note(d) ==
  /\ asked' = asked \ {d}
  /\ answers' = Noted(d)
  /\ UNCHANGED phase

\* isOnline: whatever the answers are, they count as online.
Online(d) ==
  /\ phase = "online" /\ Answered(d)
  /\ IF Collected(d) THEN Ask("detect", {Main}) ELSE Note(d)
  /\ UNCHANGED <<servers, hasJob, reports>>

\* The batch of DetectCoinData: good answers.
Detected ==
  /\ phase = "detect" /\ Answered(Main)
  /\ AnswerOf(Main) = "ok"
  /\ Ask("sync", Daemons)
  /\ UNCHANGED <<servers, hasJob, reports>>

\* An error in one of its answers: logged, and no more is done.
DetectFails ==
  /\ phase = "detect" /\ Answered(Main)
  /\ AnswerOf(Main) = "error"
  /\ Note(Main)
  /\ UNCHANGED <<servers, hasJob, reports>>

\* No answers, or an error instead of the list of them: batchCmd sorts what is
\* no array.
DetectThrows ==
  /\ phase = "detect" /\ Answered(Main)
  /\ AnswerOf(Main) \in {"offline", "error"}
  /\ Crash

\* Faulty variant: the error is not looked at.
SyncedAlways(all) == TRUE

\* OnBlockchainSynced: any error but -10 counts as synced.
Synced(all) == \A d \in Daemons : all[d] # "notSynced"

\* checkSynced: tried again in five seconds, with a report by the first fork.
CheckSynced(d) ==
  /\ phase = "sync" /\ Answered(d)
  /\ \/ /\ ~Collected(d)
        /\ Note(d)
        /\ UNCHANGED reports
     \/ /\ Collected(d) /\ Synced(Noted(d))
        /\ Ask("first", Daemons)
        /\ UNCHANGED reports
     \/ /\ Collected(d) /\ ~Synced(Noted(d))
        /\ FirstFork => reports.info + reports.peers < MaxReports
        /\ Ask("waiting", {})
        /\ reports' = IF FirstFork THEN [reports EXCEPT !.info = @ + 1] ELSE reports
  /\ UNCHANGED <<servers, hasJob>>

\* Faulty variant: the timer is not set.
RetrySyncNever == FALSE /\ UNCHANGED vars

RetrySync ==
  /\ phase = "waiting"
  /\ Ask("sync", Daemons)
  /\ UNCHANGED <<daemon, servers, hasJob, reports, changes, notices, steady>>

\* Faulty variant: each good answer goes on with the start.
FirstTemplateAll(d) ==
  /\ phase \in {"first", "listening", "serving"} /\ Answered(d)
  /\ asked' = asked \ {d} /\ answers' = Noted(d)
  /\ IF AnswerOf(d) = "ok"
       THEN /\ hasJob' = TRUE
            /\ phase' = "listening"
            /\ servers' = servers + 1
       ELSE UNCHANGED <<hasJob, phase, servers>>
  /\ UNCHANGED reports

\* Faulty variant: the answers are waited for.
FirstTemplateLast(d) ==
  /\ phase = "first" /\ Answered(d)
  /\ asked' = asked \ {d} /\ answers' = Noted(d)
  /\ IF Collected(d) /\ \E e \in Daemons : Noted(d)[e] = "ok"
       THEN /\ hasJob' = TRUE
            /\ phase' = "listening"
            /\ servers' = servers + 1
       ELSE UNCHANGED <<hasJob, phase, servers>>
  /\ UNCHANGED reports

\* GetFirstJob: each daemon's template is taken as it comes; the first good one
\* goes on with the start, an error does not, and is not tried again.
FirstTemplate(d) ==
  /\ phase \in {"first", "listening", "serving"} /\ Answered(d)
  /\ asked' = asked \ {d} /\ answers' = Noted(d)
  /\ IF AnswerOf(d) = "ok"
       THEN /\ hasJob' = TRUE
            /\ phase' = IF phase = "first" THEN "listening" ELSE phase
            /\ servers' = IF phase = "first" THEN servers + 1 ELSE servers
       ELSE UNCHANGED <<hasJob, phase, servers>>
  /\ UNCHANGED reports

\* StartStratumServer: every port is open.
Started ==
  /\ phase = "listening"
  /\ phase' = "serving"
  /\ UNCHANGED <<daemon, asked, answers, servers, hasJob, reports, changes, notices,
                 steady>>

----------------------------------------------------------------------------
(* generateProgress; its calls run beside those of the start.  Each call's *)
(* answers are taken at one time.                                          *)

Silent  == \E d \in Daemons : daemon[d] = "mute"
Failing == \E d \in Daemons : daemon[d] \in {"down", "erring"}

\* The heights of all daemons are compared, whether they answered or not.
ReportInfo ==
  /\ reports.info > 0
  /\ IF ~Silent /\ Failing THEN Crash
     ELSE /\ reports' = [info |-> reports.info - 1,
                         peers |-> reports.peers + (IF Silent THEN 0 ELSE 1)]
          /\ UNCHANGED <<phase, asked, answers, servers, hasJob>>
  /\ UNCHANGED <<daemon, changes, notices, steady>>

\* The peers are those of the daemon that answered first; one without peers, or
\* without an answer, is not looked for.
ReportPeers ==
  /\ reports.peers > 0
  /\ \/ /\ ~Silent
        /\ \E d \in Daemons : daemon[d] \in {"down", "erring", "alone"}
        /\ Crash
     \/ /\ Silent \/ \E d \in Daemons : daemon[d] \in {"syncing", "up"}
        /\ reports' = [reports EXCEPT !.peers = @ - 1]
        /\ UNCHANGED <<phase, asked, answers, servers, hasJob>>
  /\ UNCHANGED <<daemon, changes, notices, steady>>

----------------------------------------------------------------------------
(* Messages and the end of the process.                                    *)

\* processBlockNotify: without a job manager it throws; without a job it does
\* nothing; with one the worker asks for templates (module Pool).
BlockNotice ==
  /\ notices < MaxNotices /\ phase # "dead"
  /\ notices' = notices + 1
  /\ steady' = FALSE
  /\ IF phase \in {"online", "detect"} THEN Crash
     ELSE UNCHANGED <<phase, asked, answers, servers, hasJob, reports>>
  /\ UNCHANGED <<daemon, changes>>

\* init.js forks it again in two seconds.
Respawn ==
  /\ phase = "dead"
  /\ Ask("online", Daemons)
  /\ UNCHANGED <<daemon, servers, hasJob, reports, changes, notices, steady>>

----------------------------------------------------------------------------

Reply(d) ==
  \/ NeverAnswered(d)
  \/ Online(d) \/ CheckSynced(d) \/ FirstTemplate(d)
  \/ d = Main /\ (Detected \/ DetectFails \/ DetectThrows)

Next ==
  \/ \E d \in Daemons : Reply(d) \/ Change(d)
  \/ RetrySync \/ Started \/ Respawn
  \/ ReportInfo \/ ReportPeers
  \/ BlockNotice

Spec == Init /\ [][Next]_vars

\* Daemons take up what they are asked, timers run, dead workers are replaced.
FairSpec ==
  /\ Spec
  /\ \A d \in Daemons : WF_vars(Reply(d))
  /\ WF_vars(RetrySync) /\ WF_vars(Started) /\ WF_vars(Respawn)
  /\ WF_vars(ReportInfo) /\ WF_vars(ReportPeers)

----------------------------------------------------------------------------
(* Properties.                                                             *)

\* No answer is outstanding and the start has not gone on.
Stuck == phase \in Asking /\ asked = {}

\* The state of the start.  What is asked of a daemon it has not answered; no
\* template is at hand before the first job is.
StartupTypeOK ==
  /\ daemon \in [Daemons -> Conditions]
  /\ phase \in Asking \union {"waiting", "listening", "serving", "dead"}
  /\ asked \subseteq Daemons /\ DOMAIN answers \subseteq Daemons \ asked
  /\ servers \in Nat /\ hasJob \in BOOLEAN /\ steady \in BOOLEAN
  /\ reports.info + reports.peers \in 0 .. MaxReports
  /\ changes \in 0 .. MaxChanges /\ notices \in 0 .. MaxNotices
  /\ phase \in {"online", "detect", "sync", "waiting"} => ~hasJob
  /\ phase = "first" => "ok" \notin {answers[d] : d \in DOMAIN answers}

\* However many daemons answer and in whatever order, a worker makes one stratum
\* server, when it has a job to give its first client.
OneServer ==
  /\ servers <= 1
  /\ servers = 1 <=> phase \in {"listening", "serving"}
  /\ servers = 1 => hasJob

\* A daemon that has yet to sync is waited for: unless one fails, falls back or
\* is heard of a block too early, the worker neither dies nor gives up.
SyncingIsAwaited == steady => phase # "dead" /\ ~Stuck

\* Once all daemons are up for good, the pool comes to serve, through whatever
\* crashes are still to come, unless an earlier failure has left it stuck.
GetsGoing ==
  <>[](\A d \in Daemons : daemon[d] = "up") => <>[](phase = "serving" \/ Stuck)
=============================================================================
