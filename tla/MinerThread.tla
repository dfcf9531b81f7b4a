---------------------------- MODULE MinerThread ----------------------------
(***************************************************************************)
(* The threads of the reference miner and how work is handed to them       *)
(* (libstratum/AionStratum.cpp, libstratum/StratumClient.cpp, main.cpp).   *)
(*                                                                         *)
(* One work thread owns the connection.  It emits the signal NewJob for    *)
(* each new job, and with a null job when the connection is lost.  The     *)
(* signal calls one slot per solver thread, in the work thread; a slot     *)
(* holds the thread's mutex, but sets three atomics the solver thread      *)
(* reads without it, so every store of a slot is a step of its own here.   *)
(*                                                                         *)
(* Nonces are counted in units of nonce2Inc above the session's base       *)
(* nonce: thread t searches [t * NonceRange, (t + 1) * NonceRange).        *)
(***************************************************************************)
EXTENDS Integers

CONSTANTS
  NumThreads,   \* solvers.size()
  NonceRange,   \* nonces of one thread; 2^88 in the code
  MaxJobs,      \* bound: jobs the pool sends
  MaxLosses,    \* bound: times the connection drops or cannot be made
  AuthMayFail   \* whether the pool may refuse the worker

ASSUME MinerAssumption ==
  /\ NumThreads \in Nat \ {0}
  /\ NonceRange \in Nat \ {0}
  /\ MaxJobs \in Nat
  /\ MaxLosses \in Nat
  /\ AuthMayFail \in BOOLEAN

Threads == 0 .. (NumThreads - 1)
NullJob == 0
Jobs    == 1 .. MaxJobs

\* The share of the nonce space of a thread.
FirstNonce(t) == t * NonceRange
NonceEnd(t)   == (t + 1) * NonceRange

VARIABLES
  \* the solver threads, one component per thread
  pc,           \* where AionMinerThread is
  workReady,    \* the three atomics of the hand-off
  cancelSolver,
  pauseMining,
  job,          \* the job the slot loaded last (jobId, header, target)
  actual,       \* the job the thread copied (actualJobId, actualHeader)
  nonce,        \* the nonce it tries
  active,       \* minerThreadActive
  \* the work thread
  slot,         \* how far the slot of each thread is; "idle" when its mutex is free
  wt,           \* where workLoop is
  cont,         \* where it goes on once the signal has been emitted
  signal,       \* the job being emitted
  todo,         \* threads whose slot has yet to be called
  lastJob,      \* p_current
  connected,    \* m_connected
  link,         \* whether the peer still has the socket open
  losses,
  running,      \* m_running
  \* the main thread
  main,
  exited        \* the process is over

threadVars == <<pc, actual, nonce>>
flagVars   == <<workReady, cancelSolver, pauseMining, job>>
signalVars == <<slot, signal, todo, cont>>
linkVars   == <<lastJob, connected, link, losses, running>>
mainVars   == <<main, active, exited>>
vars == <<threadVars, flagVars, signalVars, wt, linkVars, mainVars>>

----------------------------------------------------------------------------

Init ==
  /\ pc = [t \in Threads |-> "start"]
  /\ workReady = [t \in Threads |-> FALSE]
  /\ cancelSolver = [t \in Threads |-> FALSE]
  /\ pauseMining = [t \in Threads |-> FALSE]
  /\ job = [t \in Threads |-> NullJob]
  /\ actual = [t \in Threads |-> NullJob]
  /\ nonce = [t \in Threads |-> FirstNonce(t)]
  /\ active = [t \in Threads |-> TRUE]
  /\ slot = [t \in Threads |-> "idle"]
  /\ wt = "top"
  /\ cont = "top"
  /\ signal = NullJob
  /\ todo = {}
  /\ lastJob = NullJob
  /\ connected = FALSE
  /\ link = "down"
  /\ losses = 0
  /\ running = TRUE
  /\ main = "run"
  /\ exited = FALSE

----------------------------------------------------------------------------
(* The slots of NewJob, run by the work thread.                            *)

\* The work thread is there, in a process that still runs.
At(place) == ~exited /\ wt = place

\* A thread takes part in an emission if it has connected its slot.
Connected == {t \in Threads : pc[t] \notin {"start", "ended"}}

\* setJob(j): the signal fixes its slots when the emission starts.
Emit(j, next) ==
  /\ wt' = "emit"
  /\ cont' = next
  /\ signal' = j
  /\ todo' = Connected
  /\ UNCHANGED slot

SlotIdle == \A t \in Threads : slot[t] = "idle"

\* Signals2 passes over a slot whose tracked mutex is gone.
SkipSlot(t) ==
  /\ At("emit") /\ t \in todo /\ slot[t] = "idle"
  /\ pc[t] = "ended"
  /\ todo' = todo \ {t}
  /\ UNCHANGED <<threadVars, flagVars, slot, signal, cont, wt, linkVars, mainVars>>

LoadJob(t) ==
  /\ At("emit") /\ t \in todo /\ SlotIdle
  /\ pc[t] # "ended"
  /\ signal # NullJob
  /\ slot' = [slot EXCEPT ![t] = "loaded"]
  /\ job' = [job EXCEPT ![t] = signal]
  /\ pauseMining' = [pauseMining EXCEPT ![t] = FALSE]
  /\ UNCHANGED <<threadVars, workReady, cancelSolver, signal, todo, cont, wt,
                 linkVars, mainVars>>

SetReady(t) ==
  /\ At("emit") /\ slot[t] = "loaded"
  /\ slot' = [slot EXCEPT ![t] = "ready"]
  /\ workReady' = [workReady EXCEPT ![t] = TRUE]
  /\ UNCHANGED <<threadVars, cancelSolver, pauseMining, job, signal, todo, cont,
                 wt, linkVars, mainVars>>

\* Only clean jobs reach the slots: the client drops the others.
CancelForJob(t) ==
  /\ At("emit") /\ slot[t] = "ready"
  /\ slot' = [slot EXCEPT ![t] = "idle"]
  /\ todo' = todo \ {t}
  /\ cancelSolver' = [cancelSolver EXCEPT ![t] = TRUE]
  /\ UNCHANGED <<threadVars, workReady, pauseMining, job, signal, cont, wt,
                 linkVars, mainVars>>

\* Faulty variant: the null job leaves workReady alone.
KeepReady(t) ==
  /\ At("emit") /\ t \in todo /\ SlotIdle
  /\ pc[t] # "ended" /\ signal = NullJob
  /\ slot' = [slot EXCEPT ![t] = "unready"]
  /\ UNCHANGED <<threadVars, flagVars, signal, todo, cont, wt, linkVars, mainVars>>

ClearReady(t) ==
  /\ At("emit") /\ t \in todo /\ SlotIdle
  /\ pc[t] # "ended"
  /\ signal = NullJob
  /\ slot' = [slot EXCEPT ![t] = "unready"]
  /\ workReady' = [workReady EXCEPT ![t] = FALSE]
  /\ UNCHANGED <<threadVars, cancelSolver, pauseMining, job, signal, todo, cont,
                 wt, linkVars, mainVars>>

CancelForNull(t) ==
  /\ At("emit") /\ slot[t] = "unready"
  /\ slot' = [slot EXCEPT ![t] = "cancelled"]
  /\ cancelSolver' = [cancelSolver EXCEPT ![t] = TRUE]
  /\ UNCHANGED <<threadVars, workReady, pauseMining, job, signal, todo, cont, wt,
                 linkVars, mainVars>>

Pause(t) ==
  /\ At("emit") /\ slot[t] = "cancelled"
  /\ slot' = [slot EXCEPT ![t] = "idle"]
  /\ todo' = todo \ {t}
  /\ pauseMining' = [pauseMining EXCEPT ![t] = TRUE]
  /\ UNCHANGED <<threadVars, workReady, cancelSolver, job, signal, cont, wt,
                 linkVars, mainVars>>

EmitDone ==
  /\ At("emit") /\ todo = {}
  /\ wt' = cont
  /\ UNCHANGED <<threadVars, flagVars, signalVars, linkVars, mainVars>>

Slot(t) ==
  \/ SkipSlot(t)
  \/ LoadJob(t) \/ SetReady(t) \/ CancelForJob(t)
  \/ ClearReady(t) \/ CancelForNull(t) \/ Pause(t)

----------------------------------------------------------------------------
(* The work thread: workLoop, connect, reconnect, processReponse.          *)

\* The loop condition and the connection test at the top of workLoop.
Loop ==
  /\ At("top")
  /\ \/ ~running /\ wt' = "ended"
     \/ running /\ connected /\ wt' = "read"
     \/ running /\ ~connected /\ wt' = "connect"
  /\ UNCHANGED <<threadVars, flagVars, signalVars, linkVars, mainVars>>

Connect ==
  /\ At("connect")
  /\ wt' = "read"
  /\ connected' = TRUE
  /\ link' = "up"
  /\ UNCHANGED <<threadVars, flagVars, signalVars, lastJob, losses, running, mainVars>>

\* reconnect(): pause the threads and forget the connection, never p_current.
Reconnect(next) ==
  /\ Emit(NullJob, next)
  /\ connected' = FALSE

\* connect() calls reconnect() itself and returns to a read on the closed socket.
ConnectFails ==
  /\ At("connect")
  /\ losses < MaxLosses
  /\ losses' = losses + 1
  /\ link' = "down"
  /\ Reconnect("read")
  /\ UNCHANGED <<threadVars, flagVars, lastJob, running, mainVars>>

\* The peer closes the connection; nobody has noticed yet.
LinkDrops ==
  /\ ~exited /\ link = "up"
  /\ losses < MaxLosses
  /\ losses' = losses + 1
  /\ link' = "down"
  /\ UNCHANGED <<threadVars, flagVars, signalVars, wt, lastJob, connected, running,
                 mainVars>>

\* read_until throws.
ReadFails ==
  /\ At("read")
  /\ link = "down"
  /\ Reconnect("top")
  /\ UNCHANGED <<threadVars, flagVars, lastJob, link, losses, running, mainVars>>

\* mining.notify with a job id other than p_current's.
ReceiveJob ==
  /\ At("read") /\ connected
  /\ lastJob + 1 \in Jobs
  /\ lastJob' = lastJob + 1
  /\ Emit(lastJob + 1, "top")
  /\ UNCHANGED <<threadVars, flagVars, connected, link, losses, running, mainVars>>

\* Any message that changes nothing here: an answer, a repeated job.
ReceiveOther ==
  /\ At("read") /\ connected
  /\ wt' = "top"
  /\ UNCHANGED <<threadVars, flagVars, signalVars, linkVars, mainVars>>

\* client.reconnect.
ReceiveReconnect ==
  /\ At("read") /\ connected
  /\ losses < MaxLosses
  /\ losses' = losses + 1
  /\ Reconnect("top")
  /\ UNCHANGED <<threadVars, flagVars, lastJob, link, running, mainVars>>

\* The authorization is refused: disconnect() clears m_running, then joins the
\* thread it runs in; that throws, and the loop's handler calls reconnect().
AuthRefused ==
  /\ AuthMayFail
  /\ At("read") /\ connected
  /\ running' = FALSE
  /\ Reconnect("top")
  /\ UNCHANGED <<threadVars, flagVars, lastJob, link, losses, mainVars>>

WorkThread ==
  \/ Loop \/ Connect \/ ConnectFails
  \/ ReadFails \/ ReceiveJob \/ ReceiveOther \/ ReceiveReconnect \/ AuthRefused
  \/ EmitDone
  \/ \E t \in Threads : Slot(t)

----------------------------------------------------------------------------
(* The solver threads: AionMinerThread.                                    *)

Goto(t, from, to) ==
  /\ ~exited /\ pc[t] = from
  /\ pc' = [pc EXCEPT ![t] = to]

\* NewJob.connect and solver->start().
Register(t) ==
  /\ Goto(t, "start", "wait")
  /\ UNCHANGED <<actual, nonce, flagVars, signalVars, wt, linkVars, mainVars>>

\* Faulty variant: an idle thread does not look at minerThreadActive.
WaitForever(t) ==
  /\ Goto(t, "wait", "cas")
  /\ UNCHANGED <<actual, nonce, flagVars, signalVars, wt, linkVars, mainVars>>

WaitActive(t) ==
  /\ Goto(t, "wait", IF active[t] THEN "cas" ELSE "ended")
  /\ UNCHANGED <<actual, nonce, flagVars, signalVars, wt, linkVars, mainVars>>

\* compare_exchange_weak(true, false) on workReady; it may fail spuriously.
TakeWork(t) ==
  /\ workReady[t]
  /\ Goto(t, "cas", "clear")
  /\ workReady' = [workReady EXCEPT ![t] = FALSE]
  /\ UNCHANGED <<actual, nonce, cancelSolver, pauseMining, job, signalVars, wt,
                 linkVars, mainVars>>

NoWork(t) ==
  /\ Goto(t, "cas", "wait")
  /\ UNCHANGED <<actual, nonce, flagVars, signalVars, wt, linkVars, mainVars>>

\* "TODO change atomically with workReady"
ClearCancel(t) ==
  /\ Goto(t, "clear", "copy")
  /\ cancelSolver' = [cancelSolver EXCEPT ![t] = FALSE]
  /\ UNCHANGED <<actual, nonce, workReady, pauseMining, job, signalVars, wt,
                 linkVars, mainVars>>

\* The block under m_zmt: waits while the thread's slot runs.
CopyJob(t) ==
  /\ slot[t] = "idle"
  /\ Goto(t, "copy", "check")
  /\ actual' = [actual EXCEPT ![t] = job[t]]
  /\ nonce' = [nonce EXCEPT ![t] = FirstNonce(t)]
  /\ UNCHANGED <<flagVars, signalVars, wt, linkVars, mainVars>>

\* Faulty variant: cancelSolver cleared after the copy.
CheckStopClearing(t) ==
  /\ Goto(t, "check", IF active[t] THEN "solve" ELSE "ended")
  /\ cancelSolver' = [cancelSolver EXCEPT ![t] = FALSE]
  /\ UNCHANGED <<actual, nonce, workReady, pauseMining, job, signalVars, wt,
                 linkVars, mainVars>>

CheckStop(t) ==
  /\ Goto(t, "check", IF active[t] THEN "solve" ELSE "ended")
  /\ UNCHANGED <<actual, nonce, flagVars, signalVars, wt, linkVars, mainVars>>

\* Faulty variant: a cancelled solver starts over.
SolveRestarts(t) ==
  /\ cancelSolver[t]
  /\ Goto(t, "solve", "solve")
  /\ UNCHANGED <<actual, nonce, flagVars, signalVars, wt, linkVars, mainVars>>

\* The solver polls cancelSolver between its rounds and after each solution.
SolveCancelled(t) ==
  /\ cancelSolver[t]
  /\ Goto(t, "solve", "next")
  /\ UNCHANGED <<actual, nonce, flagVars, signalVars, wt, linkVars, mainVars>>

SolveFinds(t) ==
  /\ ~cancelSolver[t]
  /\ Goto(t, "solve", "submit")
  /\ UNCHANGED <<actual, nonce, flagVars, signalVars, wt, linkVars, mainVars>>

SolveDone(t) ==
  /\ ~cancelSolver[t]
  /\ Goto(t, "solve", "next")
  /\ UNCHANGED <<actual, nonce, flagVars, signalVars, wt, linkVars, mainVars>>

\* solutionFound: submit() writes to the socket from this thread.
Submit(t) ==
  /\ Goto(t, "submit", "solve")
  /\ UNCHANGED <<actual, nonce, flagVars, signalVars, wt, linkVars, mainVars>>

\* The write throws on a dead socket, and the thread's handler calls exit(0).
SubmitFails(t) ==
  /\ ~exited /\ pc[t] = "submit"
  /\ link = "down"
  /\ exited' = TRUE
  /\ UNCHANGED <<threadVars, flagVars, signalVars, wt, linkVars, main, active>>

ShareDoneLate(t) == nonce[t] = NonceEnd(t)     \* faulty variant: off by one
ShareDone(t)     == nonce[t] + 1 = NonceEnd(t)

NextNonce(t) ==
  /\ ~exited /\ pc[t] = "next"
  /\ nonce' = [nonce EXCEPT ![t] = @ + 1]
  /\ pc' = [pc EXCEPT ![t] =
       IF ShareDone(t) \/ workReady[t] THEN "wait" ELSE "pause"]
  /\ UNCHANGED <<actual, flagVars, signalVars, wt, linkVars, mainVars>>

CheckPause(t) ==
  /\ Goto(t, "pause", IF pauseMining[t] THEN "wait" ELSE "check")
  /\ UNCHANGED <<actual, nonce, flagVars, signalVars, wt, linkVars, mainVars>>

\* What the thread does by itself, solver calls apart.
Control(t) ==
  \/ Register(t) \/ WaitActive(t) \/ TakeWork(t) \/ NoWork(t) \/ ClearCancel(t)
  \/ CopyJob(t) \/ CheckStop(t) \/ Submit(t) \/ SubmitFails(t) \/ NextNonce(t)
  \/ CheckPause(t)

SolveReturns(t) == SolveCancelled(t) \/ SolveDone(t)

MinerStep(t) == Control(t) \/ SolveReturns(t) \/ SolveFinds(t)

----------------------------------------------------------------------------
(* The main thread: start_mining and the SIGINT handler.                   *)

\* disconnect() returns at once without a connection; deleting the client
\* with its thread alive then ends the process.
SigInt ==
  /\ ~exited /\ main = "run"
  /\ IF connected
       THEN main' = "joinWork" /\ running' = FALSE /\ UNCHANGED exited
       ELSE main' = "over" /\ exited' = TRUE /\ UNCHANGED running
  /\ UNCHANGED <<threadVars, flagVars, signalVars, wt, lastJob, connected, link,
                 losses, active>>

WorkAbandoned == TRUE            \* faulty variant: no join
WorkJoined    == wt = "ended"

\* m_work->join(), then p_miner->stop() clears every minerThreadActive.
JoinWork ==
  /\ ~exited /\ main = "joinWork" /\ WorkJoined
  /\ main' = "joinMiners"
  /\ active' = [t \in Threads |-> FALSE]
  /\ connected' = FALSE
  /\ UNCHANGED <<threadVars, flagVars, signalVars, wt, lastJob, link, losses,
                 running, exited>>

\* start_mining's loop ends with isRunning(): ~AionMiner stops the threads
\* without waiting for the work thread.
LeaveStartMining ==
  /\ ~exited /\ main = "run" /\ ~running
  /\ main' = "joinMiners"
  /\ active' = [t \in Threads |-> FALSE]
  /\ UNCHANGED <<threadVars, flagVars, signalVars, wt, linkVars, exited>>

JoinMiners ==
  /\ ~exited /\ main = "joinMiners"
  /\ \A t \in Threads : pc[t] = "ended"
  /\ exited' = TRUE
  /\ UNCHANGED <<threadVars, flagVars, signalVars, wt, linkVars, main, active>>

MainThread == JoinWork \/ LeaveStartMining \/ JoinMiners

----------------------------------------------------------------------------

Terminated == exited /\ UNCHANGED vars

Next ==
  \/ WorkThread
  \/ LinkDrops
  \/ \E t \in Threads : MinerStep(t)
  \/ MainThread
  \/ SigInt
  \/ Terminated

Spec == Init /\ [][Next]_vars

\* Threads are scheduled; a solve call has finitely many solutions, so it
\* returns; signals, messages and losses need not come.
Fairness ==
  /\ \A t \in Threads : WF_vars(Control(t))
  /\ \A t \in Threads : SF_vars(SolveReturns(t))
  /\ \A t \in Threads : SF_vars(TakeWork(t))
  /\ WF_vars(EmitDone)
  /\ \A t \in Threads : WF_vars(Slot(t))
  /\ WF_vars(MainThread)

FairSpec == Spec /\ Fairness

----------------------------------------------------------------------------
(* Properties.                                                             *)

PCs == {"start", "wait", "cas", "clear", "copy", "check", "solve", "submit",
        "next", "pause", "ended"}

\* Every variable stays in the range the code gives it, and a nonce stays in
\* the thread's share of the nonce space or at its end.
TypeOK ==
  /\ pc \in [Threads -> PCs]
  /\ workReady \in [Threads -> BOOLEAN]
  /\ cancelSolver \in [Threads -> BOOLEAN]
  /\ pauseMining \in [Threads -> BOOLEAN]
  /\ job \in [Threads -> Nat]
  /\ actual \in [Threads -> Nat]
  /\ nonce \in [Threads -> Nat]
  /\ \A t \in Threads : FirstNonce(t) <= nonce[t] /\ nonce[t] <= NonceEnd(t)
  /\ active \in [Threads -> BOOLEAN]
  /\ slot \in [Threads -> {"idle", "loaded", "ready", "unready", "cancelled"}]
  /\ wt \in {"top", "connect", "read", "emit", "ended"}
  /\ cont \in {"top", "read"}
  /\ signal \in Nat
  /\ todo \in SUBSET Threads
  /\ lastJob \in Nat
  /\ connected \in BOOLEAN
  /\ link \in {"up", "down"}
  /\ losses \in Nat
  /\ running \in BOOLEAN
  /\ main \in {"run", "joinWork", "joinMiners", "over"}
  /\ exited \in BOOLEAN

\* Between copying a job and going back to wait.
Working(t) == pc[t] \in {"check", "solve", "submit", "next", "pause"}

\* A thread working on a job that is no longer the one its slot loaded has
\* its solver cancelled and will find new work or the pause when that returns,
\* whatever the interleaving of the slot's stores with the thread's
\* compare-exchange and its clearing of cancelSolver.
StaleWorkIsDropped ==
  \A t \in Threads :
    Working(t) /\ actual[t] # job[t] /\ slot[t] = "idle"
      => cancelSolver[t] /\ (workReady[t] \/ pauseMining[t])

\* After the null job of a lost connection has reached a thread, the thread
\* finds no work to take up until a job arrives.
PausedHasNoWork ==
  \A t \in Threads : pauseMining[t] /\ slot[t] = "idle" => ~workReady[t]

\* No two threads try the same nonce: each stays in its own share, although
\* the end of the share is only tested for equality and only after the
\* increment.
DisjointSearch ==
  \A t, u \in Threads :
    t # u /\ pc[t] \in {"solve", "submit"} /\ pc[u] \in {"solve", "submit"}
      => nonce[t] # nonce[u]

\* A thread at work has not reached the end of its share.
InShare == \A t \in Threads : Working(t) => nonce[t] < NonceEnd(t)

\* The hand-off while a slot is half way: what a thread at work can rely on
\* after each store of the slot.  It cannot copy a job before the slot is done.
HandOff ==
  \A t \in Threads :
    /\ slot[t] \in {"loaded", "ready"} => ~pauseMining[t]
    /\ slot[t] \in {"unready", "cancelled"} => ~workReady[t]
    /\ slot[t] = "ready" /\ Working(t) => workReady[t]
    /\ slot[t] = "cancelled" /\ Working(t) => cancelSolver[t]

\* The inductive invariant behind the safety properties above.
HandOffInv ==
  TypeOK /\ InShare /\ HandOff /\ StaleWorkIsDropped /\ PausedHasNoWork

\* The work thread runs no slot of a thread that has ended: the slot writes
\* through references to that thread's stack.
SlotThreadAlive ==
  \A t \in Threads : slot[t] # "idle" => pc[t] # "ended"

\* A solver call is only cancelled because something else is to be done.
CurrentWorkRuns ==
  \A t \in Threads :
    pc[t] = "solve" /\ cancelSolver[t]
      => workReady[t] \/ pauseMining[t] \/ slot[t] # "idle"

\* A thread leaves stale work behind, or everything ends.
StaleWorkEnds ==
  \A t \in Threads :
    (Working(t) /\ actual[t] # job[t])
      ~> (~Working(t) \/ actual[t] = job[t] \/ exited)

\* Work handed to a thread is taken up, unless the connection is lost or the
\* thread is stopped first.
NewWorkIsTaken ==
  \A t \in Threads : \A j \in Jobs :
    (workReady[t] /\ job[t] = j)
      ~> (actual[t] = j \/ job[t] # j \/ ~workReady[t] \/ pc[t] = "ended" \/ exited)

\* A lost connection idles the solver threads.
LossIdlesThreads ==
  \A t \in Threads :
    pauseMining[t]
      ~> (pc[t] \in {"start", "wait", "cas", "ended"} \/ ~pauseMining[t] \/ exited)

\* Once the threads are told to stop, the process ends.
StopEndsProcess == (main = "joinMiners") ~> exited
=============================================================================
