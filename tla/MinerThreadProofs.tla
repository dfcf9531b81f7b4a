-------------------------- MODULE MinerThreadProofs --------------------------
(***************************************************************************)
(* Theorems about MinerThread for any number of threads, jobs, losses and  *)
(* any size of a thread's share of the nonces.                             *)
(***************************************************************************)
EXTENDS MinerThread, TLAPS

\* The shares of two threads do not overlap.
LEMMA SharesDisjoint ==
  ASSUME NEW t \in Threads, NEW u \in Threads, t < u
  PROVE  NonceEnd(t) <= FirstNonce(u)
<1>1. NonceRange \in Nat \ {0} /\ t \in Nat /\ u \in Nat /\ t + 1 <= u
  BY MinerAssumption DEF Threads
<1>2. PICK d \in Nat : u = (t + 1) + d
  <2>1. u - (t + 1) \in Nat /\ u = (t + 1) + (u - (t + 1))
    BY <1>1
  <2>2. QED
    BY <2>1
<1>3. u * NonceRange = (t + 1) * NonceRange + d * NonceRange
  BY <1>1, <1>2, Z3
<1>4. d * NonceRange \in Nat /\ (t + 1) * NonceRange \in Nat
  BY <1>1, <1>2
<1>5. QED
  BY <1>3, <1>4 DEF NonceEnd, FirstNonce

\* A share has at least one nonce.
LEMMA ShareNonEmpty ==
  ASSUME NEW t \in Threads
  PROVE  /\ FirstNonce(t) \in Nat
         /\ NonceEnd(t) \in Nat
         /\ FirstNonce(t) < NonceEnd(t)
<1>1. NonceRange \in Nat /\ NonceRange > 0 /\ t \in Nat
  BY MinerAssumption DEF Threads
<1>2. t * NonceRange \in Nat /\ (t + 1) * NonceRange = t * NonceRange + NonceRange
  BY <1>1
<1>3. QED
  BY <1>1, <1>2 DEF NonceEnd, FirstNonce
----------------------------------------------------------------------------
(* Types, and the share of the nonces a thread keeps to.                   *)

\* The threads start inside their shares.
LEMMA TypeInit == Init => TypeOK /\ InShare
<1> SUFFICES ASSUME Init
             PROVE  TypeOK /\ InShare
  OBVIOUS
<1>1. \A t \in Threads : /\ FirstNonce(t) \in Nat /\ NonceEnd(t) \in Nat
                          /\ FirstNonce(t) <= NonceEnd(t)
  BY ShareNonEmpty
<1>2. InShare
  BY DEF Init, InShare, Working
<1>3. /\ pc \in [Threads -> PCs]
      /\ workReady \in [Threads -> BOOLEAN]
      /\ cancelSolver \in [Threads -> BOOLEAN]
      /\ pauseMining \in [Threads -> BOOLEAN]
      /\ job \in [Threads -> Nat]
      /\ actual \in [Threads -> Nat]
      /\ active \in [Threads -> BOOLEAN]
      /\ slot \in [Threads -> {"idle", "loaded", "ready", "unready", "cancelled"}]
  BY DEF Init, PCs, NullJob
<1>4. /\ nonce \in [Threads -> Nat]
      /\ \A t \in Threads : FirstNonce(t) <= nonce[t] /\ nonce[t] <= NonceEnd(t)
  BY <1>1 DEF Init
<1>5. QED
  BY <1>2, <1>3, <1>4 DEF Init, TypeOK, NullJob

\* Every step keeps the types, and every thread in its share.
LEMMA TypeStep == TypeOK /\ InShare /\ [Next]_vars => TypeOK' /\ InShare'
<1> SUFFICES ASSUME TypeOK, InShare, [Next]_vars
             PROVE  TypeOK' /\ InShare'
  OBVIOUS
<1> USE DEF TypeOK, InShare, Working, PCs, vars, threadVars, flagVars, signalVars,
            linkVars, mainVars, At
<1>0. \A t \in Threads : /\ FirstNonce(t) \in Nat
                          /\ NonceEnd(t) \in Nat
                          /\ FirstNonce(t) < NonceEnd(t)
  BY ShareNonEmpty
<1>1. ASSUME NEW t \in Threads, SkipSlot(t)
     PROVE  TypeOK' /\ InShare'
  BY <1>1 DEF SkipSlot
<1>2. ASSUME NEW t \in Threads, LoadJob(t)
     PROVE  TypeOK' /\ InShare'
  BY <1>2 DEF LoadJob
<1>3. ASSUME NEW t \in Threads, SetReady(t)
     PROVE  TypeOK' /\ InShare'
  BY <1>3 DEF SetReady
<1>4. ASSUME NEW t \in Threads, CancelForJob(t)
     PROVE  TypeOK' /\ InShare'
  BY <1>4 DEF CancelForJob
<1>5. ASSUME NEW t \in Threads, ClearReady(t)
     PROVE  TypeOK' /\ InShare'
  BY <1>5 DEF ClearReady
<1>6. ASSUME NEW t \in Threads, CancelForNull(t)
     PROVE  TypeOK' /\ InShare'
  BY <1>6 DEF CancelForNull
<1>7. ASSUME NEW t \in Threads, Pause(t)
     PROVE  TypeOK' /\ InShare'
  BY <1>7 DEF Pause
<1>8. ASSUME NEW t \in Threads, Register(t)
     PROVE  TypeOK' /\ InShare'
  BY <1>8 DEF Register, Goto
<1>9. ASSUME NEW t \in Threads, WaitActive(t)
     PROVE  TypeOK' /\ InShare'
  BY <1>9 DEF WaitActive, Goto
<1>10. ASSUME NEW t \in Threads, TakeWork(t)
     PROVE  TypeOK' /\ InShare'
  BY <1>10 DEF TakeWork, Goto
<1>11. ASSUME NEW t \in Threads, NoWork(t)
     PROVE  TypeOK' /\ InShare'
  BY <1>11 DEF NoWork, Goto
<1>12. ASSUME NEW t \in Threads, ClearCancel(t)
     PROVE  TypeOK' /\ InShare'
  BY <1>12 DEF ClearCancel, Goto
<1>13. ASSUME NEW t \in Threads, CopyJob(t)
     PROVE  TypeOK' /\ InShare'
  BY <1>13, <1>0 DEF CopyJob, Goto
<1>14. ASSUME NEW t \in Threads, CheckStop(t)
     PROVE  TypeOK' /\ InShare'
  BY <1>14 DEF CheckStop, Goto
<1>15. ASSUME NEW t \in Threads, Submit(t)
     PROVE  TypeOK' /\ InShare'
  BY <1>15 DEF Submit, Goto
<1>16. ASSUME NEW t \in Threads, SubmitFails(t)
     PROVE  TypeOK' /\ InShare'
  BY <1>16 DEF SubmitFails, Goto
<1>17. ASSUME NEW t \in Threads, NextNonce(t)
     PROVE  TypeOK' /\ InShare'
  BY <1>17, <1>0 DEF NextNonce, ShareDone
<1>18. ASSUME NEW t \in Threads, CheckPause(t)
     PROVE  TypeOK' /\ InShare'
  BY <1>18 DEF CheckPause, Goto
<1>19. ASSUME NEW t \in Threads, SolveCancelled(t)
     PROVE  TypeOK' /\ InShare'
  BY <1>19 DEF SolveCancelled, Goto
<1>20. ASSUME NEW t \in Threads, SolveFinds(t)
     PROVE  TypeOK' /\ InShare'
  BY <1>20 DEF SolveFinds, Goto
<1>21. ASSUME NEW t \in Threads, SolveDone(t)
     PROVE  TypeOK' /\ InShare'
  BY <1>21 DEF SolveDone, Goto
<1>22. ASSUME Loop
     PROVE  TypeOK' /\ InShare'
  BY <1>22 DEF Loop
<1>23. ASSUME Connect
     PROVE  TypeOK' /\ InShare'
  BY <1>23 DEF Connect
<1>24. ASSUME ConnectFails
     PROVE  TypeOK' /\ InShare'
  <2>1. losses' \in Nat
    BY <1>24 DEF ConnectFails
  <2>2. todo' \in SUBSET Threads /\ signal' \in Nat
    BY <1>24 DEF ConnectFails, Reconnect, Emit, Connected, NullJob
  <2>3. UNCHANGED <<pc, nonce, workReady, cancelSolver, pauseMining, job, actual, active,
                    slot, lastJob, running, main, exited>>
    BY <1>24 DEF ConnectFails, Reconnect, Emit
  <2>4. /\ wt' = "emit" /\ cont' \in {"top", "read"}
        /\ connected' \in BOOLEAN /\ link' \in {"up", "down"}
    BY <1>24 DEF ConnectFails, Reconnect, Emit
  <2>5. QED
    BY <2>1, <2>2, <2>3, <2>4
<1>25. ASSUME ReadFails
     PROVE  TypeOK' /\ InShare'
  BY <1>25 DEF ReadFails, Reconnect, Emit, Connected, NullJob
<1>26. ASSUME ReceiveJob
     PROVE  TypeOK' /\ InShare'
  BY <1>26 DEF ReceiveJob, Emit, Connected, Jobs
<1>27. ASSUME ReceiveOther
     PROVE  TypeOK' /\ InShare'
  BY <1>27 DEF ReceiveOther
<1>28. ASSUME ReceiveReconnect
     PROVE  TypeOK' /\ InShare'
  <2>1. losses' \in Nat
    BY <1>28 DEF ReceiveReconnect
  <2>2. todo' \in SUBSET Threads /\ signal' \in Nat
    BY <1>28 DEF ReceiveReconnect, Reconnect, Emit, Connected, NullJob
  <2>3. UNCHANGED <<pc, nonce, workReady, cancelSolver, pauseMining, job, actual, active,
                    slot, lastJob, running, main, exited>>
    BY <1>28 DEF ReceiveReconnect, Reconnect, Emit
  <2>4. /\ wt' = "emit" /\ cont' \in {"top", "read"}
        /\ connected' \in BOOLEAN /\ link' \in {"up", "down"}
    BY <1>28 DEF ReceiveReconnect, Reconnect, Emit
  <2>5. QED
    BY <2>1, <2>2, <2>3, <2>4
<1>29. ASSUME AuthRefused
     PROVE  TypeOK' /\ InShare'
  BY <1>29 DEF AuthRefused, Reconnect, Emit, Connected, NullJob
<1>30. ASSUME EmitDone
     PROVE  TypeOK' /\ InShare'
  BY <1>30 DEF EmitDone
<1>31. ASSUME LinkDrops
     PROVE  TypeOK' /\ InShare'
  BY <1>31 DEF LinkDrops
<1>32. ASSUME JoinWork
     PROVE  TypeOK' /\ InShare'
  BY <1>32 DEF JoinWork
<1>33. ASSUME LeaveStartMining
     PROVE  TypeOK' /\ InShare'
  BY <1>33 DEF LeaveStartMining
<1>34. ASSUME JoinMiners
     PROVE  TypeOK' /\ InShare'
  BY <1>34 DEF JoinMiners
<1>35. ASSUME SigInt
     PROVE  TypeOK' /\ InShare'
  BY <1>35 DEF SigInt
<1>36. CASE UNCHANGED vars
  BY <1>36
<1>37. QED
  BY <1>1, <1>2, <1>3, <1>4, <1>5, <1>6, <1>7, <1>8, <1>9, <1>10, <1>11, <1>12, <1>13, <1>14, <1>15, <1>16, <1>17, <1>18, <1>19, <1>20, <1>21, <1>22, <1>23, <1>24, <1>25, <1>26, <1>27, <1>28, <1>29, <1>30, <1>31, <1>32, <1>33, <1>34, <1>35, <1>36 DEF Next, WorkThread, Slot, MinerStep, Control,
     SolveReturns, MainThread, Terminated

\* Every variable keeps its type, and no thread leaves its share of the nonces.
THEOREM TypeCorrect == Spec => []TypeOK
<1>1. Spec => [](TypeOK /\ InShare)
  BY TypeInit, TypeStep, PTL DEF Spec
<1>2. QED
  BY <1>1, PTL

----------------------------------------------------------------------------
(* The hand-off of work between the slots and the solver threads.          *)

\* What the hand-off is about.  The work thread outside its slots, the main
\* thread and the network leave it alone.
handOffVars == <<pc, actual, job, slot, workReady, cancelSolver, pauseMining>>

\* Every store of a slot and every step of its thread keeps the hand-off
\* invariant.
LEMMA HandOffStep ==
  TypeOK /\ HandOff /\ StaleWorkIsDropped /\ PausedHasNoWork /\ [Next]_vars
    => HandOff' /\ StaleWorkIsDropped' /\ PausedHasNoWork'
<1> SUFFICES ASSUME TypeOK, HandOff, StaleWorkIsDropped, PausedHasNoWork, [Next]_vars
             PROVE  HandOff' /\ StaleWorkIsDropped' /\ PausedHasNoWork'
  OBVIOUS
<1>a. /\ pc \in [Threads -> PCs]
      /\ workReady \in [Threads -> BOOLEAN]
      /\ cancelSolver \in [Threads -> BOOLEAN]
      /\ pauseMining \in [Threads -> BOOLEAN]
      /\ job \in [Threads -> Nat]
      /\ actual \in [Threads -> Nat]
      /\ slot \in [Threads -> {"idle", "loaded", "ready", "unready", "cancelled"}]
  BY DEF TypeOK
<1> USE DEF HandOff, StaleWorkIsDropped, PausedHasNoWork, Working,
            vars, threadVars, flagVars, signalVars, linkVars, mainVars
<1>b. ASSUME UNCHANGED handOffVars
      PROVE  HandOff' /\ StaleWorkIsDropped' /\ PausedHasNoWork'
  BY <1>b DEF handOffVars
<1>1. ASSUME NEW t \in Threads, LoadJob(t)
      PROVE  HandOff' /\ StaleWorkIsDropped' /\ PausedHasNoWork'
  BY <1>1, <1>a DEF LoadJob
<1>2. ASSUME NEW t \in Threads, SetReady(t)
      PROVE  HandOff' /\ StaleWorkIsDropped' /\ PausedHasNoWork'
  BY <1>2, <1>a DEF SetReady
<1>3. ASSUME NEW t \in Threads, CancelForJob(t)
      PROVE  HandOff' /\ StaleWorkIsDropped' /\ PausedHasNoWork'
  BY <1>3, <1>a DEF CancelForJob
<1>4. ASSUME NEW t \in Threads, ClearReady(t)
      PROVE  HandOff' /\ StaleWorkIsDropped' /\ PausedHasNoWork'
  BY <1>4, <1>a DEF ClearReady
<1>5. ASSUME NEW t \in Threads, CancelForNull(t)
      PROVE  HandOff' /\ StaleWorkIsDropped' /\ PausedHasNoWork'
  BY <1>5, <1>a DEF CancelForNull
<1>6. ASSUME NEW t \in Threads, Pause(t)
      PROVE  HandOff' /\ StaleWorkIsDropped' /\ PausedHasNoWork'
  BY <1>6, <1>a DEF Pause
<1>7. ASSUME NEW t \in Threads, TakeWork(t)
      PROVE  HandOff' /\ StaleWorkIsDropped' /\ PausedHasNoWork'
  BY <1>7, <1>a DEF TakeWork, Goto
<1>8. ASSUME NEW t \in Threads, ClearCancel(t)
      PROVE  HandOff' /\ StaleWorkIsDropped' /\ PausedHasNoWork'
  BY <1>8, <1>a DEF ClearCancel, Goto
<1>9. ASSUME NEW t \in Threads, CopyJob(t)
      PROVE  HandOff' /\ StaleWorkIsDropped' /\ PausedHasNoWork'
  BY <1>9, <1>a DEF CopyJob, Goto
<1>10. ASSUME NEW t \in Threads, Register(t)
      PROVE  HandOff' /\ StaleWorkIsDropped' /\ PausedHasNoWork'
  BY <1>10, <1>a DEF Register, Goto
<1>11. ASSUME NEW t \in Threads, WaitActive(t)
      PROVE  HandOff' /\ StaleWorkIsDropped' /\ PausedHasNoWork'
  BY <1>11, <1>a DEF WaitActive, Goto
<1>12. ASSUME NEW t \in Threads, NoWork(t)
      PROVE  HandOff' /\ StaleWorkIsDropped' /\ PausedHasNoWork'
  BY <1>12, <1>a DEF NoWork, Goto
<1>13. ASSUME NEW t \in Threads, CheckStop(t)
      PROVE  HandOff' /\ StaleWorkIsDropped' /\ PausedHasNoWork'
  BY <1>13, <1>a DEF CheckStop, Goto
<1>14. ASSUME NEW t \in Threads, Submit(t)
      PROVE  HandOff' /\ StaleWorkIsDropped' /\ PausedHasNoWork'
  BY <1>14, <1>a DEF Submit, Goto
<1>15. ASSUME NEW t \in Threads, NextNonce(t)
      PROVE  HandOff' /\ StaleWorkIsDropped' /\ PausedHasNoWork'
  BY <1>15, <1>a DEF NextNonce, ShareDone
<1>16. ASSUME NEW t \in Threads, CheckPause(t)
      PROVE  HandOff' /\ StaleWorkIsDropped' /\ PausedHasNoWork'
  BY <1>16, <1>a DEF CheckPause, Goto
<1>17. ASSUME NEW t \in Threads, SolveCancelled(t)
      PROVE  HandOff' /\ StaleWorkIsDropped' /\ PausedHasNoWork'
  BY <1>17, <1>a DEF SolveCancelled, Goto
<1>18. ASSUME NEW t \in Threads, SolveFinds(t)
      PROVE  HandOff' /\ StaleWorkIsDropped' /\ PausedHasNoWork'
  BY <1>18, <1>a DEF SolveFinds, Goto
<1>19. ASSUME NEW t \in Threads, SolveDone(t)
      PROVE  HandOff' /\ StaleWorkIsDropped' /\ PausedHasNoWork'
  BY <1>19, <1>a DEF SolveDone, Goto
<1>20. ASSUME NEW t \in Threads, SkipSlot(t)
      PROVE  HandOff' /\ StaleWorkIsDropped' /\ PausedHasNoWork'
  BY <1>20, <1>b DEF SkipSlot, handOffVars
<1>21. ASSUME NEW t \in Threads, SubmitFails(t)
      PROVE  HandOff' /\ StaleWorkIsDropped' /\ PausedHasNoWork'
  BY <1>21, <1>b DEF SubmitFails, handOffVars
<1>22. ASSUME \/ Loop \/ Connect \/ ConnectFails \/ ReadFails \/ ReceiveJob
             \/ ReceiveOther \/ ReceiveReconnect \/ AuthRefused \/ EmitDone \/ LinkDrops
             \/ JoinWork \/ LeaveStartMining \/ JoinMiners \/ SigInt
             \/ UNCHANGED vars
      PROVE  HandOff' /\ StaleWorkIsDropped' /\ PausedHasNoWork'
  <2>1. UNCHANGED handOffVars
    BY <1>22 DEF handOffVars, WorkJoined, Loop, Connect, ConnectFails, ReadFails, ReceiveJob, ReceiveOther, ReceiveReconnect, AuthRefused,
       EmitDone, LinkDrops, JoinWork, LeaveStartMining, JoinMiners, SigInt, Reconnect, Emit
  <2>2. QED
    BY <2>1, <1>b
<1>23. QED
  BY <1>1, <1>2, <1>3, <1>4, <1>5, <1>6, <1>7, <1>8, <1>9, <1>10, <1>11, <1>12, <1>13, <1>14, <1>15, <1>16, <1>17, <1>18, <1>19, <1>20, <1>21, <1>22
  DEF Next, WorkThread, Slot, MinerStep, Control, SolveReturns, MainThread, Terminated

\* The strengthened invariant of the hand-off holds in every reachable state.
THEOREM HandOffCorrect == Spec => []HandOffInv
<1>1. Init => HandOff /\ StaleWorkIsDropped /\ PausedHasNoWork
  BY DEF Init, HandOff, StaleWorkIsDropped, PausedHasNoWork, Working
<1>2. QED
  BY <1>1, TypeInit, TypeStep, HandOffStep, PTL DEF Spec, HandOffInv

\* A thread on a job its slot has replaced has its solver cancelled and will
\* see the new work or the pause: no interleaving of the slot's stores with
\* the thread's compare-exchange leaves it on stale work.
THEOREM StaleWorkDropped == Spec => []StaleWorkIsDropped
<1>1. HandOffInv => StaleWorkIsDropped
  BY DEF HandOffInv
<1>2. QED
  BY <1>1, HandOffCorrect, PTL

\* A paused thread finds no work to take up.
THEOREM PausedFindsNoWork == Spec => []PausedHasNoWork
<1>1. HandOffInv => PausedHasNoWork
  BY DEF HandOffInv
<1>2. QED
  BY <1>1, HandOffCorrect, PTL

\* Two threads never try the same nonce.
THEOREM SearchDisjoint == Spec => []DisjointSearch
<1>1. TypeOK /\ InShare => DisjointSearch
  <2> SUFFICES ASSUME TypeOK, InShare,
                      NEW t \in Threads, NEW u \in Threads,
                      pc[t] \in {"solve", "submit"}, pc[u] \in {"solve", "submit"}, t # u
               PROVE  nonce[t] # nonce[u]
    BY DEF DisjointSearch
  <2>1. /\ FirstNonce(t) <= nonce[t] /\ nonce[t] < NonceEnd(t)
        /\ FirstNonce(u) <= nonce[u] /\ nonce[u] < NonceEnd(u)
        /\ nonce[t] \in Nat /\ nonce[u] \in Nat
    BY DEF TypeOK, InShare, Working
  <2>2. /\ FirstNonce(t) \in Nat /\ NonceEnd(t) \in Nat
        /\ FirstNonce(u) \in Nat /\ NonceEnd(u) \in Nat
    BY ShareNonEmpty
  <2>3. CASE t < u
    BY <2>1, <2>2, <2>3, SharesDisjoint
  <2>4. CASE u < t
    BY <2>1, <2>2, <2>4, SharesDisjoint
  <2>5. t \in Int /\ u \in Int
    BY MinerAssumption DEF Threads
  <2>6. QED
    BY <2>3, <2>4, <2>5
<1>2. QED
  BY <1>1, TypeInit, TypeStep, PTL DEF Spec

----------------------------------------------------------------------------
(* The end of the threads and the slots of the work thread.                *)

\* Why no slot runs for a thread that has ended, in a session the pool does not
\* refuse: threads end only once they are told to, they are told to only when
\* the work thread has been joined, and a joined thread runs no slot.
AliveInv ==
  /\ ~running => main # "run"
  /\ (\E t \in Threads : ~active[t]) => wt = "ended"
  /\ \A t \in Threads :
       /\ pc[t] = "ended" => ~active[t]
       /\ slot[t] # "idle" => wt = "emit" /\ t \in todo

\* What AliveInv speaks of.
aliveVars == <<running, main, active, wt, pc, slot, todo>>

\* The steps of the work thread: an emission starts with every slot done and
\* ends so, and the thread's end is its last step.
LEMMA AliveWork ==
  ASSUME TypeOK, AliveInv, ~AuthMayFail, WorkThread
  PROVE  AliveInv'
<1> USE DEF TypeOK, AliveInv, At
<1>1. CASE Loop
  BY <1>1 DEF Loop, linkVars, mainVars, threadVars, signalVars
<1>2. CASE Connect
  BY <1>2 DEF Connect, mainVars, threadVars, signalVars
<1>3. CASE ConnectFails \/ ReadFails \/ ReceiveJob \/ ReceiveReconnect
  <2>1. wt \in {"connect", "read"} /\ wt' = "emit"
    BY <1>3 DEF ConnectFails, ReadFails, ReceiveJob, ReceiveReconnect, Reconnect, Emit
  <2>2. UNCHANGED <<running, main, active, pc, slot>>
    BY <1>3 DEF ConnectFails, ReadFails, ReceiveJob, ReceiveReconnect, Reconnect, Emit,
       mainVars, threadVars
  <2>3. \A t \in Threads : slot[t] = "idle" /\ active[t]
    BY <2>1
  <2> QED BY <2>1, <2>2, <2>3
<1>4. CASE ReceiveOther
  BY <1>4 DEF ReceiveOther, linkVars, mainVars, threadVars, signalVars
<1>5. CASE EmitDone
  BY <1>5 DEF EmitDone, linkVars, mainVars, threadVars, signalVars
<1>6. ASSUME NEW t \in Threads, Slot(t)
      PROVE  AliveInv'
  <2>1. /\ wt = "emit" /\ UNCHANGED <<running, main, active, wt, pc>>
        /\ slot[t] # "idle" \/ t \in todo
    BY <1>6 DEF Slot, SkipSlot, LoadJob, SetReady, CancelForJob, ClearReady, CancelForNull, Pause,
       linkVars, mainVars, threadVars
  <2>2. \A u \in Threads \ {t} : slot'[u] = slot[u] /\ (u \in todo' <=> u \in todo)
    BY <1>6 DEF Slot, SkipSlot, LoadJob, SetReady, CancelForJob, ClearReady, CancelForNull, Pause
  <2>3. slot'[t] # "idle" => t \in todo'
    BY <1>6 DEF Slot, SkipSlot, LoadJob, SetReady, CancelForJob, ClearReady, CancelForNull, Pause
  <2> QED BY <2>1, <2>2, <2>3
<1> QED BY <1>1, <1>2, <1>3, <1>4, <1>5, <1>6 DEF WorkThread, AuthRefused

\* The steps of a solver thread: it ends only when it is told to.
LEMMA AliveMiner ==
  ASSUME TypeOK, AliveInv, NEW t \in Threads, MinerStep(t)
  PROVE  AliveInv'
<1>1. UNCHANGED <<running, main, active, wt, slot, todo>>
  BY DEF MinerStep, Control, SolveReturns, Register, WaitActive, TakeWork, NoWork, ClearCancel,
     CopyJob, CheckStop, Submit, SubmitFails, NextNonce, CheckPause, SolveCancelled, SolveDone,
     SolveFinds, signalVars, linkVars, mainVars
<1>2. /\ pc'[t] = "ended" => ~active[t] \/ pc[t] = "ended"
      /\ \A u \in Threads \ {t} : pc'[u] = pc[u]
  BY DEF MinerStep, Control, SolveReturns, Register, WaitActive, TakeWork, NoWork, ClearCancel,
     CopyJob, CheckStop, Submit, SubmitFails, NextNonce, CheckPause, SolveCancelled, SolveDone,
     SolveFinds, Goto, threadVars, TypeOK
<1> QED BY <1>1, <1>2 DEF AliveInv

\* In a session the pool does not refuse, the work thread runs no slot of a
\* thread that has ended, whenever the user interrupts and whatever is lost.
THEOREM SlotsOfLivingThreads ==
  ASSUME ~AuthMayFail
  PROVE  Spec => []SlotThreadAlive
<1>1. Init => AliveInv
  BY DEF Init, AliveInv
<1>2. TypeOK /\ AliveInv /\ [Next]_vars => AliveInv'
  <2> SUFFICES ASSUME TypeOK, AliveInv, [Next]_vars PROVE AliveInv'
    OBVIOUS
  <2>1. CASE WorkThread
    BY <2>1, AliveWork
  <2>2. ASSUME NEW t \in Threads, MinerStep(t) PROVE AliveInv'
    BY <2>2, AliveMiner
  <2>3. CASE JoinWork
    BY <2>3 DEF JoinWork, WorkJoined, AliveInv, TypeOK, threadVars, signalVars
  <2>4. CASE LeaveStartMining
    BY <2>4 DEF LeaveStartMining, AliveInv
  <2>5. CASE SigInt
    BY <2>5 DEF SigInt, AliveInv, threadVars, signalVars
  <2>6. CASE LinkDrops \/ JoinMiners \/ UNCHANGED vars
    <3>1. UNCHANGED aliveVars
      BY <2>6 DEF LinkDrops, JoinMiners, vars, aliveVars, threadVars, signalVars, linkVars, mainVars
    <3> QED BY <3>1 DEF AliveInv, aliveVars
  <2> QED BY <2>1, <2>2, <2>3, <2>4, <2>5, <2>6 DEF Next, MainThread, Terminated
<1>3. TypeOK /\ AliveInv => SlotThreadAlive
  BY DEF AliveInv, SlotThreadAlive, TypeOK
<1> QED BY <1>1, <1>2, <1>3, TypeCorrect, PTL DEF Spec
=============================================================================
