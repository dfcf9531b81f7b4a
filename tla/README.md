# Verification of the Aion solo miner and pool

This directory holds TLA+ models of the two programs of this repository, the
reference miner (`aion_reference_miner`, C++) and the solo pool
(`aion_solo_pool`, Node.js), TLC configurations that check them on small
instances, and theorems about them checked by TLAPS.

File names below are shortened: `AionStratum.cpp` and `StratumClient.cpp` are in
`aion_reference_miner/aionminer/libstratum/`; `pool.js`, `jobManager.js`,
`blockTemplate.js`, `stratum.js`, `daemon.js` in
`aion_solo_pool/local_modules/stratum-pool/lib/`; `shareProcessor.js`,
`poolWorker.js`, `paymentProcessor.js` in `aion_solo_pool/libs/`; `cpu_tromp.cpp`
and `equi_miner_210.h` in `aion_reference_miner/cpu_tromp/`; `equi_miner.cu` in
`aion_reference_miner/cuda_tromp/`; `equi210.cpp` in
`aion_solo_pool/local_modules/equihashverify/src/equi/`.

## 1. The system

    coin daemons  <-- HTTP JSON-RPC -->  pool worker  <-- TCP, stratum -->  miner
                                            |                                |
                                          redis                       solver threads

A **miner** process has one *work thread* that owns the connection and one
*solver thread* per CPU or GPU solver. The work thread reads a line at a time,
answers the handshake and, for each new job, emits a boost signal whose slots
hand the job to the solver threads; a solver thread writes its solutions to the
socket itself.

A **pool worker** is a single-threaded event loop. It polls the coin daemons for
block templates, turns new ones into numbered jobs, broadcasts them to the
connected clients, judges the shares the clients submit, sends the block of each
good share to every daemon, asks a second later whether the chain has it, and
then records the share in redis. A master process replaces a worker that dies.

### Inventory

| Part | State it keeps | Operations | Interacts with |
|---|---|---|---|
| Solver threads (`AionStratum.cpp`) | `workReady`, `cancelSolver`, `pauseMining`, the job in the slot and the copy of it, the nonce, `minerThreadActive` | take work, solve, submit, advance the nonce, pause, stop | slots run in the work thread; the socket; the main thread |
| Stratum client (`StratumClient.cpp`) | `m_connected`, `m_authorized`, `m_running`, `p_current`, `m_responseBuffer`, `m_requestBuffer` | connect, reconnect, read, handshake, notify, submit, disconnect | stratum server; solver threads |
| Job manager (`jobManager.js`, `blockTemplate.js`) | `currentJob`, `validJobs`, the job counter, the submissions of each job | process a template, process a share | pool |
| Pool (`pool.js`, `daemon.js`) | the calls to daemons that have not been answered | poll, submit a block, check a block, emit a share | daemons, job manager, stratum server, share processor |
| Share processor (`shareProcessor.js`) | redis: `shares:roundCurrent`, `shares:round<height>`, `blocksPending` | one MULTI per share | payment processor |
| Stratum server (`stratum.js`) | the clients: extraNonce1, authorization, last activity; banned addresses | subscribe, authorize, submit, broadcast, time out, ban | clients, pool, daemons (authorization) |
| Start-up and supervision (`init.js`, `poolWorker.js`, `pool.js` 43-480) | which worker runs what | a chain of daemon calls; fork, replace | daemons, redis |
| Payments (`paymentProcessor.js`) | redis, wallet | the payment run | share processor, daemon; not started by `init.js` 427-436 at this commit |
| CPU solver (`equi_miner_210.h`, `cpu_tromp.cpp`) | two heaps of slots, the stored solutions | ten rounds, recovery of indices, reports | its solver thread |
| CUDA solver (`equi_miner.cu`) | the same on a device, kept from solve to solve; counters of two heaps | ten kernels, recovery of indices, reports | its solver thread |
| Equihash verifier (`equi210.cpp`) | none | judge a solution | job manager |

`PROJECT.json` lists the rest with the reason why it is not modelled: profit
switching, website, statistics, MPOS, the command line listener, the P2P peer,
variable difficulty, vendored code.

### What is hard here

- **Interleaving of threads**: the hand-off of a job goes through three atomics
  of which the solver thread reads two without the mutex the slot holds.
- **Ordering**: each call to a daemon is a request of its own, so answers to
  polls, submissions and checks arrive in any order; a client may be sent a job
  before its subscription is answered; authorization waits for a daemon.
- **Connection loss and restarts**: the client keeps its last job and whatever
  bytes it had read; a restarted worker counts its jobs from 1 again.
- **Partial failure**: one of several daemons fails a call, or never answers it;
  a payment is sent and its record is not written; news of a ban meets a worker
  that is just starting.
- **Reuse**: job numbers wrap; the key of a round is its height.
- **Boundaries**: buckets and lists of solutions with fixed room, masks and sizes
  written out by hand for each round over a hash of 210 bits.
- **Stale state**: a thread solves for seconds on a copy of a job.
- **Termination**: three kinds of threads are joined in a certain order.

`PROJECT.json` lists these hazards one by one, each at its line, with the
properties that would notice it going wrong, or why none covers it yet.

### What makes each part correct

- Solver threads: nobody stays on a stale job (`StaleWorkIsDropped`,
  `StaleWorkEnds`), new work is taken up (`NewWorkIsTaken`), a lost connection
  idles them (`PausedHasNoWork`, `LossIdlesThreads`), they search disjoint nonces
  (`DisjointSearch`), and a stop ends the process (`StopEndsProcess`).
- Job manager: miners are never taken back to a lower block (`OnHighestSeen`),
  a job number stands for one job as long as it can be (`NumberStandsForJob`), a
  submission is credited once (`CreditedOnce`).
- Pool and redis: what is counted was accepted by every daemon
  (`CountedWasAccepted`), in one round only (`ShareInOneRound`); what is booked
  for payment was mined (`PendingWasMined`); miners settle on the chain's last
  block (`SettlesOnTip`); a credited share is recorded (`CreditedIsRecorded`); all of
  it together is a ledger of shares and rounds (`KeepsLedger`).
- Payments: whatever goes wrong, miners do not lose by it unless they mine under two names
  of one address (`NeverUnderpaid`), nobody is paid more than the chain gave unless a run
  was cut off or overlapped (`PaidWithinRewards`), and the shares of orphaned blocks come
  back where redis takes them (`SharesConserved`, `RoundKept`).
- Stratum servers: a ban reaches every worker (`BanKnown`) and ends (`HonestReturns`).
- Start-up: one server, with a job (`OneServer`); daemons that have yet to sync are
  waited for (`SyncingIsAwaited`); the pool comes to serve or is stuck for a reason
  the code is known to have (`GetsGoing`).
- Solvers and verifier: what is found is accepted (`ReportsAreAccepted`), everything is
  found (`SolversFindAll`), each round reads its own digit (`EachRoundReadsItsDigit`), and no
  tree node is overwritten (`TagsAreKept`).
- Session: the handshake ends (`HandshakeCompletes`), later jobs are searched
  with the session's own nonce (`RefusedOnlyEarly`) and reached
  (`NextJobReaches`).

## 2. The modules

| Module | Models | Uses |
|---|---|---|
| `MinerThread` | the threads of the miner and the hand-off of work | |
| `MinerThreadProofs` | theorems about it | `MinerThread`, TLAPS |
| `JobManager` | templates, job numbers, verdicts on shares | |
| `ShareProcessor` | the redis transaction that records a share | |
| `RoundLedger` | abstract: shares entered once, rounds closed for good | |
| `Pool` | templates and blocks between the daemons, the job manager and redis | `JobManager`, `ShareProcessor`; implements `RoundLedger` |
| `PoolProofs` | theorems about the job manager and the pool | `Pool`, TLAPS |
| `StratumSession` | client and server at the two ends of a connection | |
| `StratumSessionProofs` | theorems about it | `StratumSession`, TLAPS |
| `StratumServer` | several workers, their clients and the bans they share | |
| `StratumServerProofs` | theorems about it | `StratumServer`, TLAPS |
| `PoolStartup` | the start of a pool over daemons that come and go | |
| `PoolStartupProofs` | theorems about it | `PoolStartup`, TLAPS |
| `Payments` | the payment run over redis and the wallet | `Sums` |
| `Sums` | the sum of a function's values over a finite set | |
| `SumTheorems` | facts about such sums | `Sums`, TLAPS |
| `PaymentsProofs` | theorems about the payments | `Payments`, `SumTheorems` |
| `EquihashVerifier` | the puzzle, and the pool's verifier, at any size | |
| `Equihash` | a solve of the CPU solver | `EquihashVerifier` |
| `EquihashCuda` | solves of the CUDA solver on one device | `EquihashVerifier` |
| `EquihashLayout` | where the solvers keep hashes and tree nodes, at their real size | |
| `EquihashSolvers` | both solvers against one puzzle and one verifier | `Equihash`, `EquihashCuda`, `EquihashLayout` |
| `EquihashProofs` | theorems about the solvers and the layout | `EquihashSolvers`, `SumTheorems` |
| `MC...` | constants and compositions for TLC | |

### MinerThread

`pc[t]` is where `AionMinerThread` is: `wait` (the outer loop, waiting for work),
`cas` (the compare-exchange on `workReady`), `clear` (the store to `cancelSolver`
after it), `copy` (the block under the mutex), `check` (the inner loop's
condition), `solve`, `submit`, `next` (the nonce is advanced) and `pause`. `slot[t]`
is how far the slot of thread `t` is, one atomic store at a time; the mutex is held
whenever it is not `idle`. `wt` is the work thread: `top`, `connect`, `read`, `emit`.
`Emit` fixes which slots a signal will call when it is emitted, and a slot is
passed over when the thread's tracked mutex has gone, as boost::signals2 does.

| Action | Code |
|---|---|
| `LoadJob`, `SetReady`, `CancelForJob` | the slot for a job, `AionStratum.cpp` 111-132 |
| `ClearReady`, `CancelForNull`, `Pause` | the slot for a null job, same lines |
| `TakeWork`, `NoWork`, `ClearCancel`, `CopyJob` | `AionStratum.cpp` 138-174 |
| `CheckStop`, `Solve...`, `Submit`, `SubmitFails` | the inner loop and its handlers, `AionStratum.cpp` 364-407; `cpu_tromp.cpp` 29-97 |
| `NextNonce`, `CheckPause` | `AionStratum.cpp` 382-400 |
| `Loop`, `Connect`, `ConnectFails`, `Read...`, `Receive...` | `workLoop`, `connect`, `reconnect`, `processReponse` |
| `AuthRefused` | `disconnect()` called from the work thread, which cannot join itself |
| `SigInt`, `JoinWork`, `LeaveStartMining`, `JoinMiners` | `main.cpp` and the destructors |

Abstracted: the header, target and time of a job (a job is a number), the
solutions (a solve returns some number of them, or is cancelled), the size of a
thread's share of the nonces (`NonceRange`; 2^88 in the code).

### JobManager

`jobs` is every job ever made, oldest first, and `validJobs` maps the number a miner
uses to the job it stands for; entries are only ever replaced, as in the code.
`counter` wraps at `CounterWrap` (0xffff). A template is the block it builds on.
`ProcessTemplate` is `processTemplate` (a template with the current parent
changes nothing; one on a lower block only leaves a trace in `seen`, which records
what was received and is not in the code). `ProcessShare` is `processShare` with its
checks in the code's order: unknown job, sizes and hex digits, duplicate, then
solution and target. The submission is registered before it is judged, so a bad
share spoils its key. `log` records the outcome and is only read by properties.

### ShareProcessor and Pool

`HandleShare` is the MULTI of `shareProcessor.js`: the share is added to the current
round, and when its block is accepted RENAME makes the current round the round
of the block's height. A tally of difficulties is the set of shares in it. RENAME
of a round that does not exist cannot happen here: the share has just been added.

`Pool` adds the daemons. `chain` is their best chain, which grows by blocks of others
(`OthersFind`), by the pool's own (`ReplySubmit`), and may replace its last block
(`Reorganize`). `flight` counts the answers to getblocktemplate on their way, per
block they build on: `AnswerTemplate` when the daemon reads the chain,
`DeliverTemplate` when the pool processes the answer, at any later time.
`SubmitShare` is the share event: a rejected share is recorded at once, a credited
one goes to stage `submitting`, to `checking` when all daemons have answered without
error, or `lost` when one answered with an error or `rejected`; `CheckBlockAccepted`
records it as a block or as a plain share; its request and the answer are one step, as
nothing that it decides on changes between them but the chain, which may change before
it as well. Each reply may be lost independently of
whether the daemon took the block. The header of a job identifies it on the
chain, whichever solution its block carries; that is what `HeaderOnChain` compares.

### StratumSession

Two FIFO channels between a client and the server, cut by `LinkDrops` or
`NewBlockTimesOut` (the server destroys a client without shares for
`connectionTimeout`), noticed by each end separately (`ServerCloses`, `ReadFails`),
and opened again by `Connect`. `registered` is membership in `stratumClients`, from the
moment of the connection on. `nonce1` is what the miner searches with; `parseJob` puts
it in a job when the job arrives, not when it is searched. `leftover` is half a line
in `m_responseBuffer`: it is not cleared on a reconnection and swallows the first
line of the next connection (`ReadGarbled`). `PoolRestarts` is a worker replaced by the
master: its clients and jobs are gone, its job counter starts again, its
extraNonce1 values come from another random instance and so are never used again.
`solving` follows `given` some time later: that step is what `MinerThread` is about.

Abstracted: the reply to the third handshake message changes nothing on either
side; the worker is accepted (a refusal is in `MinerThread`); a share is invalid
exactly if its job number means another job now or the nonce is not the
session's, since the server puts its own extraNonce1 in front of what is sent.

### RoundLedger

What remains of `Pool` when the daemons, templates and replies are taken away:
`Count` enters a credited share into the open round, `Close` ends the round with the
share that found its block. `Pool` substitutes the recorded shares, `roundCurrent`,
the rounds by height and `blocksPending` (`Ledger` in `Pool`). That a second block of
a height replaces the round of the first is part of the ledger, because the code
does it; `RoundsKeepShares` is the promise without that clause, and fails.

### StratumServer

`worker[f]` is a fork of the pool, `bannedIPs[f]` the bans it knows, each with its age.
`Connect` runs `checkBan`, which forgives an old ban and destroys the socket of a banned
client; the client stays in the list until `Close`. `Submit` is a chunk of several
messages read at once: the loop over them goes on after the one that raised a ban
and destroyed the socket, so a chunk can raise it twice. The counts run over the
whole connection because the reset in `considerBan` goes to the wrong object
(`stratum.js` 51). A ban travels by `Relay` (`init.js` 229-239) and `Deliver`
(`poolWorker.js` 24-32), in queues that a crash cuts off at any place. `Tick` is longer
than `banning.time` milliseconds, so `Purge` removes every ban that is a tick old
although the configuration gives `banning.time` in seconds (`stratum.js` 432).
`AnswerThrows` is a daemon's error in the answer to `validateaddress`, the crash of
a worker this module is about. `inForce` and `excused` are history: the last ban of
each address, and the workers that could not know of it.

### PoolStartup

`phase` is the step of `start()`; `asked` and `answers` are the outstanding and collected
answers to its call. A daemon is in one of six conditions, which `Change` changes at any
time, and answers by the condition it is then in. `cmd` collects all answers
before it calls back, but streams those of the first `getblocktemplate`
(`FirstTemplate`). `isOnline` looks at a field that does not exist, so every daemon is
online. `DetectThrows`, `ReportInfo`, `ReportPeers` and `BlockNotice` are the four
exceptions of this sequence; an exception ends the process (`Crash`) and the master
forks it again. `NeverAnswered` is an answer that `performHttpRequest` drops
without a callback; a worker that waits for it, or one whose templates all were
errors, is `Stuck`. Abstracted: the progress figures; which of the coin's data is
missing; ports that cannot be opened.

### Payments

A run is at `details`, `shares`, `send` or `update`, with what it has read so far; these
and the start are the five callbacks of the waterfall in `processPayments`. Several
runs can be under way, since the interval does not wait. `SendMany` has four
outcomes: paid, paid with the answer lost, refused, and asked again with a part
withheld. `Update` is the last MULTI or the throw of `moveSharesToCurrent` when the
round of an orphan is gone. `RecordShare` and `FindBlock` are the pool's own writes
in between. `status` is the daemon's word on a block, `due` the round it closed; `events`
records what has gone wrong, so that a property can say which faults it survives
and which it does not. One coin amount is one unit: the wallet's rounding
to coins is left out, the floor of each reward is kept.

A worker is the name shares are submitted under; `AddressOf` is what `getProperAddress`
makes of it (516-521), and two names may have one address. `addressAmounts` has one
amount for an address, the last one assigned (364), so `SendMany` pays some one of the
names of each address (`LastOfAddresses`) and books all of them as paid; `displaced` records
what the others were booked for.

Difficulties are in billionths, the nine decimals of `blockTemplate.js` 62; `Unit` of them
are 1. HINCRBYFLOAT adds a share's difficulty to its tally (`shareProcessor.js` 74), but
HINCRBY gives an orphan's tallies back (439), and redis refuses that where the tally or
the field it is added to is no whole number. The other commands of the MULTI are carried
out, the DEL of the round (478) among them, and `exec` reports no error: `Taken` is what
redis takes, and `unmerged` records what it does not. `fractional` are the workers with a
share of a difficulty that is not whole. A difficulty is never zero here: nine decimals
round to zero only below a network difficulty of about 3.

### EquihashVerifier, Equihash, EquihashCuda, EquihashLayout and EquihashSolvers

`EquihashVerifier` has what the solvers are judged by. A hash is `K + 1` digits and one
more for the bits that fill its last byte; a digit has bucket bits and rest bits.
`IsValidSolution` is the pool's verifier, translated from its own source; `Solutions` is
the puzzle itself, from its definition. The xor of digits is a constant: all that either
side uses of it is that its arguments can be exchanged and that it is zero for equal
digits only (`PuzzleAssumption`). TLC gets the real one, from `Bitwise`.

`Equihash` is one solve of the CPU solver. `Digit0` distributes the hashes over the
buckets, `Digit` combines every pair with equal rest bits, nearest first, and drops the
xors whose last word is zero; the last word is all `equal` looks at, and it holds
the filling too. `DigitK` compares the last digit and recovers the indices from the tree
nodes, with the code's own tests for repeats (`ProbDisjoint`, `Genuine`) and its own order
(`Ordered`). `Report` hands out `nsols` solutions of which `MAXSOLS` are stored, as the code
does.

`EquihashCuda` is a sequence of solves on one device, whose memory outlives them. GPU
threads take slots with `atomicAdd` in any order, so a bucket is a set and `Place` keeps any
that fit; a slot carries the lists of indices its tree may give, more than one when two
halves begin with the same index. `Begin` clears the counters of heap 0 only, as
`setheadernonce` does; those of heap 1 are cleared by the round that reads them (`Counted`),
so `from` tells what a cancelled solve, or the memory before the first (`DeviceMemory`),
has left. `LeftOver` is what the next solve reads of it: what a first round left stands
where it is looked for, what a later odd round left lies further on in the heap, so there
the counters count slots that hold anything (`OldHeap`). `Candidate` has `probdupe`, with its false negatives. Host and device
take turns: kernels and copies are queued on one stream, and the host reads nothing
before the last kernel has ended.

`EquihashLayout` is the other half: at 210 bits and 9 rounds, `slots` says of every byte
of a slot of the two heaps which byte of the hash or which tree node it holds, and
`RestField` and `NextField` are the masks and shifts of `digit1` to `digit9`, byte by byte
as they are written out; those of the CUDA kernels are the same. The places are not:
`HashUnit` and `TagUnit` differ by `device`.

`EquihashSolvers` puts the three together for the run and the theorems: `device` says whose
solver it is, the slots are filled at their real size first (`FillSlots`), then tables are
solved at the sizes of the constants (`SolveCpu`, `SolveCuda`) while the other solver stays
as it was before its first round (`Idle`, `CudaInit`). Nothing else is shared.

## 3. The runs

| Run | Checks | Instance |
|---|---|---|
| `miner_threads` | TypeOK, StaleWorkIsDropped, PausedHasNoWork, DisjointSearch, SlotThreadAlive | 2 threads of 2 nonces, 2 jobs, 2 losses |
| `miner_liveness` | StaleWorkEnds, NewWorkIsTaken, LossIdlesThreads, StopEndsProcess | 1 thread, 2 jobs, 1 loss, a worker that may be refused |
| `miner_cancel_race` | finding: CurrentWorkRuns | 1 thread, 1 job |
| `pool` | PoolTypeOK, OnHighestSeen, NumberStandsForJob, CreditedOnce, ShareInOneRound, CountedWasAccepted, PendingWasMined, KeepsLedger | 2 daemons that may fail, 3 jobs with a counter that wraps at 3, 2 shares, 1 reorganization; symmetric daemons, times and rival blocks |
| `pool_liveness` | SettlesOnTip, CreditedIsRecorded | 2 daemons that answer, 6 jobs, 1 share |
| `pool_round` | finding: RoundsKeepShares | 1 daemon, 2 shares |
| `session` | SessionTypeOK, RefusedOnlyEarly, HandshakeCompletes, NextJobReaches | 3 jobs in each of 2 lives of the pool, 1 drop, 1 share |
| `session_reconnect` | finding: ConnectedGetsWork | 1 drop, 2 jobs |
| `server` | ServerTypeOK, BanKnown, HonestReturns | 2 workers, 2 miners behind one address, 2 shares of a connection in chunks of up to 2, banned from the first bad one on, 2 bans, 1 crash |
| `startup` | StartupTypeOK, OneServer, SyncingIsAwaited, GetsGoing | 2 daemons in every condition, 3 changes, 2 block notifications, 2 reports |
| `payments` | PaymentsTypeOK, NeverUnderpaid, PaidWithinRewards, SharesConserved, RoundKept | 2 runs, 3 blocks of 2 heights, 3 names of 2 addresses, 2 shares of difficulty 1 or 1 1/2, 1 fault |
| `equihash` | SolversTypeOK, ReportsAreAccepted, SolversFindAll (each for both solvers), EachRoundReadsItsDigit, TagsAreKept | 3 rounds, 9 hashes, 4-valued digits; CPU: 4096 tables, 5 slots, 1 stored solution; CUDA: 2 solves of 4 tables, 6 slots, 2 stored solutions, a clear and an unclear memory; the layout at full size |

Why the bounds are enough. The hand-off is between the work thread and one solver
thread; a second one is there for the order of the slots and for disjoint
nonces. Two jobs and two null jobs give every order of two consecutive slots. The
job counter wraps at 3 or 4 so that a number is used twice and the boundary of
`NumberStandsForJob` is met exactly. Two blocks of one height under a higher one
give late, rival and flip-flopping templates. Two shares are the fewest that
can share a round, and two daemons the fewest that can disagree. One drop and one
restart give a session, a reconnection to the same pool and one to a new one, in
both orders. `MaxJobs` bounds templates that become jobs; repeated and outdated
templates are unbounded. `pool_liveness` has as many jobs as the chain and one
reorganization can cause, so the bound never blocks a delivery.

Two workers are the fewest between which news of a ban can be lost, and two bans
let the second meet what the first has left; a chunk of two shares with a threshold
of one raises its ban once or twice, and half of them bad is just the limit. Two daemons disagree in the start; three
changes take one from a condition to another and back, and a crash of the worker
needs one. Two payment runs overlap; two blocks of a height and one above give the
orphan that keeps its round, the one that gives it back and the pair that meet; one
fault in each behaviour says which property which fault breaks. Two names of one address
and one with its own can share a round and a payment. A share weighs 2 or 3 halves
(`Unit` is 2), at most 5 together (`MaxRecorded`): a whole tally is given back to an empty or
a whole one, a fractional one is refused, and a whole one is refused for the field it
would be added to. Each of the
4096 tables of hashes is solved: among them are tables with several solutions, with
buckets that overflow, with repeated indices and with more solutions than are
stored.

Deadlock is checked in the runs of `MinerThread` and `Pool` and in `server`. The
others may stop: a session with nothing left to send, a worker that waits for an
answer that will not come, a solve that is done, payments that are switched off.

### What the violation runs show

1. **A job can be solved with its cancel flag up** (`miner_cancel_race`). The slot
   stores `workReady` and then `cancelSolver`; the thread takes the first and clears
   the second before the slot stores it. The thread then solves nothing until the
   next job, which the code's own TODO (`AionStratum.cpp` 148) anticipates.
2. **A second solution of a job overwrites its round** (`pool_round`): both pass the
   header check and both rename the current round to the same key.
3. **A reconnected miner idles until the next block** (`session_reconnect`): the
   threads were given a null job, and the pool's current job has the number of
   `p_current`.

### Other disagreements met while modelling

They are in the models, as the code has them, and no run is spent on each.

- A write to a lost connection throws in the solver thread, whose handler calls
  `exit(0)` (`AionStratum.cpp` 404), while the work thread prints "Reconnecting in
  3 seconds..." (`StratumClient.cpp` 194): `SubmitFails` of `MinerThread`.
- Templates of two blocks of one height alternate: the comment above `processTemplate`
  (`jobManager.js` 175-176) says a new block's height is greater, the code rejects
  smaller ones only, so each poll that meets the other fork makes a job: `IsNew`.
- One daemon's error drops a share whose block another daemon took (`pool.js` 252,
  324-327): stage `lost` of `Pool`.
- After a refused authorization the work thread fails to join itself and goes on,
  and the main thread ends the solver threads while a slot may still be running
  over their stacks. With `AuthMayFail = TRUE` TLC finds `SlotThreadAlive` violated; the
  run `miner_threads` checks it without refusals, where it holds because the work
  thread is joined first (`SlotsOfLivingThreads`).
- "reset shares" (`stratum.js` 50) resets nothing, and the removal of "old bans"
  (427) removes every ban at the first purge: `Rogue` and `Purge` of `StratumServer`.
- `isOnline` (`daemon.js` 42) takes every daemon for online: `Online` of `PoolStartup`.
- An overlap of two runs, a crash between sending and recording, or a lost answer
  pays a block twice; the part withheld for the fee is not put on the balance; two
  orphans of a height give their shares back twice. Those are the events the
  properties of `Payments` name as exceptions.
- Two names of one address in one payment: the wallet is asked to send the last one's
  amount only (`paymentProcessor.js` 364), and both are booked as paid (365, 423-424).
  `NeverUnderpaid` allows a name that shares its address to miss that amount and nothing
  else, and no other name to miss anything.
- The shares of an orphaned block are given back by HINCRBY (439), which redis refuses for
  fractions, and difficulties are fractions; the round is deleted all the same (478).
  `SharesConserved` counts those shares as `unmerged`, demands all others to be in a
  tally, and nothing to be refused of a worker whose difficulties were whole.
- Solutions beyond `MAXSOLS` are reported from past the end of `sols`
  (`cpu_tromp.cpp` 86): `Report` of `Equihash`.
- The CUDA solver clears the counters of heap 0 only (`equi_miner.cu` 260), though its
  memory is used again: after a solve that was cancelled behind an odd round the
  next one sorts what is left there, and may report what is no solution. A comment of the
  CPU solver (`equi_miner_210.h` 447) says that only those need zeroing, which is so
  there, where every solve has new memory. `CudaReportedIsAccepted` excuses reports with
  leftovers in them; `CudaFindsAll` shows that they cost no solution but by the room
  they take, `CudaTypeOK` that a solve that ends leaves none.

### Fairness, and why the code justifies it

- Miner: the operating system schedules threads, so each step that is enabled
  for ever is taken (WF) - the slots, the control steps of a solver thread, the
  main thread's joins. `SF` on `SolveReturns`: a call of the solver tries finitely many
  candidates, so it cannot find solutions for ever. `SF` on `TakeWork`: a weak
  compare-exchange fails spuriously but not always. Messages, signals and losses
  are never forced.
- Pool: the polling timer fires for ever and the daemons answer each call (WF on
  `AnswerTemplate`, each `DeliverTemplate` and `Recording`). Miners need not submit
  and others need not find blocks. In this run the daemons do not fail.
- Session: both ends keep reading, the daemon answers an authorization, the
  client tries again every three seconds, and the solver threads come to their
  work (which `miner_liveness` checks). New blocks, losses, restarts and shares
  are never forced.
- Server: an honest miner connects whenever it is away, the daemon answers its
  authorization, messages between processes are read, a dead worker is forked
  again after two seconds, the purge timer runs and time goes on. Shares,
  crashes and the other miners' connections are never forced.
- Start-up: each outstanding answer comes or is known never to come (WF on each
  daemon's `Reply`), the five-second and two-second timers fire, ports open. Changes
  of the daemons and block notifications are never forced.
- `Payments`, `Equihash` and `EquihashCuda` state no liveness: a payment run is started by a timer
  again and again, and a solve is a terminating computation whose result is
  checked at its end.

## 4. What is proved

For every value of the constants allowed by the modules' assumptions
(`MinerAssumption`: at least one thread and one nonce each;
`JobManagerAssumption`: heights are numbers and the counter wraps at 2 or more;
`PoolAssumption`: the chain starts at height 1 and every block a job can be for
has a height that rounds are kept for; `StartupAssumption`: at least one daemon,
finitely many; `SessionAssumption`,
`ServerAssumption` and `PaymentsAssumption`: the bounds are numbers, the ban threshold, the
ban time and the minimum payment are not zero, nor is a job's difficulty or the unit it is
counted in, workers, blocks and runs are finitely many;
`PuzzleAssumption`: an odd number of rounds, as the code asserts, digits that are not empty,
and an xor as described above; `EquihashAssumption` and `CudaAssumption`: buckets have a
slot, the inputs are tables of hashes, the device's memory holds no more slots than there
is room for, and on the device there are three rounds or more - the code has nine - so
that what was left in heap 1 is read by the second round and not by the last).

**MinerThreadProofs.** `TypeCorrect` (with `InShare`: a thread at work has not passed
the end of its share), `HandOffCorrect`, and from it `StaleWorkDropped`,
`PausedFindsNoWork` and `SearchDisjoint`. None of these is inductive by itself: in
the middle of a slot the flags already promise what the job does not yet show.
`HandOffInv` adds what a thread can rely on after each store of the slot: after
`pauseMining` was cleared nobody is paused; after `workReady` was set a thread that was
working still has it set, because it cannot pass the mutex; after it was cleared by
a null job nobody sets it. `SearchDisjoint` rests on `SharesDisjoint`, the arithmetic of
`[t * NonceRange, (t + 1) * NonceRange)`.

**PoolProofs.** Of the job manager: `TypeCorrect`; `HighestSeen` (`OnHighestSeen`), strengthened by: no
template has been seen while there is no job; `NumbersStandForJobs`
(`NumberStandsForJob`), strengthened by an explicit formula for the number of each of
the last `CounterWrap - 1` jobs, counted back from the counter through the wrap, so
that the next number is exactly the one of the job that drops out;
`NeverCreditedTwice` (`CreditedOnce`), strengthened by: the key of every credited share
is in the submissions of its job (`CreditRegistered`).

Of the pool: `PoolImplementsJobManager`: every behaviour of `PoolSpec` is one of
`JobManager`'s `Spec`, so its theorems hold inside the pool
(`PoolKeepsHighestAndCredit`). `SharesInOneRound`, `CountedSharesAccepted` and the
tallies' types come from `RecordingInv`, which places every share by its stage:
counted means recorded, rejected ones are in no tally, and a share past
`submitting` has a good reply of every daemon. `BookedBlocksMined` comes from
`PendingInv`: the block at each height of the chain has that height, its maker is a
share that exists, and what was booked keeps its block even when a reorganization
takes that off the chain. `PoolTypeCorrect` combines them. `PoolKeepsLedger` is the
refinement: under `RecordingInv` the record of a credited share, as a plain share or as
a block, is a `Count` or a `Close` of `RoundLedger`, and every other step of the pool
leaves the ledger alone.

**PoolStartupProofs.** `StateCorrect` shows `StateInv`: `StartupTypeOK`, the types of the
reports in flight, and that a dead worker has no job. `ServerIsOne` (`OneServer`) is
then inductive: a server is made where the first job is, and the phase it is made
in is left for good by it. `SyncingAwaited` needs `SteadyInv`, which says why a start
whose daemons only sync goes on: in every phase that waits for answers they are
outstanding or collected, a daemon that has said it is synced is still up, and so
when the last one says so all of them will answer the first `getblocktemplate`.

**MinerThreadProofs**, again: `SlotsOfLivingThreads` (`SlotThreadAlive`) holds for
sessions the pool does not refuse, `~AuthMayFail`; with refusals it is false.
`AliveInv` gives the order behind it: a thread ends only once it is told to, it is told
to only when the work thread has been joined, and a joined thread runs no slot.

**StratumSessionProofs.** `SessionCorrect` shows `SessionInv`, what each end may conclude
from the two channels: no job on its way is younger than the pool's (`JobsInv`); the
subscription is asked for once, and answered before the authorization is asked for
(`SubscriptionInv`); while that answer is on its way all work at the miner's end is on early
jobs (`AnswerInv`); and from the authorization on the miner holds the session's nonce and
has it in all work but the early (`AuthorizationInv`). `SessionTyped` is read off it.
`OnlyEarlyRefused` (`RefusedOnlyEarly`) is then inductive, as a share is judged against the
nonce of a session it either belongs to or is early for.

**StratumServerProofs.** `ServersCorrect` shows `ServerInv`, from which `ServersTyped` follows:
no connection stays open with counts that call for a ban, since each message of a
chunk is considered. `BansReachAll` (`BanKnown`) is not inductive: it speaks only of workers
that serve. `KnownInv` (`EveryWorkerInformed`) speaks of all that are not excused, and says
that the ban a worker knows is as young as the one in force, so that it cannot be
forgiven there too early.

**SumTheorems.** `SumOn` is a fold of the community modules, a recursive function over
sets that CHOOSE picks. That such a function exists (`AddsExists`) and that any two
agree (`AddsAgree`) is proved by well-founded induction on finite sets, written out as
"a smallest counterexample has none smaller" (`SubsetMin`), because the library's
induction theorems cannot be cited. `SumRemove` says that the order does not matter;
the others are what amounts of money need: monotone, additive, over unions and images, by
rows or by columns, and closed (`SumClosed`): a sum of wholes is whole.

**PaymentsProofs.** The properties of `Payments` hold as long as certain events have not
happened, and so do the invariants behind them, which build on each other:

| Invariant | while there was no | says | for |
|---|---|---|---|
| `BooksInv` | | what redis and the runs hold; a run pays for mature blocks only and merges only orphans alone at their height | `BooksTyped` |
| `KeepInv` | late block | a run has all pending blocks of a height or none; a round is gone only when its block cannot be paid for | `RoundsKept` |
| `DistinctInv` | late block, overwrite | the pending blocks have different heights, and each its own round | |
| `CoverInv` | the same | the rewards a run holds cover what its blocks, as far as still pending, owe | |
| `CreditInv` | the same, withheld fee | what was sent, displaced or is on the balance covers what is owed and what runs have sent but not yet taken down | `NobodyUnderpaid` |
| `OwnInv` | | a name that has its address for itself is displaced from nothing | `NobodyUnderpaid` |
| `AloneInv` | overlap | one run at a time, whose blocks stay pending | |
| `LedgerInv` | overlap, late block, overwrite | every tally there is belongs to a pending block, a run merges all its orphans' rounds, and the shares add up, with those redis did not take | `SharesKept` |
| `WholeInv` | | all tallies of a worker whose difficulties were whole are whole, those a run holds too, and none was refused | `SharesKept` |
| `MoneyInv` | overlap, crash, lost answer | no balance is negative, and money sent or on a balance was earned by confirmed blocks, or by those a run is about to confirm | `PaidFromRewards` |

`OwnInv` and `WholeInv` say that what `displaced` and `unmerged` excuse is no more than the
code's two faults: `OwnInv` because the last amount of an address is some name's, `WholeInv`
because sums of whole tallies are whole (`WholeMerge`).
`CreditInv` needs no assumption on overlaps: two runs that pay for the same block both
count as credit until they take it down. `MoneyInv` changes its form when redis fails:
from then on the balances may be stale, but no run starts any more, and the bound on what
was sent is kept as it is. `RoundWithinReward`, that the workers' parts of a round,
each rounded down, are no more than the block's reward, is where the arithmetic is.
`RoundsKept` was found while proving to hold through overlaps too; the property of the run
no longer excepts them.

**EquihashProofs.** For every number of rounds, size of digits and buckets, and table of
hashes. The three specifications are proved one by one (`SolveCorrect`, `CudaCorrect`,
`LayoutStep`), then together: `SolversOK` holds of both solvers at once, since a step of one
leaves the other as it was but for the table of hashes.

| Invariant | says | for |
|---|---|---|
| `TreeOK`, `HeapOK` | each tree node of round r names two slots of round r - 1, in order; a heap has the hash of each node of the last round, in the bucket of its next digit | `SolversTyped` |
| `AcceptOK` | for each slot whose list of indices has none twice, the verifier's loop run on that list so far gives one row: the slot's hash from the coming digit on, and the list | `ReportsCorrect` |
| `SolsOK` | what is stored is a list the verifier accepts; the first `MAXSOLS` reports are those | `ReportsCorrect` |
| `CompleteOK` | while no bucket has overflowed, each tree of the puzzle of the last round's height that is not taken for a repeat is in a slot, with its hash and list, and nothing of it was noted as a repeat | `AllSolutionsFound` |
| `DeviceOK`, `SlotsOK` | the heap that is to be written holds slots of older solves only; those of this solve in the other are in their buckets, and their lists are like those of `AcceptOK` | `SolversTyped`, `ReportsCorrect` |
| `SolutionsOK`, `CudaCompleteOK` | `SolsOK` and `CompleteOK` on the device, for slots of this solve among any others | `ReportsCorrect`, `AllSolutionsFound` |
| `LayoutOK` | the last `HashSize` bytes of a round's units hold the hash's last bytes, and every tree node written so far is there | `DigitsRead`, `TagsKept` |

Solver and verifier were written apart, and they do not do the same: the verifier merges
neighbours in a list and compares leading digits, the solver sorts by buckets and
recovers lists from nodes. `AcceptOK` is where they meet (`Verified`: some run of the
verifier's loop). Its step is that two lists that collide in the solver are a valid pair for
the verifier: that no index occurs in both comes from the whole list having none twice, and
that the first is not after the second from `Ordered` comparing first indices, which
then differ. `CompleteOK` needs the other direction, that `ProbDisjoint`, `Genuine` and `probdupe`
never take a list without repeats for one with them; `ProbDisjoint` is tested on even
rounds only and looks at slots, not indices, so it rests on `TreeOK` and on trees that share a
slot having an index in common. Left-over slots do no harm to `CudaCompleteOK` but for the
room they take, because every pair of a bucket is tried.

The recursive functions here (`Trees`, `Lists`, the verifier's `X`) are bounded by `K`; each is
shown to exist as "the smallest round without one has none" (`Smallest`), and from then on
only its step is used. The layout is concrete: the sizes are computed (`Sizes`), and for each of
the eighteen fields that its bytes, end to end, are the span the digit has
(`RestFields`, `NextFields`).

Model-checked only:

- liveness, out of the prover's reach, as is ENABLED: the temporal properties of
  `miner_liveness`, `pool_liveness`, `session`, `server` and `startup`;
- the bit operations at their real values: the proofs are about any xor that
  meets `PuzzleAssumption`; that the real one does is what TLC evaluates, for digits of two bits.

Every invariant and every safety property of actions of a passing run is a theorem.

What a violation run refutes is of course not proved: `RoundsKeepShares` is what a
reader might have expected beside the theorems on `Pool`.

## 5. What is not modelled

- Numbers that only feed the website: validShares, invalidShares, validBlocks,
  the hashrate set, the miner's speed counters.
- The contents of jobs and shares outside the solver: headers and targets. Their
  tests are outcomes.
- Flooding, the proxy protocol, failover servers, which nothing configures
  (`setFailover` is never called), and the request buffer that the
  threads of the miner write without a lock: an unsynchronized boost streambuf may
  end in any state, so there is nothing to state of it beyond the race.
- Variable difficulty: `varDiff.js` computes from `client.difficulty`, which nothing sets,
  and what it emits is not sent.
- Coin switching: no market code is started, one coin is configured, and the
  hand-over of miners (`pool.js` 640-668) filters with a callback that async reads
  as an error.
- Interleaving inside the pool: Node.js runs a callback to its end, so a callback
  is one action. redis MULTI is atomic.
- Most of the repository by lines is data or not its own code: a header of 16,455
  lines of BLAKE2 test vectors, the vendored Zcash, Bitcoin script, JSON and tinyformat
  code, the BLAKE2 implementations with their variants for each instruction set. Of `equi_miner_210.h` the parts for 200
  bits (812-1127) and for 8 rest bits (1128-1561) are not compiled with the
  parameters the build gives, `digit1` to `digit9` are ten unrolled forms of one round, and
  `verify()` of `equi.h` (108-163) is not called. The models cover the program's own
  logic, which is a small part of those lines.

## 6. Plan

Order: the miner's hand-off and the pool's bookkeeping first, then the session
between them, then what surrounds them: start-up, bans, payments, the solver. All
of these are in place. What is left:

1. *Prove.* What the exceptions of `Payments` cost at most: by how much an overlap or a lost
   answer can overpay.
2. *Abstract.* A session that hands out jobs in order, implemented by
   `StratumSession`.
