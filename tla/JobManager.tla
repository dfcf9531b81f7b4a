----------------------------- MODULE JobManager -----------------------------
(***************************************************************************)
(* The pool's job manager (stratum-pool/lib/jobManager.js, with the jobs   *)
(* of blockTemplate.js): which block template the miners work on, how jobs *)
(* are numbered, and which shares are credited.                            *)
(*                                                                         *)
(* A template is named by the block it builds on (previousblockhash).  A   *)
(* job is named by the order in which it was created; jobManager.js knows  *)
(* it by a number that wraps.  A share's verdict is a string: "ok", or the *)
(* stratum error for a malformed, unknown, duplicate or invalid share.     *)
(***************************************************************************)
EXTENDS Integers, Sequences

CONSTANTS
  Blocks,      \* blocks a template may build on
  HeightOf,    \* the height of each
  CounterWrap, \* 0xffff in the code
  MaxJobs,     \* bound: templates that become jobs
  Nonces,      \* full nonces: the client's extraNonce1 and the rest
  Times,       \* nTime of a submission
  Good,        \* Equihash solutions that meet the target,
  Bad,         \* and the others
  MaxShares    \* bound: shares submitted

ASSUME JobManagerAssumption ==
  /\ HeightOf \in [Blocks -> Nat]
  /\ CounterWrap \in Nat \ {0, 1}
  /\ MaxJobs \in Nat /\ MaxShares \in Nat

VARIABLES
  counter,     \* JobCounter
  jobs,        \* every job so far, oldest first; the last is currentJob
  validJobs,   \* job number -> the job it stands for
  submits,     \* per job, the submissions registered with it
  seen,        \* blocks templates were received for
  log          \* every share processed, with its verdict

jmVars == <<counter, jobs, validJobs, submits, seen, log>>

----------------------------------------------------------------------------

NoJob == 0
Job   == 1 .. Len(jobs)

\* currentJob; undefined before the first template.
Current == Len(jobs)

\* A job, as the numbers and the block its record holds.
JobType == [id : Nat, base : Blocks]

Init ==
  /\ counter = 0
  /\ jobs = <<>>
  /\ validJobs = [i \in 1 .. (CounterWrap - 1) |-> NoJob]
  /\ submits = <<>>
  /\ seen = {}
  /\ log = <<>>

----------------------------------------------------------------------------
(* JobCounter.next and processTemplate.                                    *)

\* Faulty variant: the counter wraps one job early.
NextCountEarly == IF (counter + 1) % (CounterWrap - 1) = 0 THEN 1 ELSE counter + 1

\* Faulty variant: the counter wraps one job late.
NextCountLate == IF (counter + 1) % (CounterWrap + 1) = 0 THEN 1 ELSE counter + 1

NextCount == IF (counter + 1) % CounterWrap = 0 THEN 1 ELSE counter + 1

\* Faulty variant: any template with another parent is new.
IsNewEverywhere(b) == Current = NoJob \/ jobs[Current].base # b

\* Faulty variant: only a greater height is new.
IsNewAbove(b) == Current = NoJob \/ HeightOf[b] > HeightOf[jobs[Current].base]

\* The first template, or one on another block that is not below the current.
IsNew(b) ==
  \/ Current = NoJob
  \/ /\ jobs[Current].base # b
     /\ HeightOf[b] >= HeightOf[jobs[Current].base]

AddJob(b) ==
  /\ counter' = NextCount
  /\ jobs' = Append(jobs, [id |-> NextCount, base |-> b])
  /\ validJobs' = [validJobs EXCEPT ![NextCount] = Len(jobs) + 1]
  /\ submits' = Append(submits, {})

\* A template received from a daemon.
ProcessTemplate(b) ==
  /\ seen' = seen \union {b}
  /\ IF IsNew(b) THEN AddJob(b) ELSE UNCHANGED <<counter, jobs, validJobs, submits>>
  /\ UNCHANGED log

----------------------------------------------------------------------------
(* processShare.                                                           *)

\* What blockTemplate.registerSubmit tells submissions apart by.
Key(nonce, time) == <<nonce, time>>

Record(j, nonce, time, soln, verdict) ==
  log' = Append(log, [job |-> j, nonce |-> nonce, time |-> time, soln |-> soln,
                      verdict |-> verdict])

\* Lengths and hex digits are checked before anything is registered.
MalformedShare(j, nonce, time, soln) ==
  /\ Record(j, nonce, time, soln, "malformed")
  /\ UNCHANGED submits

DuplicateShare(j, nonce, time, soln) ==
  /\ Key(nonce, time) \in submits[j]
  /\ Record(j, nonce, time, soln, "duplicate")
  /\ UNCHANGED submits

\* Faulty variant: an accepted submission is not remembered.
ForgetSubmission(j, nonce, time, soln) ==
  /\ Key(nonce, time) \notin submits[j]
  /\ Record(j, nonce, time, soln, IF soln \in Good THEN "ok" ELSE "invalid")
  /\ UNCHANGED submits

\* The submission is registered first, whatever the solution is worth.
FreshShare(j, nonce, time, soln) ==
  /\ Key(nonce, time) \notin submits[j]
  /\ submits' = [submits EXCEPT ![j] = @ \union {Key(nonce, time)}]
  /\ Record(j, nonce, time, soln, IF soln \in Good THEN "ok" ELSE "invalid")

\* A miner names a job by its number.
ProcessShare(id, nonce, time, soln) ==
  /\ Len(log) < MaxShares
  /\ IF validJobs[id] = NoJob
       THEN Record(NoJob, nonce, time, soln, "unknown") /\ UNCHANGED submits
       ELSE \/ MalformedShare(validJobs[id], nonce, time, soln)
            \/ DuplicateShare(validJobs[id], nonce, time, soln)
            \/ FreshShare(validJobs[id], nonce, time, soln)
  /\ UNCHANGED <<counter, jobs, validJobs, seen>>

----------------------------------------------------------------------------

\* Whatever the daemons send, in whatever order.
ReceiveTemplate ==
  \E b \in Blocks :
    /\ IsNew(b) => Len(jobs) < MaxJobs
    /\ ProcessTemplate(b)

ReceiveShare ==
  \E id \in DOMAIN validJobs, n \in Nonces, t \in Times, s \in Good \union Bad :
    ProcessShare(id, n, t, s)

Next == ReceiveTemplate \/ ReceiveShare

Spec == Init /\ [][Next]_jmVars

----------------------------------------------------------------------------
(* Properties.                                                             *)

Verdicts == {"ok", "malformed", "unknown", "duplicate", "invalid"}
Share == [job : Nat, nonce : Nonces, time : Times, soln : Good \union Bad,
          verdict : Verdicts]

\* The counter stays below the wrap, and every number in use stands for a job
\* that exists and has its own set of submissions.
TypeOK ==
  /\ counter \in 0 .. (CounterWrap - 1)
  /\ jobs \in Seq(JobType)
  /\ validJobs \in [1 .. (CounterWrap - 1) -> 0 .. Len(jobs)]
  /\ submits \in Seq(SUBSET (Nonces \X Times))
  /\ Len(submits) = Len(jobs)
  /\ seen \in SUBSET Blocks
  /\ log \in Seq(Share)
  /\ \A i \in 1 .. Len(log) : log[i].job \in 0 .. Len(jobs)

\* Whatever the order templates arrive in (several daemons answer, polls and
\* notifications overlap), the miners work on a block no template seen so far
\* is above: an old answer never takes them back.
OnHighestSeen ==
  \A b \in seen :
    Current # NoJob /\ HeightOf[b] <= HeightOf[jobs[Current].base]

\* The number a miner was given stands for its job until CounterWrap - 1
\* younger jobs have been made: until then a share is checked against the
\* header its miner worked on.
NumberStandsForJob ==
  \A k \in Job : Len(jobs) - k < CounterWrap - 1 => validJobs[jobs[k].id] = k

\* A submission repeated word for word is credited once, however many jobs,
\* bad shares and other submissions lie between the two.
CreditedOnce ==
  \A i, j \in 1 .. Len(log) :
    /\ i # j
    /\ log[i].verdict = "ok" /\ log[j].verdict = "ok"
    /\ log[i].job = log[j].job /\ log[i].nonce = log[j].nonce
    => log[i].time # log[j].time
=============================================================================
