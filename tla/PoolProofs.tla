----------------------------- MODULE PoolProofs -----------------------------
(***************************************************************************)
(* What JobManager guarantees for every set of blocks, every wrap of the   *)
(* job counter and every number of jobs and shares, and what Pool does for *)
(* every set of daemons, every chain and every number of templates and     *)
(* shares on their way.                                                    *)
(***************************************************************************)
EXTENDS Pool, TLAPS

----------------------------------------------------------------------------
(* The job manager.                                                        *)

\* JobCounter's test of the remainder is a test for the wrap itself: the
\* counter never passes it.
LEMMA NextCountValue ==
  ASSUME counter \in 0 .. (CounterWrap - 1)
  PROVE  /\ NextCount \in 1 .. (CounterWrap - 1)
         /\ NextCount = IF counter + 1 = CounterWrap THEN 1 ELSE counter + 1
<1>1. CounterWrap \in Nat /\ CounterWrap > 1  BY JobManagerAssumption
<1>2. CASE counter + 1 = CounterWrap
  <2>1. (counter + 1) % CounterWrap = 0  BY <1>1, <1>2
  <2> QED BY <1>1, <1>2, <2>1 DEF NextCount
<1>3. CASE counter + 1 < CounterWrap
  <2>1. (counter + 1) % CounterWrap = counter + 1  BY <1>1, <1>3
  <2> QED BY <1>1, <1>3, <2>1 DEF NextCount
<1> QED BY <1>1, <1>2, <1>3

\* The initial state has the types.
LEMMA TypeInit == Init => TypeOK
BY JobManagerAssumption DEF Init, TypeOK, NoJob, JobType

\* What a template does to the jobs, in one formula.
LEMMA AddJobType ==
  ASSUME TypeOK, NEW b \in Blocks, AddJob(b), seen' \in SUBSET Blocks, log' = log
  PROVE  TypeOK'
<1> DEFINE n == Len(jobs)
<1>1. n \in Nat /\ n + 1 \in Nat  BY DEF TypeOK
<1>2. NextCount \in 1 .. (CounterWrap - 1)  BY NextCountValue DEF TypeOK
<1>3. CounterWrap \in Nat  BY JobManagerAssumption
<1>4. counter' \in 0 .. (CounterWrap - 1)  BY <1>2, <1>3 DEF AddJob
<1>5. jobs' \in Seq(JobType) /\ Len(jobs') = n + 1
  <2>1. [id |-> NextCount, base |-> b] \in JobType  BY <1>2, <1>3 DEF JobType
  <2> QED BY <2>1 DEF AddJob, TypeOK
<1>6. submits' \in Seq(SUBSET (Nonces \X Times)) /\ Len(submits') = n + 1
  <2>1. {} \in SUBSET (Nonces \X Times)  OBVIOUS
  <2> QED BY <2>1 DEF AddJob, TypeOK
<1>7. validJobs' \in [1 .. (CounterWrap - 1) -> 0 .. Len(jobs')]
  <2>1. validJobs \in [1 .. (CounterWrap - 1) -> 0 .. Len(jobs')]
    BY <1>1, <1>5 DEF TypeOK
  <2>2. n + 1 \in 0 .. Len(jobs')  BY <1>1, <1>5
  <2> QED BY <2>1, <2>2 DEF AddJob
<1>8. \A i \in 1 .. Len(log') : log'[i].job \in 0 .. Len(jobs')
  BY <1>1, <1>5 DEF TypeOK
<1> QED BY <1>4, <1>5, <1>6, <1>7, <1>8 DEF TypeOK

\* A template is either a new job, or only seen.
LEMMA TemplateCases ==
  ASSUME ReceiveTemplate
  PROVE  \E b \in Blocks :
           /\ seen' = seen \union {b}
           /\ log' = log
           /\ \/ IsNew(b) /\ AddJob(b)
              \/ ~IsNew(b) /\ UNCHANGED <<counter, jobs, validJobs, submits>>
BY DEF ReceiveTemplate, ProcessTemplate

\* Share s is processed: logged, and registered with its job if it counts.
Logs(s) ==
  /\ s.job \in 0 .. Len(jobs)
  /\ log' = Append(log, s)
  /\ \/ submits' = submits /\ s.verdict # "ok"
     \/ /\ s.job \in 1 .. Len(jobs)
        /\ <<s.nonce, s.time>> \notin submits[s.job]
        /\ submits' = [submits EXCEPT ![s.job] = @ \union {<<s.nonce, s.time>>}]

\* A share leaves the jobs alone, and is logged with a job that exists.
LEMMA ShareStep ==
  ASSUME TypeOK, ReceiveShare
  PROVE  /\ UNCHANGED <<counter, jobs, validJobs, seen>>
         /\ \E s \in Share : Logs(s)
<1>1. PICK id \in DOMAIN validJobs, n \in Nonces, t \in Times, sol \in Good \union Bad :
        ProcessShare(id, n, t, sol)
  BY DEF ReceiveShare
<1> DEFINE j == validJobs[id]
           S(k, v) == [job |-> k, nonce |-> n, time |-> t, soln |-> sol, verdict |-> v]
<1>2. j \in 0 .. Len(jobs)  BY <1>1 DEF TypeOK
<1>3. Len(jobs) \in Nat  BY DEF TypeOK
<1>4. \A k \in 0 .. Len(jobs), v \in Verdicts : S(k, v) \in Share
  BY <1>3 DEF Share
<1>5. UNCHANGED <<counter, jobs, validJobs, seen>>  BY <1>1 DEF ProcessShare
<1>6. CASE j = NoJob
  <2>1. log' = Append(log, S(0, "unknown")) /\ submits' = submits
    BY <1>1, <1>6 DEF ProcessShare, Record, NoJob
  <2>2. S(0, "unknown") \in Share
    <3>1. 0 \in 0 .. Len(jobs) /\ "unknown" \in Verdicts  BY <1>3 DEF Verdicts
    <3> QED BY <1>4, <3>1
  <2>3. Logs(S(0, "unknown"))  BY <1>3, <2>1 DEF Logs
  <2> QED BY <1>5, <2>2, <2>3
<1>7. CASE j # NoJob
  <2>1. j \in 1 .. Len(jobs)  BY <1>2, <1>3, <1>7 DEF NoJob
  <2>2. CASE MalformedShare(j, n, t, sol)
    <3>1. log' = Append(log, S(j, "malformed")) /\ submits' = submits
      BY <2>2 DEF MalformedShare, Record
    <3>2. S(j, "malformed") \in Share  BY <1>2, <1>4 DEF Verdicts
    <3>3. Logs(S(j, "malformed"))  BY <1>2, <3>1 DEF Logs
    <3> QED BY <1>5, <3>2, <3>3
  <2>3. CASE DuplicateShare(j, n, t, sol)
    <3>1. log' = Append(log, S(j, "duplicate")) /\ submits' = submits
      BY <2>3 DEF DuplicateShare, Record
    <3>2. S(j, "duplicate") \in Share  BY <1>2, <1>4 DEF Verdicts
    <3>3. Logs(S(j, "duplicate"))  BY <1>2, <3>1 DEF Logs
    <3> QED BY <1>5, <3>2, <3>3
  <2>4. CASE FreshShare(j, n, t, sol)
    <3> DEFINE v == IF sol \in Good THEN "ok" ELSE "invalid"
    <3>1. /\ log' = Append(log, S(j, v))
          /\ <<n, t>> \notin submits[j]
          /\ submits' = [submits EXCEPT ![j] = @ \union {<<n, t>>}]
      BY <2>4 DEF FreshShare, Record, Key
    <3>2. S(j, v) \in Share  BY <1>2, <1>4 DEF Verdicts
    <3>3. Logs(S(j, v))  BY <1>2, <2>1, <3>1 DEF Logs
    <3> QED BY <1>5, <3>2, <3>3
  <2> QED BY <1>1, <1>7, <2>2, <2>3, <2>4 DEF ProcessShare
<1> QED BY <1>6, <1>7

\* Every step keeps the types.
LEMMA TypeStep == TypeOK /\ [Next]_jmVars => TypeOK'
<1> SUFFICES ASSUME TypeOK, [Next]_jmVars PROVE TypeOK'
  OBVIOUS
<1>1. CASE ReceiveTemplate
  <2>1. PICK b \in Blocks :
          /\ seen' = seen \union {b}
          /\ log' = log
          /\ \/ IsNew(b) /\ AddJob(b)
             \/ ~IsNew(b) /\ UNCHANGED <<counter, jobs, validJobs, submits>>
    BY <1>1, TemplateCases
  <2>2. seen' \in SUBSET Blocks  BY <2>1 DEF TypeOK
  <2>3. CASE AddJob(b)  BY <2>1, <2>2, <2>3, AddJobType
  <2>4. CASE UNCHANGED <<counter, jobs, validJobs, submits>>
    BY <2>1, <2>2, <2>4 DEF TypeOK
  <2> QED BY <2>1, <2>3, <2>4
<1>2. CASE ReceiveShare
  <2>1. UNCHANGED <<counter, jobs, validJobs, seen>>  BY <1>2, ShareStep
  <2>2. PICK s \in Share : Logs(s)
    BY <1>2, ShareStep
  <2>3. submits' \in Seq(SUBSET (Nonces \X Times)) /\ Len(submits') = Len(jobs)
    <3>1. <<s.nonce, s.time>> \in Nonces \X Times  BY <2>2 DEF Share
    <3>2. CASE submits' = submits  BY <3>2 DEF TypeOK
    <3>3. CASE /\ s.job \in 1 .. Len(jobs)
               /\ submits' = [submits EXCEPT ![s.job] = @ \union {<<s.nonce, s.time>>}]
      <4>1. submits[s.job] \union {<<s.nonce, s.time>>} \in SUBSET (Nonces \X Times)
        BY <3>1, <3>3 DEF TypeOK
      <4> QED BY <3>3, <4>1 DEF TypeOK
    <3> QED BY <2>2, <3>2, <3>3 DEF Logs
  <2>4. log' \in Seq(Share)  BY <2>2 DEF TypeOK, Logs
  <2>5. \A i \in 1 .. Len(log') : log'[i].job \in 0 .. Len(jobs)
    BY <2>2 DEF TypeOK, Logs
  <2> QED BY <2>1, <2>3, <2>4, <2>5 DEF TypeOK
<1>3. CASE UNCHANGED jmVars  BY <1>3 DEF TypeOK, jmVars
<1> QED BY <1>1, <1>2, <1>3 DEF Next

\* Job numbers, counts and logs keep their types, and the counter never
\* reaches its wrap.
THEOREM TypeCorrect == Spec => []TypeOK
<1>1. TypeOK /\ [Next]_jmVars => TypeOK'  BY TypeStep
<1> QED BY TypeInit, <1>1, PTL DEF Spec

----------------------------------------------------------------------------
(* The current job.                                                        *)

\* Nothing has been seen before the first job.
SeenInv == (Current = NoJob => seen = {}) /\ OnHighestSeen

\* A template on a lower block is seen, and no more.
LEMMA SeenStep == TypeOK /\ SeenInv /\ [Next]_jmVars => SeenInv'
<1> SUFFICES ASSUME TypeOK, SeenInv, [Next]_jmVars PROVE SeenInv'
  OBVIOUS
<1> USE DEF Current, NoJob
<1>1. CASE ReceiveTemplate
  <2>1. PICK b \in Blocks :
          /\ seen' = seen \union {b}
          /\ \/ IsNew(b) /\ AddJob(b)
             \/ ~IsNew(b) /\ UNCHANGED <<counter, jobs, validJobs, submits>>
    BY <1>1, TemplateCases
  <2>2. \A c \in Blocks : HeightOf[c] \in Nat  BY JobManagerAssumption
  <2>3. Len(jobs) \in Nat /\ \A k \in Job : jobs[k].base \in Blocks
    <3>1. Len(jobs) \in Nat /\ \A k \in Job : jobs[k] \in JobType
      BY DEF TypeOK, Job
    <3> QED BY <3>1 DEF JobType
  <2>4. CASE IsNew(b) /\ AddJob(b)
    <3>1. Len(jobs') = Len(jobs) + 1 /\ jobs'[Len(jobs')].base = b
      BY <2>3, <2>4 DEF AddJob, TypeOK
    <3>2. \A c \in seen : HeightOf[c] <= HeightOf[b]
      <4>1. CASE Len(jobs) = 0  BY <4>1 DEF SeenInv
      <4>2. CASE Len(jobs) # 0
        <5>1. jobs[Len(jobs)].base \in Blocks  BY <2>3, <4>2 DEF Job
        <5>2. HeightOf[jobs[Len(jobs)].base] <= HeightOf[b]
          BY <2>4, <4>2 DEF IsNew
        <5> QED BY <2>2, <5>1, <5>2 DEF SeenInv, OnHighestSeen, TypeOK
      <4> QED BY <4>1, <4>2
    <3> QED BY <2>1, <2>2, <2>3, <3>1, <3>2 DEF SeenInv, OnHighestSeen
  <2>5. CASE ~IsNew(b) /\ UNCHANGED <<counter, jobs, validJobs, submits>>
    <3>1. Len(jobs) # 0  BY <2>5 DEF IsNew
    <3>2. jobs[Len(jobs)].base \in Blocks  BY <2>3, <3>1 DEF Job
    <3>3. HeightOf[b] <= HeightOf[jobs[Len(jobs)].base]
      BY <2>2, <2>5, <3>1, <3>2 DEF IsNew
    <3> QED BY <2>1, <2>5, <3>1, <3>3 DEF SeenInv, OnHighestSeen
  <2> QED BY <2>1, <2>4, <2>5
<1>2. CASE ReceiveShare
  <2>1. UNCHANGED <<jobs, seen>>  BY <1>2, ShareStep
  <2> QED BY <2>1 DEF SeenInv, OnHighestSeen
<1>3. CASE UNCHANGED jmVars  BY <1>3 DEF SeenInv, OnHighestSeen, jmVars
<1> QED BY <1>1, <1>2, <1>3 DEF Next

\* The miners never work below a block some template was received for.
THEOREM HighestSeen == Spec => []OnHighestSeen
<1>1. Init => SeenInv  BY DEF Init, SeenInv, OnHighestSeen, Current, NoJob
<1>2. TypeOK /\ SeenInv /\ [Next]_jmVars => SeenInv'  BY SeenStep
<1>3. SeenInv => OnHighestSeen  BY DEF SeenInv
<1> QED BY <1>1, <1>2, <1>3, TypeCorrect, PTL DEF Spec

----------------------------------------------------------------------------
(* Job numbers.                                                            *)

\* The counter is the current job's number, and the younger jobs hold the
\* numbers before it, going around at the wrap.
Numbered(k) ==
  Len(jobs) - k < CounterWrap - 1 =>
    /\ jobs[k].id = IF Len(jobs) - k < counter
                      THEN counter - (Len(jobs) - k)
                      ELSE counter - (Len(jobs) - k) + CounterWrap - 1
    /\ jobs[k].id \in 1 .. (CounterWrap - 1)
    /\ validJobs[jobs[k].id] = k

NumberInv == \A k \in Job : Numbered(k)

\* There is no job before the counter has moved.
CounterInv == NumberInv /\ (jobs # <<>> => counter # 0)

\* Every step keeps the numbers of the youngest jobs apart.
LEMMA NumberStep == TypeOK /\ CounterInv /\ [Next]_jmVars => CounterInv'
<1> SUFFICES ASSUME TypeOK, CounterInv, [Next]_jmVars PROVE CounterInv'
  OBVIOUS
<1> DEFINE n == Len(jobs)  W == CounterWrap  c == counter  d == NextCount
<1>0. /\ n \in Nat /\ W \in Nat /\ W > 1 /\ c \in 0 .. (W - 1)
      /\ d \in 1 .. (W - 1)
      /\ d = IF c + 1 = W THEN 1 ELSE c + 1
  BY JobManagerAssumption, NextCountValue DEF TypeOK
<1>1. CASE \E b \in Blocks : AddJob(b)
  <2>1. PICK b \in Blocks : AddJob(b)  BY <1>1
  <2>2. /\ counter' = d
        /\ Len(jobs') = n + 1
        /\ jobs'[n + 1].id = d
        /\ \A k \in 1 .. n : jobs'[k] = jobs[k]
        /\ jobs' # <<>>
    BY <1>0, <2>1 DEF AddJob, TypeOK
  <2>3. /\ validJobs'[d] = n + 1
        /\ \A i \in 1 .. (W - 1) : i # d => validJobs'[i] = validJobs[i]
    BY <1>0, <2>1 DEF AddJob, TypeOK
  <2>4. ASSUME NEW k \in 1 .. (n + 1), n + 1 - k < W - 1
        PROVE  /\ jobs'[k].id = IF n + 1 - k < d THEN d - (n + 1 - k)
                                                 ELSE d - (n + 1 - k) + W - 1
               /\ jobs'[k].id \in 1 .. (W - 1)
               /\ validJobs'[jobs'[k].id] = k
    <3>1. CASE k = n + 1
      <4> HIDE DEF n, W, c, d
      <4>1. n + 1 - k = 0 /\ jobs'[k].id = d  BY <1>0, <2>2, <3>1
      <4>2. d = IF 0 < d THEN d - 0 ELSE d - 0 + W - 1  BY <1>0
      <4> QED BY <1>0, <2>3, <3>1, <4>1, <4>2
    <3>2. CASE k \in 1 .. n
      <4> DEFINE i == jobs[k].id  age == n - k
      <4>1. age \in Nat /\ age < W - 2  BY <1>0, <2>4, <3>2
      <4>2. c # 0
        <5>1. jobs # <<>>  BY <1>0, <3>2
        <5> QED BY <5>1 DEF CounterInv
      <4>3. /\ i = IF age < c THEN c - age ELSE c - age + W - 1
            /\ i \in 1 .. (W - 1)
            /\ validJobs[i] = k
        <5>1. k \in Job /\ Len(jobs) - k < CounterWrap - 1
          BY <1>0, <3>2, <4>1 DEF Job
        <5> QED BY <5>1 DEF CounterInv, NumberInv, Numbered
      <4>4. i # d  BY <1>0, <4>1, <4>2, <4>3
      <4>5. i = IF age + 1 < d THEN d - (age + 1) ELSE d - (age + 1) + W - 1
        BY <1>0, <4>1, <4>2, <4>3
      <4>6. n + 1 - k = age + 1  BY <1>0, <3>2
      <4> HIDE DEF i, age
      <4>7. jobs'[k].id = i  BY <2>2, <3>2 DEF i
      <4> QED BY <2>3, <4>3, <4>4, <4>5, <4>6, <4>7
    <3> QED BY <1>0, <3>1, <3>2
  <2> HIDE DEF n, W, c, d
  <2>5. NumberInv'
    <3>1. Job' = 1 .. (n + 1)  BY <2>2 DEF Job
    <3>2. ASSUME NEW k \in 1 .. (n + 1) PROVE Numbered(k)'
      BY <1>0, <2>2, <2>4 DEF Numbered, W
    <3> QED BY <3>1, <3>2 DEF NumberInv
  <2> QED BY <1>0, <2>2, <2>5 DEF CounterInv
<1>2. CASE UNCHANGED <<counter, jobs, validJobs>>
  BY <1>2 DEF CounterInv, NumberInv, Numbered, Job
<1>3. CASE ReceiveTemplate  BY <1>1, <1>2, <1>3, TemplateCases
<1>4. CASE ReceiveShare  BY <1>2, <1>4, ShareStep
<1>5. CASE UNCHANGED jmVars  BY <1>2, <1>5 DEF jmVars
<1> QED BY <1>3, <1>4, <1>5 DEF Next

\* A job number names its job until CounterWrap - 1 younger jobs exist.
THEOREM NumbersStandForJobs == Spec => []NumberStandsForJob
<1>1. Init => CounterInv  BY DEF Init, CounterInv, NumberInv, Job
<1>2. TypeOK /\ CounterInv /\ [Next]_jmVars => CounterInv'  BY NumberStep
<1>3. CounterInv => NumberStandsForJob
  BY DEF CounterInv, NumberInv, Numbered, NumberStandsForJob
<1> QED BY <1>1, <1>2, <1>3, TypeCorrect, PTL DEF Spec

----------------------------------------------------------------------------
(* Credit.                                                                 *)

\* Every credited share is registered with its job.
CreditInv ==
  /\ \A i \in 1 .. Len(log) :
       log[i].verdict = "ok" =>
         /\ log[i].job \in Job
         /\ <<log[i].nonce, log[i].time>> \in submits[log[i].job]
  /\ CreditedOnce

\* A credited submission is registered before its verdict, so no step credits
\* it again.
LEMMA CreditStep == TypeOK /\ CreditInv /\ [Next]_jmVars => CreditInv'
<1> SUFFICES ASSUME TypeOK, CreditInv, [Next]_jmVars PROVE CreditInv'
  OBVIOUS
<1> DEFINE n == Len(jobs)  m == Len(log)
<1>0. n \in Nat /\ m \in Nat /\ Len(submits) = n  BY DEF TypeOK
<1>1. CASE ReceiveTemplate
  <2>1. log' = log  BY <1>1, TemplateCases
  <2>2. \A j \in Job : j \in Job' /\ submits'[j] = submits[j]
    <3>1. CASE UNCHANGED <<jobs, submits>>  BY <3>1 DEF Job
    <3>2. CASE \E b \in Blocks : AddJob(b)
      <4>1. submits' = Append(submits, {}) /\ Len(jobs') = n + 1
        BY <3>2 DEF AddJob, TypeOK
      <4>2. Job = 1 .. n /\ Job' = 1 .. n + 1  BY <4>1 DEF Job
      <4>3. submits \in Seq(SUBSET (Nonces \X Times))  BY DEF TypeOK
      <4>4. \A j \in 1 .. n : submits'[j] = submits[j]
        BY <1>0, <4>1, <4>3
      <4> QED BY <1>0, <4>2, <4>4
    <3> QED BY <1>1, <3>1, <3>2, TemplateCases
  <2>3. CreditedOnce'  BY <2>1 DEF CreditInv, CreditedOnce
  <2>4. ASSUME NEW i \in 1 .. Len(log'), log'[i].verdict = "ok"
        PROVE  /\ log'[i].job \in Job'
               /\ <<log'[i].nonce, log'[i].time>> \in submits'[log'[i].job]
    <3>1. log[i].job \in Job /\ <<log[i].nonce, log[i].time>> \in submits[log[i].job]
      BY <2>1, <2>4 DEF CreditInv
    <3> QED BY <2>1, <2>2, <3>1
  <2> QED BY <2>3, <2>4 DEF CreditInv
<1>2. CASE ReceiveShare
  <2>1. UNCHANGED jobs  BY <1>2, ShareStep
  <2>2. PICK s \in Share : Logs(s)  BY <1>2, ShareStep
  <2>3. /\ Len(log') = m + 1 /\ log'[m + 1] = s
        /\ \A i \in 1 .. m : log'[i] = log[i]
    BY <1>0, <2>2 DEF Logs, TypeOK
  <2>4. \A j \in Job : submits[j] \subseteq submits'[j]
    <3>1. DOMAIN submits = Job  BY <1>0 DEF Job, TypeOK
    <3>2. CASE submits' = submits  BY <3>2
    <3>3. CASE submits' = [submits EXCEPT ![s.job] = @ \union {<<s.nonce, s.time>>}]
      BY <3>1, <3>3
    <3> QED BY <2>2, <3>2, <3>3 DEF Logs
  <2>5. s.verdict = "ok" =>
          /\ s.job \in Job
          /\ <<s.nonce, s.time>> \in submits'[s.job]
          /\ <<s.nonce, s.time>> \notin submits[s.job]
    BY <1>0, <2>2 DEF Logs, Job, TypeOK
  <2>6. \A i \in 1 .. Len(log') :
          log'[i].verdict = "ok" =>
            /\ log'[i].job \in Job'
            /\ <<log'[i].nonce, log'[i].time>> \in submits'[log'[i].job]
    <3> SUFFICES ASSUME NEW i \in 1 .. (m + 1), log'[i].verdict = "ok"
                 PROVE  /\ log'[i].job \in Job
                        /\ <<log'[i].nonce, log'[i].time>> \in submits'[log'[i].job]
      BY <2>1, <2>3 DEF Job
    <3>1. CASE i = m + 1  BY <2>3, <2>5, <3>1
    <3>2. CASE i \in 1 .. m  BY <2>3, <2>4, <3>2 DEF CreditInv
    <3> QED BY <1>0, <3>1, <3>2
  <2>7. \A i \in 1 .. m :
          s.verdict = "ok" /\ log[i].verdict = "ok" /\ log[i].job = s.job
            /\ log[i].nonce = s.nonce => log[i].time # s.time
    BY <2>5 DEF CreditInv
  <2>8. CreditedOnce'
    <3> SUFFICES ASSUME NEW i \in 1 .. (m + 1), NEW j \in 1 .. (m + 1), i # j,
                        log'[i].verdict = "ok", log'[j].verdict = "ok",
                        log'[i].job = log'[j].job, log'[i].nonce = log'[j].nonce
                 PROVE  log'[i].time # log'[j].time
      BY <2>3 DEF CreditedOnce
    <3>1. CASE i = m + 1
      <4>1. j \in 1 .. m  BY <1>0, <3>1
      <4> QED BY <2>3, <2>7, <3>1, <4>1
    <3>2. CASE j = m + 1
      <4>1. i \in 1 .. m  BY <1>0, <3>2
      <4> QED BY <2>3, <2>7, <3>2, <4>1
    <3>3. CASE i \in 1 .. m /\ j \in 1 .. m
      BY <2>3, <3>3 DEF CreditInv, CreditedOnce
    <3> QED BY <1>0, <3>1, <3>2, <3>3
  <2> QED BY <2>6, <2>8 DEF CreditInv
<1>3. CASE UNCHANGED jmVars
  BY <1>3 DEF CreditInv, CreditedOnce, Job, jmVars
<1> QED BY <1>1, <1>2, <1>3 DEF Next

\* A credited share is one of an existing job, registered with it.
THEOREM CreditRegistered == Spec => []CreditInv
<1>1. Init => CreditInv  BY DEF Init, CreditInv, CreditedOnce
<1>2. TypeOK /\ CreditInv /\ [Next]_jmVars => CreditInv'  BY CreditStep
<1> QED BY <1>1, <1>2, TypeCorrect, PTL DEF Spec

\* No submission is credited twice.
THEOREM NeverCreditedTwice == Spec => []CreditedOnce
<1>1. CreditInv => CreditedOnce  BY DEF CreditInv
<1> QED BY <1>1, CreditRegistered, PTL

----------------------------------------------------------------------------
(* The pool drives its job manager as JobManager says.                     *)

\* Each step of the pool is a template, a share or nothing to the job manager.
LEMMA JobManagerStep == [PoolNext]_poolVars => [Next]_jmVars
<1> SUFFICES ASSUME [PoolNext]_poolVars PROVE [Next]_jmVars
  OBVIOUS
<1>1. CASE OthersFind  BY <1>1 DEF OthersFind
<1>2. CASE Reorganize  BY <1>2 DEF Reorganize
<1>3. CASE AnswerTemplate  BY <1>3 DEF AnswerTemplate
<1>4. CASE \E b \in Blocks : DeliverTemplate(b)
  BY <1>4 DEF DeliverTemplate, ReceiveTemplate, Next
<1>5. CASE \E b \in Blocks : TemplateError(b)  BY <1>5 DEF TemplateError
<1>6. CASE SubmitShare  BY <1>6 DEF SubmitShare, Next
<1>7. CASE Recording  BY <1>7 DEF Recording, CheckBlockAccepted, ReplySubmit
<1>8. CASE UNCHANGED poolVars  BY <1>8 DEF poolVars
<1> QED BY <1>1, <1>2, <1>3, <1>4, <1>5, <1>6, <1>7, <1>8 DEF PoolNext, Daemon

\* The pool's specification implies its job manager's, so that what is proved
\* of the one holds in the other, whatever the daemons answer and when.
THEOREM PoolImplementsJobManager == PoolSpec => Spec
<1>1. PoolInit => Init  BY DEF PoolInit
<1> QED BY <1>1, JobManagerStep, PTL DEF PoolSpec, Spec

\* The miners are never taken back to a lower block by a late answer, and no
\* submission is credited twice.
THEOREM PoolKeepsHighestAndCredit == PoolSpec => [](OnHighestSeen /\ CreditedOnce)
BY PoolImplementsJobManager, HighestSeen, NeverCreditedTwice, PTL

----------------------------------------------------------------------------
(* The recording of shares.                                                *)

Replies == [Daemons -> {"none", "ok", "bad"}]

\* The types of what the recording of shares reads and writes.
RecordingType ==
  /\ stage \in Seq(Stages) /\ Len(stage) = Len(log)
  /\ replies \in Seq(Replies) /\ Len(replies) = Len(log)
  /\ round \in SUBSET Shares
  /\ rounds \in [Heights -> SUBSET Shares]

\* Where share i is: only credited shares pass on to the daemons, only with
\* every daemon's consent to the check, and only from there to a tally.
Placed(i) ==
  /\ stage[i] # "rejected" => log[i].verdict = "ok"
  /\ stage[i] \in {"checking", "recorded"} => \A d \in Daemons : replies[i][d] = "ok"
  /\ i \in Counted => stage[i] = "recorded"

\* The inductive invariant behind ShareInOneRound and CountedWasAccepted.
RecordingInv ==
  /\ RecordingType
  /\ \A i \in Shares : Placed(i)
  /\ ShareInOneRound

\* What a step leaves alone that records nothing.
Quiet == UNCHANGED <<stage, replies, round, rounds, log>>

\* Such a step keeps the recording's invariant.
LEMMA QuietKeeps == RecordingInv /\ Quiet => RecordingInv'
BY DEF RecordingInv, RecordingType, Placed, ShareInOneRound, Quiet, Shares, Counted

\* A share is appended to the log; the older entries stay.
LEMMA LogGrows ==
  ASSUME TypeOK, ReceiveShare
  PROVE  /\ Len(log') = Len(log) + 1
         /\ \A i \in 1 .. Len(log) : log'[i] = log[i]
<1>1. PICK s \in Share : Logs(s)  BY ShareStep
<1> QED BY <1>1 DEF Logs, TypeOK

\* A new share is in no tally and has had no reply.
LEMMA SubmitKeeps ==
  ASSUME TypeOK, RecordingInv, SubmitShare
  PROVE  RecordingInv'
<1> DEFINE n == Len(log)
           none == [d \in Daemons |-> "none"]
           st == IF log'[n + 1].verdict = "ok" THEN "submitting" ELSE "rejected"
<1>1. n \in Nat  BY DEF TypeOK
<1>2. /\ Len(log') = n + 1
      /\ \A i \in 1 .. n : log'[i] = log[i]
  BY LogGrows DEF SubmitShare
<1>3. UNCHANGED <<round, rounds>>
  BY DEF SubmitShare, HandleShare, redisVars
<1>4. stage' = Append(stage, st) /\ replies' = Append(replies, none)
  BY DEF SubmitShare
<1>5. none \in Replies  BY DEF Replies
<1>6. st \in Stages  BY DEF Stages
<1>7. /\ stage' \in Seq(Stages) /\ Len(stage') = n + 1
      /\ stage'[n + 1] = st
      /\ \A i \in 1 .. n : stage'[i] = stage[i]
  BY <1>1, <1>4, <1>6 DEF RecordingInv, RecordingType
<1>8. /\ replies' \in Seq(Replies) /\ Len(replies') = n + 1
      /\ \A i \in 1 .. n : replies'[i] = replies[i]
  BY <1>1, <1>4, <1>5 DEF RecordingInv, RecordingType
<1>9. Shares = 1 .. n /\ Shares' = 1 .. (n + 1)
  BY <1>7 DEF Shares, RecordingInv, RecordingType
<1>10. Counted' = Counted /\ Counted \in SUBSET Shares
  BY <1>3 DEF Counted, RecordingInv, RecordingType
<1>11. RecordingType'
  <2>1. Shares \subseteq Shares'  BY <1>1, <1>9
  <2> QED BY <1>2, <1>3, <1>7, <1>8, <2>1 DEF RecordingInv, RecordingType
<1>12. ASSUME NEW i \in Shares' PROVE Placed(i)'
  <2>1. CASE i \in 1 .. n
    BY <1>2, <1>7, <1>8, <1>9, <1>10, <2>1 DEF RecordingInv, Placed
  <2>2. CASE i = n + 1
    <3>1. i \notin Counted'  BY <1>1, <1>9, <1>10, <2>2
    <3> QED BY <1>7, <2>2, <3>1 DEF Placed
  <2> QED BY <1>1, <1>9, <1>12, <2>1, <2>2
<1>13. ShareInOneRound'  BY <1>3 DEF RecordingInv, ShareInOneRound
<1> QED BY <1>11, <1>12, <1>13 DEF RecordingInv

\* A share moves on to the check only if no reply was bad.
LEMMA ReplyKeeps ==
  ASSUME RecordingInv, NEW i \in Shares, NEW d \in Daemons, ReplySubmit(i, d)
  PROVE  RecordingInv'
<1>1. PICK r \in {"ok", "bad"} :
        /\ stage[i] = "submitting"
        /\ replies' = [replies EXCEPT ![i][d] = r]
        /\ stage' = [stage EXCEPT ![i] = AfterReplies(replies'[i])]
        /\ UNCHANGED <<round, rounds, log>>
  BY DEF ReplySubmit, jmVars, redisVars
<1> DEFINE rs == [replies[i] EXCEPT ![d] = r]
<1>2. /\ Shares = 1 .. Len(log) /\ Len(log) \in Nat /\ Len(stage) = Len(log)
      /\ DOMAIN stage = Shares /\ DOMAIN replies = Shares
  BY DEF RecordingInv, RecordingType, Shares
<1>3. replies[i] \in Replies  BY <1>2 DEF RecordingInv, RecordingType
<1>4. rs \in Replies  BY <1>1, <1>3 DEF Replies
<1>5. /\ replies' \in Seq(Replies) /\ Len(replies') = Len(log)
      /\ replies'[i] = rs
      /\ \A k \in Shares \ {i} : replies'[k] = replies[k]
  <2>1. replies' = [replies EXCEPT ![i] = rs]  BY <1>1
  <2> QED BY <1>2, <1>4, <2>1 DEF RecordingInv, RecordingType
<1>6. AfterReplies(rs) \in {"submitting", "lost", "checking"}
  BY DEF AfterReplies
<1>7. /\ stage' \in Seq(Stages) /\ Len(stage') = Len(log)
      /\ stage'[i] = AfterReplies(rs)
      /\ \A k \in Shares \ {i} : stage'[k] = stage[k]
  <2>1. AfterReplies(rs) \in Stages  BY <1>6 DEF Stages
  <2> QED BY <1>1, <1>2, <1>5, <2>1 DEF RecordingInv, RecordingType
<1>8. Shares' = Shares /\ Counted' = Counted
  BY <1>1, <1>2, <1>7 DEF Shares, Counted
<1>9. AfterReplies(rs) = "checking" => \A e \in Daemons : rs[e] = "ok"
  BY <1>4 DEF AfterReplies, CallbackDue, Replies
<1>10. \A k \in Shares : Placed(k)'
  <2>1. Placed(i)'
    <3>1. log[i].verdict = "ok" /\ i \notin Counted
      BY <1>1 DEF RecordingInv, Placed
    <3> QED BY <1>1, <1>5, <1>6, <1>7, <1>8, <1>9, <3>1 DEF Placed
  <2>2. \A k \in Shares \ {i} : Placed(k)'
    BY <1>1, <1>5, <1>7, <1>8 DEF RecordingInv, Placed
  <2> QED BY <2>1, <2>2
<1>11. RecordingType'
  BY <1>1, <1>5, <1>7, <1>8 DEF RecordingInv, RecordingType
<1>12. ShareInOneRound'  BY <1>1 DEF RecordingInv, ShareInOneRound
<1> QED BY <1>8, <1>10, <1>11, <1>12 DEF RecordingInv

\* The checked share was in no tally; it joins the current round, which closes
\* as a whole or stays open.
LEMMA CheckKeeps ==
  ASSUME RecordingInv, NEW i \in Shares, CheckBlockAccepted(i)
  PROVE  RecordingInv'
<1> DEFINE h == ShareHeight(i)
           tally == round \union {i}
<1>1. /\ stage[i] = "checking"
      /\ stage' = [stage EXCEPT ![i] = "recorded"]
      /\ UNCHANGED <<replies, log>>
      /\ \/ round' = {} /\ rounds' = [rounds EXCEPT ![h] = tally]
         \/ round' = tally /\ rounds' = rounds
  BY DEF CheckBlockAccepted, HandleShare, CloseRound, jmVars
<1>2. /\ Shares = 1 .. Len(log) /\ Len(log) \in Nat /\ DOMAIN stage = Shares
      /\ stage \in Seq(Stages)
  BY DEF RecordingInv, RecordingType, Shares
<1>3. /\ stage' \in Seq(Stages) /\ Len(stage') = Len(log)
      /\ stage'[i] = "recorded"
      /\ \A k \in Shares \ {i} : stage'[k] = stage[k]
  <2>1. "recorded" \in Stages  BY DEF Stages
  <2> QED BY <1>1, <1>2, <2>1 DEF RecordingInv, RecordingType
<1>4. Shares' = Shares  BY <1>2, <1>3 DEF Shares
<1>5. i \notin Counted  BY <1>1 DEF RecordingInv, Placed
<1>6. /\ round \in SUBSET Shares /\ tally \in SUBSET Shares
      /\ rounds \in [Heights -> SUBSET Shares]
  BY DEF RecordingInv, RecordingType
<1>7. round' \in SUBSET Shares /\ rounds' \in [Heights -> SUBSET Shares]
  BY <1>1, <1>6
<1>8. Counted' \subseteq Counted \union {i}
  <2>1. CASE round' = tally /\ rounds' = rounds  BY <2>1 DEF Counted
  <2>2. CASE round' = {} /\ rounds' = [rounds EXCEPT ![h] = tally]
    <3>1. \A g \in Heights : rounds'[g] \subseteq rounds[g] \union tally
      BY <1>6, <2>2
    <3> QED BY <2>2, <3>1 DEF Counted
  <2> QED BY <1>1, <2>1, <2>2
<1>9. \A k \in Shares : Placed(k)'
  <2>1. Placed(i)'
    BY <1>1, <1>3 DEF RecordingInv, Placed
  <2>2. \A k \in Shares \ {i} : Placed(k)'
    BY <1>1, <1>3, <1>8 DEF RecordingInv, Placed
  <2> QED BY <2>1, <2>2
<1>10. ShareInOneRound'
  <2>1. /\ \A g \in Heights : tally \intersect rounds[g] = {}
        /\ \A f, g \in Heights : f # g => rounds[f] \intersect rounds[g] = {}
    BY <1>5 DEF RecordingInv, ShareInOneRound, Counted
  <2>2. CASE round' = tally /\ rounds' = rounds
    BY <2>1, <2>2 DEF ShareInOneRound
  <2>3. CASE round' = {} /\ rounds' = [rounds EXCEPT ![h] = tally]
    <3>1. \A g \in Heights : rounds'[g] = IF g = h THEN tally ELSE rounds[g]
      BY <1>6, <2>3
    <3> QED BY <2>1, <2>3, <3>1 DEF ShareInOneRound
  <2> QED BY <1>1, <2>2, <2>3
<1>11. RecordingType'
  BY <1>1, <1>3, <1>4, <1>7 DEF RecordingInv, RecordingType
<1> QED BY <1>4, <1>9, <1>10, <1>11 DEF RecordingInv

\* Every step of the pool keeps the recording's invariant.
LEMMA RecordingStep ==
  TypeOK /\ RecordingInv /\ [PoolNext]_poolVars => RecordingInv'
<1> SUFFICES ASSUME TypeOK, RecordingInv, [PoolNext]_poolVars PROVE RecordingInv'
  OBVIOUS
<1>1. CASE OthersFind
  BY <1>1, QuietKeeps DEF OthersFind, Quiet, pipeVars, redisVars, jmVars
<1>2. CASE Reorganize
  BY <1>2, QuietKeeps DEF Reorganize, Quiet, pipeVars, redisVars, jmVars
<1>3. CASE AnswerTemplate
  BY <1>3, QuietKeeps DEF AnswerTemplate, Quiet, pipeVars, redisVars, jmVars
<1>4. CASE \E b \in Blocks : DeliverTemplate(b)
  BY <1>4, QuietKeeps DEF DeliverTemplate, ProcessTemplate, Quiet, pipeVars, redisVars
<1>5. CASE \E b \in Blocks : TemplateError(b)
  BY <1>5, QuietKeeps DEF TemplateError, Quiet, pipeVars, redisVars, jmVars
<1>6. CASE SubmitShare  BY <1>6, SubmitKeeps
<1>7. CASE Recording  BY <1>7, ReplyKeeps, CheckKeeps DEF Recording
<1>8. CASE UNCHANGED poolVars
  BY <1>8, QuietKeeps DEF poolVars, Quiet, pipeVars, redisVars, jmVars
<1> QED BY <1>1, <1>2, <1>3, <1>4, <1>5, <1>6, <1>7, <1>8 DEF PoolNext, Daemon

\* The recording of shares keeps its invariant, for every set of daemons and
\* heights.
THEOREM RecordingCorrect == PoolSpec => []RecordingInv
<1>1. PoolInit => RecordingInv
  BY DEF PoolInit, Init, RedisInit, RecordingInv, RecordingType, Placed, Shares,
         Counted, ShareInOneRound
<1>2. PoolSpec => []TypeOK  BY PoolImplementsJobManager, TypeCorrect, PTL
<1> QED BY <1>1, <1>2, RecordingStep, PTL DEF PoolSpec

\* No share is in the tallies of two rounds.
THEOREM SharesInOneRound == PoolSpec => []ShareInOneRound
<1>1. RecordingInv => ShareInOneRound  BY DEF RecordingInv
<1> QED BY <1>1, RecordingCorrect, PTL

\* Every share in a tally was credited and its block taken by every daemon.
THEOREM CountedSharesAccepted == PoolSpec => []CountedWasAccepted
<1>1. RecordingInv => CountedWasAccepted
  <2> SUFFICES ASSUME RecordingInv, NEW i \in Counted
               PROVE  log[i].verdict = "ok" /\ \A d \in Daemons : replies[i][d] = "ok"
    BY DEF CountedWasAccepted
  <2>1. i \in Shares  BY DEF RecordingInv, RecordingType, Counted
  <2> QED BY <2>1 DEF RecordingInv, Placed
<1> QED BY <1>1, RecordingCorrect, PTL

----------------------------------------------------------------------------
(* The blocks booked for payment.                                          *)

ChainInv ==
  /\ chain \in Seq(Blocks) /\ chain # <<>>
  /\ \A h \in 1 .. Len(chain) : HeightOf[chain[h]] = h
  /\ solvedBy \in [Blocks -> {0} \union Shares]

\* The block booked with pair p is one of its share's job.
Mined(p) ==
  \E b \in Blocks :
    HeightOf[b] = p[2] /\ solvedBy[b] # 0 /\ log[solvedBy[b]].job = log[p[1]].job

\* The inductive invariant behind PendingWasMined: pairs are of shares, and
\* blocks never change their maker.
PendingInv ==
  /\ ChainInv
  /\ blocksPending \in SUBSET (Shares \X Heights)
  /\ \A p \in blocksPending : Mined(p)

\* Entries of the log and makers of blocks that stay keep the booked blocks.
LEMMA MinedKept ==
  ASSUME PendingInv, NEW p \in blocksPending,
         \A k \in Shares : log'[k] = log[k],
         \A b \in Blocks : solvedBy[b] # 0 => solvedBy'[b] = solvedBy[b]
  PROVE  Mined(p)'
<1>1. PICK b \in Blocks :
        HeightOf[b] = p[2] /\ solvedBy[b] # 0 /\ log[solvedBy[b]].job = log[p[1]].job
  BY DEF PendingInv, Mined
<1>2. solvedBy[b] \in Shares /\ p[1] \in Shares
  BY <1>1 DEF PendingInv, ChainInv
<1>3. solvedBy'[b] = solvedBy[b]  BY <1>1
<1>4. log'[solvedBy[b]] = log[solvedBy[b]] /\ log'[p[1]] = log[p[1]]  BY <1>2
<1> QED BY <1>1, <1>3, <1>4 DEF Mined

\* A new block goes on top, made by nobody or by a share that exists.
LEMMA ExtendKeeps ==
  ASSUME PendingInv, NEW b \in Blocks, NEW i \in {0} \union Shares, Extend(b, i),
         UNCHANGED <<log, blocksPending>>, Shares' = Shares
  PROVE  PendingInv'
<1>1. /\ b \notin Used /\ HeightOf[b] = Len(chain) + 1
      /\ chain' = Append(chain, b)
      /\ solvedBy' = [solvedBy EXCEPT ![b] = i]
  BY DEF Extend
<1>2. solvedBy[b] = 0  BY <1>1 DEF Used, PendingInv, ChainInv
<1>3. \A c \in Blocks : solvedBy[c] # 0 => solvedBy'[c] = solvedBy[c]
  BY <1>1, <1>2 DEF PendingInv, ChainInv
<1>4. ChainInv'
  <2>1. solvedBy' \in [Blocks -> {0} \union Shares]
    BY <1>1 DEF PendingInv, ChainInv
  <2>2. /\ chain' \in Seq(Blocks) /\ chain' # <<>>
        /\ \A h \in 1 .. Len(chain') : HeightOf[chain'[h]] = h
    BY <1>1 DEF PendingInv, ChainInv
  <2> QED BY <2>1, <2>2 DEF ChainInv
<1>5. \A p \in blocksPending : Mined(p)'  BY <1>3, MinedKept
<1> QED BY <1>4, <1>5 DEF PendingInv

\* Nothing about blocks changes, and the log may grow.
LEMMA StillKeeps ==
  ASSUME PendingInv, UNCHANGED <<chain, solvedBy, blocksPending>>,
         Shares \subseteq Shares', \A k \in Shares : log'[k] = log[k]
  PROVE  PendingInv'
<1>1. ChainInv'  BY DEF PendingInv, ChainInv
<1>2. \A p \in blocksPending : Mined(p)'  BY MinedKept
<1> QED BY <1>1, <1>2 DEF PendingInv

\* A block leaving the chain takes nothing back from what was booked.
LEMMA ReorganizeKeeps ==
  ASSUME PendingInv, Reorganize
  PROVE  PendingInv'
<1>1. PICK b \in Blocks \ {Tip} :
        HeightOf[b] = Len(chain) /\ chain' = [chain EXCEPT ![Len(chain)] = b]
  BY DEF Reorganize
<1>2. UNCHANGED <<solvedBy, blocksPending, log, stage>>
  BY DEF Reorganize, redisVars, jmVars, pipeVars
<1>3. Shares' = Shares  BY <1>2 DEF Shares
<1>4. /\ chain' \in Seq(Blocks) /\ chain' # <<>>
      /\ \A h \in 1 .. Len(chain') : HeightOf[chain'[h]] = h
  BY <1>1 DEF PendingInv, ChainInv
<1>5. ChainInv'  BY <1>2, <1>3, <1>4 DEF PendingInv, ChainInv
<1>6. \A p \in blocksPending : Mined(p)'  BY <1>2, MinedKept
<1> QED BY <1>2, <1>3, <1>5, <1>6 DEF PendingInv

\* A share's block is only booked when its header is on the chain, and then at
\* a height blocks are looked for.
LEMMA BookingKeeps ==
  ASSUME TypeOK, CreditInv, RecordingInv, PendingInv, NEW i \in Shares,
         CheckBlockAccepted(i)
  PROVE  PendingInv'
<1> DEFINE h == ShareHeight(i)
<1>1. /\ stage[i] = "checking"
      /\ stage' = [stage EXCEPT ![i] = "recorded"]
      /\ UNCHANGED <<chain, solvedBy, log, jobs>>
  BY DEF CheckBlockAccepted, jmVars, chainVars
<1>2. \/ blocksPending' = blocksPending
      \/ HeaderOnChain(i) /\ blocksPending' = blocksPending \union {<<i, h>>}
  <2>1. PICK isAccepted \in {HeaderOnChain(i)} \union
                            (IF DaemonsRefuse THEN {FALSE} ELSE {}) :
          HandleShare(TRUE, isAccepted, i, h)
    BY DEF CheckBlockAccepted
  <2>2. CASE isAccepted
    <3>1. HeaderOnChain(i)  BY <2>1, <2>2
    <3> QED BY <2>1, <2>2, <3>1 DEF HandleShare
  <2>3. CASE ~isAccepted  BY <2>1, <2>3 DEF HandleShare
  <2> QED BY <2>2, <2>3
<1>3. Shares' = Shares
  <2>1. stage \in Seq(Stages) /\ DOMAIN stage = Shares
    BY DEF RecordingInv, RecordingType, Shares
  <2> QED BY <1>1, <2>1 DEF Shares
<1>4. ChainInv'  BY <1>1, <1>3 DEF PendingInv, ChainInv
<1>5. \A p \in blocksPending : Mined(p)'  BY <1>1, MinedKept
<1>6. CASE blocksPending' = blocksPending
  BY <1>3, <1>4, <1>5, <1>6 DEF PendingInv
<1>7. CASE HeaderOnChain(i) /\ blocksPending' = blocksPending \union {<<i, h>>}
  <2>1. log[i].job \in Job
    <3>1. log[i].verdict = "ok"  BY <1>1 DEF RecordingInv, Placed
    <3>2. i \in 1 .. Len(log)  BY DEF Shares, RecordingInv, RecordingType
    <3> QED BY <3>1, <3>2 DEF CreditInv
  <2>2. jobs[log[i].job].base \in Blocks
    <3>1. jobs[log[i].job] \in JobType  BY <2>1 DEF TypeOK, Job
    <3> QED BY <3>1 DEF JobType
  <2>3. h \in Heights /\ h \in Nat /\ h >= 1
    <3>1. HeightOf[jobs[log[i].job].base] \in Nat  BY <2>2, JobManagerAssumption
    <3> QED BY <2>2, <3>1, PoolAssumption DEF ShareHeight
  <2>4. Mined(<<i, h>>)
    <3>1. h \in 1 .. Len(chain)
      <4>1. Len(chain) \in Nat /\ h <= Len(chain)
        BY <1>7 DEF HeaderOnChain, PendingInv, ChainInv
      <4> QED BY <2>3, <4>1
    <3>2. chain[h] \in Blocks /\ HeightOf[chain[h]] = h
      BY <3>1 DEF PendingInv, ChainInv
    <3>3. solvedBy[chain[h]] # 0 /\ log[solvedBy[chain[h]]].job = log[i].job
      BY <1>7 DEF HeaderOnChain
    <3> QED BY <3>2, <3>3 DEF Mined
  <2>5. Mined(<<i, h>>)'
    <3>1. h' = h  BY <1>1 DEF ShareHeight
    <3> HIDE DEF h
    <3> QED BY <1>1, <2>4, <3>1 DEF Mined
  <2>6. blocksPending' \in SUBSET (Shares' \X Heights)
    BY <1>3, <1>7, <2>3 DEF PendingInv
  <2>7. \A p \in blocksPending' : Mined(p)'
    <3>1. h' = h  BY <1>1 DEF ShareHeight
    <3>2. TAKE p \in blocksPending'
    <3>3. CASE p \in blocksPending  BY <1>5, <3>3
    <3>4. CASE p = <<i, h>>
      <4> HIDE DEF h
      <4> QED BY <2>5, <3>1, <3>4 DEF Mined
    <3> QED BY <1>7, <3>3, <3>4
  <2> QED BY <1>4, <2>6, <2>7 DEF PendingInv
<1> QED BY <1>2, <1>6, <1>7

\* Every step of the pool keeps the booked blocks' invariant.
LEMMA PendingStep ==
  TypeOK /\ CreditInv /\ RecordingInv /\ PendingInv /\ [PoolNext]_poolVars
    => PendingInv'
<1> SUFFICES ASSUME TypeOK, CreditInv, RecordingInv, PendingInv, [PoolNext]_poolVars
             PROVE  PendingInv'
  OBVIOUS
<1> DEFINE Still == UNCHANGED <<chain, solvedBy, blocksPending, log, stage>>
<1>0. ASSUME Still PROVE PendingInv'
  <2>1. Shares' = Shares  BY <1>0 DEF Shares
  <2> QED BY <1>0, <2>1, StillKeeps
<1>1. CASE OthersFind
  <2>1. PICK b \in Blocks : Extend(b, 0)  BY <1>1 DEF OthersFind
  <2>2. UNCHANGED <<log, blocksPending, stage>>
    BY <1>1 DEF OthersFind, jmVars, redisVars, pipeVars
  <2>3. Shares' = Shares  BY <2>2 DEF Shares
  <2> QED BY <2>1, <2>2, <2>3, ExtendKeeps
<1>2. CASE Reorganize  BY <1>2, ReorganizeKeeps
<1>3. CASE AnswerTemplate
  BY <1>0, <1>3 DEF AnswerTemplate, pipeVars, redisVars, chainVars, jmVars
<1>4. CASE \E b \in Blocks : DeliverTemplate(b)
  BY <1>0, <1>4 DEF DeliverTemplate, ProcessTemplate, pipeVars, redisVars, chainVars
<1>5. CASE \E b \in Blocks : TemplateError(b)
  BY <1>0, <1>5 DEF TemplateError, pipeVars, redisVars, chainVars, jmVars
<1>6. CASE SubmitShare
  <2>1. Len(log') = Len(log) + 1 /\ \A k \in 1 .. Len(log) : log'[k] = log[k]
    BY <1>6, LogGrows DEF SubmitShare
  <2>2. UNCHANGED <<chain, solvedBy, blocksPending>>
    BY <1>6 DEF SubmitShare, HandleShare, redisVars, chainVars
  <2>3. Shares = 1 .. Len(log) /\ Shares' = 1 .. Len(log')
    <3>1. RecordingInv'  BY <1>6, SubmitKeeps
    <3> QED BY <3>1 DEF Shares, RecordingInv, RecordingType
  <2>4. Len(log) \in Nat  BY DEF TypeOK
  <2>5. Shares \subseteq Shares' /\ \A k \in Shares : log'[k] = log[k]
    BY <2>1, <2>3, <2>4
  <2> QED BY <2>2, <2>5, StillKeeps
<1>7. CASE \E i \in Shares, d \in Daemons : ReplySubmit(i, d)
  <2>1. PICK i \in Shares, d \in Daemons : ReplySubmit(i, d)  BY <1>7
  <2>2. UNCHANGED <<log, blocksPending>>
    BY <2>1 DEF ReplySubmit, jmVars, redisVars
  <2>3. Shares' = Shares
    <3>1. RecordingInv'  BY <2>1, ReplyKeeps
    <3> QED BY <2>2, <3>1 DEF Shares, RecordingInv, RecordingType
  <2>4. CASE UNCHANGED chainVars
    BY <2>2, <2>3, <2>4, StillKeeps DEF chainVars
  <2>5. CASE \E b \in Blocks : Extend(b, i)  BY <2>2, <2>3, <2>5, ExtendKeeps
  <2> QED BY <2>1, <2>4, <2>5 DEF ReplySubmit
<1>8. CASE \E i \in Shares : CheckBlockAccepted(i)  BY <1>8, BookingKeeps
<1>9. CASE UNCHANGED poolVars
  BY <1>0, <1>9 DEF poolVars, pipeVars, redisVars, chainVars, jmVars
<1> QED
  BY <1>1, <1>2, <1>3, <1>4, <1>5, <1>6, <1>7, <1>8, <1>9 DEF PoolNext, Daemon, Recording

\* The chain is well-formed, and what is booked was mined, for every daemon's
\* order of answers and every reorganization of the last block.
THEOREM PendingCorrect == PoolSpec => []PendingInv
<1>1. PoolInit => PendingInv
  BY PoolAssumption DEF PoolInit, RedisInit, PendingInv, ChainInv, Shares
<1>2. PoolSpec => [](TypeOK /\ CreditInv)
  BY PoolImplementsJobManager, TypeCorrect, CreditRegistered, PTL
<1> QED BY <1>1, <1>2, RecordingCorrect, PendingStep, PTL DEF PoolSpec

\* A block booked for payment was mined by the pool at that height, whatever
\* the chain did since and whichever daemon answered.
THEOREM BookedBlocksMined == PoolSpec => []PendingWasMined
<1>1. PendingInv => PendingWasMined
  BY DEF PendingInv, Mined, PendingWasMined
<1> QED BY <1>1, PendingCorrect, PTL

\* The parts of the pool keep their types and fit together.
THEOREM PoolTypeCorrect == PoolSpec => []PoolTypeOK
<1> DEFINE Rest == reorgs \in Nat /\ flight \in [Blocks -> Nat]
<1>1. PoolInit => Rest  BY DEF PoolInit
<1>2. PendingInv /\ Rest /\ [PoolNext]_poolVars => Rest'
  <2> SUFFICES ASSUME PendingInv, Rest, [PoolNext]_poolVars PROVE Rest'
    OBVIOUS
  <2>1. CASE OthersFind  BY <2>1 DEF OthersFind, Extend
  <2>2. CASE Reorganize  BY <2>2 DEF Reorganize
  <2>3. CASE AnswerTemplate
    <3>1. UNCHANGED reorgs  BY <2>3 DEF AnswerTemplate, chainVars
    <3>2. flight' = [flight EXCEPT ![Tip] = flight[Tip] + 1]
      BY <2>3 DEF AnswerTemplate
    <3>3. Tip \in Blocks  BY DEF PendingInv, ChainInv, Tip
    <3> QED BY <3>1, <3>2, <3>3
  <2>4. CASE \E b \in Blocks : DeliverTemplate(b)
    BY <2>4 DEF DeliverTemplate, chainVars
  <2>5. CASE \E b \in Blocks : TemplateError(b)
    BY <2>5 DEF TemplateError, chainVars
  <2>6. CASE SubmitShare  BY <2>6 DEF SubmitShare, chainVars
  <2>7. CASE Recording
    BY <2>7 DEF Recording, ReplySubmit, Extend, CheckBlockAccepted, chainVars
  <2>8. CASE UNCHANGED poolVars  BY <2>8 DEF poolVars, chainVars
  <2> QED BY <2>1, <2>2, <2>3, <2>4, <2>5, <2>6, <2>7, <2>8 DEF PoolNext, Daemon
<1>3. PoolSpec => []TypeOK  BY PoolImplementsJobManager, TypeCorrect, PTL
<1>4. TypeOK /\ RecordingInv /\ PendingInv /\ Rest => PoolTypeOK
  BY DEF RecordingInv, RecordingType, PendingInv, ChainInv, PoolTypeOK, Replies
<1> QED BY <1>1, <1>2, <1>3, <1>4, RecordingCorrect, PendingCorrect, PTL DEF PoolSpec

----------------------------------------------------------------------------
(* The pool keeps the round ledger.                                        *)

Entered == {i \in Shares : stage[i] = "recorded"}

\* No more shares than the model's bound, which gives the ledger its entries.
LogBound == Len(log) <= MaxShares

\* A step that records nothing is none to the ledger.
LEMMA LedgerStutters ==
  ASSUME UNCHANGED <<round, rounds, blocksPending>>, Entered' = Entered
  PROVE  UNCHANGED Ledger!ledgerVars
BY DEF Ledger!ledgerVars, Entered

\* The check of a share's block enters the share, and a block closes the round.
LEMMA CheckEnters ==
  ASSUME TypeOK, CreditInv, RecordingInv, LogBound,
         NEW i \in Shares, CheckBlockAccepted(i)
  PROVE  Ledger!Next
<1> DEFINE h == ShareHeight(i)
<1>1. /\ stage[i] = "checking"
      /\ stage' = [stage EXCEPT ![i] = "recorded"]
      /\ UNCHANGED <<log, jobs>>
  BY DEF CheckBlockAccepted, jmVars
<1>2. /\ Shares = 1 .. Len(log) /\ Len(log) \in Nat /\ DOMAIN stage = Shares
      /\ Len(stage) = Len(log) /\ stage \in Seq(Stages)
  BY DEF RecordingInv, RecordingType, Shares
<1>3. i \in 1 .. MaxShares
  BY <1>2, JobManagerAssumption DEF LogBound
<1>4. i \notin Entered /\ Entered' = Entered \union {i}
  <2>1. Shares' = Shares
    <3>1. Len(stage') = Len(stage)  BY <1>1, <1>2
    <3> QED BY <3>1 DEF Shares
  <2>2. stage'[i] = "recorded" /\ \A k \in Shares \ {i} : stage'[k] = stage[k]
    BY <1>1, <1>2
  <2> QED BY <1>1, <2>1, <2>2 DEF Entered
<1>5. h \in Heights
  <2>1. log[i].job \in Job
    <3>1. log[i].verdict = "ok"  BY <1>1 DEF RecordingInv, Placed
    <3> QED BY <1>2, <3>1 DEF CreditInv
  <2>2. jobs[log[i].job].base \in Blocks
    <3>1. jobs[log[i].job] \in JobType  BY <2>1 DEF TypeOK, Job
    <3> QED BY <3>1 DEF JobType
  <2> QED BY <2>2, PoolAssumption DEF ShareHeight
<1>6. Ledger!Enter(i)  BY <1>4 DEF Ledger!Enter, Entered
<1>7. PICK isAccepted \in {HeaderOnChain(i)} \union
                          (IF DaemonsRefuse THEN {FALSE} ELSE {}) :
        HandleShare(TRUE, isAccepted, i, h)
  BY DEF CheckBlockAccepted
<1> HIDE DEF h
<1>8. CASE isAccepted
  <2>1. Ledger!Close(i, h)
    BY <1>6, <1>7, <1>8 DEF HandleShare, CloseRound, Ledger!Close
  <2> QED BY <1>3, <1>5, <2>1 DEF Ledger!Next
<1>9. CASE ~isAccepted
  <2>1. Ledger!Count(i)
    BY <1>6, <1>7, <1>9 DEF HandleShare, Ledger!Count
  <2> QED BY <1>3, <2>1 DEF Ledger!Next
<1> QED BY <1>8, <1>9

\* Every step of the pool is a step of the ledger or none.
LEMMA LedgerStep ==
  TypeOK /\ CreditInv /\ RecordingInv /\ LogBound /\ [PoolNext]_poolVars
    => [Ledger!Next]_(Ledger!ledgerVars)
<1> SUFFICES ASSUME TypeOK, CreditInv, RecordingInv, LogBound, [PoolNext]_poolVars
             PROVE  [Ledger!Next]_(Ledger!ledgerVars)
  OBVIOUS
<1> DEFINE Still == UNCHANGED <<round, rounds, blocksPending, stage>>
<1>0. ASSUME Still PROVE UNCHANGED Ledger!ledgerVars
  <2>1. Entered' = Entered  BY <1>0 DEF Entered, Shares
  <2> QED BY <1>0, <2>1, LedgerStutters
<1>1. CASE OthersFind  BY <1>0, <1>1 DEF OthersFind, redisVars, pipeVars
<1>2. CASE Reorganize  BY <1>0, <1>2 DEF Reorganize, redisVars, pipeVars
<1>3. CASE AnswerTemplate  BY <1>0, <1>3 DEF AnswerTemplate, redisVars, pipeVars
<1>4. CASE \E b \in Blocks : DeliverTemplate(b)
  BY <1>0, <1>4 DEF DeliverTemplate, redisVars, pipeVars
<1>5. CASE \E b \in Blocks : TemplateError(b)
  BY <1>0, <1>5 DEF TemplateError, redisVars, pipeVars
<1>6. CASE SubmitShare
  <2> DEFINE st == IF log'[Len(log) + 1].verdict = "ok" THEN "submitting" ELSE "rejected"
  <2>1. UNCHANGED <<round, rounds, blocksPending>>
    BY <1>6 DEF SubmitShare, HandleShare, redisVars
  <2>2. stage' = Append(stage, st) /\ st # "recorded" /\ st \in Stages
    BY <1>6 DEF SubmitShare, Stages
  <2>3. stage \in Seq(Stages)  BY DEF RecordingInv, RecordingType
  <2> HIDE DEF st
  <2>4. /\ Len(stage') = Len(stage) + 1 /\ Len(stage) \in Nat
        /\ stage'[Len(stage) + 1] = st
        /\ \A k \in 1 .. Len(stage) : stage'[k] = stage[k]
    BY <2>2, <2>3
  <2>5. Entered' = Entered  BY <2>2, <2>4 DEF Entered, Shares
  <2> QED BY <2>1, <2>5, LedgerStutters
<1>7. CASE \E i \in Shares, d \in Daemons : ReplySubmit(i, d)
  <2>1. PICK i \in Shares, d \in Daemons : ReplySubmit(i, d)  BY <1>7
  <2>2. /\ stage[i] = "submitting"
        /\ stage' = [stage EXCEPT ![i] = AfterReplies(replies'[i])]
        /\ UNCHANGED <<round, rounds, blocksPending>>
    BY <2>1 DEF ReplySubmit, redisVars
  <2>3. AfterReplies(replies'[i]) # "recorded"  BY DEF AfterReplies
  <2>4. stage \in Seq(Stages) /\ DOMAIN stage = Shares
    BY DEF RecordingInv, RecordingType, Shares
  <2>5. /\ Len(stage') = Len(stage) /\ stage'[i] # "recorded"
        /\ \A k \in Shares \ {i} : stage'[k] = stage[k]
    BY <2>2, <2>3, <2>4
  <2>6. Entered' = Entered  BY <2>2, <2>5 DEF Entered, Shares
  <2> QED BY <2>2, <2>6, LedgerStutters
<1>8. CASE \E i \in Shares : CheckBlockAccepted(i)  BY <1>8, CheckEnters
<1>9. CASE UNCHANGED poolVars
  BY <1>0, <1>9 DEF poolVars, pipeVars, redisVars
<1> QED
  BY <1>1, <1>2, <1>3, <1>4, <1>5, <1>6, <1>7, <1>8, <1>9 DEF PoolNext, Daemon, Recording

\* The pool implements the ledger of rounds, whatever its daemons answer: a share
\* is entered once, and what a round closed with stays in it.
THEOREM PoolKeepsLedger == PoolSpec => KeepsLedger
<1>1. PoolInit => Ledger!Init
  BY DEF PoolInit, RedisInit, Ledger!Init, Shares
<1>2. PoolSpec => [](TypeOK /\ CreditInv)
  BY PoolImplementsJobManager, TypeCorrect, CreditRegistered, PTL
<1>3. PoolSpec => []LogBound
  <2>1. PoolInit => LogBound
    BY JobManagerAssumption DEF PoolInit, Init, LogBound
  <2>2. TypeOK /\ LogBound /\ [PoolNext]_poolVars => LogBound'
    <3> SUFFICES ASSUME TypeOK, LogBound, [Next]_jmVars PROVE LogBound'
      BY JobManagerStep
    <3>1. CASE ReceiveTemplate
      BY <3>1 DEF ReceiveTemplate, ProcessTemplate, LogBound
    <3>2. CASE ReceiveShare
      <4>1. Len(log') = Len(log) + 1
        <5>1. PICK s \in Share : Logs(s)  BY <3>2, ShareStep
        <5> QED BY <5>1 DEF Logs, TypeOK
      <4>2. Len(log) < MaxShares
        BY <3>2 DEF ReceiveShare, ProcessShare
      <4>3. Len(log) \in Nat  BY DEF TypeOK
      <4> QED BY <4>1, <4>2, <4>3, JobManagerAssumption DEF LogBound
    <3>3. CASE UNCHANGED jmVars  BY <3>3 DEF jmVars, LogBound
    <3> QED BY <3>1, <3>2, <3>3 DEF Next
  <2> QED BY <1>2, <2>1, <2>2, PTL DEF PoolSpec
<1> QED
  BY <1>1, <1>2, <1>3, LedgerStep, RecordingCorrect, PTL
  DEF PoolSpec, KeepsLedger, Ledger!Spec
=============================================================================
