-------------------------- MODULE JobRunnerProofs --------------------------
(***************************************************************************)
(* Proofs about PersistedJobRunner, for any set of jobs, any kinds, delays *)
(* and number of attempts, with or without failed writes; and that it      *)
(* keeps its jobs, counts their retries and implements DurableJobs.        *)
(***************************************************************************)
EXTENDS JobRunner, SequenceTheorems, TLAPS

-----------------------------------------------------------------------------
(* The operators on lists of jobs *)

\* sortJobsList keeps the jobs of the list, and what holds of them.
LEMMA SortKeeps ==
  ASSUME NEW s \in Seq(Job), SortJobsList(s)
  PROVE  /\ jobsScheduled' \in Seq(Job)
         /\ Len(jobsScheduled') = Len(s)
         /\ Identifiers(jobsScheduled') = Identifiers(s)
         /\ NoDuplicate(s) => NoDuplicate(jobsScheduled')
         /\ AtMostTwoOfAKind(s) => AtMostTwoOfAKind(jobsScheduled')
<1>1. PICK p \in Bijection(DOMAIN s, DOMAIN s) :
        jobsScheduled' = [i \in DOMAIN s |-> s[p[i]]]
  BY DEF SortJobsList
<1>2. /\ p \in [DOMAIN s -> DOMAIN s]
      /\ \A i, j \in DOMAIN s : p[i] = p[j] => i = j
      /\ \A j \in DOMAIN s : \E i \in DOMAIN s : p[i] = j
  BY <1>1 DEF Bijection, Injection, Surjection, IsInjective
<1>3. DOMAIN s = 1 .. Len(s) /\ Len(s) \in Nat /\ \A i \in DOMAIN s : s[i] \in Job
  BY LenProperties, ElementOfSeq
<1>4. /\ jobsScheduled' \in Seq(Job)
      /\ Len(jobsScheduled') = Len(s)
      /\ DOMAIN jobsScheduled' = DOMAIN s
      /\ \A i \in DOMAIN s : jobsScheduled'[i] = s[p[i]]
  BY <1>1, <1>2, <1>3, IsASeq
<1>5. Identifiers(jobsScheduled') = Identifiers(s)
  <2>1. ASSUME NEW i \in DOMAIN s PROVE jobsScheduled'[i].id \in Identifiers(s)
    BY <1>2, <1>4 DEF Identifiers
  <2>2. ASSUME NEW j \in DOMAIN s PROVE s[j].id \in Identifiers(jobsScheduled')
    <3>1. PICK i \in DOMAIN s : p[i] = j
      BY <1>2
    <3> QED BY <1>4, <3>1 DEF Identifiers
  <2> QED BY <1>4, <2>1, <2>2 DEF Identifiers
<1>6. NoDuplicate(s) => NoDuplicate(jobsScheduled')
  <2>1. SUFFICES ASSUME NoDuplicate(s), NEW i \in DOMAIN s, NEW j \in DOMAIN s,
                        s[p[i]].id = s[p[j]].id
                 PROVE  i = j
    BY <1>4 DEF NoDuplicate
  <2>2. p[i] \in DOMAIN s /\ p[j] \in DOMAIN s
    BY <1>2
  <2>3. p[i] = p[j]
    BY <2>1, <2>2 DEF NoDuplicate
  <2>4. QED
    BY <1>2, <2>3
<1>7. AtMostTwoOfAKind(s) => AtMostTwoOfAKind(jobsScheduled')
  <2>1. SUFFICES ASSUME AtMostTwoOfAKind(s),
                        NEW i \in DOMAIN s, NEW j \in DOMAIN s, NEW k \in DOMAIN s,
                        KindOf[s[p[i]].id] = KindOf[s[p[j]].id],
                        KindOf[s[p[j]].id] = KindOf[s[p[k]].id]
                 PROVE  i = j \/ j = k \/ i = k
    BY <1>4, SMTT(30) DEF AtMostTwoOfAKind
  <2>2. p[i] \in DOMAIN s /\ p[j] \in DOMAIN s /\ p[k] \in DOMAIN s
    BY <1>2
  <2>3. p[i] = p[j] \/ p[j] = p[k] \/ p[i] = p[k]
    BY <2>1, <2>2 DEF AtMostTwoOfAKind
  <2>4. QED
    BY <1>2, <2>3
<1>8. QED
  BY <1>4, <1>5, <1>6, <1>7

\* deleteJobsByIdentifier removes one job and keeps the others.
LEMMA DeleteKeeps ==
  ASSUME NEW s \in Seq(Job), NEW k \in DOMAIN s
  PROVE  /\ DeleteAt(s, k) \in Seq(Job)
         /\ NoDuplicate(s) => NoDuplicate(DeleteAt(s, k))
         /\ AtMostTwoOfAKind(s) => AtMostTwoOfAKind(DeleteAt(s, k))
<1> DEFINE t == DeleteAt(s, k)
           old(i) == IF i < k THEN i ELSE i + 1
<1>1. DOMAIN s = 1 .. Len(s) /\ Len(s) \in Nat /\ \A i \in DOMAIN s : s[i] \in Job
  BY LenProperties, ElementOfSeq
<1>2. /\ DOMAIN t = 1 .. Len(s) - 1
      /\ \A i \in DOMAIN t : old(i) \in DOMAIN s /\ t[i] = s[old(i)]
      /\ \A i, j \in DOMAIN t : old(i) = old(j) => i = j
  BY <1>1 DEF DeleteAt
<1>3. t \in Seq(Job)
  <2>1. Len(s) - 1 \in Nat
    BY <1>1
  <2>2. QED
    BY <1>1, <1>2, <2>1, IsASeq DEF DeleteAt
<1> HIDE DEF t, old
<1>4. NoDuplicate(s) => NoDuplicate(t)
  BY <1>2 DEF NoDuplicate
<1>5. AtMostTwoOfAKind(s) => AtMostTwoOfAKind(t)
  <2>1. SUFFICES ASSUME AtMostTwoOfAKind(s),
                        NEW i \in DOMAIN t, NEW j \in DOMAIN t, NEW l \in DOMAIN t,
                        KindOf[s[old(i)].id] = KindOf[s[old(j)].id],
                        KindOf[s[old(j)].id] = KindOf[s[old(l)].id]
                 PROVE  i = j \/ j = l \/ i = l
    BY <1>2 DEF AtMostTwoOfAKind
  <2>2. old(i) = old(j) \/ old(j) = old(l) \/ old(i) = old(l)
    BY <1>2, <2>1 DEF AtMostTwoOfAKind
  <2>3. QED
    BY <1>2, <2>2
<1>6. QED
  BY <1>3, <1>4, <1>5 DEF t

\* A failed attempt changes neither the identifiers nor their places.
LEMMA RescheduleKeeps ==
  ASSUME NEW s \in Seq(Job), NEW k \in DOMAIN s
  PROVE  /\ RescheduleAt(s, k) \in Seq(Job)
         /\ Identifiers(RescheduleAt(s, k)) = Identifiers(s)
         /\ NoDuplicate(s) => NoDuplicate(RescheduleAt(s, k))
         /\ AtMostTwoOfAKind(s) => AtMostTwoOfAKind(RescheduleAt(s, k))
<1> DEFINE t == RescheduleAt(s, k)
<1>1. DOMAIN s = 1 .. Len(s) /\ Len(s) \in Nat /\ \A i \in DOMAIN s : s[i] \in Job
  BY LenProperties, ElementOfSeq
<1>2. /\ DOMAIN t = DOMAIN s
      /\ \A i \in DOMAIN s : t[i] \in Job /\ t[i].id = s[i].id
  <2> DEFINE again(job) == [id |-> job.id, due |-> RetryDelay,
                            currentRetry |-> job.currentRetry + 1]
  <2>1. \A job \in Job : again(job) \in Job /\ again(job).id = job.id
    BY DelayAssumption DEF Job
  <2>2. /\ DOMAIN t = DOMAIN s
        /\ \A i \in DOMAIN s : t[i] = IF i = k THEN again(s[i]) ELSE s[i]
    BY <1>1 DEF RescheduleAt
  <2> HIDE DEF t, again
  <2>3. QED
    BY <1>1, <2>1, <2>2
<1>3. t = [i \in 1 .. Len(s) |-> t[i]]
  BY <1>1, <1>2 DEF RescheduleAt
<1> HIDE DEF t
<1>4. t \in Seq(Job)
  BY <1>1, <1>2, <1>3, IsASeq
<1>5. Identifiers(t) = Identifiers(s)
  BY <1>2 DEF Identifiers
<1>6. NoDuplicate(s) => NoDuplicate(t)
  BY <1>2 DEF NoDuplicate
<1>7. AtMostTwoOfAKind(s) => AtMostTwoOfAKind(t)
  BY <1>2 DEF AtMostTwoOfAKind
<1>8. QED
  BY <1>2, <1>4, <1>5, <1>6, <1>7 DEF t

\* Time only changes the dues, and does not shorten a timer more than them.
LEMMA SoonerKeeps ==
  ASSUME NEW s \in Seq(Job)
  PROVE  /\ SoonerJobs(s) \in Seq(Job)
         /\ DOMAIN SoonerJobs(s) = DOMAIN s
         /\ \A i \in DOMAIN s : SoonerJobs(s)[i].due = Sooner(s[i].due)
         /\ Identifiers(SoonerJobs(s)) = Identifiers(s)
         /\ NoDuplicate(s) => NoDuplicate(SoonerJobs(s))
         /\ AtMostTwoOfAKind(s) => AtMostTwoOfAKind(SoonerJobs(s))
<1> DEFINE t == SoonerJobs(s)
<1>1. DOMAIN s = 1 .. Len(s) /\ Len(s) \in Nat /\ \A i \in DOMAIN s : s[i] \in Job
  BY LenProperties, ElementOfSeq
<1>2. /\ DOMAIN t = DOMAIN s
      /\ \A i \in DOMAIN s : t[i] \in Job /\ t[i].id = s[i].id /\ t[i].due = Sooner(s[i].due)
  <2> DEFINE later(job) == [id |-> job.id, due |-> Sooner(job.due),
                            currentRetry |-> job.currentRetry]
  <2>1. \A job \in Job :
          later(job) \in Job /\ later(job).id = job.id /\ later(job).due = Sooner(job.due)
    BY DEF Job, Sooner
  <2>2. DOMAIN t = DOMAIN s /\ \A i \in DOMAIN s : t[i] = later(s[i])
    BY DEF SoonerJobs
  <2> HIDE DEF t, later
  <2>3. QED
    BY <1>1, <2>1, <2>2
<1>3. t = [i \in 1 .. Len(s) |-> t[i]]
  BY <1>1, <1>2 DEF SoonerJobs
<1> HIDE DEF t
<1>4. t \in Seq(Job)
  BY <1>1, <1>2, <1>3, IsASeq
<1>5. Identifiers(t) = Identifiers(s)
  BY <1>2 DEF Identifiers
<1>6. NoDuplicate(s) => NoDuplicate(t)
  BY <1>2 DEF NoDuplicate
<1>7. AtMostTwoOfAKind(s) => AtMostTwoOfAKind(t)
  BY <1>2 DEF AtMostTwoOfAKind
<1>8. QED
  BY <1>2, <1>4, <1>5, <1>6, <1>7 DEF t

\* A job of a kind that no other job but one has may be appended.
LEMMA AppendKeeps ==
  ASSUME NEW s \in Seq(Job), NEW job \in Job, NEW one,
         job.id \notin Identifiers(s), NoDuplicate(s),
         \A i \in DOMAIN s : s[i].id # one => KindOf[s[i].id] # KindOf[job.id]
  PROVE  /\ Append(s, job) \in Seq(Job)
         /\ Append(s, job) # <<>>
         /\ Identifiers(s) \subseteq Identifiers(Append(s, job))
         /\ NoDuplicate(Append(s, job))
         /\ AtMostTwoOfAKind(s) => AtMostTwoOfAKind(Append(s, job))
<1> DEFINE t == Append(s, job)
<1>1. /\ DOMAIN s = 1 .. Len(s) /\ Len(s) \in Nat
      /\ t \in Seq(Job) /\ DOMAIN t = 1 .. Len(s) + 1
      /\ \A i \in DOMAIN s : t[i] = s[i]
      /\ t[Len(s) + 1] = job
  BY LenProperties, AppendProperties
<1>2. t # <<>>
  BY AppendProperties
<1> HIDE DEF t
<1>3. Identifiers(s) \subseteq Identifiers(t)
  BY <1>1 DEF Identifiers
<1>4. \A i \in DOMAIN s : s[i].id # job.id
  BY DEF Identifiers
<1>5. NoDuplicate(t)
  <2>1. \A i \in DOMAIN t : i \in DOMAIN s \/ i = Len(s) + 1
    BY <1>1
  <2>2. QED
    BY <1>1, <1>4, <2>1 DEF NoDuplicate
<1>6. AtMostTwoOfAKind(s) => AtMostTwoOfAKind(t)
  <2>1. SUFFICES ASSUME AtMostTwoOfAKind(s),
                        NEW i \in DOMAIN t, NEW j \in DOMAIN t, NEW k \in DOMAIN t,
                        KindOf[t[i].id] = KindOf[t[j].id],
                        KindOf[t[j].id] = KindOf[t[k].id]
                 PROVE  i = j \/ j = k \/ i = k
    BY DEF AtMostTwoOfAKind
  <2>2. \A l \in DOMAIN t : (l \in DOMAIN s /\ t[l] = s[l]) \/ (l = Len(s) + 1 /\ t[l] = job)
    <3>1. \A l \in 1 .. Len(s) + 1 : l \in 1 .. Len(s) \/ l = Len(s) + 1
      BY <1>1
    <3>2. QED
      BY <1>1, <3>1
  <2>3. \A l \in DOMAIN s : KindOf[s[l].id] = KindOf[job.id] => s[l].id = one
    OBVIOUS
  <2>4. \A l, m \in DOMAIN s : s[l].id = one /\ s[m].id = one => l = m
    BY DEF NoDuplicate
  <2>5. CASE i \in DOMAIN s /\ j \in DOMAIN s /\ k \in DOMAIN s
    BY <1>1, <2>1, <2>5 DEF AtMostTwoOfAKind
  <2>6. CASE i \notin DOMAIN s
    BY <2>1, <2>2, <2>3, <2>4, <2>6
  <2>7. CASE j \notin DOMAIN s
    BY <2>1, <2>2, <2>3, <2>4, <2>7
  <2>8. CASE k \notin DOMAIN s
    BY <2>1, <2>2, <2>3, <2>4, <2>8
  <2>9. QED
    BY <2>5, <2>6, <2>7, <2>8
<1>7. QED
  BY <1>1, <1>2, <1>3, <1>5, <1>6 DEF t

-----------------------------------------------------------------------------
(* Planning *)

\* planNextJob leaves an attempt of a listed job in progress, or a timer that
\* fires no later than the first job is due, or nothing to do.
LEMMA PlanKeeps ==
  ASSUME TypeOK, NEW started \in BOOLEAN, NEW idle \in Nat \cup {NoTimer},
         PlanNextJob(jobsScheduled, started, idle)
  PROVE  /\ currentJob' \in Jobs \cup {NoJob}
         /\ promise' \in [Jobs -> {"none", "pending"} \cup RunJobResult]
         /\ timer' \in Nat \cup {NoTimer}
         /\ currentJob' # NoJob => currentJob' \in Identifiers(jobsScheduled)
         /\ started /\ jobsScheduled # <<>> /\ currentJob' = NoJob
              => timer' # NoTimer /\ timer' <= jobsScheduled[1].due
<1>1. jobsScheduled # <<>> => 1 \in DOMAIN jobsScheduled /\ jobsScheduled[1] \in Job
  BY EmptySeq, LenProperties, ElementOfSeq DEF TypeOK
<1>2. CASE /\ ~started \/ jobsScheduled = <<>>
           /\ timer' = idle
           /\ currentJob' = NoJob
           /\ UNCHANGED promise
  BY <1>2 DEF TypeOK
<1>3. CASE /\ started /\ jobsScheduled # <<>> /\ jobsScheduled[1].due = 0
           /\ timer' = NoTimer
           /\ currentJob' = jobsScheduled[1].id
           /\ RunJob(jobsScheduled[1].id)
  <2>1. currentJob' \in Jobs
    BY <1>1, <1>3 DEF Job
  <2>2. currentJob' \in Identifiers(jobsScheduled)
    BY <1>1, <1>3 DEF Identifiers
  <2>3. promise' \in [Jobs -> {"none", "pending"} \cup RunJobResult]
    BY <1>1, <1>3 DEF RunJob, TypeOK, Job
  <2>4. currentJob' # NoJob
    BY <2>1, SentinelAssumption
  <2>5. QED
    BY <1>3, <2>1, <2>2, <2>3, <2>4
<1>4. CASE /\ started /\ jobsScheduled # <<>> /\ jobsScheduled[1].due > 0
           /\ timer' = jobsScheduled[1].due
           /\ currentJob' = NoJob
           /\ UNCHANGED promise
  BY <1>1, <1>4, SentinelAssumption DEF TypeOK, Job
<1>5. QED
  BY <1>2, <1>3, <1>4 DEF PlanNextJob

\* The steps that plan without touching the list keep the invariant.
LEMMA PlanPreserves ==
  ASSUME IInv, NEW idle \in Nat \cup {NoTimer},
         isInit, isInit' = isInit, isStarted' \in BOOLEAN,
         jobsScheduled' = jobsScheduled, db' = db, adding' \in Nat,
         \/ currentJob = NoJob /\ writing' = writing
         \/ writing' = FALSE,
         PlanNextJob(jobsScheduled, isStarted', idle)
  PROVE  IInv'
<1>1. TypeOK
  BY DEF IInv
<1>2. /\ currentJob' \in Jobs \cup {NoJob}
      /\ promise' \in [Jobs -> {"none", "pending"} \cup RunJobResult]
      /\ timer' \in Nat \cup {NoTimer}
      /\ currentJob' # NoJob => currentJob' \in Identifiers(jobsScheduled)
      /\ isStarted' /\ jobsScheduled # <<>> /\ currentJob' = NoJob
           => timer' # NoTimer /\ timer' <= jobsScheduled[1].due
  BY <1>1, PlanKeeps
<1>3. writing' = FALSE
  BY DEF IInv, Phases, TypeOK
<1>4. TypeOK'
  BY <1>2, <1>3 DEF IInv, TypeOK
<1>5. CurrentIsListed' /\ Phases' /\ NoLostWakeup'
  BY <1>2, <1>3 DEF CurrentIsListed, Phases, NoLostWakeup
<1>6. (NoDuplicate(jobsScheduled) /\ NoDuplicate(db) /\ BoundedQueue)'
  BY DEF IInv, BoundedQueue
<1>7. QED
  BY <1>4, <1>5, <1>6 DEF IInv

-----------------------------------------------------------------------------
(* The steps *)

LEMMA InitHolds == Init => IInv
<1>1. SUFFICES ASSUME Init PROVE IInv
  OBVIOUS
<1>2. <<>> \in Seq(Job) /\ DOMAIN <<>> = {}
  BY EmptySeq, LenProperties
<1>3. TypeOK
  BY <1>1, <1>2 DEF Init, TypeOK
<1>4. QED
  BY <1>1, <1>2, <1>3 DEF Init, IInv, NoDuplicate, BoundedQueue, AtMostTwoOfAKind,
       CurrentIsListed, Phases, NoLostWakeup

LEMMA LoadPreserves == IInv /\ LoadJobsFromDb => IInv'
<1>1. SUFFICES ASSUME IInv, LoadJobsFromDb PROVE IInv'
  OBVIOUS
<1> USE DEF IInv
<1>2. db \in Seq(Job)
  BY <1>1 DEF TypeOK
<1>3. /\ jobsScheduled' \in Seq(Job)
      /\ NoDuplicate(jobsScheduled') /\ AtMostTwoOfAKind(jobsScheduled')
  BY <1>1, <1>2, SortKeeps DEF LoadJobsFromDb, BoundedQueue
<1>4. currentJob' = NoJob /\ isStarted' = FALSE /\ writing' = FALSE
  BY <1>1 DEF LoadJobsFromDb, Phases, TypeOK
<1>5. TypeOK'
  BY <1>1, <1>3 DEF LoadJobsFromDb, TypeOK
<1>6. (NoDuplicate(db) /\ BoundedQueue)'
  BY <1>1, <1>3 DEF LoadJobsFromDb, BoundedQueue
<1>7. (CurrentIsListed /\ Phases /\ NoLostWakeup)'
  BY <1>1, <1>4 DEF LoadJobsFromDb, CurrentIsListed, Phases, NoLostWakeup
<1>8. QED
  BY <1>3, <1>5, <1>6, <1>7

\* The steps that call planNextJob keep the invariant: either an attempt is in
\* progress and nothing happens, or PlanPreserves applies.
LEMMA PlanStepPreserves ==
  ASSUME IInv, NEW idle \in {timer, NoTimer},
         isInit, isInit' = isInit, isStarted' \in BOOLEAN,
         jobsScheduled' = jobsScheduled, db' = db, adding' \in Nat,
         writing' = writing,
         PlanUnlessRunning(jobsScheduled, isStarted', idle)
  PROVE  IInv'
<1>1. idle \in Nat \cup {NoTimer}
  BY DEF IInv, TypeOK
<1>2. CASE currentJob = NoJob
  BY <1>1, <1>2, PlanPreserves DEF PlanUnlessRunning
<1>3. CASE currentJob # NoJob
  <2>1. timer' = idle /\ UNCHANGED <<currentJob, promise>>
    BY <1>3 DEF PlanUnlessRunning
  <2>2. TypeOK'
    BY <1>1, <2>1 DEF IInv, TypeOK
  <2>3. (CurrentIsListed /\ Phases /\ NoLostWakeup)'
    BY <1>3, <2>1 DEF IInv, CurrentIsListed, Phases, NoLostWakeup
  <2>4. (NoDuplicate(jobsScheduled) /\ NoDuplicate(db) /\ BoundedQueue)'
    BY DEF IInv, BoundedQueue
  <2>5. QED
    BY <2>2, <2>3, <2>4 DEF IInv
<1>4. QED
  BY <1>2, <1>3

LEMMA StartPreserves == IInv /\ StartProcessing => IInv'
  BY PlanStepPreserves DEF StartProcessing, IInv, TypeOK

LEMMA AddWrittenPreserves == IInv /\ AddJobWritten => IInv'
<1>1. SUFFICES ASSUME IInv, AddJobWritten PROVE IInv'
  OBVIOUS
<1>2. adding \in Nat /\ adding' \in Nat /\ isStarted \in BOOLEAN
  BY <1>1 DEF AddJobWritten, IInv, TypeOK
<1>3. isInit
  BY <1>1, <1>2 DEF AddJobWritten, IInv, Phases
<1>4. isStarted' = isStarted /\ PlanUnlessRunning(jobsScheduled, isStarted', timer)
  BY <1>1 DEF AddJobWritten
<1>5. QED
  BY <1>1, <1>2, <1>3, <1>4, PlanStepPreserves DEF AddJobWritten

LEMMA TimerPreserves == IInv /\ TimerFires => IInv'
<1>1. SUFFICES ASSUME IInv, TimerFires PROVE IInv'
  OBVIOUS
<1>2. CASE isInit
  <2>1. isStarted' = isStarted /\ PlanUnlessRunning(jobsScheduled, isStarted', NoTimer)
    BY <1>1 DEF TimerFires
  <2>2. QED
    BY <1>1, <1>2, <2>1, PlanStepPreserves DEF TimerFires, IInv, TypeOK
<1>3. CASE ~isInit
  <2>1. ~isStarted /\ jobsScheduled = <<>> /\ currentJob = NoJob
    BY <1>1, <1>3 DEF IInv, Phases
  <2>2. timer' = NoTimer /\ currentJob' = currentJob /\ promise' = promise
    BY <1>1, <2>1 DEF TimerFires, PlanUnlessRunning, PlanNextJob
  <2>3. QED
    BY <1>1, <2>1, <2>2 DEF TimerFires, IInv, TypeOK, BoundedQueue, CurrentIsListed,
         Phases, NoLostWakeup
<1>4. QED
  BY <1>2, <1>3

LEMMA WrittenPreserves == IInv /\ AttemptWritten => IInv'
<1>1. SUFFICES ASSUME IInv, AttemptWritten PROVE IInv'
  OBVIOUS
<1>2. isInit /\ timer \in Nat \cup {NoTimer}
  BY <1>1 DEF AttemptWritten, IInv, Phases, TypeOK
<1>3. isStarted' = isStarted /\ PlanNextJob(jobsScheduled, isStarted', timer)
  BY <1>1 DEF AttemptWritten
<1>4. QED
  BY <1>1, <1>2, <1>3, PlanPreserves DEF AttemptWritten, IInv, TypeOK

LEMMA AddPreserves ==
  ASSUME IInv, NEW id \in Jobs, NEW delay \in StartDelays, AddJob(id, delay)
  PROVE  IInv'
<1> DEFINE job == [id |-> id, due |-> delay, currentRetry |-> 0]
           longer == Append(jobsScheduled, job)
<1>1. jobsScheduled \in Seq(Job) /\ job \in Job /\ NoDuplicate(jobsScheduled)
  BY DelayAssumption DEF IInv, TypeOK, Job
<1>2. /\ job.id \notin Identifiers(jobsScheduled)
      /\ \A i \in DOMAIN jobsScheduled :
           jobsScheduled[i].id # currentJob => KindOf[jobsScheduled[i].id] # KindOf[job.id]
  BY DEF AddJob, NonRunning
<1> HIDE DEF job
<1>3. /\ longer \in Seq(Job)
      /\ Identifiers(jobsScheduled) \subseteq Identifiers(longer)
      /\ NoDuplicate(longer)
      /\ AtMostTwoOfAKind(jobsScheduled) => AtMostTwoOfAKind(longer)
  BY <1>1, <1>2, AppendKeeps
<1>4. SortJobsList(longer)
  BY DEF AddJob, job
<1> HIDE DEF longer
<1>5. /\ jobsScheduled' \in Seq(Job)
      /\ Identifiers(jobsScheduled) \subseteq Identifiers(jobsScheduled')
      /\ NoDuplicate(jobsScheduled')
      /\ AtMostTwoOfAKind(jobsScheduled')
  BY <1>3, <1>4, SortKeeps DEF IInv, BoundedQueue
<1>6. /\ isInit /\ isInit' = isInit /\ isStarted' = isStarted /\ currentJob' = currentJob
      /\ writing' = writing /\ timer' = timer
      /\ adding' = adding + 1
      /\ promise' = [promise EXCEPT ![id] = "none"]
      /\ db' = jobsScheduled' \/ db' = db
  BY DEF AddJob, WriteJobsToDB
<1>7. TypeOK'
  <2>1. db' \in Seq(Job)
    BY <1>5, <1>6 DEF IInv, TypeOK
  <2>2. promise' \in [Jobs -> {"none", "pending"} \cup RunJobResult]
    BY <1>6 DEF IInv, TypeOK
  <2>3. QED
    BY <1>5, <1>6, <2>1, <2>2 DEF IInv, TypeOK
<1>8. (NoDuplicate(jobsScheduled) /\ NoDuplicate(db) /\ BoundedQueue)'
  BY <1>5, <1>6 DEF IInv, BoundedQueue
<1>9. (CurrentIsListed /\ Phases /\ NoLostWakeup)'
  BY <1>5, <1>6 DEF IInv, TypeOK, CurrentIsListed, Phases, NoLostWakeup
<1>10. QED
  BY <1>7, <1>8, <1>9 DEF IInv

LEMMA AttemptEndsPreserves == IInv /\ AttemptEnds => IInv'
<1>1. SUFFICES ASSUME IInv, AttemptEnds PROVE IInv'
  OBVIOUS
<1>2. PICK k \in DOMAIN jobsScheduled :
        /\ jobsScheduled[k].id = currentJob
        /\ \/ Leave(k)
           \/ SortJobsList(RescheduleAt(jobsScheduled, k)) /\ UNCHANGED promise
  BY <1>1 DEF AttemptEnds
<1>3. jobsScheduled \in Seq(Job) /\ NoDuplicate(jobsScheduled) /\ AtMostTwoOfAKind(jobsScheduled)
  BY <1>1 DEF IInv, TypeOK, BoundedQueue
<1>4. /\ jobsScheduled' \in Seq(Job)
      /\ NoDuplicate(jobsScheduled') /\ AtMostTwoOfAKind(jobsScheduled')
      /\ promise' \in [Jobs -> {"none", "pending"} \cup RunJobResult]
  <2>1. CASE Leave(k)
    BY <1>1, <1>3, <2>1, DeleteKeeps DEF Leave, IInv, TypeOK
  <2>2. CASE SortJobsList(RescheduleAt(jobsScheduled, k)) /\ UNCHANGED promise
    <3>1. /\ RescheduleAt(jobsScheduled, k) \in Seq(Job)
          /\ NoDuplicate(RescheduleAt(jobsScheduled, k))
          /\ AtMostTwoOfAKind(RescheduleAt(jobsScheduled, k))
      BY <1>3, RescheduleKeeps
    <3>2. QED
      BY <1>1, <2>2, <3>1, SortKeeps DEF IInv, TypeOK
  <2>3. QED
    BY <1>2, <2>1, <2>2
<1>5. /\ currentJob # NoJob /\ writing' = TRUE
      /\ UNCHANGED <<isInit, isStarted, currentJob, timer, adding>>
      /\ db' = jobsScheduled' \/ db' = db
  BY <1>1 DEF AttemptEnds, WriteJobsToDB
<1>6. TypeOK'
  BY <1>1, <1>4, <1>5 DEF IInv, TypeOK
<1>7. (NoDuplicate(jobsScheduled) /\ NoDuplicate(db) /\ BoundedQueue)'
  BY <1>1, <1>4, <1>5 DEF IInv, BoundedQueue
<1>8. (CurrentIsListed /\ Phases /\ NoLostWakeup)'
  BY <1>1, <1>5 DEF IInv, CurrentIsListed, Phases, NoLostWakeup
<1>9. QED
  BY <1>4, <1>6, <1>7, <1>8 DEF IInv

LEMMA TickPreserves == IInv /\ Tick => IInv'
<1>1. SUFFICES ASSUME IInv, Tick PROVE IInv'
  OBVIOUS
<1>2. /\ jobsScheduled' = SoonerJobs(jobsScheduled) /\ db' = SoonerJobs(db)
      /\ timer' = (IF timer = NoTimer THEN NoTimer ELSE Sooner(timer))
      /\ UNCHANGED <<isInit, isStarted, currentJob, writing, promise, adding>>
  BY <1>1 DEF Tick
<1>3. jobsScheduled \in Seq(Job) /\ db \in Seq(Job) /\ timer \in Nat \cup {NoTimer}
  BY <1>1 DEF IInv, TypeOK
<1>4. /\ jobsScheduled' \in Seq(Job)
      /\ DOMAIN jobsScheduled' = DOMAIN jobsScheduled
      /\ \A i \in DOMAIN jobsScheduled :
           jobsScheduled'[i].due = Sooner(jobsScheduled[i].due)
      /\ Identifiers(jobsScheduled') = Identifiers(jobsScheduled)
      /\ NoDuplicate(jobsScheduled') /\ AtMostTwoOfAKind(jobsScheduled')
  BY <1>1, <1>2, <1>3, SoonerKeeps DEF IInv, BoundedQueue
<1>5. db' \in Seq(Job) /\ NoDuplicate(db') /\ AtMostTwoOfAKind(db')
  BY <1>1, <1>2, <1>3, SoonerKeeps DEF IInv, BoundedQueue
<1>6. timer' \in Nat \cup {NoTimer} /\ (timer # NoTimer => timer' = Sooner(timer))
  BY <1>2, <1>3 DEF Sooner
<1>7. TypeOK'
  BY <1>1, <1>2, <1>4, <1>5, <1>6 DEF IInv, TypeOK
<1>8. (jobsScheduled = <<>>) <=> (jobsScheduled' = <<>>)
  BY <1>3, <1>4, EmptySeq, LenProperties
<1>9. NoLostWakeup'
  <2>1. SUFFICES ASSUME isStarted', jobsScheduled' # <<>>, currentJob' = NoJob, adding' = 0
                 PROVE  timer' # NoTimer /\ timer' <= jobsScheduled'[1].due
    BY DEF NoLostWakeup
  <2>2. timer # NoTimer /\ timer <= jobsScheduled[1].due
    BY <1>1, <1>2, <1>8, <2>1 DEF IInv, NoLostWakeup
  <2>3. 1 \in DOMAIN jobsScheduled /\ jobsScheduled[1].due \in Nat
    <3>1. Len(jobsScheduled) # 0 /\ Len(jobsScheduled) \in Nat
      BY <1>3, <1>8, <2>1, EmptySeq, LenProperties
    <3>2. 1 \in DOMAIN jobsScheduled
      BY <1>3, <3>1, LenProperties
    <3>3. jobsScheduled[1] \in Job
      BY <1>3, <3>2, LenProperties, ElementOfSeq
    <3>4. QED
      BY <3>2, <3>3 DEF Job
  <2>4. timer \in Nat /\ timer' = Sooner(timer)
    BY <1>3, <1>6, <2>2
  <2>5. jobsScheduled'[1].due = Sooner(jobsScheduled[1].due)
    BY <1>4, <2>3
  <2>6. \A m, n \in Nat : m <= n => Sooner(m) \in Nat /\ Sooner(m) <= Sooner(n)
    BY DEF Sooner
  <2>7. timer' \in Nat /\ timer' <= jobsScheduled'[1].due
    BY <2>2, <2>3, <2>4, <2>5, <2>6
  <2>8. QED
    BY <2>7, SentinelAssumption
<1>10. (CurrentIsListed /\ Phases)'
  BY <1>1, <1>2, <1>4, <1>8 DEF IInv, CurrentIsListed, Phases
<1>11. QED
  BY <1>4, <1>5, <1>7, <1>9, <1>10 DEF IInv, BoundedQueue

LEMMA SettlePreserves ==
  ASSUME IInv, NEW id \in Jobs, NEW result \in RunJobResult, RunSettles(id, result)
  PROVE  IInv'
<1>1. /\ promise' = [promise EXCEPT ![id] = result]
      /\ UNCHANGED <<isInit, isStarted, jobsScheduled, currentJob, writing, timer, adding, db>>
  BY DEF RunSettles
<1>2. TypeOK'
  BY <1>1 DEF IInv, TypeOK
<1>3. QED
  BY <1>1, <1>2 DEF IInv, BoundedQueue, CurrentIsListed, Phases, NoLostWakeup

LEMMA StopPreserves == IInv /\ StopAndWaitCurrentJob => IInv'
<1>1. SUFFICES ASSUME IInv, StopAndWaitCurrentJob PROVE IInv'
  OBVIOUS
<1>2. /\ isStarted' = FALSE
      /\ UNCHANGED <<isInit, jobsScheduled, currentJob, writing, promise, timer, adding, db>>
  BY <1>1 DEF StopAndWaitCurrentJob
<1>3. TypeOK'
  BY <1>1, <1>2 DEF IInv, TypeOK
<1>4. (CurrentIsListed /\ Phases /\ NoLostWakeup)'
  BY <1>1, <1>2 DEF IInv, CurrentIsListed, Phases, NoLostWakeup
<1>5. QED
  BY <1>1, <1>2, <1>3, <1>4 DEF IInv, BoundedQueue

LEMMA CrashPreserves == IInv /\ Crash => IInv'
<1>1. SUFFICES ASSUME IInv, Crash PROVE IInv'
  OBVIOUS
<1>2. <<>> \in Seq(Job) /\ DOMAIN <<>> = {}
  BY EmptySeq, LenProperties
<1>3. TypeOK'
  BY <1>1, <1>2 DEF Crash, IInv, TypeOK
<1>4. (NoDuplicate(jobsScheduled) /\ NoDuplicate(db) /\ BoundedQueue)'
  BY <1>1, <1>2 DEF Crash, IInv, NoDuplicate, BoundedQueue, AtMostTwoOfAKind
<1>5. (CurrentIsListed /\ Phases /\ NoLostWakeup)'
  BY <1>1 DEF Crash, CurrentIsListed, Phases, NoLostWakeup
<1>6. QED
  BY <1>3, <1>4, <1>5 DEF IInv

\* IInv is inductive.
LEMMA StepPreserves == IInv /\ [Next]_vars => IInv'
<1>1. SUFFICES ASSUME IInv, [Next]_vars PROVE IInv'
  OBVIOUS
<1>2. CASE LoadJobsFromDb
  BY <1>1, <1>2, LoadPreserves
<1>3. CASE StartProcessing
  BY <1>1, <1>3, StartPreserves
<1>4. CASE StopAndWaitCurrentJob
  BY <1>1, <1>4, StopPreserves
<1>5. CASE \E id \in Jobs, delay \in StartDelays : AddJob(id, delay)
  BY <1>1, <1>5, AddPreserves
<1>6. CASE AddJobWritten
  BY <1>1, <1>6, AddWrittenPreserves
<1>7. CASE TimerFires
  BY <1>1, <1>7, TimerPreserves
<1>8. CASE \E id \in Jobs, result \in RunJobResult : RunSettles(id, result)
  BY <1>1, <1>8, SettlePreserves
<1>9. CASE AttemptEnds
  BY <1>1, <1>9, AttemptEndsPreserves
<1>10. CASE AttemptWritten
  BY <1>1, <1>10, WrittenPreserves
<1>11. CASE Tick
  BY <1>1, <1>11, TickPreserves
<1>12. CASE Crash
  BY <1>1, <1>12, CrashPreserves
<1>13. CASE UNCHANGED vars
  BY <1>1, <1>13 DEF vars, volatile, IInv, TypeOK, BoundedQueue, CurrentIsListed, Phases,
       NoLostWakeup
<1>14. QED
  BY <1>1, <1>2, <1>3, <1>4, <1>5, <1>6, <1>7, <1>8, <1>9, <1>10, <1>11, <1>12, <1>13
     DEF Next

-----------------------------------------------------------------------------
(* The theorems *)

\* The inductive invariant of PersistedJobRunner holds in every reachable state.
THEOREM Invariance == Spec => []IInv
<1>1. Init => IInv
  BY InitHolds
<1>2. IInv /\ [Next]_vars => IInv'
  BY StepPreserves
<1>3. QED
  BY <1>1, <1>2, PTL DEF Spec

\* Type correctness of the runner.
THEOREM TypeCorrect == Spec => []TypeOK
  BY Invariance, PTL DEF IInv

\* addJobCheck and the retries leave at most two jobs of a kind in the queue, in
\* memory and on disk.
THEOREM QueueIsBounded == Spec => []BoundedQueue
  BY Invariance, PTL DEF IInv

\* runNextJob always finds its job when the attempt ends.
THEOREM CurrentJobIsListed == Spec => []CurrentIsListed
  BY Invariance, PTL DEF IInv

\* A started runner that has jobs is never left without a wake-up.
THEOREM WakeupIsNeverLost == Spec => []NoLostWakeup
  BY Invariance, PTL DEF IInv

-----------------------------------------------------------------------------
(* The retries, and the refinement of DurableJobs.  Both follow from one more *)
(* invariant: no retry count exceeds what maxAttempts allows, and memory and  *)
(* disk hold the same counts.                                                 *)

\* No job of the list has survived more failures than its attempts allow.
Bounded(s) == \A i \in DOMAIN s : s[i].currentRetry < MaxAttempts

\* Every job of s is in t with its retry count.
Kept(s, t) ==
  \A i \in DOMAIN s : \E k \in DOMAIN t :
    t[k].id = s[i].id /\ t[k].currentRetry = s[i].currentRetry

\* Memory and disk agree when the writes succeed.
SameRetries == isInit /\ ~WriteMayFail => RetriesOf(db) = RetriesOf(jobsScheduled)

RInv == IInv /\ Bounded(jobsScheduled) /\ Bounded(db) /\ SameRetries

-----------------------------------------------------------------------------
(* Retry counts of a list *)

\* In a list without duplicates, RetriesOf gives the count of each job.
LEMMA RetriesAt ==
  ASSUME NEW s, NoDuplicate(s)
  PROVE  /\ DOMAIN RetriesOf(s) = Identifiers(s)
         /\ RetriesOf(s) = [id \in Identifiers(s) |-> RetriesOf(s)[id]]
         /\ \A i \in DOMAIN s : RetriesOf(s)[s[i].id] = s[i].currentRetry
<1>1. \A i \in DOMAIN s : (CHOOSE j \in DOMAIN s : s[j].id = s[i].id) = i
  BY DEF NoDuplicate
<1>2. \A i \in DOMAIN s : s[i].id \in Identifiers(s)
  BY DEF Identifiers
<1> DEFINE at(id) == CHOOSE i \in DOMAIN s : s[i].id = id
<1>3. RetriesOf(s) = [id \in Identifiers(s) |-> s[at(id)].currentRetry]
  BY DEF RetriesOf
<1>4. \A i \in DOMAIN s : at(s[i].id) = i
  BY <1>1
<1> HIDE DEF at
<1>5. QED
  BY <1>2, <1>3, <1>4

\* A function on the identifiers of s that gives the count of each job is RetriesOf(s).
LEMMA RetriesAre ==
  ASSUME NEW s, NoDuplicate(s), NEW f, f = [id \in Identifiers(s) |-> f[id]],
         \A i \in DOMAIN s : f[s[i].id] = s[i].currentRetry
  PROVE  RetriesOf(s) = f
<1>1. /\ RetriesOf(s) = [id \in Identifiers(s) |-> RetriesOf(s)[id]]
      /\ \A i \in DOMAIN s : RetriesOf(s)[s[i].id] = s[i].currentRetry
  BY RetriesAt
<1>2. \A id \in Identifiers(s) : RetriesOf(s)[id] = f[id]
  BY <1>1 DEF Identifiers
<1>3. QED
  BY <1>1, <1>2

\* Two lists that keep the jobs of each other have the same counts.
LEMMA KeptRetries ==
  ASSUME NEW s, NEW t, NoDuplicate(s), NoDuplicate(t), Kept(s, t),
         Identifiers(s) = Identifiers(t)
  PROVE  RetriesOf(s) = RetriesOf(t)
<1>1. /\ RetriesOf(t) = [id \in Identifiers(t) |-> RetriesOf(t)[id]]
      /\ \A k \in DOMAIN t : RetriesOf(t)[t[k].id] = t[k].currentRetry
  BY RetriesAt
<1>2. \A i \in DOMAIN s : RetriesOf(t)[s[i].id] = s[i].currentRetry
  BY <1>1 DEF Kept
<1>3. QED
  BY <1>1, <1>2, RetriesAre

-----------------------------------------------------------------------------
(* The operators on lists of jobs *)

\* sortJobsList keeps every job and its count.
LEMMA SortKeepsRetries ==
  ASSUME NEW s \in Seq(Job), SortJobsList(s)
  PROVE  /\ Kept(s, jobsScheduled')
         /\ Bounded(s) => Bounded(jobsScheduled')
         /\ NoDuplicate(s) => RetriesOf(jobsScheduled') = RetriesOf(s)
<1>1. PICK p \in Bijection(DOMAIN s, DOMAIN s) :
        jobsScheduled' = [i \in DOMAIN s |-> s[p[i]]]
  BY DEF SortJobsList
<1>2. /\ \A i \in DOMAIN s : p[i] \in DOMAIN s
      /\ \A j \in DOMAIN s : \E i \in DOMAIN s : p[i] = j
  BY <1>1 DEF Bijection, Injection, Surjection
<1>3. Kept(s, jobsScheduled')
  BY <1>1, <1>2 DEF Kept
<1>4. Bounded(s) => Bounded(jobsScheduled')
  BY <1>1, <1>2 DEF Bounded
<1>5. NoDuplicate(s) => RetriesOf(jobsScheduled') = RetriesOf(s)
  BY <1>3, SortKeeps, KeptRetries
<1>6. QED
  BY <1>3, <1>4, <1>5

\* deleteJobsByIdentifier removes its job from the counts, and nothing else.
LEMMA DeleteKeepsRetries ==
  ASSUME NEW s \in Seq(Job), NEW k \in DOMAIN s, NoDuplicate(s)
  PROVE  /\ Bounded(s) => Bounded(DeleteAt(s, k))
         /\ Identifiers(DeleteAt(s, k)) = Identifiers(s) \ {s[k].id}
         /\ \A i \in DOMAIN s : i # k =>
              \E j \in DOMAIN DeleteAt(s, k) : DeleteAt(s, k)[j] = s[i]
         /\ RetriesOf(DeleteAt(s, k)) =
              [id \in Identifiers(s) \ {s[k].id} |-> RetriesOf(s)[id]]
<1> DEFINE t == DeleteAt(s, k)
           old(i) == IF i < k THEN i ELSE i + 1
           new(i) == IF i < k THEN i ELSE i - 1
<1>1. DOMAIN s = 1 .. Len(s) /\ Len(s) \in Nat
  BY LenProperties
<1>2. /\ \A i \in DOMAIN t : old(i) \in DOMAIN s /\ old(i) # k /\ t[i] = s[old(i)]
      /\ \A i \in DOMAIN s : i # k => new(i) \in DOMAIN t /\ old(new(i)) = i
  BY <1>1 DEF DeleteAt
<1> HIDE DEF t, old, new
<1>3. \A i \in DOMAIN s : i # k => \E j \in DOMAIN t : t[j] = s[i]
  BY <1>2
<1>4. Bounded(s) => Bounded(t)
  BY <1>2 DEF Bounded
<1>5. Identifiers(t) = Identifiers(s) \ {s[k].id}
  <2>1. \A i \in DOMAIN t : t[i].id \in Identifiers(s) \ {s[k].id}
    BY <1>2 DEF NoDuplicate, Identifiers
  <2>2. \A i \in DOMAIN s : s[i].id # s[k].id => s[i].id \in Identifiers(t)
    BY <1>3 DEF Identifiers
  <2>3. QED
    BY <2>1, <2>2 DEF Identifiers
<1>6. RetriesOf(t) = [id \in Identifiers(s) \ {s[k].id} |-> RetriesOf(s)[id]]
  <2> DEFINE f == [id \in Identifiers(s) \ {s[k].id} |-> RetriesOf(s)[id]]
  <2>1. \A i \in DOMAIN s : RetriesOf(s)[s[i].id] = s[i].currentRetry
    BY RetriesAt
  <2>2. ASSUME NEW i \in DOMAIN t PROVE f[t[i].id] = t[i].currentRetry
    <3>1. t[i].id \in Identifiers(t)
      BY DEF Identifiers
    <3>2. f[t[i].id] = RetriesOf(s)[t[i].id]
      BY <1>5, <3>1
    <3>3. PICK j \in DOMAIN s : t[i] = s[j]
      BY <1>2
    <3> QED BY <2>1, <3>2, <3>3
  <2>3. f = [id \in Identifiers(t) |-> f[id]]
    BY <1>5
  <2>4. NoDuplicate(t)
    BY DeleteKeeps DEF t
  <2> HIDE DEF f
  <2>5. RetriesOf(t) = f
    BY <2>2, <2>3, <2>4, RetriesAre
  <2>6. QED
    BY <2>5 DEF f
<1>7. QED
  BY <1>3, <1>4, <1>5, <1>6 DEF t

\* A failed attempt adds one to the count of its job, and to no other.
LEMMA RescheduleKeepsRetries ==
  ASSUME NEW s \in Seq(Job), NEW k \in DOMAIN s, NoDuplicate(s)
  PROVE  /\ Bounded(s) /\ s[k].currentRetry < MaxAttempts - 1 => Bounded(RescheduleAt(s, k))
         /\ DOMAIN RescheduleAt(s, k) = DOMAIN s
         /\ \A i \in DOMAIN s :
              /\ RescheduleAt(s, k)[i].id = s[i].id
              /\ RescheduleAt(s, k)[i].currentRetry =
                   IF i = k THEN s[i].currentRetry + 1 ELSE s[i].currentRetry
         /\ RetriesOf(RescheduleAt(s, k)) =
              [RetriesOf(s) EXCEPT ![s[k].id] = @ + 1]
<1> DEFINE t == RescheduleAt(s, k)
<1>1. \A i \in DOMAIN s : s[i] \in Job /\ s[i].currentRetry \in Nat
  <2>1. \A i \in DOMAIN s : s[i] \in Job
    BY LenProperties, ElementOfSeq
  <2>2. \A job \in Job : job.currentRetry \in Nat
    BY DEF Job
  <2>3. QED
    BY <2>1, <2>2
<1>2. /\ DOMAIN t = DOMAIN s
      /\ \A i \in DOMAIN s :
           /\ t[i].id = s[i].id
           /\ t[i].currentRetry =
                IF i = k THEN s[i].currentRetry + 1 ELSE s[i].currentRetry
  BY <1>1 DEF RescheduleAt
<1>3. NoDuplicate(t) /\ Identifiers(t) = Identifiers(s)
  BY RescheduleKeeps
<1> HIDE DEF t
<1>4. Bounded(s) /\ s[k].currentRetry < MaxAttempts - 1 => Bounded(t)
  BY <1>1, <1>2, MaxAttemptsAssumption DEF Bounded
<1>5. RetriesOf(t) = [RetriesOf(s) EXCEPT ![s[k].id] = @ + 1]
  <2> DEFINE f == [RetriesOf(s) EXCEPT ![s[k].id] = @ + 1]
  <2>1. /\ DOMAIN RetriesOf(s) = Identifiers(s)
        /\ \A i \in DOMAIN s : RetriesOf(s)[s[i].id] = s[i].currentRetry
    BY RetriesAt
  <2>2. \A i \in DOMAIN s : s[i].id \in Identifiers(s) /\ (s[i].id = s[k].id => i = k)
    BY DEF Identifiers, NoDuplicate
  <2>3. \A i \in DOMAIN t : f[t[i].id] = t[i].currentRetry
    BY <1>2, <2>1, <2>2
  <2>4. f = [id \in Identifiers(t) |-> f[id]]
    BY <1>3, <2>1
  <2> HIDE DEF f
  <2>5. RetriesOf(t) = f
    BY <1>3, <2>3, <2>4, RetriesAre
  <2>6. QED
    BY <2>5 DEF f
<1>6. QED
  BY <1>2, <1>4, <1>5 DEF t

\* Time changes no count.
LEMMA SoonerKeepsRetries ==
  ASSUME NEW s \in Seq(Job)
  PROVE  /\ Bounded(s) => Bounded(SoonerJobs(s))
         /\ Kept(s, SoonerJobs(s))
         /\ NoDuplicate(s) => RetriesOf(SoonerJobs(s)) = RetriesOf(s)
<1>1. /\ DOMAIN SoonerJobs(s) = DOMAIN s
      /\ \A i \in DOMAIN s : /\ SoonerJobs(s)[i].id = s[i].id
                             /\ SoonerJobs(s)[i].currentRetry = s[i].currentRetry
  BY DEF SoonerJobs
<1>2. Kept(s, SoonerJobs(s))
  BY <1>1 DEF Kept
<1>3. QED
  BY <1>1, <1>2, SoonerKeeps, KeptRetries DEF Bounded

\* A new job starts without a failure.
LEMMA AppendKeepsRetries ==
  ASSUME NEW s \in Seq(Job), NEW job \in Job, NoDuplicate(s),
         job.id \notin Identifiers(s), NoDuplicate(Append(s, job)), job.currentRetry = 0
  PROVE  /\ Bounded(s) => Bounded(Append(s, job))
         /\ Kept(s, Append(s, job))
         /\ RetriesOf(Append(s, job)) =
              [id \in Identifiers(s) \cup {job.id} |->
                 IF id = job.id THEN 0 ELSE RetriesOf(s)[id]]
<1> DEFINE t == Append(s, job)
           f == [id \in Identifiers(s) \cup {job.id} |->
                   IF id = job.id THEN 0 ELSE RetriesOf(s)[id]]
<1>1. /\ DOMAIN s = 1 .. Len(s) /\ Len(s) \in Nat
      /\ DOMAIN t = 1 .. Len(s) + 1
      /\ \A i \in DOMAIN s : t[i] = s[i]
      /\ t[Len(s) + 1] = job
  BY LenProperties, AppendProperties
<1>2. /\ \A i \in DOMAIN s : i \in DOMAIN t
      /\ \A i \in DOMAIN t : i \in DOMAIN s \/ t[i] = job
      /\ Len(s) + 1 \in DOMAIN t
  BY <1>1
<1>3. NoDuplicate(t)
  OBVIOUS
<1> HIDE DEF t
<1>4. Kept(s, t)
  BY <1>1, <1>2 DEF Kept
<1>5. Bounded(s) => Bounded(t)
  BY <1>1, <1>2, MaxAttemptsAssumption DEF Bounded
<1>6. Identifiers(t) = Identifiers(s) \cup {job.id}
  BY <1>1, <1>2 DEF Identifiers
<1>7. \A i \in DOMAIN s : RetriesOf(s)[s[i].id] = s[i].currentRetry /\ s[i].id \in Identifiers(s)
  BY RetriesAt DEF Identifiers
<1>8. \A i \in DOMAIN t : f[t[i].id] = t[i].currentRetry
  BY <1>1, <1>2, <1>7
<1>9. f = [id \in Identifiers(t) |-> f[id]]
  BY <1>6
<1> HIDE DEF f
<1>10. RetriesOf(t) = f
  BY <1>3, <1>8, <1>9, RetriesAre
<1>11. QED
  BY <1>4, <1>5, <1>10 DEF t, f

-----------------------------------------------------------------------------
(* The steps *)

\* A step that keeps the jobs of the list and their counts drops no job.
LEMMA KeptSuffices ==
  ASSUME TypeOK, Kept(jobsScheduled, jobsScheduled')
  PROVE  KeepsOrFinishes
<1>1. \A i \in DOMAIN jobsScheduled : jobsScheduled[i].currentRetry \in Nat
  <2>1. \A i \in DOMAIN jobsScheduled : jobsScheduled[i] \in Job
    BY LenProperties, ElementOfSeq DEF TypeOK
  <2>2. \A job \in Job : job.currentRetry \in Nat
    BY DEF Job
  <2>3. QED
    BY <2>1, <2>2
<1>2. \A i \in DOMAIN jobsScheduled : \E k \in DOMAIN jobsScheduled' :
        /\ jobsScheduled'[k].id = jobsScheduled[i].id
        /\ jobsScheduled'[k].currentRetry - jobsScheduled[i].currentRetry = 0
  BY <1>1 DEF Kept
<1>3. \A i \in DOMAIN jobsScheduled : jobsScheduled[i].id \in Identifiers(jobsScheduled')
  BY <1>2 DEF Identifiers
<1>4. 0 \in 0 .. 1
  OBVIOUS
<1>5. QED
  BY <1>2, <1>3, <1>4 DEF KeepsOrFinishes

\* What DurableJobs sees of the runner.
Held == IF isInit THEN jobsScheduled ELSE db

\* What the theorems need of a step.
GoodStep ==
  /\ Bounded(jobsScheduled)' /\ Bounded(db)' /\ SameRetries'
  /\ KeepsOrFinishes
  /\ ~WriteMayFail => Durable!Next \/ RetriesOf(Held)' = RetriesOf(Held)

LEMMA IdleGood ==
  ASSUME RInv, UNCHANGED <<jobsScheduled, db, isInit>>
  PROVE  GoodStep
<1>1. Kept(jobsScheduled, jobsScheduled')
  BY DEF Kept
<1>2. KeepsOrFinishes
  BY <1>1, KeptSuffices DEF RInv, IInv
<1>3. Bounded(jobsScheduled)' /\ Bounded(db)' /\ SameRetries'
  BY DEF RInv, SameRetries
<1>4. RetriesOf(Held)' = RetriesOf(Held)
  BY DEF Held
<1>5. QED
  BY <1>2, <1>3, <1>4 DEF GoodStep

LEMMA LoadGood == RInv /\ LoadJobsFromDb => GoodStep
<1>1. SUFFICES ASSUME RInv, LoadJobsFromDb PROVE GoodStep
  OBVIOUS
<1>2. /\ db \in Seq(Job) /\ NoDuplicate(db) /\ Bounded(db)
      /\ ~isInit /\ isInit' = TRUE /\ db' = db /\ SortJobsList(db)
  BY <1>1 DEF RInv, IInv, TypeOK, LoadJobsFromDb
<1>3. Bounded(jobsScheduled') /\ RetriesOf(jobsScheduled') = RetriesOf(db)
  BY <1>2, SortKeepsRetries
<1>4. Bounded(jobsScheduled)' /\ Bounded(db)' /\ SameRetries'
  BY <1>2, <1>3 DEF SameRetries
<1>5. RetriesOf(Held)' = RetriesOf(Held)
  BY <1>2, <1>3 DEF Held
<1>6. KeepsOrFinishes
  BY <1>2 DEF KeepsOrFinishes
<1>7. QED
  BY <1>4, <1>5, <1>6 DEF GoodStep

LEMMA TickGood == RInv /\ Tick => GoodStep
<1>1. SUFFICES ASSUME RInv, Tick PROVE GoodStep
  OBVIOUS
<1>2. /\ db \in Seq(Job) /\ NoDuplicate(db) /\ Bounded(db)
      /\ jobsScheduled \in Seq(Job) /\ NoDuplicate(jobsScheduled) /\ Bounded(jobsScheduled)
      /\ isInit' = isInit
      /\ db' = SoonerJobs(db) /\ jobsScheduled' = SoonerJobs(jobsScheduled)
  BY <1>1 DEF RInv, IInv, TypeOK, Tick
<1>3. /\ Bounded(jobsScheduled') /\ RetriesOf(jobsScheduled') = RetriesOf(jobsScheduled)
      /\ Bounded(db') /\ RetriesOf(db') = RetriesOf(db)
      /\ Kept(jobsScheduled, jobsScheduled')
  BY <1>2, SoonerKeepsRetries
<1>4. Bounded(jobsScheduled)' /\ Bounded(db)' /\ SameRetries'
  BY <1>1, <1>2, <1>3 DEF SameRetries, RInv
<1>5. RetriesOf(Held)' = RetriesOf(Held)
  BY <1>2, <1>3 DEF Held
<1>6. KeepsOrFinishes
  BY <1>1, <1>3, KeptSuffices DEF RInv, IInv
<1>7. QED
  BY <1>4, <1>5, <1>6 DEF GoodStep

LEMMA CrashGood == RInv /\ Crash => GoodStep
<1>1. SUFFICES ASSUME RInv, Crash PROVE GoodStep
  OBVIOUS
<1>2. isInit /\ isInit' = FALSE /\ jobsScheduled' = <<>> /\ db' = db
  BY <1>1 DEF Crash
<1>3. Bounded(jobsScheduled') /\ Bounded(db')
  BY <1>1, <1>2, EmptySeq, LenProperties DEF RInv, Bounded
<1>4. Bounded(jobsScheduled)' /\ Bounded(db)' /\ SameRetries' /\ KeepsOrFinishes
  BY <1>2, <1>3 DEF SameRetries, KeepsOrFinishes
<1>5. ~WriteMayFail => RetriesOf(Held)' = RetriesOf(Held)
  BY <1>1, <1>2 DEF RInv, SameRetries, Held
<1>6. QED
  BY <1>4, <1>5 DEF GoodStep

\* The write of the new list: memory and disk hold the same counts.
LEMMA WriteKeepsRetries ==
  ASSUME RInv, WriteJobsToDB, Bounded(jobsScheduled)'
  PROVE  Bounded(db)' /\ SameRetries'
<1>1. db' = jobsScheduled' \/ (WriteMayFail /\ db' = db)
  BY DEF WriteJobsToDB
<1>2. Bounded(db)'
  BY <1>1 DEF RInv
<1>3. QED
  BY <1>1, <1>2 DEF SameRetries

\* addJob is Accept: the only job of the same kind may be the current one.
LEMMA AddGood ==
  ASSUME RInv, NEW id \in Jobs, NEW delay \in StartDelays, AddJob(id, delay)
  PROVE  GoodStep
<1> DEFINE job == [id |-> id, due |-> delay, currentRetry |-> 0]
           longer == Append(jobsScheduled, job)
<1>1. /\ jobsScheduled \in Seq(Job) /\ job \in Job /\ NoDuplicate(jobsScheduled)
      /\ Bounded(jobsScheduled) /\ job.id = id /\ job.currentRetry = 0
  BY DelayAssumption DEF RInv, IInv, TypeOK, Job
<1>2. /\ id \notin Identifiers(jobsScheduled)
      /\ \A i \in DOMAIN jobsScheduled :
           jobsScheduled[i].id # currentJob => KindOf[jobsScheduled[i].id] # KindOf[id]
      /\ SortJobsList(longer) /\ WriteJobsToDB /\ isInit /\ isInit' = isInit
  BY DEF AddJob, NonRunning
<1> HIDE DEF job
<1>3. longer \in Seq(Job) /\ NoDuplicate(longer)
  BY <1>1, <1>2, AppendKeeps
<1>4. /\ Bounded(longer) /\ Kept(jobsScheduled, longer)
      /\ RetriesOf(longer) =
           [other \in Identifiers(jobsScheduled) \cup {id} |->
              IF other = id THEN 0 ELSE RetriesOf(jobsScheduled)[other]]
  <2>1. /\ Bounded(jobsScheduled) => Bounded(longer)
        /\ Kept(jobsScheduled, longer)
        /\ RetriesOf(longer) =
             [other \in Identifiers(jobsScheduled) \cup {job.id} |->
                IF other = job.id THEN 0 ELSE RetriesOf(jobsScheduled)[other]]
    <3>1. job.id \notin Identifiers(jobsScheduled)
      BY <1>1, <1>2
    <3>2. QED
      BY <1>1, <1>3, <3>1, AppendKeepsRetries
  <2>2. QED
    BY <1>1, <2>1
<1> HIDE DEF longer
<1>5. /\ Kept(longer, jobsScheduled') /\ Bounded(jobsScheduled')
      /\ RetriesOf(jobsScheduled') = RetriesOf(longer)
  BY <1>2, <1>3, <1>4, SortKeepsRetries
<1>6. KeepsOrFinishes
  <2>1. Kept(jobsScheduled, jobsScheduled')
    BY <1>4, <1>5 DEF Kept
  <2>2. QED
    BY <2>1, KeptSuffices DEF RInv, IInv
<1>7. Bounded(jobsScheduled)' /\ Bounded(db)' /\ SameRetries'
  BY <1>2, <1>5, WriteKeepsRetries
<1>8. Durable!Next
  <2>1. DOMAIN RetriesOf(jobsScheduled) = Identifiers(jobsScheduled)
    BY <1>1, RetriesAt
  <2>2. RetriesOf(Held) = RetriesOf(jobsScheduled) /\ RetriesOf(Held)' = RetriesOf(longer)
    BY <1>2, <1>5 DEF Held
  <2>3. \A a \in Identifiers(jobsScheduled) : KindOf[a] = KindOf[id] => a = currentJob
    BY <1>2 DEF Identifiers
  <2>4. Durable!Accept(id)
    BY <1>2, <1>4, <2>1, <2>2, <2>3 DEF Durable!Accept, Durable!Accepted, Durable!SameKind, Held
  <2>5. QED
    BY <2>4 DEF Durable!Next
<1>9. QED
  BY <1>6, <1>7, <1>8 DEF GoodStep

\* The end of an attempt is Leave or Fail.
LEMMA EndGood == RInv /\ AttemptEnds => GoodStep
<1>1. SUFFICES ASSUME RInv, AttemptEnds PROVE GoodStep
  OBVIOUS
<1>2. PICK k \in DOMAIN jobsScheduled :
        /\ jobsScheduled[k].id = currentJob
        /\ \/ /\ \/ Outcome \in {"Success", "PermanentFailure"}
                 \/ jobsScheduled[k].currentRetry >= MaxAttempts - 1
              /\ Leave(k)
           \/ /\ jobsScheduled[k].currentRetry < MaxAttempts - 1
              /\ SortJobsList(RescheduleAt(jobsScheduled, k))
  BY <1>1 DEF AttemptEnds
<1>3. /\ jobsScheduled \in Seq(Job) /\ NoDuplicate(jobsScheduled) /\ Bounded(jobsScheduled)
      /\ WriteJobsToDB /\ isInit' = isInit /\ isInit \in BOOLEAN
  BY <1>1 DEF RInv, IInv, TypeOK, AttemptEnds
<1>4. isInit
  BY <1>1, <1>3 DEF RInv, IInv, Phases, AttemptEnds
<1>5. \A i \in DOMAIN jobsScheduled :
        jobsScheduled[i].id \in Jobs /\ jobsScheduled[i].currentRetry \in Nat
  <2>1. \A i \in DOMAIN jobsScheduled : jobsScheduled[i] \in Job
    BY <1>3, LenProperties, ElementOfSeq
  <2>2. \A job \in Job : job.id \in Jobs /\ job.currentRetry \in Nat
    BY DEF Job
  <2>3. QED
    BY <2>1, <2>2
<1>6. /\ RetriesOf(Held) = RetriesOf(jobsScheduled)
      /\ RetriesOf(Held)' = RetriesOf(jobsScheduled')
      /\ DOMAIN RetriesOf(jobsScheduled) = Identifiers(jobsScheduled)
      /\ RetriesOf(jobsScheduled)[currentJob] = jobsScheduled[k].currentRetry
      /\ currentJob \in Jobs /\ currentJob \in Identifiers(jobsScheduled)
  BY <1>2, <1>3, <1>4, <1>5, RetriesAt DEF Held, Identifiers
<1>7. CASE /\ \/ Outcome \in {"Success", "PermanentFailure"}
              \/ jobsScheduled[k].currentRetry >= MaxAttempts - 1
           /\ Leave(k)
  <2>1. jobsScheduled' = DeleteAt(jobsScheduled, k)
    BY <1>7 DEF Leave
  <2>2. /\ Bounded(jobsScheduled')
        /\ Identifiers(jobsScheduled') = Identifiers(jobsScheduled) \ {currentJob}
        /\ \A i \in DOMAIN jobsScheduled : i # k =>
             \E j \in DOMAIN jobsScheduled' : jobsScheduled'[j] = jobsScheduled[i]
        /\ RetriesOf(jobsScheduled') =
             [id \in Identifiers(jobsScheduled) \ {currentJob} |-> RetriesOf(jobsScheduled)[id]]
    <3> DEFINE shorter == DeleteAt(jobsScheduled, k)
               gone == jobsScheduled[k].id
    <3>1. /\ Bounded(jobsScheduled) => Bounded(shorter)
          /\ Identifiers(shorter) = Identifiers(jobsScheduled) \ {gone}
          /\ \A i \in DOMAIN jobsScheduled : i # k =>
               \E j \in DOMAIN shorter : shorter[j] = jobsScheduled[i]
          /\ RetriesOf(shorter) =
               [id \in Identifiers(jobsScheduled) \ {gone} |-> RetriesOf(jobsScheduled)[id]]
      BY <1>3, DeleteKeepsRetries
    <3>2. jobsScheduled' = shorter /\ gone = currentJob
      BY <1>2, <2>1
    <3> HIDE DEF shorter, gone
    <3>3. QED
      BY <1>3, <3>1, <3>2
  <2>3. Durable!Next
    <3>1. Durable!Leave(currentJob)
      BY <1>6, <2>2 DEF Durable!Leave, Durable!Accepted, Held
    <3>2. QED
      BY <1>6, <3>1 DEF Durable!Next
  <2>4. KeepsOrFinishes
    <3>1. \/ promise[currentJob] \in {"Success", "PermanentFailure"}
          \/ jobsScheduled[k].currentRetry = MaxAttempts - 1
      BY <1>3, <1>5, <1>7, MaxAttemptsAssumption DEF Outcome, Bounded
    <3>2. \A i \in DOMAIN jobsScheduled : i # k => \E j \in DOMAIN jobsScheduled' :
            /\ jobsScheduled'[j].id = jobsScheduled[i].id
            /\ jobsScheduled'[j].currentRetry - jobsScheduled[i].currentRetry \in 0 .. 1
      BY <1>5, <2>2
    <3>3. \A i \in DOMAIN jobsScheduled :
            i # k => jobsScheduled[i].id \in Identifiers(jobsScheduled')
      BY <3>2 DEF Identifiers
    <3>4. QED
      BY <1>2, <2>2, <3>1, <3>2, <3>3 DEF KeepsOrFinishes
  <2>5. Bounded(jobsScheduled)' /\ Bounded(db)' /\ SameRetries'
    BY <1>1, <1>3, <2>2, WriteKeepsRetries
  <2>6. QED
    BY <2>3, <2>4, <2>5 DEF GoodStep
<1>8. CASE /\ jobsScheduled[k].currentRetry < MaxAttempts - 1
           /\ SortJobsList(RescheduleAt(jobsScheduled, k))
  <2> DEFINE again == RescheduleAt(jobsScheduled, k)
  <2>1. /\ again \in Seq(Job) /\ NoDuplicate(again) /\ Bounded(again)
        /\ DOMAIN again = DOMAIN jobsScheduled
        /\ \A i \in DOMAIN jobsScheduled :
             /\ again[i].id = jobsScheduled[i].id
             /\ again[i].currentRetry = IF i = k THEN jobsScheduled[i].currentRetry + 1
                                        ELSE jobsScheduled[i].currentRetry
        /\ RetriesOf(again) = [RetriesOf(jobsScheduled) EXCEPT ![currentJob] = @ + 1]
    BY <1>2, <1>3, <1>8, RescheduleKeeps, RescheduleKeepsRetries
  <2>2. SortJobsList(again)
    BY <1>8
  <2> HIDE DEF again
  <2>3. /\ Kept(again, jobsScheduled') /\ Bounded(jobsScheduled')
        /\ RetriesOf(jobsScheduled') = RetriesOf(again)
    BY <2>1, <2>2, SortKeepsRetries
  <2>4. Durable!Next
    <3>1. Durable!Fail(currentJob)
      BY <1>6, <1>8, <2>1, <2>3 DEF Durable!Fail, Durable!Accepted, Held
    <3>2. QED
      BY <1>6, <3>1 DEF Durable!Next
  <2>5. KeepsOrFinishes
    <3>1. \A i \in DOMAIN jobsScheduled : \E j \in DOMAIN jobsScheduled' :
            /\ jobsScheduled'[j].id = jobsScheduled[i].id
            /\ jobsScheduled'[j].currentRetry - jobsScheduled[i].currentRetry \in 0 .. 1
      <4>1. \A i \in DOMAIN jobsScheduled :
              again[i].currentRetry - jobsScheduled[i].currentRetry \in 0 .. 1
        BY <1>5, <2>1
      <4>2. QED
        BY <2>1, <2>3, <4>1 DEF Kept
    <3>2. \A i \in DOMAIN jobsScheduled : jobsScheduled[i].id \in Identifiers(jobsScheduled')
      BY <3>1 DEF Identifiers
    <3>3. QED
      BY <3>1, <3>2 DEF KeepsOrFinishes
  <2>6. Bounded(jobsScheduled)' /\ Bounded(db)' /\ SameRetries'
    BY <1>1, <1>3, <2>3, WriteKeepsRetries
  <2>7. QED
    BY <2>4, <2>5, <2>6 DEF GoodStep
<1>9. QED
  BY <1>2, <1>7, <1>8

\* RInv is inductive, and every step is good.
LEMMA StepIsGood == RInv /\ [Next]_vars => GoodStep
<1>1. SUFFICES ASSUME RInv, [Next]_vars PROVE GoodStep
  OBVIOUS
<1>2. CASE LoadJobsFromDb
  BY <1>1, <1>2, LoadGood
<1>3. CASE \E id \in Jobs, delay \in StartDelays : AddJob(id, delay)
  BY <1>1, <1>3, AddGood
<1>4. CASE AttemptEnds
  BY <1>1, <1>4, EndGood
<1>5. CASE Tick
  BY <1>1, <1>5, TickGood
<1>6. CASE Crash
  BY <1>1, <1>6, CrashGood
<1>7. CASE \/ StartProcessing \/ StopAndWaitCurrentJob \/ AddJobWritten \/ TimerFires
           \/ \E id \in Jobs, result \in RunJobResult : RunSettles(id, result)
           \/ AttemptWritten \/ UNCHANGED vars
  <2>1. UNCHANGED <<jobsScheduled, db, isInit>>
    BY <1>7 DEF StartProcessing, StopAndWaitCurrentJob, AddJobWritten, TimerFires,
         RunSettles, AttemptWritten, vars, volatile
  <2>2. QED
    BY <1>1, <2>1, IdleGood
<1>8. QED
  BY <1>1, <1>2, <1>3, <1>4, <1>5, <1>6, <1>7 DEF Next

LEMMA RInvHolds == Spec => []RInv
<1>1. Init => RInv
  <2>1. SUFFICES ASSUME Init PROVE RInv
    OBVIOUS
  <2>2. ~isInit /\ jobsScheduled = <<>> /\ db = <<>> /\ DOMAIN <<>> = {}
    BY <2>1, EmptySeq, LenProperties DEF Init
  <2>3. QED
    BY <2>1, <2>2, InitHolds DEF RInv, Bounded, SameRetries
<1>2. RInv /\ [Next]_vars => RInv'
  BY StepIsGood, StepPreserves DEF RInv, GoodStep
<1>3. QED
  BY <1>1, <1>2, PTL DEF Spec

-----------------------------------------------------------------------------
(* The theorems *)

\* No job is ever tried more often than maxAttempts allows, whatever the
\* restarts and failed writes.
THEOREM AttemptsAreBounded == Spec => [](Bounded(jobsScheduled) /\ Bounded(db))
  BY RInvHolds, PTL DEF RInv

\* runNextJob drops a job only when it succeeded, failed for good or used its
\* attempts, and counts its failures one by one.
THEOREM JobsAreNotDropped == Spec => OnlyFinishedJobsLeave
<1>1. RInv /\ [Next]_vars => [KeepsOrFinishes]_vars
  BY StepIsGood DEF GoodStep
<1>2. QED
  BY <1>1, RInvHolds, PTL DEF Spec, OnlyFinishedJobsLeave

\* With writes that succeed, the runner implements the durable queue of jobs: a
\* restart neither loses an accepted job nor forgets its failures.
THEOREM Refinement == ASSUME ~WriteMayFail PROVE Spec => ImplementsDurableJobs
<1>1. Init => Durable!Init
  <2>1. SUFFICES ASSUME Init PROVE Durable!Init
    OBVIOUS
  <2>2. ~isInit /\ db = <<>> /\ DOMAIN <<>> = {}
    BY <2>1, EmptySeq, LenProperties DEF Init
  <2>3. Identifiers(<<>>) = {}
    BY <2>2 DEF Identifiers
  <2>4. QED
    BY <2>2, <2>3 DEF Durable!Init, RetriesOf
<1>2. RInv /\ [Next]_vars =>
        [Durable!Next]_(RetriesOf(IF isInit THEN jobsScheduled ELSE db))
  BY StepIsGood DEF GoodStep, Held
<1>3. QED
  BY <1>1, <1>2, RInvHolds, PTL DEF Spec, ImplementsDurableJobs, Durable!Spec
=============================================================================
