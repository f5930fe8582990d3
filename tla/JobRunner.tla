----------------------------- MODULE JobRunner -----------------------------
(***************************************************************************)
(* PersistedJobRunner (ts/session/utils/job_runners/JobRunner.ts): a queue *)
(* of jobs sorted by the time of their next attempt, one attempt at a      *)
(* time, every change written to one item of the database.                 *)
(*                                                                         *)
(* A job is a record: its identifier, the time left before its next        *)
(* attempt ("due", 0 once that time is reached) and currentRetry.  Times   *)
(* are relative, so that the clock needs no bound; two jobs that are both  *)
(* overdue keep the order the sorted list already gave them.               *)
(*                                                                         *)
(* A statement that ends in an await is split there.  The SQL call itself  *)
(* is synchronous in this port (sql_channel.ts), so a change of the list   *)
(* and its write are one step; an SQL error is logged and swallowed.       *)
(***************************************************************************)
EXTENDS Integers, Sequences, Functions

CONSTANTS
  Jobs,          \* identifiers (uuids) of the jobs that may be added
  KindOf,        \* what addJobCheck compares: the job type, or the conversation
  NoJob,         \* "null" of currentJob
  NoTimer,       \* "null" of nextJobStartTimer
  MaxAttempts,   \* maxAttempts
  RetryDelay,    \* delayBetweenRetries, in ticks
  StartDelays,   \* ticks between the creation of a job and its first attempt
  MaxAdds,       \* bound: calls of addJob awaiting their write at the same time
  WriteMayFail,  \* may the (swallowed) SQL write fail?
  MayStop        \* is stopAndWaitCurrentJob called? (no caller in the repository)

ASSUME MaxAttemptsAssumption == MaxAttempts \in Nat \ {0}
ASSUME DelayAssumption == RetryDelay \in Nat \ {0} /\ StartDelays \subseteq Nat
ASSUME SwitchAssumption ==
  MaxAdds \in Nat \ {0} /\ WriteMayFail \in BOOLEAN /\ MayStop \in BOOLEAN
ASSUME SentinelAssumption == NoJob \notin Jobs /\ NoTimer \notin Nat

VARIABLES
  isInit,        \* loadJobsFromDb is done
  isStarted,     \* startProcessing was called
  jobsScheduled, \* the list, sorted by due
  currentJob,    \* identifier of the job of the attempt in progress
  writing,       \* the attempt is decided: runNextJob awaits its last write
  promise,       \* runningPromise of each job object of the list
  timer,         \* ticks before nextJobStartTimer fires
  adding,        \* calls of addJob that await their write
  db             \* the jobRunner-<type> item: the list as last written

volatile == <<isInit, isStarted, jobsScheduled, currentJob, writing, promise, timer, adding>>
vars == <<volatile, db>>

RunJobResult == {"Success", "RetryJobIfPossible", "PermanentFailure"}
Job == [id : Jobs, due : Nat, currentRetry : Nat]

-----------------------------------------------------------------------------
(* The list *)

Identifiers(s) == {s[i].id : i \in DOMAIN s}

\* sortJobsList: Array.sort is stable, so the list becomes s read through the
\* permutation p that orders it by due and keeps the order of equal dues.
StablySorts(p, s) ==
  \A i, j \in DOMAIN s : i < j =>
    \/ s[p[i]].due < s[p[j]].due
    \/ s[p[i]].due = s[p[j]].due /\ p[i] < p[j]

SortJobsList(s) ==
  \E p \in Bijection(DOMAIN s, DOMAIN s) :
    /\ StablySorts(p, s)
    /\ jobsScheduled' = [i \in DOMAIN s |-> s[p[i]]]

\* deleteJobsByIdentifier, at the index findIndex returned.
DeleteAt(s, k) == [i \in 1 .. Len(s) - 1 |-> IF i < k THEN s[i] ELSE s[i + 1]]

\* Mutant: the failure is not counted.
RescheduleUncounted(s, k) == [s EXCEPT ![k] = [@ EXCEPT !.due = RetryDelay]]

\* The catch block of runNextJob: one more retry, after the delay.
RescheduleAt(s, k) ==
  [s EXCEPT ![k] = [id |-> @.id, due |-> RetryDelay, currentRetry |-> @.currentRetry + 1]]

\* writeJobsToDB: an SQL error leaves the item as it was and is not reported.
WriteJobsToDB == db' = jobsScheduled' \/ (WriteMayFail /\ UNCHANGED db)

-----------------------------------------------------------------------------
(* Planning and starting attempts *)

\* runJob: run() is called only if this job object has no runningPromise yet.
RunJob(id) ==
  promise' = IF promise[id] = "none" THEN [promise EXCEPT ![id] = "pending"] ELSE promise

\* planNextJob, and runNextJob up to its await: list and started are the values
\* the caller leaves, idleTimer is the timer as the caller leaves it.
PlanNextJob(list, started, idleTimer) ==
  \/ /\ ~started \/ list = <<>>
     /\ timer' = idleTimer
     /\ currentJob' = NoJob
     /\ UNCHANGED promise
  \/ /\ started /\ list # <<>> /\ list[1].due = 0
     /\ timer' = NoTimer
     /\ currentJob' = list[1].id
     /\ RunJob(list[1].id)
  \/ /\ started /\ list # <<>> /\ list[1].due > 0
     /\ timer' = list[1].due
     /\ currentJob' = NoJob
     /\ UNCHANGED promise

\* planNextJob returns at once while an attempt is in progress.
PlanUnlessRunning(list, started, idleTimer) ==
  \/ currentJob # NoJob /\ timer' = idleTimer /\ UNCHANGED <<currentJob, promise>>
  \/ currentJob = NoJob /\ PlanNextJob(list, started, idleTimer)

-----------------------------------------------------------------------------
(* Operations *)

\* Mutant: the persisted retry counts are not read back.
LoadFresh ==
  /\ ~isInit
  /\ isInit' = TRUE
  /\ SortJobsList([i \in DOMAIN db |-> [db[i] EXCEPT !.currentRetry = 0]])
  /\ UNCHANGED <<isStarted, currentJob, writing, promise, timer, adding, db>>

LoadJobsFromDb ==
  /\ ~isInit
  /\ isInit' = TRUE
  /\ SortJobsList(db)
  /\ UNCHANGED <<isStarted, currentJob, writing, promise, timer, adding, db>>

\* main_node.ts starts each runner once its jobs are loaded, and the
\* configuration runner again when it connects.
StartProcessing ==
  /\ isInit
  /\ isStarted' = TRUE
  /\ PlanUnlessRunning(jobsScheduled, TRUE, timer)
  /\ UNCHANGED <<isInit, jobsScheduled, writing, adding, db>>

\* Also the calls to stopAndWaitCurrentJob that return 'no_await' (no change).
StopAndWaitCurrentJob ==
  /\ MayStop /\ isStarted /\ currentJob # NoJob
  /\ isStarted' = FALSE
  /\ UNCHANGED <<isInit, jobsScheduled, currentJob, writing, promise, timer, adding, db>>

\* Mutant: addJobCheck sees no job.
NothingChecked == {}

\* The jobs addJobCheck looks at: those of the list but the one being run.
NonRunning == {i \in DOMAIN jobsScheduled : jobsScheduled[i].id # currentJob}

\* addJob up to the await of its write.  Refused when a job that is not running
\* is of the same kind.  An identifier is new (uuid), in memory and on disk.
AddJob(id, delay) ==
  /\ isInit /\ adding < MaxAdds
  /\ id # currentJob /\ id \notin Identifiers(jobsScheduled) \cup Identifiers(db)
  /\ \A i \in NonRunning : KindOf[jobsScheduled[i].id] # KindOf[id]
  /\ SortJobsList(Append(jobsScheduled, [id |-> id, due |-> delay, currentRetry |-> 0]))
  /\ WriteJobsToDB
  /\ promise' = [promise EXCEPT ![id] = "none"]
  /\ adding' = adding + 1
  /\ UNCHANGED <<isInit, isStarted, currentJob, writing, timer>>

\* addJobUnchecked after its write: plan the next job.
AddJobWritten ==
  /\ adding > 0
  /\ adding' = adding - 1
  /\ PlanUnlessRunning(jobsScheduled, isStarted, timer)
  /\ UNCHANGED <<isInit, isStarted, jobsScheduled, writing, db>>

\* The timer fires: the callback clears it and calls runNextJob, which returns,
\* starts the first job or plans a new timer.
TimerFires ==
  /\ timer = 0
  /\ PlanUnlessRunning(jobsScheduled, isStarted, NoTimer)
  /\ UNCHANGED <<isInit, isStarted, jobsScheduled, writing, adding, db>>

\* run() of a job ends.  A throw and RetryJobIfPossible are handled alike.
RunSettles(id, result) ==
  /\ promise[id] = "pending"
  /\ promise' = [promise EXCEPT ![id] = result]
  /\ UNCHANGED <<isInit, isStarted, jobsScheduled, currentJob, writing, timer, adding, db>>

\* The attempt of the current job, at index k, is over and its job leaves.
Leave(k) ==
  /\ jobsScheduled' = DeleteAt(jobsScheduled, k)
  /\ promise' = [promise EXCEPT ![currentJob] = "none"]

\* Mutant: a timeout counts as a permanent failure.
TimeoutIsPermanent ==
  IF promise[currentJob] = "pending" THEN "PermanentFailure" ELSE promise[currentJob]

\* timeout() races the promise of the job against a timer: a promise that is
\* settled, even by an earlier attempt, wins.
Outcome == IF promise[currentJob] = "pending" THEN "TimedOut" ELSE promise[currentJob]

\* runNextJob after that race.  A retry does not reset the promise.
AttemptEnds ==
  /\ currentJob # NoJob /\ ~writing
  /\ \E k \in DOMAIN jobsScheduled :
       /\ jobsScheduled[k].id = currentJob
       /\ \/ /\ \/ Outcome \in {"Success", "PermanentFailure"}
                \/ jobsScheduled[k].currentRetry >= MaxAttempts - 1
             /\ Leave(k)
          \/ /\ Outcome \in {"RetryJobIfPossible", "TimedOut"}
             /\ jobsScheduled[k].currentRetry < MaxAttempts - 1
             /\ SortJobsList(RescheduleAt(jobsScheduled, k))
             /\ UNCHANGED promise
  /\ WriteJobsToDB
  /\ writing' = TRUE
  /\ UNCHANGED <<isInit, isStarted, currentJob, timer, adding>>

\* Mutant: the next job is not planned.
AttemptWrittenUnplanned ==
  /\ writing
  /\ writing' = FALSE
  /\ currentJob' = NoJob
  /\ UNCHANGED <<isInit, isStarted, jobsScheduled, promise, timer, adding, db>>

\* The finally block of runNextJob.
AttemptWritten ==
  /\ writing
  /\ writing' = FALSE
  /\ PlanNextJob(jobsScheduled, isStarted, timer)
  /\ UNCHANGED <<isInit, isStarted, jobsScheduled, adding, db>>

-----------------------------------------------------------------------------
(* The environment *)

\* Mutant: the time left is not kept positive.
SoonerUnclamped(n) == n - 1

Sooner(n) == IF n > 0 THEN n - 1 ELSE 0
SoonerJobs(s) ==
  [i \in DOMAIN s |->
     [id |-> s[i].id, due |-> Sooner(s[i].due), currentRetry |-> s[i].currentRetry]]

\* Time passes, whether or not the program runs.
Tick ==
  /\ jobsScheduled' = SoonerJobs(jobsScheduled)
  /\ db' = SoonerJobs(db)
  /\ timer' = IF timer = NoTimer THEN NoTimer ELSE Sooner(timer)
  /\ UNCHANGED <<isInit, isStarted, currentJob, writing, promise, adding>>

\* The process dies: only the database is left.
Crash ==
  /\ isInit
  /\ isInit' = FALSE /\ isStarted' = FALSE
  /\ jobsScheduled' = <<>> /\ currentJob' = NoJob /\ writing' = FALSE
  /\ promise' = [id \in Jobs |-> "none"]
  /\ timer' = NoTimer /\ adding' = 0
  /\ UNCHANGED db

Init ==
  /\ isInit = FALSE /\ isStarted = FALSE
  /\ jobsScheduled = <<>> /\ currentJob = NoJob /\ writing = FALSE
  /\ promise = [id \in Jobs |-> "none"]
  /\ timer = NoTimer /\ adding = 0
  /\ db = <<>>

Next ==
  \/ LoadJobsFromDb
  \/ StartProcessing
  \/ StopAndWaitCurrentJob
  \/ \E id \in Jobs, delay \in StartDelays : AddJob(id, delay)
  \/ AddJobWritten
  \/ TimerFires
  \/ \E id \in Jobs, result \in RunJobResult : RunSettles(id, result)
  \/ AttemptEnds
  \/ AttemptWritten
  \/ Tick
  \/ Crash

Spec == Init /\ [][Next]_vars

\* The clock goes on, timers fire, continuations of an await run, the startup
\* code runs to its end and every attempt ends: Promise.race bounds it.
Fairness ==
  /\ WF_vars(LoadJobsFromDb) /\ WF_vars(~isStarted /\ StartProcessing)
  /\ WF_vars(AddJobWritten) /\ WF_vars(AttemptEnds) /\ WF_vars(AttemptWritten)
  /\ WF_vars(TimerFires) /\ WF_vars(Tick)

FairSpec == Spec /\ Fairness

-----------------------------------------------------------------------------
(* Properties *)

\* The state of the runner keeps its types, and timers, continuations and
\* attempts exist only in a loaded runner.
TypeOK ==
  /\ isInit \in BOOLEAN /\ isStarted \in BOOLEAN /\ writing \in BOOLEAN
  /\ jobsScheduled \in Seq(Job) /\ db \in Seq(Job)
  /\ currentJob \in Jobs \cup {NoJob}
  /\ promise \in [Jobs -> {"none", "pending"} \cup RunJobResult]
  /\ timer \in Nat \cup {NoTimer}
  /\ adding \in Nat

\* No identifier is twice in a list, so that deleteJobsByIdentifier and the
\* test "j !== currentJob" each speak of one job.
NoDuplicate(s) == \A i, j \in DOMAIN s : s[i].id = s[j].id => i = j

AtMostTwoOfAKind(s) ==
  \A i, j, k \in DOMAIN s :
    KindOf[s[i].id] = KindOf[s[j].id] /\ KindOf[s[j].id] = KindOf[s[k].id]
      => i = j \/ j = k \/ i = k

\* addJob only looks at the jobs that are not running, and a failed attempt puts
\* the running one back: there may be two jobs of a kind, in memory or on disk,
\* never three, whatever the adds, failures, restarts and failed writes.
BoundedQueue == AtMostTwoOfAKind(jobsScheduled) /\ AtMostTwoOfAKind(db)

\* While an attempt is in progress its job is in the list, so that the end of
\* the attempt finds it (deleteJobsByIdentifier would otherwise dereference
\* jobsScheduled[-1] in the catch block and skip the write).
CurrentIsListed ==
  currentJob # NoJob /\ ~writing => currentJob \in Identifiers(jobsScheduled)

\* An attempt waits for its write only while it is the current one, and nothing
\* is in memory before the jobs are loaded.
Phases ==
  /\ writing => currentJob # NoJob
  /\ ~isInit => ~isStarted /\ jobsScheduled = <<>> /\ currentJob = NoJob /\ adding = 0

\* A started runner with jobs is never left without a wake-up: an attempt is in
\* progress, or an add is about to plan, or a timer is set that fires no later
\* than the first job is due.
NoLostWakeup ==
  isStarted /\ jobsScheduled # <<>> /\ currentJob = NoJob /\ adding = 0
    => timer # NoTimer /\ timer <= jobsScheduled[1].due

\* The inductive invariant: the properties above need each other.
IInv ==
  /\ TypeOK
  /\ NoDuplicate(jobsScheduled) /\ NoDuplicate(db)
  /\ BoundedQueue
  /\ CurrentIsListed
  /\ Phases
  /\ NoLostWakeup

\* A job is dropped without a success or a permanent failure only after it used
\* all its attempts; a job that stays in the list keeps its retry count or adds
\* one to it.  (A lost count would retry for ever.)
KeepsOrFinishes ==
  isInit /\ isInit' =>
    \A i \in DOMAIN jobsScheduled :
      LET job == jobsScheduled[i] IN
        IF job.id \in Identifiers(jobsScheduled')
        THEN \E k \in DOMAIN jobsScheduled' :
               /\ jobsScheduled'[k].id = job.id
               /\ jobsScheduled'[k].currentRetry - job.currentRetry \in 0 .. 1
        ELSE /\ job.id = currentJob
             /\ \/ promise[job.id] \in {"Success", "PermanentFailure"}
                \/ job.currentRetry = MaxAttempts - 1

OnlyFinishedJobsLeave == [][KeepsOrFinishes]_vars

\* Once the process stops crashing, every job of the list leaves it: it is run
\* until it succeeds, fails for good or has used its attempts.
EveryJobLeaves ==
  \A id \in Jobs :
    <>[]isInit => (id \in Identifiers(jobsScheduled) ~> id \notin Identifiers(jobsScheduled))

-----------------------------------------------------------------------------
(* The abstract specification *)

\* The accepted jobs are those of memory, or of the database before they are
\* loaded: a restart changes nothing.
RetriesOf(s) ==
  [id \in Identifiers(s) |-> s[CHOOSE i \in DOMAIN s : s[i].id = id].currentRetry]

Durable == INSTANCE DurableJobs
             WITH retries <- RetriesOf(IF isInit THEN jobsScheduled ELSE db)

\* The runner implements the durable queue when its writes succeed.
ImplementsDurableJobs == Durable!Spec

-----------------------------------------------------------------------------
(* A statement of a comment of the code, which the code does not keep *)

\* PersistedJob.ts, class comment: "If the job throws or returns false, it will
\* be retried by the corresponding job runner".  A retry that starts with the
\* failure of the previous attempt as its result does not run the job again.
RetryRunsAgain ==
  [][\A id \in Jobs :
       currentJob # id /\ currentJob' = id => promise'[id] # "RetryJobIfPossible"]_vars
=============================================================================
