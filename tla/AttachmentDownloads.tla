------------------------- MODULE AttachmentDownloads -------------------------
(***************************************************************************)
(* The downloads of attachments: the table of jobs and the bounded pool    *)
(* that works on them (ts/session/utils/AttachmentsDownload.ts), and the   *)
(* queueing of a message's attachments when it is stored                   *)
(* (ts/receiver/attachments.ts, queueAttachmentDownloads).                 *)
(*                                                                         *)
(* SQL is synchronous, so only microtasks separate a read or a write of    *)
(* the tables from what follows; the downloads, the timer and the messages *)
(* are macrotasks and wait until the microtasks are done (Quiet).  A kill  *)
(* may come anywhere.                                                      *)
(***************************************************************************)
EXTENDS Integers, FiniteSets, SequencesExt

CONSTANTS
  Messages, Attachments,
  MessageOf,     \* the message of each attachment
  Parallelism,   \* MAX_ATTACHMENT_JOB_PARALLELISM
  MaxKills

ASSUME AttachmentsAssumption == IsFiniteSet(Attachments)
ASSUME MessageAssumption == MessageOf \in [Attachments -> Messages]
ASSUME ParallelismAssumption == Parallelism \in Nat \ {0}
ASSUME KillAssumption == MaxKills \in Nat

VARIABLES
  stored,      \* persisted: "no", "queueing" (its downloads are), "yes" or "deleted"
  shown,       \* persisted, in the message: "raw", "pending", "done" or "error"
  table,       \* persisted: the jobs, one for each attachment at most
  active,      \* _activeAttachmentDownloadJobs, and how far each run is
  calls,       \* calls of _maybeStartJob that have not read the table yet
  reads,       \* what those that have will start
  kills,
  twice        \* history: killed between the commit of the message and the delete of the job

durable == <<stored, shown, table>>
vars == <<durable, active, calls, reads, kills, twice>>

NoJob == [listed |-> FALSE, pending |-> FALSE, due |-> FALSE, attempts |-> 0]
NewJob == [listed |-> TRUE, pending |-> FALSE, due |-> TRUE, attempts |-> 0]

Listed == {a \in Attachments : table[a].listed}
Active == {a \in Attachments : active[a] # "idle"}
Of(m) == {a \in Attachments : MessageOf[a] = m}
Found(a) == stored[MessageOf[a]] \in {"queueing", "yes"}
Free == Parallelism - Cardinality(Active)

-----------------------------------------------------------------------------
(* Queueing the attachments of a message *)

Quiet ==
  /\ calls = 0 /\ reads = <<>>
  /\ \A m \in Messages : stored[m] # "queueing"
  /\ \A a \in Attachments : active[a] \in {"idle", "downloading"}

\* handleMessageJob commits a message of a sender we trust.
StoreMessage(m) ==
  /\ Quiet /\ stored[m] = "no"
  /\ stored' = [stored EXCEPT ![m] = "queueing"]
  /\ UNCHANGED <<shown, table, active, calls, reads, kills, twice>>

\* addJob; _maybeStartJob is not awaited.
AddJob(a) ==
  /\ stored[MessageOf[a]] = "queueing" /\ ~table[a].listed /\ shown[a] = "raw"
  /\ table' = [table EXCEPT ![a] = NewJob]
  /\ calls' = calls + 1
  /\ UNCHANGED <<stored, shown, active, reads, kills, twice>>

\* The message is saved again, with attachments that say they are pending.
SavePending(m) ==
  /\ stored[m] = "queueing" /\ Of(m) \subseteq Listed
  /\ stored' = [stored EXCEPT ![m] = "yes"]
  /\ shown' = [a \in Attachments |-> IF a \in Of(m) THEN "pending" ELSE shown[a]]
  /\ UNCHANGED <<table, active, calls, reads, kills, twice>>

\* By the user, an unsend request or its timer.
DeleteMessage(m) ==
  /\ Quiet /\ stored[m] = "yes"
  /\ stored' = [stored EXCEPT ![m] = "deleted"]
  /\ UNCHANGED <<shown, table, active, calls, reads, kills, twice>>

-----------------------------------------------------------------------------
(* Starting jobs *)

Eligible == {a \in Listed : ~table[a].pending /\ table[a].due}

\* The first half of _maybeStartJob: as many jobs as there are free slots, the
\* newest first (any of them here).
ReadJobs ==
  /\ calls > 0
  /\ calls' = calls - 1
  /\ \/ Free <= 0 /\ UNCHANGED reads
     \/ \E jobs \in SUBSET Eligible :
          /\ Free > 0
          /\ Cardinality(jobs) = IF Cardinality(Eligible) < Free THEN Cardinality(Eligible) ELSE Free
          /\ reads' = IF jobs = {} THEN reads ELSE Append(reads, jobs)
  /\ UNCHANGED <<durable, active, kills, twice>>

\* Mutant: the free slots are not counted again.
StartAll(jobs, started) == started = jobs \ Active

\* The second half: those that do not run yet, as far as slots are still free.  (The
\* job of a deleted message may end in between; it is then run, and ends, again.)
MayStart(jobs, started) ==
  LET idle == jobs \ Active IN
  /\ started \subseteq idle
  /\ Cardinality(started) = IF Free <= 0 THEN 0 ELSE IF Cardinality(idle) < Free THEN Cardinality(idle) ELSE Free

StartJobs(i) ==
  /\ \E started \in SUBSET reads[i] :
       /\ MayStart(reads[i], started)
       /\ active' = [a \in Attachments |-> IF a \in started THEN "started" ELSE active[a]]
  /\ reads' = RemoveAt(reads, i)
  /\ UNCHANGED <<durable, calls, kills, twice>>

-----------------------------------------------------------------------------
(* Running a job *)

\* The start of _runJob: the job of a message that is gone is finished.
RunJob(a) ==
  /\ active[a] = "started"
  /\ \/ /\ Found(a)
        /\ table' = [table EXCEPT ![a].pending = TRUE]
        /\ active' = [active EXCEPT ![a] = "downloading"]
     \/ /\ ~Found(a)
        /\ active' = [active EXCEPT ![a] = "finishing"]
        /\ UNCHANGED table
  /\ UNCHANGED <<stored, shown, calls, reads, kills, twice>>

\* Mutant: into the message as it was when the download began.
IntoOldMessage(a, result) ==
  [b \in Attachments |-> IF b = a THEN result ELSE IF MessageOf[b] = MessageOf[a] THEN "pending" ELSE shown[b]]

\* _addAttachmentToMessage, into the message as it is now.
WithAttachment(a, result) == [shown EXCEPT ![a] = result]

\* The attachment is put into the message, if it is still there, and _finishJob
\* commits the message.
Commit(a, result) ==
  /\ shown' = IF Found(a) THEN WithAttachment(a, result) ELSE shown
  /\ active' = [active EXCEPT ![a] = "finishing"]

\* The rest of _finishJob.
FinishJob(a) ==
  /\ active[a] = "finishing"
  /\ table' = [table EXCEPT ![a] = NoJob]
  /\ active' = [active EXCEPT ![a] = "idle"]
  /\ calls' = calls + 1
  /\ UNCHANGED <<stored, shown, reads, kills, twice>>

Download(a) ==
  /\ Quiet /\ active[a] = "downloading"
  /\ Commit(a, "done")
  /\ UNCHANGED <<stored, table, calls, reads, kills, twice>>

\* After a 404 or the third attempt.
GiveUp(a) == Commit(a, "error")

\* Mutant: the attempt is not counted.
Uncounted(a) == [table[a] EXCEPT !.pending = FALSE, !.due = FALSE]

Retried(a) ==
  [listed |-> table[a].listed, pending |-> FALSE, due |-> FALSE, attempts |-> table[a].attempts + 1]

\* A failed download is saved for a later attempt.
DownloadFails(a) ==
  /\ Quiet /\ active[a] = "downloading"
  /\ \/ /\ GiveUp(a)
        /\ UNCHANGED <<table, calls>>
     \/ /\ table[a].attempts + 1 < 3
        /\ table' = [table EXCEPT ![a] = Retried(a)]
        /\ active' = [active EXCEPT ![a] = "idle"]
        /\ calls' = calls + 1
        /\ UNCHANGED shown
  /\ UNCHANGED <<stored, reads, kills, twice>>

BecomeDue(a) ==
  /\ Quiet /\ table[a].listed /\ ~table[a].due
  /\ table' = [table EXCEPT ![a].due = TRUE]
  /\ UNCHANGED <<stored, shown, active, calls, reads, kills, twice>>

\* _tick, every minute; without a free slot and a job for it a tick does nothing.
Tick ==
  /\ Quiet /\ Free > 0 /\ Eligible # {}
  /\ calls' = 1
  /\ UNCHANGED <<durable, active, reads, kills, twice>>

-----------------------------------------------------------------------------
(* Kills *)

\* Mutant: start does not reset what was pending.
LeftPending == table

\* resetAttachmentDownloadPending.
ResetPending == [a \in Attachments |-> [table[a] EXCEPT !.pending = FALSE]]

\* The process is killed; start resets the table and ticks.
Restart ==
  /\ kills < MaxKills
  /\ kills' = kills + 1
  /\ table' = ResetPending
  /\ stored' = [m \in Messages |-> IF stored[m] = "queueing" THEN "yes" ELSE stored[m]]
  /\ twice' = twice \union {a \in Listed : active[a] = "finishing"}
  /\ active' = [a \in Attachments |-> "idle"]
  /\ calls' = 1 /\ reads' = <<>>
  /\ UNCHANGED shown

Init ==
  /\ stored = [m \in Messages |-> "no"]
  /\ shown = [a \in Attachments |-> "raw"]
  /\ table = [a \in Attachments |-> NoJob]
  /\ active = [a \in Attachments |-> "idle"]
  /\ calls = 1 /\ reads = <<>> /\ kills = 0 /\ twice = {}

Microtask ==
  \/ \E m \in Messages : SavePending(m)
  \/ \E a \in Attachments : AddJob(a) \/ RunJob(a) \/ FinishJob(a)
  \/ ReadJobs
  \/ \E i \in DOMAIN reads : StartJobs(i)

Next ==
  \/ Microtask
  \/ \E m \in Messages : StoreMessage(m) \/ DeleteMessage(m)
  \/ \E a \in Attachments : Download(a) \/ DownloadFails(a) \/ BecomeDue(a)
  \/ Tick
  \/ Restart

Spec == Init /\ [][Next]_vars

\* Microtasks run, downloads end, time passes and the timer ticks.
Fairness ==
  /\ WF_vars(Microtask)
  /\ WF_vars(\E a \in Attachments : Download(a) \/ DownloadFails(a))
  /\ WF_vars(\E a \in Attachments : BecomeDue(a))
  /\ WF_vars(Tick)

FairSpec == Spec /\ Fairness

-----------------------------------------------------------------------------
(* Properties *)

\* Type correctness; never more downloads at once than slots, and two failed
\* attempts at most on record.
TypeOK ==
  /\ stored \in [Messages -> {"no", "queueing", "yes", "deleted"}]
  /\ shown \in [Attachments -> {"raw", "pending", "done", "error"}]
  /\ table \in [Attachments -> [listed : BOOLEAN, pending : BOOLEAN, due : BOOLEAN, attempts : 0 .. 2]]
  /\ active \in [Attachments -> {"idle", "started", "downloading", "finishing"}]
  /\ calls \in Nat /\ kills \in 0 .. MaxKills /\ twice \subseteq Attachments
  /\ \A i \in DOMAIN reads : reads[i] \subseteq Attachments
  /\ Cardinality(Active) <= Parallelism

\* A job that the table calls pending is run: no other would ever be picked again
\* before the next start (getNextAttachmentDownloadJobs leaves it out).
PendingJobsRun == \A a \in Attachments : table[a].pending => a \in Active

\* An attachment that its message shows as pending has a job that will settle it.
PendingHasJob ==
  \A a \in Attachments : shown[a] = "pending" /\ stored[MessageOf[a]] # "deleted" => a \in Listed

\* Nothing is left behind, wherever the process is killed: a job that the table
\* calls pending is being run, and an attachment shown as pending has a job.
NothingLeftBehind == PendingJobsRun /\ PendingHasJob

\* What was downloaded is not taken from a message by another download of the same
\* message (AttachmentsDownload.ts:215), unless a kill made it start again.
DownloadedStays ==
  [][\A a \in Attachments : shown[a] = "done" /\ a \notin twice => shown'[a] = "done"]_vars

\* In the end every job has left the table, its attachment downloaded or given up.
EveryJobLeaves == <>[](\A a \in Attachments : ~table[a].listed)

=============================================================================
