---------------------- MODULE AttachmentDownloadsProofs ----------------------
(***************************************************************************)
(* Proofs about the downloads of attachments, for any messages and         *)
(* attachments, any number of slots and of kills.                          *)
(***************************************************************************)
EXTENDS AttachmentDownloads, FiniteSetTheorems, SequenceTheorems, TLAPS

\* What the properties rest on, for one attachment: a job belongs to a message that
\* is stored; what is read to be started is listed, as is what runs; a job that is
\* being finished is pending, read by nobody, and has settled its attachment; and
\* the job of what is downloaded is being finished or gone.
Waits(a) == \E i \in DOMAIN reads : a \in reads[i]
Gone(a) == stored[MessageOf[a]] = "deleted"

Stored(a) ==
  stored[MessageOf[a]] = "no" => ~table[a].listed /\ active[a] = "idle" /\ ~Waits(a)
Begun(a) ==
  ~Gone(a) => /\ Waits(a) => table[a].listed
              /\ active[a] # "idle" => table[a].listed
              /\ active[a] = "downloading" => table[a].pending
Raw(a) == stored[MessageOf[a]] \in {"no", "queueing"} => shown[a] = "raw" /\ active[a] # "finishing"
Settled(a) ==
  active[a] = "finishing" /\ ~Gone(a) =>
    table[a].pending /\ ~Waits(a) /\ shown[a] # "pending"
Downloaded(a) ==
  shown[a] = "done" /\ a \notin twice /\ ~Gone(a) =>
    ~Waits(a) /\ (active[a] = "finishing" \/ (active[a] = "idle" /\ ~table[a].listed))

Job == [listed : BOOLEAN, pending : BOOLEAN, due : BOOLEAN, attempts : 0 .. 2]

\* The types, without the bound on the downloads.
Types ==
  /\ stored \in [Messages -> {"no", "queueing", "yes", "deleted"}]
  /\ shown \in [Attachments -> {"raw", "pending", "done", "error"}]
  /\ table \in [Attachments -> Job]
  /\ active \in [Attachments -> {"idle", "started", "downloading", "finishing"}]
  /\ calls \in Nat /\ kills \in 0 .. MaxKills /\ twice \subseteq Attachments
  /\ reads \in Seq(SUBSET Attachments)

Slots == Cardinality(Active) <= Parallelism

IInv ==
  /\ Types
  /\ Slots
  /\ PendingJobsRun
  /\ PendingHasJob
  /\ \A a \in Attachments : Stored(a) /\ Begun(a) /\ Raw(a) /\ Settled(a) /\ Downloaded(a)

-----------------------------------------------------------------------------
(* The sequence of reads *)

\* A read that is removed leaves the others.
LEMMA RemovedRead ==
  ASSUME NEW S, NEW s \in Seq(S), NEW i \in DOMAIN s
  PROVE  /\ RemoveAt(s, i) \in Seq(S)
         /\ \A j \in DOMAIN RemoveAt(s, i) : \E k \in DOMAIN s : RemoveAt(s, i)[j] = s[k]
<1>1. /\ Len(s) \in Nat /\ DOMAIN s = 1 .. Len(s) /\ i \in 1 .. Len(s)
      /\ \A k \in 1 .. Len(s) : s[k] \in S
  BY LenProperties, ElementOfSeq
<1> DEFINE before == SubSeq(s, 1, i - 1)
           after == SubSeq(s, i + 1, Len(s))
<1>2. before \in Seq(S) /\ Len(before) = i - 1 /\ \A j \in 1 .. i - 1 : before[j] = s[j]
  BY <1>1, SubSeqProperties
<1>3. /\ after \in Seq(S) /\ Len(after) = Len(s) - i
      /\ \A j \in 1 .. Len(s) - i : after[j] = s[i + j]
  BY <1>1, SubSeqProperties
<1>4. RemoveAt(s, i) = before \o after
  BY DEF RemoveAt
<1> HIDE DEF before, after
<1>5. /\ before \o after \in Seq(S)
      /\ Len(before \o after) = Len(before) + Len(after)
      /\ \A j \in 1 .. Len(before) + Len(after) :
           (before \o after)[j] = IF j <= Len(before) THEN before[j] ELSE after[j - Len(before)]
  BY <1>2, <1>3, ConcatProperties
<1>6. DOMAIN (before \o after) = 1 .. Len(s) - 1
  <2>1. Len(before) + Len(after) = Len(s) - 1
    BY <1>1, <1>2, <1>3
  <2>2. DOMAIN (before \o after) = 1 .. Len(before \o after)
    BY <1>5, LenProperties
  <2>3. QED
    BY <1>5, <2>1, <2>2
<1>7. ASSUME NEW j \in 1 .. Len(s) - 1
      PROVE  \E k \in DOMAIN s : (before \o after)[j] = s[k]
  <2>1. CASE j <= i - 1
    <3>1. j \in 1 .. i - 1 /\ j \in DOMAIN s
      BY <1>1, <2>1
    <3>2. (before \o after)[j] = before[j]
      BY <1>1, <1>2, <1>3, <1>5, <3>1
    <3> QED BY <1>2, <3>1, <3>2
  <2>2. CASE ~(j <= i - 1)
    <3>1. j - (i - 1) \in 1 .. Len(s) - i
      BY <1>1, <2>2
    <3>2. (before \o after)[j] = after[j - (i - 1)]
      <4>1. j \in 1 .. Len(before) + Len(after)
        BY <1>1, <1>2, <1>3
      <4>2. ~(j <= Len(before)) /\ j - Len(before) = j - (i - 1)
        BY <1>2, <2>2
      <4>3. QED
        BY <1>5, <4>1, <4>2
    <3>3. (before \o after)[j] = s[i + (j - (i - 1))]
      BY <1>3, <3>1, <3>2
    <3>4. i + (j - (i - 1)) \in DOMAIN s
      BY <1>1, <2>2
    <3>5. QED
      BY <3>3, <3>4
  <2>3. QED
    BY <2>1, <2>2
<1>8. QED
  BY <1>4, <1>5, <1>6, <1>7

\* A read that is added comes last.
LEMMA AddedRead ==
  ASSUME NEW S, NEW s \in Seq(S), NEW e \in S
  PROVE  /\ Append(s, e) \in Seq(S)
         /\ \A j \in DOMAIN Append(s, e) : Append(s, e)[j] = e \/ \E k \in DOMAIN s : Append(s, e)[j] = s[k]
BY SMT

-----------------------------------------------------------------------------
(* The slots *)

\* Any set of running jobs can be counted.
LEMMA ActiveIsFinite == IsFiniteSet(Active) /\ Cardinality(Active) \in Nat
<1>1. Active \subseteq Attachments
  BY DEF Active
<1>2. QED
  BY <1>1, AttachmentsAssumption, FS_Subset, FS_CardinalityType

\* No more jobs run than before: the bound is kept.
LEMMA FewerActive ==
  ASSUME Slots, Active' \subseteq Active
  PROVE  Slots'
<1>1. Cardinality(Active') <= Cardinality(Active) /\ Cardinality(Active') \in Nat
  BY ActiveIsFinite, FS_Subset, FS_CardinalityType
<1>2. QED
  BY <1>1, ActiveIsFinite, ParallelismAssumption DEF Slots

\* StartJobs fills free slots only.
LEMMA StartedFit ==
  ASSUME Slots, NEW jobs \in SUBSET Attachments, NEW started \in SUBSET jobs,
         MayStart(jobs, started), Active' = Active \union started
  PROVE  Slots'
<1>1. Active \intersect started = {}
  BY DEF MayStart
<1>2. /\ IsFiniteSet(started) /\ Cardinality(started) \in Nat
      /\ Cardinality(jobs \ Active) \in Nat
  <2>1. started \subseteq Attachments /\ jobs \ Active \subseteq Attachments
    OBVIOUS
  <2>2. IsFiniteSet(started) /\ IsFiniteSet(jobs \ Active)
    BY <2>1, AttachmentsAssumption, FS_Subset
  <2>3. QED
    BY <2>2, FS_CardinalityType
<1>3. Cardinality(Active') = Cardinality(Active) + Cardinality(started)
  <2>1. Cardinality(Active \intersect started) = 0
    BY <1>1, FS_EmptySet
  <2>2. Cardinality(Active \union started)
          = Cardinality(Active) + Cardinality(started) - Cardinality(Active \intersect started)
    BY <1>2, ActiveIsFinite, FS_Union
  <2>3. QED
    BY <1>2, <2>1, <2>2, ActiveIsFinite
<1>4. Cardinality(Active) + Cardinality(started) <= Parallelism
  BY <1>2, ActiveIsFinite, ParallelismAssumption DEF MayStart, Free, Slots
<1>5. QED
  BY <1>3, <1>4 DEF Slots

-----------------------------------------------------------------------------
(* The steps *)

\* A message that is stored has no job yet.
LEMMA StoreMessageStep ==
  ASSUME IInv, NEW m \in Messages, StoreMessage(m)
  PROVE  IInv'
<1>1. Types'
  BY DEF IInv, Types, Job, StoreMessage, Quiet
<1>2. Active' = Active
  BY DEF Active, StoreMessage
<1>3. Slots'
  BY <1>2, FewerActive DEF IInv
<1>4. ASSUME NEW b \in Attachments PROVE Waits(b)' <=> Waits(b)
  BY DEF Waits, StoreMessage
<1>5. PendingJobsRun'
  BY DEF IInv, Types, Job, PendingJobsRun, Active, Begun, Settled, Gone, StoreMessage, Quiet
<1>6. PendingHasJob'
  BY MessageAssumption DEF IInv, Types, Job, PendingHasJob, Listed, Begun, Settled, Gone, StoreMessage, Quiet
<1>7. ASSUME NEW b \in Attachments
      PROVE  Stored(b)' /\ Begun(b)' /\ Raw(b)' /\ Settled(b)' /\ Downloaded(b)'
  <2>1. Stored(b)'
    BY <1>4, MessageAssumption DEF IInv, Types, Job, Stored, Begun, Raw, Settled, Downloaded, Gone, StoreMessage, Quiet
  <2>2. Begun(b)'
    BY <1>4, MessageAssumption DEF IInv, Types, Job, Stored, Begun, Raw, Settled, Downloaded, Gone, StoreMessage, Quiet
  <2>3. Raw(b)'
    BY <1>4, MessageAssumption DEF IInv, Types, Job, Stored, Begun, Raw, Settled, Downloaded, Gone, StoreMessage, Quiet
  <2>4. Settled(b)'
    BY <1>4, MessageAssumption DEF IInv, Types, Job, Stored, Begun, Raw, Settled, Downloaded, Gone, StoreMessage, Quiet
  <2>5. Downloaded(b)'
    BY <1>4, MessageAssumption DEF IInv, Types, Job, Stored, Begun, Raw, Settled, Downloaded, Gone, StoreMessage, Quiet
  <2>6. QED
    BY <2>1, <2>2, <2>3, <2>4, <2>5
<1>8. QED
  BY <1>1, <1>3, <1>5, <1>6, <1>7 DEF IInv

\* A new job is listed.
LEMMA AddJobStep ==
  ASSUME IInv, NEW a \in Attachments, AddJob(a)
  PROVE  IInv'
<1>1. Types'
  BY DEF IInv, Types, Job, AddJob, NewJob
<1>2. Active' = Active
  BY DEF Active, AddJob
<1>3. Slots'
  BY <1>2, FewerActive DEF IInv
<1>4. ASSUME NEW b \in Attachments PROVE Waits(b)' <=> Waits(b)
  BY DEF Waits, AddJob
<1>5. PendingJobsRun'
  BY DEF IInv, Types, Job, PendingJobsRun, Active, Begun, Settled, Gone, AddJob, NewJob
<1>6. PendingHasJob'
  BY MessageAssumption DEF IInv, Types, Job, PendingHasJob, Listed, Begun, Settled, Gone, AddJob, NewJob
<1>7. ASSUME NEW b \in Attachments
      PROVE  Stored(b)' /\ Begun(b)' /\ Raw(b)' /\ Settled(b)' /\ Downloaded(b)'
  <2>1. Stored(b)'
    BY <1>4, MessageAssumption DEF IInv, Types, Job, Stored, Begun, Raw, Settled, Downloaded, Gone, AddJob, NewJob
  <2>2. Begun(b)'
    BY <1>4, MessageAssumption DEF IInv, Types, Job, Stored, Begun, Raw, Settled, Downloaded, Gone, AddJob, NewJob
  <2>3. Raw(b)'
    BY <1>4, MessageAssumption DEF IInv, Types, Job, Stored, Begun, Raw, Settled, Downloaded, Gone, AddJob, NewJob
  <2>4. Settled(b)'
    BY <1>4, MessageAssumption DEF IInv, Types, Job, Stored, Begun, Raw, Settled, Downloaded, Gone, AddJob, NewJob
  <2>5. Downloaded(b)'
    BY <1>4, MessageAssumption DEF IInv, Types, Job, Stored, Begun, Raw, Settled, Downloaded, Gone, AddJob, NewJob
  <2>6. QED
    BY <2>1, <2>2, <2>3, <2>4, <2>5
<1>8. QED
  BY <1>1, <1>3, <1>5, <1>6, <1>7 DEF IInv

\* Every attachment that is shown as pending has its job.
LEMMA SavePendingStep ==
  ASSUME IInv, NEW m \in Messages, SavePending(m)
  PROVE  IInv'
<1>1. Types'
  BY DEF IInv, Types, Job, SavePending, Of, Listed
<1>2. Active' = Active
  BY DEF Active, SavePending
<1>3. Slots'
  BY <1>2, FewerActive DEF IInv
<1>4. ASSUME NEW b \in Attachments PROVE Waits(b)' <=> Waits(b)
  BY DEF Waits, SavePending
<1>5. PendingJobsRun'
  BY DEF IInv, Types, Job, PendingJobsRun, Active, Begun, Settled, Gone, SavePending, Of, Listed
<1>6. PendingHasJob'
  BY MessageAssumption DEF IInv, Types, Job, PendingHasJob, Listed, Begun, Settled, Gone, SavePending, Of, Listed
<1>7. ASSUME NEW b \in Attachments
      PROVE  Stored(b)' /\ Begun(b)' /\ Raw(b)' /\ Settled(b)' /\ Downloaded(b)'
  <2>1. Stored(b)'
    BY <1>4, MessageAssumption DEF IInv, Types, Job, Stored, Begun, Raw, Settled, Downloaded, Gone, SavePending, Of, Listed
  <2>2. Begun(b)'
    BY <1>4, MessageAssumption DEF IInv, Types, Job, Stored, Begun, Raw, Settled, Downloaded, Gone, SavePending, Of, Listed
  <2>3. Raw(b)'
    BY <1>4, MessageAssumption DEF IInv, Types, Job, Stored, Begun, Raw, Settled, Downloaded, Gone, SavePending, Of, Listed
  <2>4. Settled(b)'
    BY <1>4, MessageAssumption DEF IInv, Types, Job, Stored, Begun, Raw, Settled, Downloaded, Gone, SavePending, Of, Listed
  <2>5. Downloaded(b)'
    BY <1>4, MessageAssumption DEF IInv, Types, Job, Stored, Begun, Raw, Settled, Downloaded, Gone, SavePending, Of, Listed
  <2>6. QED
    BY <2>1, <2>2, <2>3, <2>4, <2>5
<1>8. QED
  BY <1>1, <1>3, <1>5, <1>6, <1>7 DEF IInv

\* The message that goes is not queueing its downloads.
LEMMA DeleteMessageStep ==
  ASSUME IInv, NEW m \in Messages, DeleteMessage(m)
  PROVE  IInv'
<1>1. Types'
  BY DEF IInv, Types, Job, DeleteMessage, Quiet
<1>2. Active' = Active
  BY DEF Active, DeleteMessage
<1>3. Slots'
  BY <1>2, FewerActive DEF IInv
<1>4. ASSUME NEW b \in Attachments PROVE Waits(b)' <=> Waits(b)
  BY DEF Waits, DeleteMessage
<1>5. PendingJobsRun'
  BY DEF IInv, Types, Job, PendingJobsRun, Active, Begun, Settled, Gone, DeleteMessage, Quiet
<1>6. PendingHasJob'
  BY MessageAssumption DEF IInv, Types, Job, PendingHasJob, Listed, Begun, Settled, Gone, DeleteMessage, Quiet
<1>7. ASSUME NEW b \in Attachments
      PROVE  Stored(b)' /\ Begun(b)' /\ Raw(b)' /\ Settled(b)' /\ Downloaded(b)'
  <2>1. Stored(b)'
    BY <1>4, MessageAssumption DEF IInv, Types, Job, Stored, Begun, Raw, Settled, Downloaded, Gone, DeleteMessage, Quiet
  <2>2. Begun(b)'
    BY <1>4, MessageAssumption DEF IInv, Types, Job, Stored, Begun, Raw, Settled, Downloaded, Gone, DeleteMessage, Quiet
  <2>3. Raw(b)'
    BY <1>4, MessageAssumption DEF IInv, Types, Job, Stored, Begun, Raw, Settled, Downloaded, Gone, DeleteMessage, Quiet
  <2>4. Settled(b)'
    BY <1>4, MessageAssumption DEF IInv, Types, Job, Stored, Begun, Raw, Settled, Downloaded, Gone, DeleteMessage, Quiet
  <2>5. Downloaded(b)'
    BY <1>4, MessageAssumption DEF IInv, Types, Job, Stored, Begun, Raw, Settled, Downloaded, Gone, DeleteMessage, Quiet
  <2>6. QED
    BY <2>1, <2>2, <2>3, <2>4, <2>5
<1>8. QED
  BY <1>1, <1>3, <1>5, <1>6, <1>7 DEF IInv

\* A job that starts becomes pending, or is finished as its message is gone.
LEMMA RunJobStep ==
  ASSUME IInv, NEW a \in Attachments, RunJob(a)
  PROVE  IInv'
<1>1. Types'
  <2>1. CASE table' = [table EXCEPT ![a].pending = TRUE]
    <3>1. [table[a] EXCEPT !.pending = TRUE] \in Job
      <4>1. table[a] \in Job
        BY DEF IInv, Types
      <4> QED BY <4>1 DEF Job
    <3>2. table' = [table EXCEPT ![a] = [table[a] EXCEPT !.pending = TRUE]]
      BY <2>1
    <3>3. table' \in [Attachments -> Job]
      BY <3>1, <3>2 DEF IInv, Types
    <3>4. QED
      BY <3>3 DEF IInv, Types, RunJob
  <2>2. CASE UNCHANGED table
    BY <2>2 DEF IInv, Types, RunJob
  <2>3. QED
    BY <2>1, <2>2 DEF RunJob
<1>2. Active' = Active
  BY DEF IInv, Types, Active, RunJob
<1>3. Slots'
  BY <1>2, FewerActive DEF IInv
<1>4. ASSUME NEW b \in Attachments PROVE Waits(b)' <=> Waits(b)
  BY DEF Waits, RunJob
<1>5. PendingJobsRun'
  BY DEF IInv, Types, Job, PendingJobsRun, Active, Begun, Settled, Gone, RunJob, Found
<1>6. PendingHasJob'
  BY MessageAssumption DEF IInv, Types, Job, PendingHasJob, Listed, Begun, Settled, Gone, RunJob, Found
<1>7. ASSUME NEW b \in Attachments
      PROVE  Stored(b)' /\ Begun(b)' /\ Raw(b)' /\ Settled(b)' /\ Downloaded(b)'
  <2>1. Stored(b)'
    BY <1>4, MessageAssumption DEF IInv, Types, Job, Stored, Begun, Raw, Settled, Downloaded, Gone, RunJob, Found
  <2>2. Begun(b)'
    <3>1. Begun(b) /\ (Gone(b)' <=> Gone(b))
      BY DEF IInv, Gone, RunJob
    <3>2. table'[b].listed = table[b].listed /\ (table[b].pending => table'[b].pending)
      BY DEF IInv, Types, Job, RunJob
    <3>3. CASE b # a
      BY <1>4, <3>1, <3>2, <3>3 DEF IInv, Types, Begun, RunJob
    <3>4. CASE b = a
      <4>1. active[b] # "idle"
        BY <3>4 DEF RunJob
      <4>2. active'[b] = "downloading" => table'[b].pending
        BY <3>4 DEF IInv, Types, Job, RunJob
      <4> QED BY <1>4, <3>1, <3>2, <4>1, <4>2 DEF Begun
    <3> QED BY <3>3, <3>4
  <2>3. Raw(b)'
    BY <1>4, MessageAssumption DEF IInv, Types, Job, Stored, Begun, Raw, Settled, Downloaded, Gone, RunJob, Found
  <2>4. Settled(b)'
    <3>1. CASE b # a
      BY <1>4, <3>1 DEF IInv, Types, Job, Settled, Gone, RunJob
    <3>2. CASE b = a
      <4>1. ~Found(a) => Gone(a)
        BY MessageAssumption DEF IInv, Types, Stored, Gone, Found, RunJob
      <4>2. QED
        BY <3>2, <4>1 DEF IInv, Types, Settled, Gone, RunJob
    <3>3. QED
      BY <3>1, <3>2
  <2>5. Downloaded(b)'
    BY <1>4, MessageAssumption DEF IInv, Types, Job, Stored, Begun, Raw, Settled, Downloaded, Gone, RunJob, Found
  <2>6. QED
    BY <2>1, <2>2, <2>3, <2>4, <2>5
<1>8. QED
  BY <1>1, <1>3, <1>5, <1>6, <1>7 DEF IInv

\* The job that goes has settled its attachment.
LEMMA FinishJobStep ==
  ASSUME IInv, NEW a \in Attachments, FinishJob(a)
  PROVE  IInv'
<1>1. Types'
  BY DEF IInv, Types, Job, FinishJob, NoJob
<1>2. Active' \subseteq Active
  BY DEF IInv, Types, Active, FinishJob, NoJob
<1>3. Slots'
  BY <1>2, FewerActive DEF IInv
<1>4. ASSUME NEW b \in Attachments PROVE Waits(b)' <=> Waits(b)
  BY DEF Waits, FinishJob
<1>5. PendingJobsRun'
  BY DEF IInv, Types, Job, PendingJobsRun, Active, Begun, Settled, Gone, FinishJob, NoJob
<1>6. PendingHasJob'
  BY MessageAssumption DEF IInv, Types, Job, PendingHasJob, Listed, Begun, Settled, Gone, FinishJob, NoJob
<1>7. ASSUME NEW b \in Attachments
      PROVE  Stored(b)' /\ Begun(b)' /\ Raw(b)' /\ Settled(b)' /\ Downloaded(b)'
  <2>1. Stored(b)'
    BY <1>4, MessageAssumption DEF IInv, Types, Job, Stored, Begun, Raw, Settled, Downloaded, Gone, FinishJob, NoJob
  <2>2. Begun(b)'
    BY <1>4, MessageAssumption DEF IInv, Types, Job, Stored, Begun, Raw, Settled, Downloaded, Gone, FinishJob, NoJob
  <2>3. Raw(b)'
    BY <1>4, MessageAssumption DEF IInv, Types, Job, Stored, Begun, Raw, Settled, Downloaded, Gone, FinishJob, NoJob
  <2>4. Settled(b)'
    BY <1>4, MessageAssumption DEF IInv, Types, Job, Stored, Begun, Raw, Settled, Downloaded, Gone, FinishJob, NoJob
  <2>5. Downloaded(b)'
    BY <1>4, MessageAssumption DEF IInv, Types, Job, Stored, Begun, Raw, Settled, Downloaded, Gone, FinishJob, NoJob
  <2>6. QED
    BY <2>1, <2>2, <2>3, <2>4, <2>5
<1>8. QED
  BY <1>1, <1>3, <1>5, <1>6, <1>7 DEF IInv

\* A download ends, or is given up, with nothing read and nothing queueing.
LEMMA CommitStep ==
  ASSUME IInv, NEW a \in Attachments, NEW result \in {"done", "error"},
         Quiet, active[a] = "downloading", Commit(a, result),
         UNCHANGED <<stored, table, calls, reads, kills, twice>>
  PROVE  IInv'
<1>1. Types'
  BY DEF IInv, Types, Job, Commit, WithAttachment, Found
<1>2. Active' = Active
  BY DEF IInv, Types, Active, Commit
<1>3. Slots'
  BY <1>2, FewerActive DEF IInv
<1>4. ASSUME NEW b \in Attachments PROVE ~Waits(b) /\ ~Waits(b)'
  BY DEF Waits, Quiet
<1>a. table[a].pending \/ Gone(a)
  BY DEF IInv, Begun
<1>b. stored[MessageOf[a]] \in {"yes", "deleted"}
  BY MessageAssumption DEF IInv, Types, Stored, Quiet
<1>5. PendingJobsRun'
  BY DEF IInv, Types, Job, PendingJobsRun, Active, Begun, Settled, Gone, Commit, WithAttachment, Found
<1>6. PendingHasJob'
  BY MessageAssumption DEF IInv, Types, Job, PendingHasJob, Listed, Begun, Settled, Gone, Commit, WithAttachment, Found
<1>7. ASSUME NEW b \in Attachments
      PROVE  Stored(b)' /\ Begun(b)' /\ Raw(b)' /\ Settled(b)' /\ Downloaded(b)'
  <2>1. Stored(b)'
    BY <1>4, MessageAssumption DEF IInv, Types, Job, Stored, Begun, Raw, Settled, Downloaded, Gone, Commit, WithAttachment, Found
  <2>2. Begun(b)'
    BY <1>4, MessageAssumption DEF IInv, Types, Job, Stored, Begun, Raw, Settled, Downloaded, Gone, Commit, WithAttachment, Found
  <2>3. Raw(b)'
    BY <1>b DEF IInv, Types, Raw, Commit, WithAttachment, Found
  <2>4. Settled(b)'
    <3>1. CASE b # a
      BY <1>4, <3>1 DEF IInv, Types, Settled, Gone, Commit, WithAttachment
    <3>2. CASE b = a
      BY <1>4, <1>a, <1>b, <3>2 DEF IInv, Types, Settled, Gone, Commit, WithAttachment, Found
    <3>3. QED
      BY <3>1, <3>2
  <2>5. Downloaded(b)'
    <3>1. CASE b # a
      BY <1>4, <3>1 DEF IInv, Types, Downloaded, Gone, Commit, WithAttachment
    <3>2. CASE b = a
      BY <1>4, <3>2 DEF IInv, Types, Downloaded, Commit
    <3>3. QED
      BY <3>1, <3>2
  <2>6. QED
    BY <2>1, <2>2, <2>3, <2>4, <2>5
<1>8. QED
  BY <1>1, <1>3, <1>5, <1>6, <1>7 DEF IInv

\* A failed download that will be tried again keeps its job.
LEMMA RetryStep ==
  ASSUME IInv, NEW a \in Attachments, Quiet, active[a] = "downloading",
         table[a].attempts + 1 < 3, table' = [table EXCEPT ![a] = Retried(a)],
         active' = [active EXCEPT ![a] = "idle"], calls' = calls + 1,
         UNCHANGED <<stored, shown, reads, kills, twice>>
  PROVE  IInv'
<1>1. Types'
  <2>1. table[a] \in Job
    BY DEF IInv, Types
  <2>2. Retried(a) \in Job
    BY <2>1 DEF Job, Retried
  <2>3. QED
    BY <2>2 DEF IInv, Types
<1>a. /\ table' \in [Attachments -> Job]
      /\ \A b \in Attachments : b # a => table'[b] = table[b] /\ active'[b] = active[b]
      /\ table'[a].listed = table[a].listed /\ ~table'[a].pending /\ active'[a] = "idle"
  <2>1. table \in [Attachments -> Job] /\ active \in [Attachments -> {"idle", "started", "downloading", "finishing"}]
    BY DEF IInv, Types
  <2>2. Retried(a).listed = table[a].listed /\ ~Retried(a).pending
    BY <2>1 DEF Job, Retried
  <2>3. table' \in [Attachments -> Job]
    BY <1>1 DEF Types
  <2>4. QED
    BY <2>1, <2>2, <2>3
<1>2. Active' \subseteq Active
  BY DEF IInv, Types, Active
<1>3. Slots'
  BY <1>2, FewerActive DEF IInv
<1>4. ASSUME NEW b \in Attachments PROVE ~Waits(b) /\ ~Waits(b)'
  BY DEF Waits, Quiet
<1>5. PendingJobsRun'
  BY <1>a DEF IInv, PendingJobsRun, Active
<1>6. PendingHasJob'
  BY <1>a DEF IInv, PendingHasJob, Listed
<1>7. ASSUME NEW b \in Attachments
      PROVE  Stored(b)' /\ Begun(b)' /\ Raw(b)' /\ Settled(b)' /\ Downloaded(b)'
  <2>1. Stored(b)'
    BY <1>4, <1>a DEF IInv, Stored
  <2>2. Begun(b)'
    BY <1>4, <1>a DEF IInv, Begun, Gone
  <2>3. Raw(b)'
    BY <1>4, <1>a DEF IInv, Raw
  <2>4. Settled(b)'
    BY <1>4, <1>a DEF IInv, Settled, Gone
  <2>5. Downloaded(b)'
    BY <1>4, <1>a DEF IInv, Downloaded, Gone
  <2>6. QED
    BY <2>1, <2>2, <2>3, <2>4, <2>5
<1>8. QED
  BY <1>1, <1>3, <1>5, <1>6, <1>7 DEF IInv

\* A job that becomes due changes nothing else.
LEMMA BecomeDueStep ==
  ASSUME IInv, NEW a \in Attachments, BecomeDue(a)
  PROVE  IInv'
<1>1. Types'
  BY DEF IInv, Types, Job, BecomeDue
<1>2. Active' = Active
  BY DEF Active, BecomeDue
<1>3. Slots'
  BY <1>2, FewerActive DEF IInv
<1>4. ASSUME NEW b \in Attachments PROVE Waits(b)' <=> Waits(b)
  BY DEF Waits, BecomeDue
<1>5. PendingJobsRun'
  BY DEF IInv, Types, Job, PendingJobsRun, Active, Begun, Settled, Gone, BecomeDue
<1>6. PendingHasJob'
  BY MessageAssumption DEF IInv, Types, Job, PendingHasJob, Listed, Begun, Settled, Gone, BecomeDue
<1>7. ASSUME NEW b \in Attachments
      PROVE  Stored(b)' /\ Begun(b)' /\ Raw(b)' /\ Settled(b)' /\ Downloaded(b)'
  <2>1. Stored(b)'
    BY <1>4, MessageAssumption DEF IInv, Types, Job, Stored, Begun, Raw, Settled, Downloaded, Gone, BecomeDue
  <2>2. Begun(b)'
    BY <1>4, MessageAssumption DEF IInv, Types, Job, Stored, Begun, Raw, Settled, Downloaded, Gone, BecomeDue
  <2>3. Raw(b)'
    BY <1>4, MessageAssumption DEF IInv, Types, Job, Stored, Begun, Raw, Settled, Downloaded, Gone, BecomeDue
  <2>4. Settled(b)'
    BY <1>4, MessageAssumption DEF IInv, Types, Job, Stored, Begun, Raw, Settled, Downloaded, Gone, BecomeDue
  <2>5. Downloaded(b)'
    BY <1>4, MessageAssumption DEF IInv, Types, Job, Stored, Begun, Raw, Settled, Downloaded, Gone, BecomeDue
  <2>6. QED
    BY <2>1, <2>2, <2>3, <2>4, <2>5
<1>8. QED
  BY <1>1, <1>3, <1>5, <1>6, <1>7 DEF IInv

\* A tick only calls _maybeStartJob.
LEMMA TickStep ==
  ASSUME IInv, Tick
  PROVE  IInv'
<1>1. Types'
  BY DEF IInv, Types, Job, Tick, durable
<1>2. Active' = Active
  BY DEF Active, Tick
<1>3. Slots'
  BY <1>2, FewerActive DEF IInv
<1>4. ASSUME NEW b \in Attachments PROVE Waits(b)' <=> Waits(b)
  BY DEF Waits, Tick
<1>5. PendingJobsRun'
  BY DEF IInv, Types, Job, PendingJobsRun, Active, Begun, Settled, Gone, Tick, durable
<1>6. PendingHasJob'
  BY MessageAssumption DEF IInv, Types, Job, PendingHasJob, Listed, Begun, Settled, Gone, Tick, durable
<1>7. ASSUME NEW b \in Attachments
      PROVE  Stored(b)' /\ Begun(b)' /\ Raw(b)' /\ Settled(b)' /\ Downloaded(b)'
  <2>1. Stored(b)'
    BY <1>4, MessageAssumption DEF IInv, Types, Job, Stored, Begun, Raw, Settled, Downloaded, Gone, Tick, durable
  <2>2. Begun(b)'
    BY <1>4, MessageAssumption DEF IInv, Types, Job, Stored, Begun, Raw, Settled, Downloaded, Gone, Tick, durable
  <2>3. Raw(b)'
    BY <1>4, MessageAssumption DEF IInv, Types, Job, Stored, Begun, Raw, Settled, Downloaded, Gone, Tick, durable
  <2>4. Settled(b)'
    BY <1>4, MessageAssumption DEF IInv, Types, Job, Stored, Begun, Raw, Settled, Downloaded, Gone, Tick, durable
  <2>5. Downloaded(b)'
    BY <1>4, MessageAssumption DEF IInv, Types, Job, Stored, Begun, Raw, Settled, Downloaded, Gone, Tick, durable
  <2>6. QED
    BY <2>1, <2>2, <2>3, <2>4, <2>5
<1>8. QED
  BY <1>1, <1>3, <1>5, <1>6, <1>7 DEF IInv

\* A restart frees every job, and keeps it.
LEMMA RestartStep ==
  ASSUME IInv, Restart
  PROVE  IInv'
<1>1. Types'
  <2>1. table' \in [Attachments -> Job]
    <3>1. table \in [Attachments -> Job] /\ table' = ResetPending
      BY DEF IInv, Types, Restart
    <3>2. \A a \in Attachments : [table[a] EXCEPT !.pending = FALSE] \in Job
      BY <3>1 DEF Job
    <3> QED BY <3>1, <3>2 DEF ResetPending
  <2>2. stored' \in [Messages -> {"no", "queueing", "yes", "deleted"}]
    BY DEF IInv, Types, Restart
  <2>3. kills' \in 0 .. MaxKills
    BY KillAssumption DEF IInv, Types, Restart
  <2>4. reads' \in Seq(SUBSET Attachments)
    BY DEF Restart
  <2>5. QED
    BY <2>1, <2>2, <2>3, <2>4 DEF IInv, Types, Restart, Listed
<1>2. Active' \subseteq Active
  BY DEF IInv, Types, Active, Restart, ResetPending
<1>3. Slots'
  BY <1>2, FewerActive DEF IInv
<1>4. ASSUME NEW b \in Attachments PROVE ~Waits(b)'
  BY DEF Waits, Restart
<1>a. ASSUME NEW b \in Attachments
      PROVE  /\ active'[b] = "idle" /\ table'[b].listed = table[b].listed
             /\ shown'[b] = shown[b]
             /\ stored'[MessageOf[b]] = "no" => stored[MessageOf[b]] = "no"
             /\ stored'[MessageOf[b]] # "queueing"
             /\ Gone(b)' <=> Gone(b)
  BY MessageAssumption DEF IInv, Types, Job, Restart, ResetPending, Gone
<1>c. ASSUME NEW b \in Attachments PROVE b \notin twice' => b \notin twice /\ ~(table[b].listed /\ active[b] = "finishing")
  BY DEF IInv, Types, Restart, Listed
<1>5. PendingJobsRun'
  BY DEF IInv, Types, Job, PendingJobsRun, Active, Begun, Settled, Gone, Restart, ResetPending
<1>6. PendingHasJob'
  BY MessageAssumption DEF IInv, Types, Job, PendingHasJob, Listed, Begun, Settled, Gone, Restart, ResetPending
<1>7. ASSUME NEW b \in Attachments
      PROVE  Stored(b)' /\ Begun(b)' /\ Raw(b)' /\ Settled(b)' /\ Downloaded(b)'
  <2>1. Stored(b)'
    BY <1>4, <1>a, <1>c DEF IInv, Stored
  <2>2. Begun(b)'
    BY <1>4, <1>a, <1>c DEF IInv, Begun
  <2>3. Raw(b)'
    BY <1>4, MessageAssumption DEF IInv, Types, Job, Stored, Begun, Raw, Settled, Downloaded, Gone, Restart, ResetPending
  <2>4. Settled(b)'
    BY <1>4, <1>a, <1>c DEF IInv, Settled
  <2>5. Downloaded(b)'
    BY <1>4, <1>a, <1>c DEF IInv, Downloaded, Begun
  <2>6. QED
    BY <2>1, <2>2, <2>3, <2>4, <2>5
<1>8. QED
  BY <1>1, <1>3, <1>5, <1>6, <1>7 DEF IInv

\* What is read is eligible: no pending job, none of a message that is not stored.
LEMMA ReadJobsStep ==
  ASSUME IInv, ReadJobs
  PROVE  IInv'
<1>1. CASE UNCHANGED reads
  <2>1. Types' /\ Active' = Active
    BY <1>1 DEF IInv, Types, Active, ReadJobs, durable
  <2>2. Slots'
    BY <2>1, FewerActive DEF IInv
  <2>3. ASSUME NEW b \in Attachments PROVE Waits(b)' <=> Waits(b)
    BY <1>1 DEF Waits
  <2>4. PendingJobsRun' /\ PendingHasJob'
    BY DEF IInv, PendingJobsRun, PendingHasJob, Active, Listed, ReadJobs, durable
  <2>5. ASSUME NEW b \in Attachments
        PROVE  Stored(b)' /\ Begun(b)' /\ Raw(b)' /\ Settled(b)' /\ Downloaded(b)'
    BY <2>3 DEF IInv, Stored, Begun, Raw, Settled, Downloaded, Gone, ReadJobs, durable
  <2>6. QED
    BY <2>1, <2>2, <2>4, <2>5 DEF IInv
<1>2. ASSUME NEW jobs \in SUBSET Eligible, reads' = Append(reads, jobs)
      PROVE  IInv'
  <2>1. jobs \in SUBSET Attachments /\ \A b \in jobs : table[b].listed /\ ~table[b].pending
    BY DEF Eligible, Listed
  <2>2. reads \in Seq(SUBSET Attachments)
    BY DEF IInv, Types
  <2>3. /\ reads' \in Seq(SUBSET Attachments)
        /\ \A j \in DOMAIN reads' : reads'[j] = jobs \/ \E k \in DOMAIN reads : reads'[j] = reads[k]
    BY <1>2, <2>1, <2>2, AddedRead
  <2>4. Types' /\ Active' = Active
    BY <2>3 DEF IInv, Types, Active, ReadJobs, durable
  <2>5. Slots'
    BY <2>4, FewerActive DEF IInv
  <2>6. ASSUME NEW b \in Attachments
        PROVE  Waits(b)' => Waits(b) \/ (table[b].listed /\ ~table[b].pending)
    BY <2>1, <2>3 DEF Waits
  <2>7. PendingJobsRun' /\ PendingHasJob'
    BY DEF IInv, PendingJobsRun, PendingHasJob, Active, Listed, ReadJobs, durable
  <2>8. ASSUME NEW b \in Attachments
        PROVE  Stored(b)' /\ Begun(b)' /\ Raw(b)' /\ Settled(b)' /\ Downloaded(b)'
    BY <2>6 DEF IInv, Stored, Begun, Raw, Settled, Downloaded, Gone, ReadJobs, durable
  <2>9. QED
    BY <2>4, <2>5, <2>7, <2>8 DEF IInv
<1>3. QED
  BY <1>1, <1>2 DEF ReadJobs

\* What was read is started as far as slots are free.
LEMMA StartJobsStep ==
  ASSUME IInv, NEW i \in DOMAIN reads, StartJobs(i)
  PROVE  IInv'
<1>1. PICK started \in SUBSET reads[i] :
        /\ MayStart(reads[i], started)
        /\ active' = [a \in Attachments |-> IF a \in started THEN "started" ELSE active[a]]
  BY DEF StartJobs
<1>2. reads \in Seq(SUBSET Attachments) /\ reads[i] \in SUBSET Attachments
  BY ElementOfSeq, LenProperties DEF IInv, Types
<1>3. /\ reads' \in Seq(SUBSET Attachments)
      /\ \A j \in DOMAIN reads' : \E k \in DOMAIN reads : reads'[j] = reads[k]
  BY <1>2, RemovedRead DEF StartJobs
<1>4. UNCHANGED <<stored, shown, table, calls, kills, twice>>
  BY DEF StartJobs, durable
<1>5. Types'
  BY <1>1, <1>2, <1>3, <1>4 DEF IInv, Types
<1>6. Slots'
  <2>1. Active' = Active \union started
    BY <1>1, <1>2 DEF Active
  <2>2. QED
    BY <1>1, <1>2, <2>1, StartedFit DEF IInv
<1>7. ASSUME NEW b \in Attachments
      PROVE  /\ Waits(b)' => Waits(b)
             /\ active'[b] = active[b] \/ (active'[b] = "started" /\ active[b] = "idle" /\ Waits(b))
  <2>1. Waits(b)' => Waits(b)
    BY <1>3 DEF Waits
  <2>2. b \in started => active[b] = "idle" /\ Waits(b)
    BY <1>1 DEF MayStart, Active, Waits
  <2>3. QED
    BY <1>1, <2>1, <2>2
<1>8. PendingJobsRun' /\ PendingHasJob'
  BY <1>4, <1>7 DEF IInv, PendingJobsRun, PendingHasJob, Active, Listed
<1>9. ASSUME NEW b \in Attachments
      PROVE  Stored(b)' /\ Begun(b)' /\ Raw(b)' /\ Settled(b)' /\ Downloaded(b)'
  BY <1>4, <1>7 DEF IInv, Stored, Begun, Raw, Settled, Downloaded, Gone
<1>10. QED
  BY <1>5, <1>6, <1>8, <1>9 DEF IInv

-----------------------------------------------------------------------------
(* The theorems *)

LEMMA InitIInv == Init => IInv
<1> SUFFICES ASSUME Init PROVE IInv
  OBVIOUS
<1>1. Types
  BY KillAssumption DEF Init, Types, Job, NoJob
<1>2. Active = {} /\ Cardinality(Active) = 0
  BY FS_EmptySet DEF Init, Active
<1>3. PendingJobsRun /\ PendingHasJob
  BY DEF Init, PendingJobsRun, PendingHasJob, NoJob
<1>4. ASSUME NEW a \in Attachments
      PROVE  Stored(a) /\ Begun(a) /\ Raw(a) /\ Settled(a) /\ Downloaded(a)
  BY MessageAssumption DEF Init, Stored, Begun, Raw, Settled, Downloaded, Waits, NoJob
<1>5. QED
  BY <1>1, <1>2, <1>3, <1>4, ParallelismAssumption DEF IInv, Slots

LEMMA StepIInv == IInv /\ [Next]_vars => IInv'
<1> SUFFICES ASSUME IInv, [Next]_vars PROVE IInv'
  OBVIOUS
<1>1. ASSUME NEW a \in Attachments, Download(a) PROVE IInv'
  BY <1>1, CommitStep DEF Download
<1>2. ASSUME NEW a \in Attachments, DownloadFails(a) PROVE IInv'
  <2>1. CASE GiveUp(a) /\ UNCHANGED <<table, calls>>
    BY <1>2, <2>1, CommitStep DEF DownloadFails, GiveUp
  <2>2. CASE ~(GiveUp(a) /\ UNCHANGED <<table, calls>>)
    BY <1>2, <2>2, RetryStep DEF DownloadFails
  <2>3. QED
    BY <2>1, <2>2
<1>3. CASE UNCHANGED vars
  <2>1. ASSUME NEW b \in Attachments PROVE Waits(b)' <=> Waits(b)
    BY <1>3 DEF Waits, vars
  <2>2. Types' /\ Slots' /\ PendingJobsRun' /\ PendingHasJob'
    BY <1>3 DEF IInv, Types, Slots, PendingJobsRun, PendingHasJob, Active, Listed, vars, durable
  <2>3. ASSUME NEW b \in Attachments
        PROVE  Stored(b)' /\ Begun(b)' /\ Raw(b)' /\ Settled(b)' /\ Downloaded(b)'
    BY <1>3, <2>1 DEF IInv, Stored, Begun, Raw, Settled, Downloaded, Gone, vars, durable
  <2>4. QED
    BY <2>2, <2>3 DEF IInv
<1>4. QED
  BY <1>1, <1>2, <1>3, StoreMessageStep, AddJobStep, SavePendingStep, DeleteMessageStep,
     ReadJobsStep, StartJobsStep, RunJobStep, FinishJobStep, BecomeDueStep, TickStep, RestartStep
  DEF Next, Microtask

\* The inductive invariant holds in every state.
THEOREM Invariance == Spec => []IInv
<1>1. QED
  BY InitIInv, StepIInv, PTL DEF Spec

\* Type correctness: no more downloads at once than slots, whatever calls of
\* _maybeStartJob overlap, and two failed attempts on record at most.
THEOREM TypeCorrect == Spec => []TypeOK
<1>1. IInv => TypeOK
  <2> SUFFICES ASSUME IInv PROVE TypeOK
    OBVIOUS
  <2>1. \A i \in DOMAIN reads : reads[i] \subseteq Attachments
    BY ElementOfSeq, LenProperties DEF IInv, Types
  <2>2. QED
    BY <2>1 DEF IInv, Types, Slots, Job, TypeOK
<1>2. QED
  BY <1>1, Invariance, PTL

\* No job is stuck as pending before the next start, and no attachment is shown as
\* pending without a job, wherever the process is killed.
THEOREM NothingIsLeftBehind == Spec => []NothingLeftBehind
<1>1. IInv => NothingLeftBehind
  BY DEF IInv, NothingLeftBehind
<1>2. QED
  BY <1>1, Invariance, PTL

\* A download is not undone by another download of the same message.
THEOREM DownloadsStay == Spec => DownloadedStays
<1> DEFINE Stays == \A a \in Attachments : shown[a] = "done" /\ a \notin twice => shown'[a] = "done"
<1>1. IInv /\ [Next]_vars => [Stays]_vars
  <2> SUFFICES ASSUME IInv, [Next]_vars, NEW a \in Attachments, shown[a] = "done", a \notin twice
               PROVE  shown'[a] = "done" \/ UNCHANGED vars
    OBVIOUS
  <2>1. ASSUME NEW m \in Messages, SavePending(m) PROVE shown'[a] = "done"
    BY <2>1 DEF IInv, Raw, SavePending, Of
  <2>2. ASSUME NEW b \in Attachments, NEW result \in {"done", "error"}, Quiet,
               active[b] = "downloading", Commit(b, result)
        PROVE  shown'[a] = "done"
    <3>1. CASE a = b
      BY <2>2, <3>1 DEF IInv, Downloaded, Gone, Commit, Found
    <3>2. CASE a # b
      BY <2>2, <3>2 DEF IInv, Types, Commit, WithAttachment
    <3>3. QED
      BY <3>1, <3>2
  <2>3. ASSUME NEW b \in Attachments, Download(b) \/ DownloadFails(b) PROVE shown'[a] = "done"
    BY <2>2, <2>3 DEF Download, DownloadFails, GiveUp
  <2>4. QED
    BY <2>1, <2>3
    DEF Next, Microtask, StoreMessage, AddJob, DeleteMessage, ReadJobs, StartJobs, RunJob, FinishJob,
        BecomeDue, Tick, Restart, durable
<1>2. QED
  BY <1>1, Invariance, PTL DEF Spec, DownloadedStays

=============================================================================
