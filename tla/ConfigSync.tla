------------------------------ MODULE ConfigSync ------------------------------
(***************************************************************************)
(* The configuration we share with our other devices: the wrappers of      *)
(* libsession, the job that pushes them to our swarm                       *)
(* (ts/session/utils/job_runners/jobs/ConfigurationSyncJob.ts), the merge  *)
(* of the messages polled from it (ts/receiver/configMessage.ts), and the  *)
(* groups of the database that a merge joins and leaves.                   *)
(*                                                                         *)
(* The wrappers live in a worker thread that serves calls in the order in  *)
(* which they are posted: a call takes effect when it is posted, its       *)
(* answer is another step, and everything else may run in between.  The    *)
(* database answers at once.  A wrapper maps each key (a group, a contact) *)
(* to the last change known of it; merging keeps the latest change of each *)
(* key.  One merge runs at a time.                                         *)
(***************************************************************************)
EXTENDS Integers, FiniteSets, SequencesExt

CONSTANTS
  Groups,       \* public keys of legacy groups
  Contacts,     \* keys of the Contacts wrapper
  RunIds,       \* runs of the job: the one in progress and those that outlive their timeout
  OtherKeys,    \* keys another device changes
  MaxChanges,   \* groups we join or are removed from, and contacts we edit
  MaxOther,     \* changes another device makes
  MaxFaults     \* kills, requests that fail in whole or in part, runs that time out

ASSUME KeyAssumption == Groups \cap Contacts = {}
ASSUME BoundAssumption ==
  /\ {MaxChanges, MaxOther, MaxFaults} \subseteq Nat
  /\ OtherKeys \subseteq Groups \union Contacts /\ RunIds # {}

VARIABLES
  wrapper,     \* per variant: content, seqno, state and the hashes content supersedes
  dump,        \* the saved dumps
  convo,       \* legacy groups among the conversations: "none", "inactive" or "active"
  swarm,       \* external: configuration messages our swarm stores
  polled,      \* those the last hashes cover
  other,       \* external: the content another device pushed, and its message
  merge,       \* the merge in progress
  waiting,     \* persisted: the jobs listed, without the one of the attempt in progress
  current,     \* that job, and the run it awaits
  run,         \* the calls of run, those of jobs that timed out included
  budget,      \* bounds of the environment
  lost         \* history: a kill lost a merge, or the removal of a group

durable == <<dump, convo, polled, waiting>>
external == <<swarm, other>>
vars == <<wrapper, durable, external, merge, current, run, budget, lost>>

Variants == {"ContactsConfig", "UserGroupsConfig"}
Keys(v) == IF v = "UserGroupsConfig" THEN Groups ELSE Contacts

\* Those of S, in the order in which pendingChangesForPubkey finds the dumps.
Ordered(S) ==
  (IF "ContactsConfig" \in S THEN <<"ContactsConfig">> ELSE <<>>)
    \o (IF "UserGroupsConfig" \in S THEN <<"UserGroupsConfig">> ELSE <<>>)

-----------------------------------------------------------------------------
(* The wrappers (external: libsession) *)

\* The last change of a key: whether it is there, and the seqno of the change.
Change == [in : BOOLEAN, at : Nat]
Never == [in |-> FALSE, at |-> 0]
NotBefore(c, d) == c.at > d.at \/ (c.at = d.at /\ (c.in \/ ~d.in))
Covers(content, old) == \A k \in DOMAIN content : NotBefore(content[k], old[k])

\* The latest change of each key.
Latest(v, contents) ==
  [k \in Keys(v) |-> CHOOSE c \in {x[k] : x \in contents} :
                       \A x \in contents : NotBefore(c, x[k])]
Empty(v) == [k \in Keys(v) |-> Never]
New(v) == [content |-> Empty(v), seqno |-> 0, state |-> "clean", hashes |-> {}]

Seqnos(ms) == {m.seqno : m \in ms}
Highest(S) == CHOOSE n \in S : \A x \in S : x <= n

\* A change makes a clean or waiting wrapper dirty, with the next seqno.
Set(w, k, in) ==
  IF w.content[k].in = in THEN w
  ELSE LET next == IF w.state = "dirty" THEN w.seqno ELSE w.seqno + 1
       IN  [w EXCEPT !.content[k] = [in |-> in, at |-> next], !.seqno = next, !.state = "dirty"]

\* Older messages that say nothing new are superseded; a newest one that says
\* everything is adopted; otherwise the union is a newer change of our own.
MergeInto(v, w, ms) ==
  LET top == Latest(v, {w.content} \union {m.content : m \in ms})
      newest == Highest({w.seqno} \union Seqnos(ms))
      known == [w EXCEPT !.content = top, !.seqno = newest, !.hashes = @ \union ms]
  IN  IF \E m \in ms : m.content = top /\ m.seqno = newest THEN [known EXCEPT !.state = "clean"]
      ELSE IF top = w.content /\ newest \notin Seqnos(ms) THEN known
      ELSE [known EXCEPT !.seqno = newest + 1, !.state = "dirty"]

NeedsPush(w) == w.state # "clean"
Message(v, w) == [variant |-> v, content |-> w.content, seqno |-> w.seqno]
Pushed(w) == [w EXCEPT !.state = IF @ = "dirty" THEN "waiting" ELSE @, !.hashes = {}]

\* Only the push of the current seqno makes the wrapper clean.
ConfirmPushed(w, seqno, m) ==
  IF w.state = "waiting" /\ w.seqno = seqno
  THEN [w EXCEPT !.state = "clean", !.hashes = @ \union {m}]
  ELSE w

On(v, ms) == {m \in ms : m.variant = v}
SwarmContent(v, ms) == Latest(v, {Empty(v)} \union {m.content : m \in On(v, ms)})

-----------------------------------------------------------------------------
(* Bounds *)

Spend(kind) == budget[kind] > 0 /\ budget' = [budget EXCEPT ![kind] = @ - 1]

-----------------------------------------------------------------------------
(* The jobs *)

\* A job retried in the same process is spent: it awaits the promise of its
\* first attempt, and leaves after this second one whatever the result.
Job == {"new", "retried", "spent"}
NoJob == [job |-> "none", run |-> "none"]
Idle == [phase |-> "idle", todo |-> <<>>, old |-> {}, codes |-> <<>>]

\* Mutant: whatever is listed.
QueueNewJob == waiting' = Append(waiting, "new")

\* A job is refused while one is listed that does not run.  The call comes after
\* the answer of the worker; a kill before it only loses the job.
QueueNewJobIfNeeded == waiting' = IF waiting = <<>> THEN <<"new">> ELSE waiting

-----------------------------------------------------------------------------
(* Joining and leaving groups, editing contacts *)

\* handleNewClosedGroup: the conversation is saved and put in the wrapper before
\* anything else runs (an invitation to a group that has one is ignored); queueNewJobIfNeeded
\* comes after the answer of the worker.
JoinGroup(g) ==
  /\ convo[g] = "none"
  /\ Spend("changes")
  /\ convo' = [convo EXCEPT ![g] = "active"]
  /\ wrapper' = [wrapper EXCEPT !["UserGroupsConfig"] = Set(@, g, TRUE)]
  /\ QueueNewJobIfNeeded
  /\ UNCHANGED <<dump, polled, external, merge, current, run, lost>>

\* deleteClosedGroup of a group that was listed.
Deleted(g) ==
  /\ convo' = [convo EXCEPT ![g] = "none"]
  /\ wrapper' = [wrapper EXCEPT !["UserGroupsConfig"] = Set(@, g, FALSE)]

\* handleClosedGroupMembersRemoved or MemberLeft, of ourselves.
Kicked(g) ==
  /\ convo[g] = "active"
  /\ Spend("changes")
  /\ Deleted(g)
  /\ QueueNewJobIfNeeded
  /\ UNCHANGED <<dump, polled, external, merge, current, run, lost>>

EditContact(c) ==
  /\ Spend("changes")
  /\ \E in \in BOOLEAN : wrapper' = [wrapper EXCEPT !["ContactsConfig"] = Set(@, c, in)]
  /\ QueueNewJobIfNeeded
  /\ UNCHANGED <<dump, convo, polled, external, merge, current, run, lost>>

\* commitConversationAndRefreshWrapper: an active group is put in the wrapper
\* (again); of any other conversation, only the job matters.
CommitConversation(g) ==
  /\ wrapper' = [wrapper EXCEPT !["UserGroupsConfig"] = IF convo[g] = "active" THEN Set(@, g, TRUE) ELSE @]
  /\ QueueNewJobIfNeeded
  /\ UNCHANGED <<dump, convo, polled, external, merge, current, run, budget, lost>>

-----------------------------------------------------------------------------
(* Attempts and runs *)

FreeRuns == {r \in RunIds : run[r] = Idle}
NextRun == CHOOSE r \in FreeRuns : TRUE

\* runNextJob, and the first step of run: saveDumpsNeededToDB.
StartAttempt(i) ==
  /\ current = NoJob
  /\ waiting' = RemoveAt(waiting, i)
  /\ \/ /\ waiting[i] = "spent"
        /\ UNCHANGED <<current, run, dump>>
     \/ /\ waiting[i] # "spent"
        /\ FreeRuns # {}
        /\ current' = [job |-> waiting[i], run |-> NextRun]
        /\ run' = [run EXCEPT ![NextRun] = [Idle EXCEPT !.phase = "dumped"]]
        /\ dump' = wrapper
  /\ UNCHANGED <<wrapper, convo, polled, external, merge, budget, lost>>

\* The attempt of run r ends; a job that failed is listed again once.
AttemptFails ==
  /\ current' = NoJob
  /\ waiting' = IF current.job = "new" THEN Append(waiting, "spent") ELSE waiting

RunEnds(r, success) ==
  /\ run' = [run EXCEPT ![r] = Idle]
  /\ \/ r # current.run /\ UNCHANGED <<current, waiting>>
     \/ r = current.run /\ success /\ current' = NoJob /\ UNCHANGED waiting
     \/ r = current.run /\ ~success /\ AttemptFails

\* The job runner gives up waiting after 20 seconds; the run goes on.
TimeOut ==
  /\ current # NoJob
  /\ Spend("faults")
  /\ AttemptFails
  /\ UNCHANGED <<wrapper, dump, convo, polled, external, merge, run, lost>>

\* Mutant: a push that failed is not tried again.
DirtyOnly == Ordered({v \in Variants : wrapper[v].state = "dirty"})

Pending == Ordered({v \in Variants : NeedsPush(wrapper[v])})

\* pendingChangesForPubkey.  The messages of the superseded hashes are deleted
\* with the push of what supersedes them.
PendingChanges(r) ==
  LET pending == Pending
      old == UNION {wrapper[v].hashes : v \in ToSet(pending)}
  IN  /\ run[r].phase = "dumped"
      /\ wrapper' = [v \in Variants |-> IF v \in ToSet(pending) THEN Pushed(wrapper[v]) ELSE wrapper[v]]
      /\ \/ /\ pending = <<>>
            /\ RunEnds(r, TRUE)
         \/ /\ pending # <<>>
            /\ run' = [run EXCEPT ![r] =
                 [phase |-> "sending", todo |-> [i \in DOMAIN pending |-> Message(pending[i], wrapper[pending[i]])],
                  old |-> old, codes |-> <<>>]]
            /\ UNCHANGED <<current, waiting>>
      /\ UNCHANGED <<dump, convo, polled, external, merge, budget, lost>>

\* With hashes to delete the request is a sequence, which stops at the first
\* failure and ends with the delete; otherwise it is a batch.
Stored(q) ==
  IF q.old = {} THEN SUBSET DOMAIN q.todo
  ELSE {1 .. n : n \in 0 .. Len(q.todo)}

\* Mutant: always a batch.
DeleteInBatch(q, done) == q.old # {}

MayDelete(q, done) == q.old # {} /\ done = DOMAIN q.todo

\* The answer: the codes, until the first failure of a sequence.
Codes(q, done, deleted) ==
  LET codes == [i \in DOMAIN q.todo |-> IF i \in done THEN 200 ELSE 400]
  IN  IF q.old = {} THEN codes
      ELSE IF done = DOMAIN q.todo THEN Append(codes, IF deleted THEN 200 ELSE 400)
      ELSE SubSeq(codes, 1, Cardinality(done) + 1)

Everything(q, done, deleted) == done = DOMAIN q.todo /\ (q.old = {} \/ deleted)

\* sendMessagesDataToSnode.  Without an answer, or when the first result is
\* not 200, it throws and is tried again, or for good (an empty answer).
Send(r) ==
  LET q == run[r] IN
  /\ q.phase = "sending"
  /\ \E done \in Stored(q), deleted, answered \in BOOLEAN :
       /\ deleted => MayDelete(q, done)
       /\ swarm' = (swarm \union {q.todo[i] : i \in done}) \ (IF deleted THEN q.old ELSE {})
       /\ IF answered /\ 1 \in done
          THEN run' = [run EXCEPT ![r].phase = "answered", ![r].codes = Codes(q, done, deleted)]
          ELSE run' = run \/ run' = [run EXCEPT ![r].phase = "answered"]
       /\ IF Everything(q, done, deleted) /\ answered THEN UNCHANGED budget ELSE Spend("faults")
  /\ UNCHANGED <<wrapper, durable, other, merge, current, lost>>

ExpectedReplies(q) == Len(q.todo) + (IF q.old = {} THEN 0 ELSE 1)

\* Mutant: the codes are not looked at.
AllChanges(q) == ToSet(q.todo)

\* resultsToSuccessfulChange.
SuccessfulChanges(q) ==
  {q.todo[i] : i \in {j \in DOMAIN q.todo \cap DOMAIN q.codes : q.codes[j] = 200}}

\* markAsPushed of each message that was stored, with its seqno.
MarkedAsPushed(stored) ==
  [v \in Variants |->
     IF On(v, stored) = {} THEN wrapper[v]
     ELSE LET m == CHOOSE x \in On(v, stored) : TRUE IN ConfirmPushed(wrapper[v], m.seqno, m)]

\* The rest of run, and buildAndSaveDumpsToDB.
EndRun(r) ==
  LET stored == SuccessfulChanges(run[r])
      failed == Len(run[r].codes) # ExpectedReplies(run[r]) \/ stored = {}
  IN  /\ run[r].phase = "answered"
      /\ RunEnds(r, ~failed)
      /\ wrapper' = IF failed THEN wrapper ELSE MarkedAsPushed(stored)
      /\ dump' = [v \in Variants |-> IF failed \/ On(v, stored) = {} THEN dump[v] ELSE wrapper'[v]]
      /\ UNCHANGED <<convo, polled, external, merge, budget, lost>>

-----------------------------------------------------------------------------
(* Merging what the other devices pushed, and what we pushed *)

NoMerge == [phase |-> "none", variants |-> {}, push |-> FALSE, inWrapper |-> {}, todo |-> {}, join |-> {}]

\* A poll; mergeConfigsWithIncomingUpdates.  The last hash is saved first.
Poll ==
  LET new == swarm \ polled
      merged == [v \in Variants |-> IF On(v, new) = {} THEN wrapper[v] ELSE MergeInto(v, wrapper[v], On(v, new))]
      vs == {m.variant : m \in new}
  IN  /\ merge = NoMerge /\ new # {}
      /\ polled' = polled \union new
      /\ wrapper' = merged
      /\ merge' = [NoMerge EXCEPT !.phase = IF "UserGroupsConfig" \in vs THEN "merged" ELSE "handled",
                                  !.variants = vs, !.push = \E v \in vs : NeedsPush(merged[v])]
      /\ UNCHANGED <<dump, convo, waiting, external, current, run, budget, lost>>

\* handleLegacyGroupUpdate asks the worker for the groups of the wrapper,
AskForGroups ==
  /\ merge.phase = "merged"
  /\ merge' = [merge EXCEPT !.phase = "asked",
                 !.inWrapper = {g \in Groups : wrapper["UserGroupsConfig"].content[g].in}]
  /\ UNCHANGED <<wrapper, durable, external, current, run, budget, lost>>

\* and compares the answer with the conversations of the moment it arrives.
CompareGroups ==
  LET inDB == {g \in Groups : convo[g] # "none"} IN
  /\ merge.phase = "asked"
  /\ merge' = [merge EXCEPT !.phase = "leaving", !.todo = inDB \ merge.inWrapper,
                            !.join = merge.inWrapper \ inDB]
  /\ UNCHANGED <<wrapper, durable, external, current, run, budget, lost>>

\* deleteClosedGroup (fromSyncMessage) of each group the wrapper did not have.  A group
\* that was deleted meanwhile makes the handler throw: no dump is saved then.
LeaveGroup ==
  /\ merge.phase = "leaving"
  /\ \E g \in merge.todo :
       \/ /\ convo[g] # "none"
          /\ Deleted(g)
          /\ merge' = [merge EXCEPT !.todo = @ \ {g}]
       \/ /\ convo[g] = "none"
          /\ merge' = NoMerge
          /\ UNCHANGED <<wrapper, convo>>
  /\ UNCHANGED <<dump, polled, waiting, external, current, run, budget, lost>>

\* getOrCreateAndWait of each group the database did not have.
CreateGroups ==
  /\ merge.phase = "leaving" /\ merge.todo = {}
  /\ convo' = [g \in Groups |-> IF g \in merge.join /\ convo[g] = "none" THEN "inactive" ELSE convo[g]]
  /\ merge' = [merge EXCEPT !.phase = "updating", !.todo = merge.inWrapper]
  /\ UNCHANGED <<wrapper, dump, polled, waiting, external, current, run, budget, lost>>

\* updateOrCreateClosedGroup of each group of the answer, if it is still there.
UpdateGroup ==
  /\ merge.phase = "updating"
  /\ \E g \in merge.todo :
       /\ merge' = [merge EXCEPT !.todo = @ \ {g}]
       /\ \/ convo[g] = "none" /\ UNCHANGED <<convo, wrapper, waiting>>
          \/ /\ convo[g] # "none"
             /\ convo' = [convo EXCEPT ![g] = "active"]
             /\ wrapper' = [wrapper EXCEPT !["UserGroupsConfig"] = Set(@, g, TRUE)]
             /\ QueueNewJobIfNeeded
  /\ UNCHANGED <<dump, polled, external, current, run, budget, lost>>

\* The end of processMergingResults: the merged wrappers are dumped.
EndMerge ==
  /\ merge.phase = "handled" \/ (merge.phase = "updating" /\ merge.todo = {})
  /\ dump' = [v \in Variants |-> IF v \in merge.variants THEN wrapper[v] ELSE dump[v]]
  /\ IF merge.push THEN QueueNewJobIfNeeded ELSE UNCHANGED waiting
  /\ merge' = NoMerge
  /\ UNCHANGED <<wrapper, convo, polled, external, current, run, budget, lost>>

-----------------------------------------------------------------------------
(* The environment *)

\* Another device, which has merged some of the messages, joins or leaves a group
\* or edits a contact, and pushes that as we do.
OtherChanges(v, k) ==
  \E seen \in SUBSET On(v, swarm) :
    LET base == Latest(v, {other[v].content} \union {m.content : m \in seen})
        superseded == other[v].pushed \union seen
        seqno == Highest({0} \union Seqnos(superseded)) + 1
        m == [variant |-> v, content |-> [base EXCEPT ![k] = [in |-> ~@.in, at |-> seqno]], seqno |-> seqno]
    IN  /\ Spend("other")
        /\ swarm' = (swarm \ superseded) \union {m}
        /\ other' = [other EXCEPT ![v] = [content |-> m.content, pushed |-> {m}]]
        /\ UNCHANGED <<wrapper, durable, merge, current, run, lost>>

\* A group was deleted from the database and not yet from the dump.
RemovalsToDump == \E g \in Groups : convo[g] = "none" /\ dump["UserGroupsConfig"].content[g].in

\* The process is killed and started again with what was saved.
Restart ==
  /\ Spend("faults")
  /\ wrapper' = dump
  /\ waiting' = [i \in DOMAIN waiting |-> IF waiting[i] = "spent" THEN "retried" ELSE waiting[i]]
                  \o (IF current = NoJob THEN <<>> ELSE <<current.job>>)
  /\ current' = NoJob /\ run' = [r \in RunIds |-> Idle]
  /\ merge' = NoMerge
  /\ lost' = (lost \/ merge # NoMerge \/ RemovalsToDump)
  /\ UNCHANGED <<dump, convo, polled, external>>

-----------------------------------------------------------------------------
\* A dump of contacts edited before, and not pushed yet.
Edited(v) ==
  IF Keys(v) \cap Contacts = {} THEN New(v)
  ELSE [New(v) EXCEPT !.content = [k \in Keys(v) |-> [in |-> TRUE, at |-> 1]], !.seqno = 1, !.state = "dirty"]

\* Started with what was dumped.
Init ==
  /\ wrapper = [v \in Variants |-> Edited(v)]
  /\ dump = wrapper
  /\ convo = [g \in Groups |-> "none"]
  /\ swarm = {} /\ polled = {}
  /\ other = [v \in Variants |-> [content |-> Empty(v), pushed |-> {}]]
  /\ merge = NoMerge /\ waiting = <<>> /\ current = NoJob
  /\ run = [r \in RunIds |-> Idle]
  /\ budget = [changes |-> MaxChanges, other |-> MaxOther, faults |-> MaxFaults]
  /\ lost = FALSE

RunStep(r) ==
  PendingChanges(r) \/ Send(r) \/ EndRun(r)
MergeStep ==
  AskForGroups \/ CompareGroups \/ LeaveGroup \/ CreateGroups \/ UpdateGroup \/ EndMerge

Next ==
  \/ \E g \in Groups : JoinGroup(g) \/ Kicked(g) \/ CommitConversation(g)
  \/ \E c \in Contacts : EditContact(c)
  \/ \E i \in DOMAIN waiting : StartAttempt(i)
  \/ \E r \in RunIds : RunStep(r)
  \/ TimeOut
  \/ Poll \/ MergeStep
  \/ \E v \in Variants : \E k \in Keys(v) \cap OtherKeys : OtherChanges(v, k)
  \/ Restart

Spec == Init /\ [][Next]_vars

\* Every step of the program is taken sooner or later, and conversations (those
\* of the groups included) are committed again and again: each message does.
Fairness ==
  /\ WF_vars(\E i \in DOMAIN waiting : StartAttempt(i))
  /\ \A r \in RunIds : WF_vars(RunStep(r))
  /\ WF_vars(Poll) /\ WF_vars(MergeStep)
  /\ \A g \in Groups : WF_vars(CommitConversation(g))

FairSpec == Spec /\ Fairness

-----------------------------------------------------------------------------
(* Properties *)

Content(v) == [Keys(v) -> Change]
Messages(v) == [variant : {v}, content : Content(v), seqno : Nat]
AllMessages(S) == \A m \in S : m \in Messages(m.variant)

\* Type correctness; at most two jobs are listed.
TypeOK ==
  /\ \A v \in Variants : \A w \in {wrapper[v], dump[v]} :
       /\ w.content \in Content(v) /\ w.seqno \in Nat
       /\ w.state \in {"clean", "dirty", "waiting"} /\ w.hashes \in SUBSET Messages(v)
  /\ convo \in [Groups -> {"none", "inactive", "active"}]
  /\ AllMessages(swarm \union polled)
  /\ \A v \in Variants : other[v].content \in Content(v) /\ other[v].pushed \subseteq Messages(v)
  /\ \A i \in DOMAIN waiting : waiting[i] \in Job
  /\ Len(waiting) + (IF current = NoJob THEN 0 ELSE 1) <= 2
  /\ current \in [job : {"new", "retried"}, run : RunIds] \union {NoJob}
  /\ \A r \in RunIds :
       /\ run[r].phase \in {"idle", "dumped", "sending", "answered"}
       /\ AllMessages(ToSet(run[r].todo)) /\ AllMessages(run[r].old)
  /\ merge.phase \in {"none", "merged", "asked", "leaving", "updating", "handled"}
  /\ merge.inWrapper \union merge.todo \union merge.join \subseteq Groups
  /\ lost \in BOOLEAN
  /\ \A kind \in DOMAIN budget : budget[kind] \in Nat

\* A wrapper, loaded or dumped, that needs no push knows nothing that the swarm
\* does not: no change is taken for pushed when it was made after the push, or
\* when only the other message of the request was stored.
CleanMeansStored ==
  \A v \in Variants : \A w \in {wrapper[v], dump[v]} :
    ~NeedsPush(w) => Covers(SwarmContent(v, swarm), w.content)

\* What the swarm stores in the end covers what it stored before: old messages
\* are deleted only behind one that supersedes them.
NothingLeavesTheSwarm ==
  [][\A v \in Variants : Covers(SwarmContent(v, swarm)', SwarmContent(v, swarm))]_vars

\* Somebody left the group: a message we merged says so, or the wrapper.
LeftSomewhere(g) ==
  \E content \in {m.content : m \in On("UserGroupsConfig", polled)} \union {wrapper["UserGroupsConfig"].content} :
    content[g] # Never /\ ~content[g].in

\* configMessage.ts:513, of a group that a merge deletes: "we must have
\* left/got kicked from that group already and our device already handled it".
OnlyLeftGroupsAreDeleted ==
  [][\A g \in Groups : LeaveGroup /\ convo'[g] # convo[g] => LeftSomewhere(g)]_vars

InSync ==
  /\ \A v \in Variants : wrapper[v].content = SwarmContent(v, swarm)
  /\ \A g \in Groups : convo[g] = "active" <=> wrapper["UserGroupsConfig"].content[g].in

\* In the end the conversations, the wrappers and the swarm agree, whatever the
\* merges and pushes that overlapped, the requests that failed and the kills,
\* unless a kill lost a merge, or a removal that no commit brings back.
EventuallyInSync == <>[](InSync \/ lost)

=============================================================================
