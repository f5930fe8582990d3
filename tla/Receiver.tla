------------------------------ MODULE Receiver ------------------------------
(***************************************************************************)
(* The incoming pipeline (ts/receiver): the unprocessed table and its      *)
(* attempt counts (cache.ts), the serial queue of envelope tasks           *)
(* (receiver.ts), what a task does with an envelope (contentMessage.ts,    *)
(* dataMessage.ts, closedGroups.ts) and the serial queue of each           *)
(* conversation (queueJob), which stores the message.                      *)
(*                                                                         *)
(* An action runs from one await on the libsession worker to the next, or  *)
(* to a write of the database between which the process may be killed; the *)
(* database itself is synchronous.                                         *)
(***************************************************************************)
EXTENDS Integers, SequencesExt, Filters

CONSTANTS
  Messages,     \* envelopes, each with its own sender and timestamp
  Kind,         \* what is in each of them
  Chats,        \* conversations
  Chat,         \* the conversation of each message
  Groups,       \* the conversations that are closed groups
  Keys,         \* encryption key pairs of the groups
  KeyGroup,     \* the group of each key pair
  Key,          \* the key pair a group message needs, or a control message brings
  NoKey,        \* none
  Known,        \* the key pairs we have at the start
  MaxAttempts,  \* attempts after which a row is let go (10)
  LateLimit,    \* envelope tasks, and conversation jobs, that may outlive their timeout at a time
  MayFail,      \* may an await reject or an event callback of the bot throw?
  MayMerge,     \* may a UserGroups config message be merged?
  MayCrash      \* may the process be killed?

Kinds == {
  "text",       \* a message of an allowed sender
  "group",      \* a message to a group, encrypted with a key pair of it
  "key",        \* ENCRYPTION_KEY_PAIR from an admin of a group
  "invite",     \* NEW: a group and its key pair, from an approved sender
  "unapproved", \* NEW from an unapproved sender
  "blocked",    \* a message of a blocked sender
  "ignored",    \* handled without being stored: empty, a receipt, ...
  "junk"}       \* not decryptable with our own key

Storable == {m \in Messages : Kind[m] \in {"text", "group"}}

ASSUME KindAssumption == Kind \in [Messages -> Kinds]
ASSUME ChatAssumption == Chat \in [Messages -> Chats] /\ Groups \subseteq Chats
ASSUME KeyAssumption ==
  /\ KeyGroup \in [Keys -> Groups] /\ Known \subseteq Keys /\ NoKey \notin Keys
  /\ Key \in [Messages -> Keys \union {NoKey}]
  /\ \A m \in Messages : Kind[m] \in {"group", "key", "invite"} => Key[m] \in Keys
  /\ \A m \in Messages : Kind[m] = "group" => Chat[m] = KeyGroup[Key[m]]
ASSUME AttemptsAssumption == MaxAttempts \in Nat /\ MaxAttempts >= 2
ASSUME LateAssumption == LateLimit \in {0, 1}
ASSUME SwitchAssumption == {MayFail, MayMerge, MayCrash} \subseteq BOOLEAN

VARIABLES
  fresh,    \* messages not handed over by the polling yet
  rows,     \* the unprocessed table, oldest first
  joined,   \* the groups whose conversation exists
  keys,     \* closed group key pairs, in the database and its cache
  stored,   \* rows of the message table for each message
  emitted,  \* messages whose 'message' event was emitted
  started,  \* queueAllCached has run in this process
  queue,    \* waiting envelope tasks
  tasks,    \* running envelope tasks: the one of the queue, and late ones
  jobs,     \* waiting jobs of each conversation
  saving    \* running jobs: one of each conversation, and late ones

durable == <<fresh, rows, joined, keys, stored, emitted>>
volatile == <<started, queue, tasks, jobs, saving>>
vars == <<durable, volatile>>

Row == [id : Messages, attempts : 1 .. MaxAttempts - 1, opened : BOOLEAN]
Envelope == [id : Messages, opened : BOOLEAN]
Task == [id : Messages, late : BOOLEAN,
         step : {"opened", "handling", "joining", "new key", "known key", "invited"}]
Job == [id : Messages, late : BOOLEAN, step : {"save", "confirm"}]

-----------------------------------------------------------------------------
(* The unprocessed table *)

Cached == {rows[i].id : i \in DOMAIN rows}

\* removeFromCache
Without(s, m) == Filter(s, LAMBDA r : r.id # m)

\* updateCacheWithDecryptedContent
Opened(s, m) == [i \in DOMAIN s |-> [s[i] EXCEPT !.opened = @ \/ s[i].id = m]]

\* Mutant: attempts are not counted.
Uncounted(s, S) == s

\* Mutant: a row is let go one attempt too late.
BumpedOnceMore(s, S) ==
  LET bump(r) == IF r.id \in S THEN [r EXCEPT !.attempts = @ + 1] ELSE r
  IN  Filter([i \in DOMAIN s |-> bump(s[i])], LAMBDA r : r.attempts <= MaxAttempts)

\* increaseAttemptsOrRemove
Bumped(s, S) ==
  LET bump(r) == IF r.id \in S THEN [r EXCEPT !.attempts = @ + 1] ELSE r
  IN  Filter([i \in DOMAIN s |-> bump(s[i])], LAMBDA r : r.attempts < MaxAttempts)

\* queueCached, for the rows of S: each is queued, let go or not.
Requeued(s, S) ==
  LET chosen == Filter(s, LAMBDA r : r.id \in S)
  IN  [i \in DOMAIN chosen |-> [id |-> chosen[i].id, opened |-> chosen[i].opened]]

\* The filter of getAllFromCacheForSource keeps the rows with a senderIdentity,
\* which are those of closed group messages, whatever the source.
FromSource(S) == {m \in S : Kind[m] = "group"}

\* queueAllCachedFromSource, on the table s
QueueAllCachedFromSource(s) ==
  LET S == FromSource({s[i].id : i \in DOMAIN s})
  IN  rows' = Bumped(s, S) /\ queue' = queue \o Requeued(s, S)

-----------------------------------------------------------------------------
(* Handing over *)

\* handleRequest: the row is written, then the envelope is queued.  The swarm of a
\* group is polled when we are in the group.
HandleRequest(m) ==
  /\ m \in fresh
  /\ Kind[m] = "group" => Chat[m] \in joined
  /\ fresh' = fresh \ {m}
  /\ rows' = Append(rows, [id |-> m, attempts |-> 1, opened |-> FALSE])
  /\ queue' = Append(queue, [id |-> m, opened |-> FALSE])
  /\ UNCHANGED <<joined, keys, stored, emitted, started, tasks, jobs, saving>>

\* queueAllCached, ten seconds after the start.
QueueAllCached ==
  /\ ~started
  /\ started' = TRUE
  /\ rows' = Bumped(rows, Cached)
  /\ queue' = queue \o Requeued(rows, Cached)
  /\ UNCHANGED <<fresh, joined, keys, stored, emitted, tasks, jobs, saving>>

-----------------------------------------------------------------------------
(* An envelope task *)

Advance(t, s) == tasks' = (tasks \ {t}) \union {[t EXCEPT !.step = s]}
End(t) == tasks' = tasks \ {t}

\* decryptForClosedGroup finds the group and its key pair.
HasKey(m) == Key[m] \in keys /\ KeyGroup[Key[m]] \in joined

\* The next task: decrypt, and the checks before the conversation is loaded.
Decrypt ==
  /\ queue # <<>> /\ \A t \in tasks : t.late
  /\ queue' = Tail(queue)
  /\ LET e == Head(queue)
     IN  \/ /\ ~e.opened /\ Kind[e.id] = "junk"
            /\ rows' = Without(rows, e.id)
            /\ UNCHANGED tasks
         \/ /\ ~e.opened /\ Kind[e.id] = "group" /\ ~HasKey(e.id)
            /\ UNCHANGED <<rows, tasks>>
         \/ /\ e.opened \/ (Kind[e.id] # "junk" /\ (Kind[e.id] = "group" => HasKey(e.id)))
            /\ rows' = IF e.opened THEN rows ELSE Opened(rows, e.id)
            /\ tasks' = IF Kind[e.id] = "blocked" THEN tasks
                        ELSE tasks \union {[id |-> e.id, late |-> FALSE, step |-> "opened"]}
  /\ UNCHANGED <<fresh, joined, keys, stored, emitted, started, jobs, saving>>

\* innerHandleSwarmContentMessage, from the conversation to the callbacks of the bot.
Emit(t) ==
  /\ t \in tasks /\ t.step = "opened"
  /\ \/ emitted' = emitted \union {t.id} /\ Advance(t, "handling")
     \/ MayFail /\ emitted' \in {emitted, emitted \union {t.id}} /\ End(t)
  /\ UNCHANGED <<fresh, rows, joined, keys, stored, started, queue, jobs, saving>>

\* Mutant: the envelope is removed when its job is queued.
ConfirmFirst(t) ==
  /\ t \in tasks /\ t.step = "handling" /\ t.id \in Storable
  /\ jobs' = [jobs EXCEPT ![Chat[t.id]] = Append(@, t.id)]
  /\ rows' = Without(rows, t.id)
  /\ End(t)
  /\ UNCHANGED <<fresh, joined, keys, stored, emitted, started, queue, saving>>

\* handleSwarmMessage: the conversation will store it; nobody waits for that.
HandleSwarmMessage(t) ==
  /\ t \in tasks /\ t.step = "handling" /\ t.id \in Storable
  /\ jobs' = [jobs EXCEPT ![Chat[t.id]] = Append(@, t.id)]
  /\ End(t)
  /\ UNCHANGED <<durable, started, queue, saving>>

\* The handlers that only remove the row, and the one that does not.
HandleOther(t) ==
  /\ t \in tasks /\ t.step = "handling" /\ Kind[t.id] \in {"ignored", "unapproved"}
  /\ rows' = IF Kind[t.id] = "ignored" THEN Without(rows, t.id) ELSE rows
  /\ End(t)
  /\ UNCHANGED <<fresh, joined, keys, stored, emitted, started, queue, jobs, saving>>

\* handleClosedGroupEncryptionKeyPair, up to addKeyPairToCacheAndDBIfNeeded.
HandleClosedGroupEncryptionKeyPair(t) ==
  /\ t \in tasks /\ t.step = "handling" /\ Kind[t.id] = "key"
  /\ \/ /\ KeyGroup[Key[t.id]] \notin joined
        /\ rows' = Without(rows, t.id)
        /\ End(t)
        /\ UNCHANGED keys
     \/ /\ KeyGroup[Key[t.id]] \in joined
        /\ keys' = keys \union {Key[t.id]}
        /\ Advance(t, IF Key[t.id] \in keys THEN "known key" ELSE "new key")
        /\ UNCHANGED rows
  /\ UNCHANGED <<fresh, joined, stored, emitted, started, queue, jobs, saving>>

\* handleNewClosedGroup, up to the group or, if we are in it, the key pair.
HandleNewClosedGroup(t) ==
  /\ t \in tasks /\ t.step = "handling" /\ Kind[t.id] = "invite"
  /\ \/ /\ KeyGroup[Key[t.id]] \in joined
        /\ keys' = keys \union {Key[t.id]}
        /\ Advance(t, "new key")
        /\ UNCHANGED joined
     \/ /\ KeyGroup[Key[t.id]] \notin joined
        /\ joined' = joined \union {KeyGroup[Key[t.id]]}
        /\ Advance(t, "joining")
        /\ UNCHANGED keys
  /\ UNCHANGED <<fresh, rows, stored, emitted, started, queue, jobs, saving>>

\* The key pair of a new group, once the group is committed.
AddKeyPair(t) ==
  /\ t \in tasks /\ t.step = "joining"
  /\ keys' = keys \union {Key[t.id]}
  /\ Advance(t, "invited")
  /\ UNCHANGED <<fresh, rows, joined, stored, emitted, started, queue, jobs, saving>>

\* Mutant: the row of a control message is kept.
KeepControl(t) ==
  /\ t \in tasks /\ t.step \in {"new key", "known key", "invited"}
  /\ End(t)
  /\ UNCHANGED <<durable, started, queue, jobs, saving>>

\* The end of both: a key pair addKeyPairToCacheAndDBIfNeeded has just saved is
\* taken for one that was already here, and the waiting messages are not queued.
FinishKeyPair(t) ==
  /\ t \in tasks /\ t.step \in {"new key", "known key", "invited"}
  /\ \/ /\ t.step = "new key"
        /\ rows' = Without(rows, t.id)
        /\ UNCHANGED queue
     \/ /\ t.step # "new key"
        /\ QueueAllCachedFromSource(Without(rows, t.id))
  /\ End(t)
  /\ UNCHANGED <<fresh, joined, keys, stored, emitted, started, jobs, saving>>

\* An await of the handlers rejects; innerHandleSwarmContentMessage swallows it.
TaskFails(t) ==
  /\ MayFail /\ t \in tasks /\ t.step \in {"handling", "joining", "new key"}
  /\ End(t)
  /\ UNCHANGED <<durable, started, queue, jobs, saving>>

\* createTaskWithTimeout: the queue goes on, and so does the task.
TaskTimesOut(t) ==
  /\ t \in tasks /\ ~t.late /\ Cardinality({u \in tasks : u.late}) < LateLimit
  /\ tasks' = (tasks \ {t}) \union {[t EXCEPT !.late = TRUE]}
  /\ UNCHANGED <<durable, started, queue, jobs, saving>>

-----------------------------------------------------------------------------
(* A job of a conversation *)

\* Mutant: the duplicate is not looked for.
StoreAgain(c) ==
  /\ jobs[c] # <<>> /\ \A j \in saving : Chat[j.id] = c => j.late
  /\ jobs' = [jobs EXCEPT ![c] = Tail(@)]
  /\ saving' = saving \union {[id |-> Head(jobs[c]), late |-> FALSE, step |-> "save"]}
  /\ UNCHANGED <<durable, started, queue, tasks>>

\* Mutant: a job that finds its message stored is tried again.
TryAgain(c) ==
  /\ jobs[c] # <<>> /\ \A j \in saving : Chat[j.id] = c => j.late
  /\ LET m == Head(jobs[c])
     IN  /\ jobs' = [jobs EXCEPT ![c] = IF stored[m] > 0 THEN Append(Tail(@), m) ELSE Tail(@)]
         /\ saving' = IF stored[m] > 0 THEN saving
                      ELSE saving \union {[id |-> m, late |-> FALSE, step |-> "save"]}
  /\ UNCHANGED <<durable, started, queue, tasks>>

\* The next job: is the message there already?
CheckDuplicate(c) ==
  /\ jobs[c] # <<>> /\ \A j \in saving : Chat[j.id] = c => j.late
  /\ jobs' = [jobs EXCEPT ![c] = Tail(@)]
  /\ LET m == Head(jobs[c])
     IN  \/ /\ stored[m] > 0
            /\ rows' = Without(rows, m)
            /\ UNCHANGED saving
         \/ /\ stored[m] = 0
            /\ saving' = saving \union {[id |-> m, late |-> FALSE, step |-> "save"]}
            /\ UNCHANGED rows
  /\ UNCHANGED <<fresh, joined, keys, stored, emitted, started, queue, tasks>>

\* handleMessageJob, up to the commit of the message.
CommitMessage(j) ==
  /\ j \in saving /\ j.step = "save"
  /\ stored' = [stored EXCEPT ![j.id] = @ + 1]
  /\ saving' = (saving \ {j}) \union {[j EXCEPT !.step = "confirm"]}
  /\ UNCHANGED <<fresh, rows, joined, keys, emitted, started, queue, tasks, jobs>>

\* The rest of handleMessageJob, whose confirm removes the row.
Confirm(j) ==
  /\ j \in saving /\ j.step = "confirm"
  /\ rows' = Without(rows, j.id)
  /\ saving' = saving \ {j}
  /\ UNCHANGED <<fresh, joined, keys, stored, emitted, started, queue, tasks, jobs>>

\* An await of handleMessageJob rejects: the row stays.
JobFails(j) ==
  /\ MayFail /\ j \in saving
  /\ saving' = saving \ {j}
  /\ UNCHANGED <<durable, started, queue, tasks, jobs>>

JobTimesOut(j) ==
  /\ j \in saving /\ ~j.late /\ Cardinality({k \in saving : k.late}) < LateLimit
  /\ saving' = (saving \ {j}) \union {[j EXCEPT !.late = TRUE]}
  /\ UNCHANGED <<durable, started, queue, tasks, jobs>>

-----------------------------------------------------------------------------
\* handleLegacyGroupUpdate, for one group of a merged UserGroups config, which
\* may hold a key pair of it.
MergeLegacyGroup(g) ==
  /\ MayMerge
  /\ joined' = joined \union {g}
  /\ keys' \in {keys} \union {keys \union {k} : k \in {k \in Keys : KeyGroup[k] = g}}
  /\ QueueAllCachedFromSource(rows)
  /\ UNCHANGED <<fresh, stored, emitted, started, tasks, jobs, saving>>

\* The process is killed, and started again.
Crash ==
  /\ MayCrash
  /\ started' = FALSE /\ queue' = <<>> /\ tasks' = {} /\ saving' = {}
  /\ jobs' = [c \in Chats |-> <<>>]
  /\ UNCHANGED durable

Init ==
  /\ fresh = Messages /\ rows = <<>>
  /\ joined = {KeyGroup[k] : k \in Known} /\ keys = Known
  /\ stored = [m \in Messages |-> 0] /\ emitted = {}
  /\ started = FALSE /\ queue = <<>> /\ tasks = {} /\ saving = {}
  /\ jobs = [c \in Chats |-> <<>>]

TaskStep(t) ==
  \/ Emit(t) \/ HandleSwarmMessage(t) \/ HandleOther(t)
  \/ HandleClosedGroupEncryptionKeyPair(t) \/ HandleNewClosedGroup(t)
  \/ AddKeyPair(t) \/ FinishKeyPair(t)

JobStep(j) == CommitMessage(j) \/ Confirm(j)

Next ==
  \/ \E m \in Messages : HandleRequest(m)
  \/ QueueAllCached \/ Decrypt
  \/ \E t \in tasks : TaskStep(t) \/ TaskFails(t) \/ TaskTimesOut(t)
  \/ \E c \in Chats : CheckDuplicate(c)
  \/ \E j \in saving : JobStep(j) \/ JobFails(j) \/ JobTimesOut(j)
  \/ \E g \in Groups : MergeLegacyGroup(g)
  \/ Crash

Spec == Init /\ [][Next]_vars

\* Promises settle: every await of a task is on the database or on the worker,
\* which answers or times out after a minute.  The timer of queueAllCached fires.
\* Nothing makes a message arrive or a config be merged.
FairSpec ==
  /\ Spec
  /\ WF_vars(QueueAllCached) /\ WF_vars(Decrypt)
  /\ \A m \in Messages :
       /\ WF_vars(\E t \in tasks : t.id = m /\ TaskStep(t))
       /\ WF_vars(\E j \in saving : j.id = m /\ JobStep(j))
  /\ \A c \in Chats : WF_vars(CheckDuplicate(c))

-----------------------------------------------------------------------------
(* Properties *)

TypeOK ==
  /\ fresh \subseteq Messages
  /\ rows \in Seq(Row)
  /\ joined \subseteq Groups /\ keys \subseteq Keys
  /\ stored \in [Messages -> Nat] /\ emitted \subseteq Messages
  /\ started \in BOOLEAN
  /\ queue \in Seq(Envelope) /\ tasks \subseteq Task
  /\ jobs \in [Chats -> Seq(Messages)] /\ saving \subseteq Job

\* However often an envelope is queued (live, at the start, for a key) and the
\* process killed, its message is stored once, as long as no job outlives its
\* timeout: the check and the commit are in one job of the conversation.
StoredOnce == \A m \in Messages : stored[m] <= 1

\* Once the cache was queued, a row that can be handled is being handled: no path
\* of a task ends without removing the row or leaving it to a job.
NoRowStranded ==
  started => \A m \in Cached :
    \/ Kind[m] \in {"unapproved", "blocked"}
    \/ Kind[m] = "group" /\ Key[m] \notin Known
    \/ \E i \in DOMAIN queue : queue[i].id = m
    \/ \E t \in tasks : t.id = m
    \/ \E i \in DOMAIN jobs[Chat[m]] : jobs[Chat[m]][i] = m
    \/ \E j \in saving : j.id = m

\* The unprocessed table and the message table behave as DurableInbox says.
Inbox == INSTANCE DurableInbox WITH
  kept <- [m \in Cached |-> rows[CHOOSE i \in DOMAIN rows : rows[i].id = m].attempts],
  given <- emitted, stored <- {m \in Messages : stored[m] > 0}

ImplementsDurableInbox == Inbox!Spec

\* Once the process is no longer killed, the row of a private message is handled
\* to its end; it is stored then, or its attempts are used (ImplementsDurableInbox).
EveryTextIsHandled ==
  <>[][~Crash]_vars =>
    \A m \in Messages : (Kind[m] = "text" /\ m \in Cached) ~> m \notin Cached

\* No row stays for ever in a bot that is restarted now and then: those no task
\* removes (blocked and unapproved senders, keys that never came) wear out.
NoRowStaysForEver ==
  []<><<started /\ Crash>>_vars => \A m \in Messages : m \in Cached ~> m \notin Cached

\* contentMessage.ts:135: "do not remove the message from the cache just yet.
\* We will try to decrypt it once we get the encryption keypair."
DecryptedOnceTheKeyComes ==
  \A m \in Messages : (Kind[m] = "group" /\ m \in Cached /\ HasKey(m)) ~> stored[m] > 0

=============================================================================
