---------------------------- MODULE MessageQueue ----------------------------
(***************************************************************************)
(* The outgoing message queue (ts/session/sending): the cache of pending   *)
(* messages and its database item (PendingMessageCache.ts), one chain of   *)
(* promises per destination (JobQueue.ts), the task that sends one message *)
(* (MessageQueue.ts) and what it does with the result                      *)
(* (MessageSentHandler.ts).                                                *)
(*                                                                         *)
(* Everything but the network is microtasks, so a network result is        *)
(* handled to its end before the next one; the steps in between are        *)
(* separate here because the process may be killed between two of them,    *)
(* and because the calls the code does not await (processPending, remove,  *)
(* handleMessageSentFailure) run beside their caller.                      *)
(***************************************************************************)
EXTENDS Integers, SequencesExt, Filters

CONSTANTS
  Messages,         \* identifiers
  Dest,             \* destination of each message
  Contacts,         \* the destinations whose messages are synced: private chats
  Us,               \* our own swarm, where the other devices of the user read
  FollowUp,         \* the message that the sentCb of a message sends
  NoMessage,        \* no sentCb
  Attempts,         \* attempts of MessageSender.send (3)
  CallbackMayThrow, \* may a sentCb throw?
  MayCrash          \* may the process be killed?

FollowUps == {FollowUp[m] : m \in Messages} \ {NoMessage}
Devices == {Dest[m] : m \in Messages} \union {Us}

ASSUME DestinationAssumption == Us \notin {Dest[m] : m \in Messages}
ASSUME ContactAssumption == Contacts \subseteq Devices \ {Us}
ASSUME FollowUpAssumption ==
  /\ NoMessage \notin Messages
  /\ FollowUps \subseteq Messages
  /\ \A m \in Messages : Dest[m] \in Contacts => FollowUp[m] = NoMessage
  /\ \A m, n \in Messages : FollowUp[m] = FollowUp[n] /\ FollowUp[m] # NoMessage => m = n
ASSUME AttemptsAssumption == Attempts \in Nat \ {0}
ASSUME SwitchAssumption == {CallbackMayThrow, MayCrash} \subseteq BOOLEAN

VARIABLES
  open,      \* getMessageQueue() has created the queue
  adding,    \* calls of process() in PendingMessageCache.add
  cache,     \* the pending messages
  callbacks, \* the identifiers with a sentCb
  calls,     \* calls of processPending
  jobs,      \* the chain of each JobQueue: the identifiers of its jobs map
  phase,     \* where the first task of each chain is
  tries,     \* attempts left to it
  failing,   \* calls of handleMessageSentFailure
  db,        \* the pendingMessages item
  row,       \* what the message table says of each message
  swarm,     \* the messages stored in the swarm of each destination
  fresh      \* identifiers not used yet

volatile == <<open, adding, cache, callbacks, calls, jobs, phase, tries, failing>>
durable == <<db, row, swarm, fresh>>
vars == <<volatile, durable>>

Entry == [id : Messages, device : Devices]
Phase == {"idle", "sending", "sent", "syncing", "handled", "calling", "ending", "removed"}
Row == [sentSync : BOOLEAN, synced : BOOLEAN, failed : BOOLEAN]

\* A call of processPending: the message it was made for (NoMessage at start-up),
\* the device, and the messages getForDevice returned, once it has.
Call == [by : Messages \union {NoMessage}, device : Devices, read : BOOLEAN, list : Seq(Messages)]

NewCall(m, d) == [by |-> m, device |-> d, read |-> FALSE, list |-> <<>>]

-----------------------------------------------------------------------------
(* Helpers *)

Main(m) == [id |-> m, device |-> Dest[m]]
SyncCopy(m) == [id |-> m, device |-> Us]

\* getForDevice: the identifiers waiting for a device, in order.
ForDevice(s, d) ==
  LET waiting == Filter(s, LAMBDA e : e.device = d)
  IN  [i \in DOMAIN waiting |-> waiting[i].id]

\* saveToDB
SaveToDB == db' = cache'

\* Mutant: the jobs map is not looked at.
AlwaysNew(list, d) == list

\* has() and addWithId: the messages of the list that have no job yet.
NewJobs(list, d) == Filter(list, LAMBDA m : m \notin Range(jobs[d]))

\* The first task of d, that of message m, is in phase p.
Running(d, m, p) == jobs[d] # <<>> /\ Head(jobs[d]) = m /\ phase[d] = p

Goto(d, p) == phase' = [phase EXCEPT ![d] = p]

\* No network result is being handled: the bot may call.
NoResult == failing = {} /\ \A d \in Devices : phase[d] \in {"idle", "sending"}

\* No microtask is left: a network result may arrive.
Quiet == NoResult /\ adding = {} /\ calls = {}

-----------------------------------------------------------------------------
(* Accepting a message *)

\* getMessageQueue: the first message sent creates the queue, which loads the
\* cache and calls processAllPending.
GetMessageQueue ==
  \/ open /\ UNCHANGED <<open, cache, calls>>
  \/ /\ ~open
     /\ open' = TRUE
     /\ cache' = db
     /\ calls' = {NewCall(NoMessage, e.device) : e \in Range(db)}

\* sendToPubKey and sendToGroup, up to the awaits of PendingMessageCache.add.
Send(m) ==
  /\ NoResult
  /\ m \in fresh \ FollowUps
  /\ GetMessageQueue
  /\ adding' = adding \union {Main(m)}
  /\ fresh' = fresh \ {m}
  /\ UNCHANGED <<callbacks, jobs, phase, tries, failing, db, row, swarm>>

\* Mutant: process does not await add, so processPending reads the cache first.
AddNotAwaited(e) ==
  /\ e \in adding
  /\ adding' = adding \ {e}
  /\ cache' = IF e \in Range(cache) THEN cache ELSE Append(cache, e)
  /\ UNCHANGED callbacks
  /\ SaveToDB
  /\ calls' = calls \union
       {[by |-> e.id, device |-> e.device, read |-> TRUE, list |-> ForDevice(cache, e.device)]}
  /\ UNCHANGED <<open, jobs, phase, tries, failing, row, swarm, fresh>>

\* The rest of add, and process up to the awaits of processPending.
Add(e) ==
  /\ e \in adding
  /\ adding' = adding \ {e}
  /\ \/ e \in Range(cache) /\ UNCHANGED <<cache, callbacks, db>>
     \/ /\ e \notin Range(cache)
        /\ cache' = Append(cache, e)
        /\ callbacks' = IF FollowUp[e.id] # NoMessage THEN callbacks \union {e.id} ELSE callbacks
        /\ SaveToDB
  /\ calls' = calls \union {NewCall(e.id, e.device)}
  /\ UNCHANGED <<open, jobs, phase, tries, failing, row, swarm, fresh>>

-----------------------------------------------------------------------------
(* processPending *)

\* getForDevice returns.
ReadPending(c) ==
  /\ c \in calls /\ ~c.read
  /\ calls' = (calls \ {c}) \union
       {[by |-> c.by, device |-> c.device, read |-> TRUE, list |-> ForDevice(cache, c.device)]}
  /\ UNCHANGED <<open, adding, cache, callbacks, jobs, phase, tries, failing, durable>>

\* Starts the first task of a chain: its send begins.
StartNext(d, chain) ==
  /\ jobs' = [jobs EXCEPT ![d] = chain]
  /\ phase' = [phase EXCEPT ![d] = IF chain = <<>> THEN "idle" ELSE "sending"]
  /\ tries' = [tries EXCEPT ![d] = IF chain = <<>> THEN 0 ELSE Attempts]

\* The forEach of processPending.
EnqueueJobs(c) ==
  /\ c \in calls /\ c.read
  /\ calls' = calls \ {c}
  /\ LET d == c.device
         chain == jobs[d] \o NewJobs(c.list, d)
     IN  \/ jobs[d] = <<>> /\ StartNext(d, chain)
         \/ /\ jobs[d] # <<>>
            /\ jobs' = [jobs EXCEPT ![d] = chain]
            /\ UNCHANGED <<phase, tries>>
  /\ UNCHANGED <<open, adding, cache, callbacks, failing, durable>>

-----------------------------------------------------------------------------
(* A task: MessageSender.send *)

\* Mutant: one attempt too many.
SendAttemptAgain(d, m) ==
  /\ Quiet
  /\ Running(d, m, "sending")
  /\ tries' = [tries EXCEPT ![d] = @ - 1]
  /\ \/ tries[d] > 0 /\ UNCHANGED <<phase, failing>>
     \/ /\ tries[d] = 0
        /\ Goto(d, "ending")
        /\ failing' = failing \union {[id |-> m, device |-> d]}
  /\ UNCHANGED <<open, adding, cache, callbacks, calls, jobs, db, row, swarm, fresh>>

\* One attempt: the swarm may store the message, and its answer may be lost.
SendAttempt(d, m) ==
  /\ Quiet
  /\ Running(d, m, "sending")
  /\ \/ /\ swarm' = [swarm EXCEPT ![d] = @ \union {m}]
        /\ Goto(d, "sent")
        /\ UNCHANGED <<tries, failing>>
     \/ /\ \E stored \in SUBSET {m} : swarm' = [swarm EXCEPT ![d] = @ \union stored]
        /\ tries' = [tries EXCEPT ![d] = @ - 1]
        /\ \/ tries[d] > 1 /\ UNCHANGED <<phase, failing>>
           \/ /\ tries[d] = 1
              /\ Goto(d, "ending")
              /\ failing' = failing \union {[id |-> m, device |-> d]}
  /\ UNCHANGED <<open, adding, cache, callbacks, calls, jobs, db, row, fresh>>

-----------------------------------------------------------------------------
(* A task: MessageSentHandler *)

\* shouldTriggerSyncMessage
ShouldTriggerSyncMessage(d, m) == d \in Contacts /\ ~row[m].synced /\ ~row[m].sentSync

\* Mutant: the message is flagged before its sync copy is in the queue.
FlaggedTooSoon(d, m) ==
  /\ Running(d, m, "sent")
  /\ adding' = IF ShouldTriggerSyncMessage(d, m) THEN adding \union {SyncCopy(m)} ELSE adding
  /\ row' = IF ShouldTriggerSyncMessage(d, m) THEN [row EXCEPT ![m].sentSync = TRUE] ELSE row
  /\ Goto(d, IF ShouldTriggerSyncMessage(d, m) THEN "syncing" ELSE "handled")
  /\ UNCHANGED <<open, cache, callbacks, calls, jobs, tries, failing, db, swarm, fresh>>

\* handleMessageSentSuccess, up to the await of sendSyncMessage if it calls it.
HandleMessageSentSuccess(d, m) ==
  /\ Running(d, m, "sent")
  /\ \/ /\ ShouldTriggerSyncMessage(d, m)
        /\ adding' = adding \union {SyncCopy(m)}
        /\ Goto(d, "syncing")
        /\ UNCHANGED row
     \/ /\ ~ShouldTriggerSyncMessage(d, m)
        /\ row' = IF d = Us /\ row[m].sentSync THEN [row EXCEPT ![m].synced = TRUE] ELSE row
        /\ Goto(d, "handled")
        /\ UNCHANGED adding
  /\ UNCHANGED <<open, cache, callbacks, calls, jobs, tries, failing, db, swarm, fresh>>

\* The rest of sendSyncMessage and of handleMessageSentSuccess.
SyncMessageSent(d, m) ==
  /\ Running(d, m, "syncing")
  /\ SyncCopy(m) \notin adding
  /\ row' = [row EXCEPT ![m].sentSync = TRUE]
  /\ Goto(d, "handled")
  /\ UNCHANGED <<open, adding, cache, callbacks, calls, jobs, tries, failing, db, swarm, fresh>>

\* handleMessageSentFailure, which nobody awaits.
HandleMessageSentFailure(e) ==
  /\ e \in failing
  /\ failing' = failing \ {e}
  /\ row' = [row EXCEPT ![e.id].failed = TRUE, ![e.id].sentSync = @ /\ e.device # Us]
  /\ UNCHANGED <<open, adding, cache, callbacks, calls, jobs, phase, tries, db, swarm, fresh>>

-----------------------------------------------------------------------------
(* A task: the sentCb *)

\* The sentCb, up to the await of the message it sends.
RunCallback(d, m) ==
  /\ Running(d, m, "handled")
  /\ \/ m \notin callbacks /\ Goto(d, "ending") /\ UNCHANGED <<adding, failing, fresh>>
     \/ /\ m \in callbacks
        /\ adding' = adding \union {Main(FollowUp[m])}
        /\ fresh' = fresh \ {FollowUp[m]}
        /\ Goto(d, "calling")
        /\ UNCHANGED failing
     \/ /\ CallbackMayThrow /\ m \in callbacks
        /\ failing' = failing \union {[id |-> m, device |-> d]}
        /\ Goto(d, "ending")
        /\ UNCHANGED <<adding, fresh>>
  /\ UNCHANGED <<open, cache, callbacks, calls, jobs, tries, db, row, swarm>>

\* sendToGroup returns once its message is in the cache; the callback is deleted.
CallbackReturns(d, m) ==
  /\ Running(d, m, "calling")
  /\ Main(FollowUp[m]) \notin adding
  /\ callbacks' = callbacks \ {m}
  /\ Goto(d, "ending")
  /\ UNCHANGED <<open, adding, cache, calls, jobs, tries, failing, durable>>

-----------------------------------------------------------------------------
(* A task: its end *)

\* Mutant: the messages to every device go.
RemoveEverywhere(s, e) == Filter(s, LAMBDA cached : cached.id # e.id)

\* The filter of PendingMessageCache.remove.
Without(s, e) == Filter(s, LAMBDA cached : cached # e)

\* Mutant: a message that could not be sent stays in the cache.
RemoveOnlySent(d, m) ==
  LET e == [id |-> m, device |-> d]
  IN  /\ Running(d, m, "ending")
      /\ \A c \in calls : c.device = d => ~c.read
      /\ Goto(d, "removed")
      /\ cache' = IF tries[d] = 0 THEN cache ELSE Without(cache, e)
      /\ callbacks' = callbacks \ {m}
      /\ SaveToDB
      /\ UNCHANGED <<open, adding, calls, jobs, tries, failing, row, swarm, fresh>>

\* remove.  A processPending that the task's own sentCb started has enqueued
\* what it read by then: its two awaits end before the ones of sendToGroup do.
RemoveMessage(d, m) ==
  LET e == [id |-> m, device |-> d]
  IN  /\ Running(d, m, "ending")
      /\ \A c \in calls : c.device = d => ~c.read
      /\ Goto(d, "removed")
      /\ \/ e \notin Range(cache) /\ UNCHANGED <<cache, callbacks, db>>
         \/ /\ e \in Range(cache)
            /\ cache' = Without(cache, e)
            /\ callbacks' = callbacks \ {m}
            /\ SaveToDB
      /\ UNCHANGED <<open, adding, calls, jobs, tries, failing, row, swarm, fresh>>

\* The job promise settles: its identifier leaves the jobs map, the next starts.
Settle(d, m) ==
  /\ Running(d, m, "removed")
  /\ StartNext(d, Tail(jobs[d]))
  /\ UNCHANGED <<open, adding, cache, callbacks, calls, failing, durable>>

-----------------------------------------------------------------------------
\* The process is killed; the database and the swarms stay.
Crash ==
  /\ MayCrash /\ open
  /\ open' = FALSE
  /\ adding' = {} /\ cache' = <<>> /\ callbacks' = {} /\ calls' = {} /\ failing' = {}
  /\ jobs' = [d \in Devices |-> <<>>]
  /\ phase' = [d \in Devices |-> "idle"]
  /\ tries' = [d \in Devices |-> 0]
  /\ UNCHANGED durable

Init ==
  /\ open = FALSE
  /\ adding = {} /\ cache = <<>> /\ callbacks = {} /\ calls = {} /\ failing = {}
  /\ jobs = [d \in Devices |-> <<>>]
  /\ phase = [d \in Devices |-> "idle"]
  /\ tries = [d \in Devices |-> 0]
  /\ db = <<>>
  /\ row = [m \in Messages |-> [sentSync |-> FALSE, synced |-> FALSE, failed |-> FALSE]]
  /\ swarm = [d \in Devices |-> {}]
  /\ fresh = Messages

Microtask ==
  \/ \E e \in adding : Add(e)
  \/ \E c \in calls : ReadPending(c) \/ EnqueueJobs(c)
  \/ \E e \in failing : HandleMessageSentFailure(e)
  \/ \E d \in Devices, m \in Messages :
       \/ HandleMessageSentSuccess(d, m) \/ SyncMessageSent(d, m)
       \/ RunCallback(d, m) \/ CallbackReturns(d, m)
       \/ RemoveMessage(d, m) \/ Settle(d, m)

Next ==
  \/ \E m \in Messages : Send(m)
  \/ Microtask
  \/ \E d \in Devices, m \in Messages : SendAttempt(d, m)
  \/ Crash

Spec == Init /\ [][Next]_vars

\* Microtasks run, and every attempt ends: pRetry bounds their number and each
\* request has a timeout.  Nothing makes the bot send.
FairSpec ==
  Spec /\ WF_vars(Microtask \/ \E d \in Devices, m \in Messages : SendAttempt(d, m))

-----------------------------------------------------------------------------
(* Properties *)

TypeOK ==
  /\ open \in BOOLEAN
  /\ adding \subseteq Entry
  /\ cache \in Seq(Entry) /\ db \in Seq(Entry)
  /\ callbacks \subseteq Messages
  /\ calls \subseteq Call
  /\ jobs \in [Devices -> Seq(Messages)]
  /\ phase \in [Devices -> Phase]
  /\ tries \in [Devices -> 0 .. Attempts]
  /\ failing \subseteq Entry
  /\ row \in [Messages -> Row]
  /\ swarm \in [Devices -> SUBSET Messages]
  /\ fresh \subseteq Messages

\* The tasks of a destination are its pending messages, oldest first, each once:
\* what is still to be sent is a prefix of what is pending, so that messages go
\* out in order and none is sent by two tasks (addWithId, has, remove).
TasksFollowCache ==
  \A d \in Devices :
    IsPrefix(IF phase[d] = "removed" THEN Tail(jobs[d]) ELSE jobs[d], ForDevice(cache, d))

\* A pending message has a task, or a processPending that will see it: the
\* list processPending read before an await never makes a message stay behind.
NoMessageForgotten ==
  \A e \in Range(cache) :
    \/ e.id \in Range(jobs[e.device])
    \/ \E c \in calls : c.device = e.device /\ (~c.read \/ e.id \in Range(c.list))

\* A message flagged sentSync has its copy in the outbox, or the flag is about to go.
FlagIsTrue(m) ==
  row[m].sentSync /\ ~row[m].synced => SyncCopy(m) \in Range(db) \union failing

\* A private message that leaves the outbox after it was sent has been synced to
\* our other devices, or is flagged, or says that sending failed.
SyncedBeforeForgotten(m) ==
  Dest[m] \in Contacts /\ Main(m) \in Range(db) /\ Main(m) \notin Range(db') =>
    row'[m].synced \/ row'[m].sentSync \/ row'[m].failed \/ Main(m) \in failing'

\* The sentCb of a group update is forgotten only once the key pair message that it
\* sends is pending, or the update is marked as failed; or with the process.
CalledBeforeForgotten(m) ==
  m \in callbacks \ callbacks' => ~open' \/ FollowUp[m] \notin fresh' \/ row'[m].failed \/ Main(m) \in failing'

\* What follows a message is not forgotten with it: its sync copy, its callback.
\* And the flag, which stops a second copy, never outlives the copy, however often
\* the process is killed: only a kill between remove and the end of
\* handleMessageSentFailure, which nobody awaits, leaves a flag whose copy was given up.
FollowedUpBeforeForgotten ==
  [][\A m \in Messages :
       /\ SyncedBeforeForgotten(m) /\ CalledBeforeForgotten(m)
       /\ FlagIsTrue(m) => FlagIsTrue(m)' \/ (SyncCopy(m) \in failing /\ ~open')]_vars

\* The outbox of the database, and the swarms, behave as ReliableOutbox says.
Outbox == INSTANCE ReliableOutbox WITH
  Entries <- Entry, Device <- LAMBDA e : e.device, outbox <- db,
  stored <- UNION {{[id |-> m, device |-> d] : m \in swarm[d]} : d \in Devices}

ImplementsReliableOutbox == Outbox!Spec

\* Every pending message eventually leaves the cache: sent, failed, or its
\* callback thrown, its task ends and the next one starts.  The bot only has
\* finitely many messages to send, so the cache is empty again and again.
EveryMessageLeaves == []<>(cache = <<>>)

=============================================================================
