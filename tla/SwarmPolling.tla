---------------------------- MODULE SwarmPolling ----------------------------
(***************************************************************************)
(* Polling the swarms (ts/session/apis/snode_api/swarmPolling.ts): a timer *)
(* starts a round, a round polls our own swarm and those of the groups     *)
(* that are due, and each poll asks one storage node for what it stored    *)
(* after the last message taken from it.  The last hash of each node and   *)
(* the hashes seen from any node are in the database (lastHashes caches    *)
(* the former, and is written with it); new messages go to                 *)
(* Receiver.handleRequest, and configuration messages to the wrappers.     *)
(*                                                                         *)
(* A round ends with the last of its polls or with the first that rejects; *)
(* the others then go on beside the next round.  Every await is the end of *)
(* a step, those of the database included, since the process may be killed *)
(* at one; steps of different polls therefore interleave more freely than  *)
(* the event loop lets them.                                               *)
(***************************************************************************)
EXTENDS Integers, SequencesExt

CONSTANTS
  Us,             \* our public key
  Groups,         \* public keys of groups
  Messages,       \* messages the swarms may store, by hash
  ConfigMessages, \* those in a user configuration namespace
  KeyOf,          \* the public key each message is stored for
  Swarm,          \* the nodes that store the messages of each key
  Stored,         \* external: what each node stores in the end, in its order
  None,           \* no hash, no node
  PageSize,       \* messages a node returns at most (95 counts as a full page)
  MaxFaults,      \* kills, empty swarms and rejected awaits in a behaviour
  MaxChanges      \* groups joined or left in a behaviour

Keys == {Us} \union Groups
Nodes == UNION {Swarm[k] : k \in Keys}

\* The namespaces polled: one of messages for each key, and one of configurations.
Box == [key : Keys, config : {FALSE}] \union [key : {Us}, config : {TRUE}]

ASSUME UsAssumption == Us \notin Groups
ASSUME MessageAssumption ==
  /\ KeyOf \in [Messages -> Keys]
  /\ ConfigMessages \subseteq {m \in Messages : KeyOf[m] = Us}
ASSUME StoredAssumption ==
  /\ Stored \in [Nodes -> [Box -> Seq(Messages)]]
  /\ \A n \in Nodes, b \in Box : IsInjective(Stored[n][b])
ASSUME NoneAssumption == None \notin Messages \union Nodes
ASSUME BoundAssumption == PageSize \in Nat \ {0} /\ MaxFaults \in Nat /\ MaxChanges \in Nat

BoxOf(m) == [key |-> KeyOf[m], config |-> m \in ConfigMessages]

VARIABLES
  mode,     \* "down", "timer" (a timeout is set) or "round" (pollForAllKeys runs)
  groups,   \* groupPolling
  due,      \* the groups whose lastPolledTimestamp is old enough
  known,    \* the nodes lastHashes has an entry for
  polls,    \* calls of pollOnceForKey
  tracked,  \* the groups in the UserGroups wrapper
  joining,  \* the groups handleNewClosedGroup is busy with
  leaving,  \* the groups deleteClosedGroup is busy with
  convos,   \* the groups of the database, without those left
  dumped,   \* the groups in the saved dump of the wrapper
  hashDb,   \* the lastHashes table
  seen,     \* the seenMessages table
  handed,   \* how often each message was given to handleRequest
  merged,   \* configuration messages merged into their wrapper
  dropped,  \* messages that were in a poll which was cut short
  faults,   \* faults left
  changes   \* joins and leaves left

volatile == <<mode, groups, due, known, polls, tracked, joining, leaving>>
durable == <<convos, dumped, hashDb, seen>>
vars == <<volatile, durable, handed, merged, dropped, faults, changes>>

\* swarm: awaits getSwarmFor; asking: the request is out; merging: awaits
\* the wrappers; reading: before handleSeenMessages; seen: before handleRequest.
Phase == {"swarm", "asking", "merging", "reading", "seen"}

Poll == [key : Keys, late : BOOLEAN, at : Phase, node : Nodes \union {None},
         prev : [Box -> Messages \union {None}], batch : [Box -> Seq(Messages)],
         fresh : SUBSET Messages]

NoHash == [b \in Box |-> None]
NoBatch == [b \in Box |-> <<>>]

NewPoll(k) == [key |-> k, late |-> FALSE, at |-> "swarm", node |-> None,
               prev |-> NoHash, batch |-> NoBatch, fresh |-> {}]

Update(p, q) == polls' = (polls \ {p}) \union {q}

-----------------------------------------------------------------------------
(* Helpers *)

\* What a node may return: up to a page of what comes after the hash it is given,
\* or of all when it does not have that hash; how much of it is stored by now, or
\* copied from another node, is up to the swarm.
After(s, h, n) ==
  LET i == IF h \in Range(s) THEN CHOOSE j \in DOMAIN s : s[j] = h ELSE 0
  IN  SubSeq(s, i + 1, IF i + n < Len(s) THEN i + n ELSE Len(s))

Taken(p) == UNION {Range(p.batch[b]) : b \in Box}
TakenConfig(p) == Taken(p) \intersect ConfigMessages
TakenMessages(p) == Taken(p) \ ConfigMessages

\* The messages only a poll holds: their node has been marked as read that far.
Held(p) == CASE p.at = "merging" -> Taken(p)
             [] p.at = "reading" -> TakenMessages(p)
             [] p.at = "seen" -> p.fresh
             [] OTHER -> {}

\* The finally of pollForAllKeys, when p is the last poll of its round.
EndPoll(p) ==
  /\ polls' = polls \ {p}
  /\ mode' = IF \A q \in polls \ {p} : q.late THEN "timer" ELSE mode

-----------------------------------------------------------------------------
(* Rounds *)

\* Mutant: only the groups that are joined from now on are polled.
StartWithoutGroups ==
  /\ mode = "down"
  /\ mode' = "timer"
  /\ UNCHANGED <<groups, due, known, polls, tracked, joining, leaving, durable>>
  /\ UNCHANGED <<handed, merged, dropped, faults, changes>>

\* start and loadGroupIds
Start ==
  /\ mode = "down"
  /\ mode' = "timer"
  /\ groups' = convos
  /\ due' = convos
  /\ UNCHANGED <<known, polls, tracked, joining, leaving, durable>>
  /\ UNCHANGED <<handed, merged, dropped, faults, changes>>

\* pollForAllKeys, up to the Promise.all.
PollForAllKeys ==
  /\ mode = "timer"
  /\ mode' = "round"
  /\ polls' = polls \union {NewPoll(k) : k \in {Us} \union (groups \intersect due)}
  /\ UNCHANGED <<groups, due, known, tracked, joining, leaving, durable>>
  /\ UNCHANGED <<handed, merged, dropped, faults, changes>>

\* getPollingTimeout has passed since the group was polled.
BecomeDue(g) ==
  /\ mode # "down"
  /\ g \in groups \ due
  /\ due' = due \union {g}
  /\ UNCHANGED <<mode, groups, known, polls, tracked, joining, leaving, durable>>
  /\ UNCHANGED <<handed, merged, dropped, faults, changes>>

-----------------------------------------------------------------------------
(* One poll *)

\* pollOnceForKey once getSwarmFor returns and pollNodeForKey up to its request:
\* a node that was polled before comes first.
AskNode(p) ==
  /\ p \in polls /\ p.at = "swarm"
  /\ \E swarm \in SUBSET Swarm[p.key] \ {{}} :
       \E n \in IF swarm \intersect known = {} THEN swarm ELSE swarm \intersect known :
         /\ Update(p, [p EXCEPT !.at = "asking", !.node = n, !.prev =
                         [b \in Box |-> IF b.key = p.key THEN hashDb[n][b] ELSE None]])
         /\ known' = known \union {n}
  /\ UNCHANGED <<mode, groups, due, tracked, joining, leaving, durable>>
  /\ UNCHANGED <<handed, merged, dropped, faults, changes>>

\* getSwarmFor returns no node: there is nothing to ask.
AskNobody(p) ==
  /\ faults > 0 /\ faults' = faults - 1
  /\ p \in polls /\ p.at = "swarm"
  /\ Update(p, [p EXCEPT !.at = "reading"])
  /\ UNCHANGED <<mode, groups, due, known, tracked, joining, leaving, durable>>
  /\ UNCHANGED <<handed, merged, dropped, changes>>

\* Mutant: the messages instead of the hash of the last one.
LastMessages(n, batch) ==
  [hashDb EXCEPT ![n] = [b \in Box |-> IF batch[b] = <<>> THEN @[b] ELSE batch[b]]]

\* Mutant: one last hash for all the nodes.
LastHashOfEveryNode(n, batch) ==
  [o \in Nodes |-> [b \in Box |-> IF batch[b] = <<>> THEN hashDb[o][b] ELSE Last(batch[b])]]

\* updateLastHash, for the namespaces that returned something.
NewLastHash(n, batch) ==
  [hashDb EXCEPT ![n] = [b \in Box |-> IF batch[b] = <<>> THEN @[b] ELSE Last(batch[b])]]

\* retrieveNextMessages returns, with n messages of each kind of namespace if it has them,
\* and pollNodeForKey updates the last hashes.
Answer(p, n) ==
  /\ p \in polls /\ p.at = "asking"
  /\ LET batch == [b \in Box |-> IF b.key = p.key
                                 THEN After(Stored[p.node][b], p.prev[b], n[b.config]) ELSE <<>>]
         q == [p EXCEPT !.node = None, !.prev = NoHash, !.batch = batch]
     IN  /\ hashDb' = NewLastHash(p.node, batch)
         /\ Update(p, [q EXCEPT !.at = IF TakenConfig(q) = {} THEN "reading" ELSE "merging"])
  /\ UNCHANGED <<mode, groups, due, known, tracked, joining, leaving, convos, dumped, seen>>
  /\ UNCHANGED <<handed, merged, dropped, faults, changes>>

\* retrieveNextMessages throws: pollNodeForKey catches it and returns null.
NoAnswer(p) ==
  /\ p \in polls /\ p.at = "asking"
  /\ Update(p, [p EXCEPT !.at = "reading", !.node = None, !.prev = NoHash])
  /\ UNCHANGED <<mode, groups, due, known, tracked, joining, leaving, durable>>
  /\ UNCHANGED <<handed, merged, dropped, faults, changes>>

\* handleSharedConfigMessages, whose errors go no further.
HandleSharedConfigMessages(p) ==
  /\ p \in polls /\ p.at = "merging"
  /\ Update(p, [p EXCEPT !.at = "reading"])
  /\ \/ merged' = merged \union TakenConfig(p) /\ UNCHANGED <<dropped, faults>>
     \/ /\ faults > 0 /\ faults' = faults - 1
        /\ dropped' = dropped \union TakenConfig(p)
        /\ UNCHANGED merged
  /\ UNCHANGED <<mode, groups, due, known, tracked, joining, leaving, durable, handed, changes>>

\* Mutant: only the last hash keeps a message from being handled again.
NothingSeen(p) ==
  /\ p \in polls /\ p.at = "reading"
  /\ due' = IF Len(p.batch[[key |-> p.key, config |-> FALSE]]) = PageSize THEN due ELSE due \ {p.key}
  /\ seen' = seen \union TakenMessages(p)
  /\ Update(p, [p EXCEPT !.at = "seen", !.batch = NoBatch, !.fresh = TakenMessages(p)])
  /\ UNCHANGED <<mode, groups, known, tracked, joining, leaving, convos, dumped, hashDb>>
  /\ UNCHANGED <<handed, merged, dropped, faults, changes>>

\* The lastPolledTimestamp, which a full page sets into the past, and handleSeenMessages,
\* which reads and writes the seen hashes with nothing but microtasks in between.
HandleSeenMessages(p) ==
  /\ p \in polls /\ p.at = "reading"
  /\ due' = IF Len(p.batch[[key |-> p.key, config |-> FALSE]]) = PageSize THEN due ELSE due \ {p.key}
  /\ seen' = seen \union TakenMessages(p)
  /\ Update(p, [p EXCEPT !.at = "seen", !.batch = NoBatch, !.fresh = TakenMessages(p) \ seen])
  /\ UNCHANGED <<mode, groups, known, tracked, joining, leaving, convos, dumped, hashDb>>
  /\ UNCHANGED <<handed, merged, dropped, faults, changes>>

\* The end of pollOnceForKey: a group that is not in the wrapper is polled no more.
HandleRequests(p) ==
  /\ p \in polls /\ p.at = "seen"
  /\ \/ /\ p.key \in {Us} \union tracked
        /\ handed' = [m \in Messages |-> IF m \in p.fresh THEN handed[m] + 1 ELSE handed[m]]
        /\ UNCHANGED <<groups, dropped>>
     \/ /\ p.key \notin {Us} \union tracked
        /\ groups' = groups \ {p.key}
        /\ dropped' = dropped \union p.fresh
        /\ UNCHANGED handed
  /\ EndPoll(p)
  /\ UNCHANGED <<due, known, tracked, joining, leaving, durable, merged, faults, changes>>

\* Mutant: the timer is set by rounds that succeed only.
RejectedForEver(p) ==
  /\ faults > 0
  /\ p \in polls
  /\ p.at \in {"swarm", "reading"} \/ (p.at = "seen" /\ p.key # Us)
  /\ p.late \/ \A q, r \in polls \ {p} : q.key = r.key => q = r
  /\ faults' = faults - 1
  /\ dropped' = dropped \union Held(p)
  /\ polls' = polls \ {p}
  /\ UNCHANGED <<mode, groups, due, known, tracked, joining, leaving, durable, handed, merged, changes>>

\* getSwarmFor, handleSeenMessages or getLegacyGroup rejects.  If p is of this
\* round its other polls become late ones, one for each key at most.
Reject(p) ==
  /\ faults > 0
  /\ p \in polls
  /\ p.at \in {"swarm", "reading"} \/ (p.at = "seen" /\ p.key # Us)
  /\ faults' = faults - 1
  /\ dropped' = dropped \union Held(p)
  /\ \/ p.late /\ polls' = polls \ {p} /\ UNCHANGED mode
     \/ /\ ~p.late
        /\ \A q, r \in polls \ {p} : q.key = r.key => q = r
        /\ polls' = {[q EXCEPT !.late = TRUE] : q \in polls \ {p}}
        /\ mode' = "timer"
  /\ UNCHANGED <<groups, due, known, tracked, joining, leaving, durable, handed, merged, changes>>

-----------------------------------------------------------------------------
(* The groups *)

\* Mutant: polling starts before the group is in the wrapper.
JoinAndPoll(g) ==
  /\ mode # "down"
  /\ g \notin convos \union joining \union leaving
  /\ changes > 0 /\ changes' = changes - 1
  /\ convos' = convos \union {g}
  /\ groups' = groups \union {g}
  /\ due' = due \union {g}
  /\ UNCHANGED <<mode, known, polls, tracked, joining, leaving, dumped, hashDb, seen>>
  /\ UNCHANGED <<handed, merged, dropped, faults>>

\* handleNewClosedGroup commits the group: the database, then the wrapper.
JoinGroup(g) ==
  /\ mode # "down"
  /\ g \notin convos \union joining \union leaving
  /\ changes > 0 /\ changes' = changes - 1
  /\ convos' = convos \union {g}
  /\ tracked' = tracked \union {g}
  /\ joining' = joining \union {g}
  /\ UNCHANGED <<mode, groups, due, known, polls, leaving, dumped, hashDb, seen>>
  /\ UNCHANGED <<handed, merged, dropped, faults>>

\* addGroupId, called last by handleNewClosedGroup and by handleLegacyGroupUpdate.
AddGroupId(g) ==
  /\ mode # "down"
  /\ g \notin groups
  /\ g \in joining \union (convos \intersect tracked)
  /\ joining' = joining \ {g}
  /\ groups' = groups \union {g}
  /\ due' = due \union {g}
  /\ UNCHANGED <<mode, known, polls, tracked, leaving, durable>>
  /\ UNCHANGED <<handed, merged, dropped, faults, changes>>

\* deleteClosedGroup: polling stops and the group is left ...
LeaveGroup(g) ==
  /\ mode # "down"
  /\ g \in convos \ leaving
  /\ changes > 0 /\ changes' = changes - 1
  /\ leaving' = leaving \union {g}
  /\ groups' = groups \ {g}
  /\ convos' = convos \ {g}
  /\ UNCHANGED <<mode, due, known, polls, tracked, joining, dumped, hashDb, seen>>
  /\ UNCHANGED <<handed, merged, dropped, faults>>

\* ... then removeLegacyGroupFromWrappers stops polling again and erases it.
EraseGroup(g) ==
  /\ g \in leaving
  /\ leaving' = leaving \ {g}
  /\ groups' = groups \ {g}
  /\ tracked' = tracked \ {g}
  /\ UNCHANGED <<mode, due, known, polls, joining, durable, handed, merged, dropped, faults, changes>>

\* The dump of the wrapper is saved (ConfigSync has the details).
SaveDump ==
  /\ mode # "down"
  /\ dumped # tracked
  /\ dumped' = tracked
  /\ UNCHANGED <<volatile, convos, hashDb, seen, handed, merged, dropped, faults, changes>>

-----------------------------------------------------------------------------
\* The process is killed, or dies of a rejection nobody handles.
Crash ==
  /\ faults > 0 /\ mode # "down"
  /\ faults' = faults - 1
  /\ mode' = "down"
  /\ groups' = {} /\ due' = {} /\ known' = {} /\ polls' = {} /\ joining' = {} /\ leaving' = {}
  /\ tracked' = dumped
  /\ dropped' = dropped \union UNION {Held(p) : p \in polls}
  /\ UNCHANGED <<durable, handed, merged, changes>>

Init ==
  /\ mode = "down"
  /\ groups = {} /\ due = {} /\ known = {} /\ polls = {} /\ joining = {} /\ leaving = {}
  /\ convos \in SUBSET Groups /\ tracked = convos /\ dumped = convos
  /\ hashDb = [n \in Nodes |-> NoHash]
  /\ seen = {}
  /\ handed = [m \in Messages |-> 0]
  /\ merged = {} /\ dropped = {}
  /\ faults = MaxFaults /\ changes = MaxChanges

Progress(p) ==
  \/ \E n \in [BOOLEAN -> 0 .. PageSize] : Answer(p, n)
  \/ NoAnswer(p) \/ AskNode(p) \/ HandleSharedConfigMessages(p)
  \/ HandleSeenMessages(p) \/ HandleRequests(p)

Next ==
  \/ Start \/ PollForAllKeys \/ SaveDump \/ Crash
  \/ \E p \in polls : Progress(p) \/ AskNobody(p) \/ Reject(p)
  \/ \E g \in Groups : \/ BecomeDue(g) \/ JoinGroup(g) \/ AddGroupId(g)
                       \/ LeaveGroup(g) \/ EraseGroup(g)

Spec == Init /\ [][Next]_vars

\* Timers fire, requests and worker calls end (both have a timeout), and a swarm
\* that is polled again and again answers again and again.
FairSpec ==
  /\ Spec
  /\ WF_vars(Start) /\ WF_vars(PollForAllKeys)
  /\ \A g \in Groups : WF_vars(BecomeDue(g)) /\ WF_vars(g \in joining /\ AddGroupId(g))
  /\ \A k \in Keys :
       /\ \A l \in BOOLEAN : WF_vars(\E p \in polls : p.key = k /\ p.late = l /\ Progress(p))
       /\ SF_vars(\E p \in polls : p.key = k /\ Answer(p, [config \in BOOLEAN |-> PageSize]))

-----------------------------------------------------------------------------
(* Properties *)

TypeOK ==
  /\ mode \in {"down", "timer", "round"}
  /\ groups \subseteq Groups /\ due \subseteq Groups
  /\ known \subseteq Nodes
  /\ polls \subseteq Poll
  /\ tracked \subseteq Groups /\ joining \subseteq Groups /\ leaving \subseteq Groups
  /\ convos \subseteq Groups /\ dumped \subseteq Groups
  /\ hashDb \in [Nodes -> [Box -> Messages \union {None}]]
  /\ seen \subseteq Messages
  /\ handed \in [Messages -> Nat]
  /\ merged \subseteq Messages /\ dropped \subseteq Messages
  /\ faults \in 0 .. MaxFaults /\ changes \in 0 .. MaxChanges

\* The messages of a node up to its last hash.
UpTo(s, h) ==
  IF h \in Range(s) THEN Range(SubSeq(s, 1, CHOOSE j \in DOMAIN s : s[j] = h)) ELSE {}

\* A message that its node will not return again has been handed over or merged,
\* is held by a poll, or was held by one that a fault cut short: the nodes store
\* in different orders, polls overlap and a last hash may even go back, and still
\* none is skipped.
NothingSkipped ==
  \A n \in Nodes, b \in Box :
    \A m \in UpTo(Stored[n][b], hashDb[n][b]) :
      \/ handed[m] > 0 \/ m \in merged \union dropped
      \/ \E p \in polls : m \in Held(p)

\* A message is given to handleRequest once, whichever nodes return it, in
\* whichever polls, before and after a restart.
HandedOnce == \A m \in Messages : handed[m] <= 1

Untracked(g) == g \in (convos \intersect groups) \ tracked

\* Of a group we are in, messages are only thrown away because a restart found
\* an older dump of the wrapper than its database: while the process runs no
\* group that is polled comes to lack its entry.
UntrackedByRestartOnly ==
  [][\A g \in Groups : Untracked(g)' => Untracked(g) \/ mode = "down"]_vars

\* The timer of the next round is always set again, however polls end.
PollingGoesOn == []<>(mode = "timer")

\* A message that every node of its swarm stores is received in the end, or was
\* lost by a fault, or is of a group that we left or whose entry a restart lost.
EveryMessageArrives ==
  \A m \in Messages :
    (\A n \in Swarm[KeyOf[m]] : m \in Range(Stored[n][BoxOf(m)])) =>
      []<>(\/ handed[m] > 0 \/ m \in merged \union dropped
           \/ KeyOf[m] \notin {Us} \union (convos \intersect tracked))

=============================================================================
