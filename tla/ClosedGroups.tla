----------------------------- MODULE ClosedGroups -----------------------------
(***************************************************************************)
(* The members of a closed group, as our device follows them: the control  *)
(* messages of the group and the invitations to it, handled one at a time  *)
(* by the envelope queue (ts/receiver/closedGroups.ts), and the members    *)
(* that another of our devices put in the UserGroups wrapper               *)
(* (handleLegacyGroupUpdate of ts/receiver/configMessage.ts), which no     *)
(* queue keeps apart from them.                                            *)
(*                                                                         *)
(* An action runs from one await on the libsession worker to the next.     *)
(* The updates are numbered in the order in which they were sent, and the  *)
(* number is also the time at which they were.                             *)
(***************************************************************************)
EXTENDS Integers, Sequences

CONSTANTS
  People, Us, Admin,  \* who may be a member; the group has one admin
  LastUpdate,         \* number of updates
  Tolerance,          \* how long before its wrapper another device may have seen an update (2 minutes)
  MaxConfigs,         \* wrappers another device pushes
  MaxKills            \* kills of the process

ASSUME PeopleAssumption == {Us, Admin} \subseteq People /\ Us # Admin
ASSUME NumberAssumption == {LastUpdate, Tolerance, MaxConfigs, MaxKills} \subseteq Nat

VARIABLES
  sent,       \* external: the updates of the group
  fetched,    \* how many of them were polled from the group's swarm
  invited,    \* the invitations polled from ours
  cached,     \* the unprocessed table and the queue of its envelopes
  task,       \* the envelope being handled, the first row
  convo,      \* the conversation of the group, in memory
  saved,      \* and its row of the database
  polled,     \* is the swarm of the group polled?
  latest,     \* latestUserGroupEnvelopeTimestamp
  merge,      \* the merge in progress, with the group in the UserGroups wrapper
  other,      \* external: the last wrapper of the other device
  budget,     \* bounds of the environment
  disturbed   \* history: the order was not the one of the updates (see Disturbed)

external == <<sent, other>>
groupVars == <<external, fetched, invited, cached, task, convo, saved, polled, latest, merge, budget, disturbed>>

Updates == 1 .. LastUpdate
Update == [type : {"added", "removed", "left"}, sender : People, subject : People]
GroupEnvelope == [at : Updates, invite : BOOLEAN]

NoGroup == [active |-> FALSE, members |-> {}, zombies |-> {}, joined |-> 0, exists |-> FALSE]
Group == [active : BOOLEAN, members : SUBSET People, zombies : SUBSET People,
          joined : 0 .. LastUpdate, exists : BOOLEAN]
NoEntry == [in |-> FALSE, members |-> {}, joined |-> 0]
Entry == [in : BOOLEAN, members : SUBSET People, joined : 0 .. LastUpdate]

Idle == [step |-> "idle", old |-> {}, apply |-> FALSE, attached |-> FALSE]
NoMerge == [phase |-> "none", answer |-> NoEntry, at |-> 0, attached |-> FALSE]

-----------------------------------------------------------------------------
(* The group itself (external): what its members see *)

After(u, members) ==
  CASE u.type = "added"                       -> members \union {u.subject}
    [] u.type = "removed"                     -> members \ {u.subject}
    [] u.type = "left" /\ u.sender # Admin    -> members \ {u.sender}
    [] u.type = "left" /\ u.sender = Admin    -> {}

\* The members after each of the updates.
First == People
Members(updates) ==
  LET m[k \in 0 .. LastUpdate] == IF k = 0 THEN First ELSE After(updates[k], m[k - 1]) IN m

\* What the apps of the members send; a group that its admin left is silent.
Legal(u, members) ==
  /\ u.sender \in members
  /\ u.type = "added" => u.subject \in People \ members
  /\ u.type = "removed" => u.sender = Admin /\ u.subject \in members \ {Admin}
  /\ u.type = "left" => u.subject = u.sender

Histories ==
  {h \in [Updates -> Update] : \A k \in Updates :
     LET members == Members(h)[k - 1] IN Legal(h[k], members) \/ (members = {} /\ h[k] = h[k - 1])}

IsInvitation(k) == sent[k].type = "added" /\ sent[k].subject = Us /\ Us \notin Members(sent)[k - 1]
Invitations == {k \in Updates : IsInvitation(k)}
JoinedBy(k) == CHOOSE j \in {0} \union Invitations :
                 j <= k /\ \A i \in Invitations : i <= k => i <= j

-----------------------------------------------------------------------------
(* The conversation *)

Save(c) == convo' = c /\ saved' = c

\* commitConversationAndRefreshWrapper of an envelope. What it puts in the wrapper
\* matters to a merge that has not asked for the groups yet.
Commit(c) ==
  /\ Save(c)
  /\ merge' = IF merge.phase = "merged" /\ c.active
              THEN [merge EXCEPT !.answer = [in |-> TRUE, members |-> c.members, joined |-> c.joined]]
              ELSE merge

Removed == convo' = NoGroup /\ saved' = NoGroup /\ polled' = FALSE

\* deleteClosedGroup of an envelope.
Delete ==
  /\ Removed
  /\ merge' = IF merge.phase = "merged" THEN [merge EXCEPT !.answer = NoEntry]
              ELSE [merge EXCEPT !.attached = FALSE]

Created == [NoGroup EXCEPT !.exists = TRUE]

\* Mutant: without the two minutes.
MoreRecentExactly(k) == latest = 0 \/ k > latest

\* sentAtMoreRecentThanWrapper.
EnvelopeMoreRecent(k) == latest = 0 \/ k > latest - Tolerance

-----------------------------------------------------------------------------
(* What disturbs the order *)

\* Of the first row nobody knows: it stays until its handler ends, and after a kill.
Waits(k, invite) == \E i \in 2 .. Len(cached) : cached[i] = [at |-> k, invite |-> invite]
Handled == {k \in 1 .. fetched : ~Waits(k, FALSE)} \union {k \in invited : ~Waits(k, TRUE)}

\* An update is handled while a wrapper is merged; ours had seen an update that
\* the merged one had not; an invitation overtook the updates before it, or was
\* overtaken by those after it (they come from two swarms); a kill in the middle of
\* joining or merging. Or an update of the last minutes before a wrapper, which is
\* applied again, is refused because the wrapper knows that its sender left later.
Overlaps == (task' # Idle \/ Len(cached') < Len(cached)) /\ (merge # NoMerge \/ merge' # NoMerge)
Behind(seen) == \E k \in Handled : k > seen
Overtakes(k) == convo.exists \/ fetched > k
HalfWay == task.step \in {"joining", "naming"} \/ merge # NoMerge
Disturbed(how) == disturbed' = (disturbed \/ how \/ Overlaps)

-----------------------------------------------------------------------------
(* Polling *)

Fetch ==
  /\ polled /\ fetched < LastUpdate
  /\ fetched' = fetched + 1
  /\ cached' = Append(cached, [at |-> fetched', invite |-> FALSE])
  /\ UNCHANGED <<external, invited, task, convo, saved, polled, latest, merge, budget, disturbed>>

FetchInvitation ==
  /\ \E k \in Invitations \ invited :
       /\ \A i \in Invitations \ invited : k <= i
       /\ invited' = invited \union {k}
       /\ cached' = Append(cached, [at |-> k, invite |-> TRUE])
  /\ UNCHANGED <<external, fetched, task, convo, saved, polled, latest, merge, budget, disturbed>>

-----------------------------------------------------------------------------
(* An update *)

Current == cached[1].at
Now == sent[Current]

\* removeFromCache, the last thing a handler does.
Drop == cached' = Tail(cached) /\ task' = Idle

\* Mutant: the row goes as soon as the update is done.
StepAndDrop(step) ==
  /\ task' = [task EXCEPT !.step = step]
  /\ cached' = IF step = "done" THEN Tail(cached) ELSE cached

Step(step) == task' = [task EXCEPT !.step = step] /\ UNCHANGED cached

\* Refused although it may have to be applied again, or ends a zombie: its sender
\* has left since.
Refused(k) ==
  /\ convo.exists /\ sent[k].sender \notin convo.members
  /\ convo.joined < k /\ k <= other.seen
  /\ EnvelopeMoreRecent(k) \/ (sent[k].type = "added" /\ sent[k].subject \in convo.zombies)

\* performIfValid, before it makes sure that the conversation of the sender exists.
Acceptable(k) == convo.exists /\ k > convo.joined /\ sent[k].sender \in convo.members

PerformIfValid ==
  /\ task = Idle /\ cached # <<>> /\ ~cached[1].invite
  /\ \/ ~Acceptable(Current) /\ Drop
     \/ Acceptable(Current) /\ task' = [Idle EXCEPT !.step = "valid", !.attached = TRUE] /\ UNCHANGED cached
  /\ UNCHANGED <<external, fetched, invited, convo, saved, polled, latest, merge, budget>>
  /\ Disturbed(Refused(Current))

\* Mutant: it is not noticed that we were removed.
NeverOut(u) == u.type = "left" /\ u.sender \in {Admin, Us}

\* Are we out of the group, or is it disbanded?
Out(u) == u.type # "added" /\ Us \notin After(u, convo.members)

\* Does the update say something, so that a message about it is added first?
Changes(u) == CASE u.type = "added"   -> u.subject \notin convo.members
                [] u.type = "removed" -> u.subject \in convo.members
                [] OTHER              -> TRUE

\* The members that a handler sets, from those it read.
NewMembers(u, apply, old) == IF apply THEN After(u, old) ELSE convo.members
NewZombies(u, apply, old) ==
  CASE u.type = "removed" /\ apply -> convo.zombies \intersect After(u, old)
    [] u.type = "left"             -> convo.zombies \union {u.sender}
    [] OTHER                       -> convo.zombies

\* removeMemberFromZombies.
Revived(u) == IF u.type = "added" THEN [convo EXCEPT !.zombies = @ \ {u.subject}] ELSE convo

\* The handlers until their first await. They know the members now, and whether to
\* apply the update; one that says nothing new is done. A conversation that was
\* deleted meanwhile is not saved again, here and below.
Read ==
  /\ task.step = "valid"
  /\ \/ ~task.attached /\ Step("done") /\ UNCHANGED <<convo, saved, polled, merge>>
     \/ task.attached /\ Out(Now) /\ Delete /\ Step("done")
     \/ task.attached /\ ~Out(Now) /\ ~Changes(Now) /\ Commit(Revived(Now)) /\ Step("done") /\ UNCHANGED polled
     \/ /\ task.attached /\ ~Out(Now) /\ Changes(Now)
        /\ convo' = Revived(Now)
        /\ task' = [task EXCEPT !.old = convo.members, !.apply = EnvelopeMoreRecent(Current), !.step = "noting"]
        /\ UNCHANGED <<cached, saved, polled, merge>>
  /\ UNCHANGED <<external, fetched, invited, latest, budget>>
  /\ Disturbed(FALSE)

\* addUpdateMessage; the conversation is committed unless the message is ours.
AddUpdateMessage ==
  /\ task.step = "noting"
  /\ IF task.attached /\ Now.sender # Us THEN Commit(convo) ELSE UNCHANGED <<convo, saved, merge>>
  /\ Step("writing")
  /\ UNCHANGED <<external, fetched, invited, polled, latest, budget>>
  /\ Disturbed(FALSE)

Write ==
  /\ task.step = "writing"
  /\ IF task.attached
     THEN Commit([convo EXCEPT !.members = NewMembers(Now, task.apply, task.old),
                               !.zombies = NewZombies(Now, task.apply, task.old)])
     ELSE UNCHANGED <<convo, saved, merge>>
  /\ Step("done")
  /\ UNCHANGED <<external, fetched, invited, polled, latest, budget>>
  /\ Disturbed(FALSE)

RemoveFromCache ==
  /\ task.step = "done"
  /\ Drop
  /\ UNCHANGED <<external, fetched, invited, convo, saved, polled, latest, merge, budget>>
  /\ Disturbed(FALSE)

-----------------------------------------------------------------------------
(* An invitation: handleNewClosedGroup *)

\* One that a wrapper covers is dropped, and so is one to a group that we have: it
\* only brings a key pair.
OpenInvitation ==
  /\ task = Idle /\ cached # <<>> /\ cached[1].invite
  /\ IF EnvelopeMoreRecent(Current) /\ ~convo.exists
     THEN Commit(Created) /\ task' = [Idle EXCEPT !.step = "joining", !.attached = TRUE] /\ UNCHANGED cached
     ELSE Drop /\ UNCHANGED <<convo, saved, merge>>
  /\ UNCHANGED <<external, fetched, invited, polled, latest, budget>>
  /\ Disturbed(Overtakes(Current))

\* updateOrCreateClosedGroup creates the conversation again when it was deleted.
UpdateOrCreate ==
  /\ task.step = "joining"
  /\ Commit([IF convo.exists THEN convo ELSE Created
             EXCEPT !.members = Members(sent)[Current], !.active = TRUE])
  /\ Step("naming")
  /\ UNCHANGED <<external, fetched, invited, polled, latest, budget>>
  /\ Disturbed(FALSE)

\* When we joined is when the invitation was sent.
SetJoined ==
  /\ task.step = "naming"
  /\ Commit(IF task.attached THEN [convo EXCEPT !.joined = Current] ELSE convo)
  /\ Step("joined")
  /\ UNCHANGED <<external, fetched, invited, polled, latest, budget>>
  /\ Disturbed(FALSE)

StartPolling ==
  /\ task.step = "joined"
  /\ polled' = TRUE
  /\ Drop
  /\ UNCHANGED <<external, fetched, invited, convo, saved, latest, merge, budget>>
  /\ Disturbed(FALSE)

-----------------------------------------------------------------------------
(* A wrapper of our other device: handleLegacyGroupUpdate *)

EntryAt(j) ==
  LET members == Members(sent)[j]
  IN  IF Us \in members THEN [in |-> TRUE, members |-> members, joined |-> JoinedBy(j)] ELSE NoEntry

\* It had seen the updates until j, and pushed the wrapper at t.
MergeConfig ==
  /\ merge = NoMerge /\ budget.configs > 0
  /\ \E t \in Updates, j \in 0 .. LastUpdate :
       /\ j <= t /\ t - Tolerance <= j /\ other.seen <= j /\ other.at <= t
       /\ other' = [seen |-> j, at |-> t]
       /\ merge' = [NoMerge EXCEPT !.phase = "merged", !.answer = EntryAt(j), !.at = t]
  /\ budget' = [budget EXCEPT !.configs = @ - 1]
  /\ UNCHANGED <<sent, fetched, invited, cached, task, convo, saved, polled, latest>>
  /\ Disturbed(Behind(other'.seen))

\* getAllLegacyGroups: the worker is asked.
Ask ==
  /\ merge.phase = "merged"
  /\ merge' = [merge EXCEPT !.phase = "asked"]
  /\ UNCHANGED <<external, fetched, invited, cached, task, convo, saved, polled, latest, budget>>
  /\ Disturbed(FALSE)

\* The groups to leave are deleted, those to join are created.
Compare ==
  /\ merge.phase = "asked"
  /\ \/ /\ ~merge.answer.in /\ convo.exists
        /\ Removed
        /\ task' = [task EXCEPT !.attached = FALSE]
     \/ /\ merge.answer.in /\ ~convo.exists
        /\ Save(Created)
        /\ UNCHANGED <<task, polled>>
     \/ /\ merge.answer.in <=> convo.exists
        /\ UNCHANGED <<task, convo, saved, polled>>
  /\ merge' = [merge EXCEPT !.phase = IF merge.answer.in THEN "comparing" ELSE "handled"]
  /\ UNCHANGED <<external, fetched, invited, cached, latest, budget>>
  /\ Disturbed(FALSE)

\* Zombies are not in the wrapper, and stay.
UpdateGroup ==
  /\ merge.phase = "comparing"
  /\ \/ /\ convo.exists
        /\ Save([convo EXCEPT !.members = merge.answer.members, !.active = TRUE])
        /\ merge' = [merge EXCEPT !.phase = "updated", !.attached = TRUE]
     \/ /\ ~convo.exists
        /\ merge' = [merge EXCEPT !.phase = "handled"]
        /\ UNCHANGED <<convo, saved>>
  /\ UNCHANGED <<external, fetched, invited, cached, task, polled, latest, budget>>
  /\ Disturbed(FALSE)

SetJoinedFromWrapper ==
  /\ merge.phase = "updated"
  /\ Save(IF merge.attached THEN [convo EXCEPT !.joined = merge.answer.joined] ELSE convo)
  /\ polled' = TRUE
  /\ merge' = [merge EXCEPT !.phase = "handled"]
  /\ UNCHANGED <<external, fetched, invited, cached, task, latest, budget>>
  /\ Disturbed(FALSE)

\* updateLibsessionLatestProcessedUserTimestamp.
EndMerge ==
  /\ merge.phase = "handled"
  /\ latest' = IF merge.at > latest THEN merge.at ELSE latest
  /\ merge' = NoMerge
  /\ UNCHANGED <<external, fetched, invited, cached, task, convo, saved, polled, budget>>
  /\ Disturbed(FALSE)

-----------------------------------------------------------------------------

\* A kill; every group of the database is polled after the start.
Restart ==
  /\ budget.kills > 0
  /\ budget' = [budget EXCEPT !.kills = @ - 1]
  /\ convo' = saved
  /\ polled' = saved.exists
  /\ task' = Idle /\ merge' = NoMerge
  /\ UNCHANGED <<external, fetched, invited, cached, saved, latest>>
  /\ Disturbed(HalfWay)

GroupInit ==
  /\ sent \in Histories
  /\ fetched = 0 /\ invited = {} /\ cached = <<>>
  /\ task = Idle
  /\ convo = [NoGroup EXCEPT !.exists = TRUE, !.active = TRUE, !.members = First]
  /\ saved = convo
  /\ polled = TRUE
  /\ latest = 0
  /\ merge = NoMerge
  /\ other = [seen |-> 0, at |-> 0]
  /\ budget = [configs |-> MaxConfigs, kills |-> MaxKills]
  /\ disturbed = FALSE

Handle == PerformIfValid \/ Read \/ AddUpdateMessage \/ Write \/ RemoveFromCache
Join == OpenInvitation \/ UpdateOrCreate \/ SetJoined \/ StartPolling
Merge == MergeConfig \/ Ask \/ Compare \/ UpdateGroup \/ SetJoinedFromWrapper \/ EndMerge

GroupNext == Fetch \/ FetchInvitation \/ Handle \/ Join \/ Merge \/ Restart

GroupSpec == GroupInit /\ [][GroupNext]_groupVars

-----------------------------------------------------------------------------
(* Properties *)

GroupTypeOK ==
  /\ sent \in Histories
  /\ fetched \in 0 .. LastUpdate /\ invited \subseteq Updates
  /\ cached \in Seq(GroupEnvelope)
  /\ task.step \in {"idle", "valid", "noting", "writing", "joining", "naming", "joined", "done"}
  /\ task.old \subseteq People /\ {task.apply, task.attached} \subseteq BOOLEAN
  /\ task # Idle => cached # <<>>
  /\ {convo, saved} \subseteq Group
  /\ {polled, disturbed} \subseteq BOOLEAN
  /\ latest \in 0 .. LastUpdate
  /\ merge.phase \in {"none", "merged", "asked", "comparing", "updated", "handled"}
  /\ merge.answer \in Entry /\ merge.at \in 0 .. LastUpdate
  /\ merge.phase \in {"comparing", "updated"} => merge.answer.in
  /\ budget \in [configs : 0 .. MaxConfigs, kills : 0 .. MaxKills]

\* Everything that was sent to us is handled.
Settled ==
  /\ polled => fetched = LastUpdate
  /\ invited = Invitations
  /\ cached = <<>> /\ merge = NoMerge

\* Once everything is handled we have the members that the group has, whatever was
\* seen first by our other device and whenever the process was killed: the group is
\* there, and polled, as long as we are in it, with its members and no zombie among
\* them, in memory as in the database; unless something disturbed the order.
MembersAsSent ==
  Settled /\ ~disturbed =>
    LET members == Members(sent)[LastUpdate] IN
    /\ convo.exists <=> Us \in members
    /\ convo.exists => convo.active /\ convo.members = members /\ convo.zombies \intersect members = {}
    /\ polled = convo.exists
    /\ saved = convo

\* Whatever disturbs it, a group that we have has us and its admin in it: the two
\* whose leaving deletes it.
OursAndAdminStay == \A c \in {convo, saved} : c.active => {Us, Admin} \subseteq c.members

=============================================================================
