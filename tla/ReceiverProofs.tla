---------------------------- MODULE ReceiverProofs ----------------------------
(***************************************************************************)
(* Proofs about the incoming pipeline, for any number of messages,         *)
(* conversations, groups, key pairs and attempts: TypeOK; NoRowStranded,   *)
(* when no await rejects (MayFail is FALSE); StoredOnce, when no job of a  *)
(* conversation outlives its timeout (LateLimit = 0); and that it          *)
(* implements DurableInbox.                                                *)
(*                                                                         *)
(* TypeInv adds to TypeOK that only a task of an invitation adds the key   *)
(* pair of a new group.  RowsInv adds to NoRowStranded that the key pairs  *)
(* of the start are never lost, nor their groups.  StoreInv adds to        *)
(* StoredOnce that the jobs of a conversation are of its messages and run  *)
(* one at a time, and that a job about to commit still finds what its      *)
(* check found: no message.  InboxInv says that a message has one row,     *)
(* that what is in hand was handed over, and that what waits to be stored  *)
(* was given to the bot.                                                   *)
(*                                                                         *)
(* And about the closed groups, which a part of the pipeline keeps, for    *)
(* any people, history of updates, tolerance and number of wrappers and    *)
(* kills: GroupTypeOK, OursAndAdminStay and MembersAsSent.                 *)
(*                                                                         *)
(* GroupInv says what has rows (TableInv, TaskRow) and that whatever is    *)
(* written to a group has us and its admin in it (OursInv).  Order is kept *)
(* until something disturbs the order: the members that we know are those  *)
(* of the group at an update, its Level, from which on all will be         *)
(* applied; or those of the wrapper, but for people whom an update after   *)
(* the Level concerns that will be applied again.  It also says which      *)
(* group waits to be joined (Awaits), and when an invitation is about to   *)
(* disturb the order (Doom).                                               *)
(***************************************************************************)
EXTENDS Receiver, ClosedGroups, FiltersProofs, FiniteSetTheorems, TLAPS

-----------------------------------------------------------------------------
(* Tables and queues *)

Ids(s) == {s[i].id : i \in DOMAIN s}

LEMMA FilterFacts ==
  ASSUME NEW A, NEW s \in Seq(A), NEW R
  PROVE  /\ Only(s, R) \in Seq(A) /\ Only(s, R) \in Seq(A \intersect R)
         /\ \A x : x \in Range(Only(s, R)) <=> x \in Range(s) /\ x \in R
<1>1. Only(s, R) \in Seq(A) /\ Only(s, R) \in Seq(A \intersect R)
  BY OnlyType
<1>2. Range(Only(s, R)) = Range(s) \intersect R
  BY OnlyRange
<1> QED BY <1>1, <1>2

LEMMA IdsAreThose ==
  ASSUME NEW s
  PROVE  Ids(s) = {x.id : x \in Range(s)}
BY DEF Ids, Range

\* removeFromCache takes the rows of one message.
LEMMA WithoutFacts ==
  ASSUME NEW s \in Seq(Row), NEW m
  PROVE  Without(s, m) \in Seq(Row) /\ Ids(Without(s, m)) = Ids(s) \ {m}
<1> DEFINE R == {s[i] : i \in {j \in DOMAIN s : s[j].id # m}}
<1>1. Without(s, m) = Only(s, R)
  BY DEF Without, Filter
<1>2. \A x : x \in Range(s) => (x \in R <=> x.id # m)
  BY DEF Range
<1> HIDE DEF R
<1>3. /\ Only(s, R) \in Seq(Row)
      /\ \A x : x \in Range(Only(s, R)) <=> x \in Range(s) /\ x \in R
  BY FilterFacts
<1>4. Without(s, m) \in Seq(Row)
      /\ \A x : x \in Range(Without(s, m)) <=> x \in Range(s) /\ x.id # m
  BY <1>1, <1>2, <1>3
<1> QED BY <1>4, IdsAreThose

\* increaseAttemptsOrRemove adds none.
LEMMA BumpedFacts ==
  ASSUME NEW s \in Seq(Row), NEW S
  PROVE  Bumped(s, S) \in Seq(Row) /\ Ids(Bumped(s, S)) \subseteq Ids(s)
<1> DEFINE bump(r) == IF r.id \in S THEN [r EXCEPT !.attempts = @ + 1] ELSE r
           A == [id : Messages, attempts : 1 .. MaxAttempts, opened : BOOLEAN]
           t == [i \in DOMAIN s |-> bump(s[i])]
           R == {t[i] : i \in {j \in DOMAIN t : t[j].attempts < MaxAttempts}}
<1>0. \A r \in Row : bump(r) \in A /\ bump(r).id = r.id
  <2> SUFFICES ASSUME NEW r \in Row PROVE bump(r) \in A /\ bump(r).id = r.id
    OBVIOUS
  <2>1. r \in A /\ r.attempts + 1 \in 1 .. MaxAttempts
    BY AttemptsAssumption DEF Row
  <2>2. CASE r.id \in S
    BY <2>1, <2>2
  <2>3. CASE r.id \notin S
    BY <2>1, <2>3
  <2> QED BY <2>2, <2>3
<1> HIDE DEF bump, A
<1>1. \A i \in DOMAIN s : s[i] \in Row
  OBVIOUS
<1>2. t \in Seq(A) /\ DOMAIN t = DOMAIN s
  BY <1>0, <1>1
<1>3. \A i \in DOMAIN t : t[i] \in A /\ t[i].id = s[i].id
  BY <1>0, <1>1
<1>4. Bumped(s, S) = Only(t, R)
  BY DEF Bumped, Filter, bump
<1>5. \A x : x \in Range(t) /\ x \in R => x.attempts < MaxAttempts
  BY DEF Range
<1>6. \A x : x \in Range(t) => x \in A /\ x.id \in Ids(s)
  <2> SUFFICES ASSUME NEW i \in DOMAIN t PROVE t[i] \in A /\ t[i].id \in Ids(s)
    BY DEF Range
  <2> HIDE DEF t
  <2> QED BY <1>2, <1>3 DEF Ids
<1> HIDE DEF t, R
<1>7. Only(t, R) \in Seq(A) /\ \A x : x \in Range(Only(t, R)) <=> x \in Range(t) /\ x \in R
  BY <1>2, FilterFacts
<1>8. \A x : x \in Range(Only(t, R)) => x \in Row
  <2> SUFFICES ASSUME NEW x, x \in Range(Only(t, R)) PROVE x \in Row
    OBVIOUS
  <2>1. x \in A /\ x.attempts < MaxAttempts
    BY <1>5, <1>6, <1>7
  <2> QED BY <2>1, AttemptsAssumption DEF Row, A
<1>9. Only(t, R) \in Seq(Row)
  BY <1>7, <1>8 DEF Range
<1>10. Ids(Only(t, R)) \subseteq Ids(s)
  BY <1>6, <1>7, IdsAreThose
<1> QED BY <1>4, <1>9, <1>10

\* queueCached queues the rows that were chosen.
LEMMA RequeuedFacts ==
  ASSUME NEW s \in Seq(Row), NEW S
  PROVE  Requeued(s, S) \in Seq(Envelope) /\ Ids(Requeued(s, S)) = Ids(s) \intersect S
<1> DEFINE R == {s[i] : i \in {j \in DOMAIN s : s[j].id \in S}}
           u == Only(s, R)
<1>1. Requeued(s, S) = [i \in DOMAIN u |-> [id |-> u[i].id, opened |-> u[i].opened]]
  BY DEF Requeued, Filter
<1>2. \A x : x \in Range(s) => (x \in R <=> x.id \in S)
  BY DEF Range
<1> HIDE DEF R
<1>3. u \in Seq(Row) /\ \A x : x \in Range(u) <=> x \in Range(s) /\ x.id \in S
  BY <1>2, FilterFacts
<1> HIDE DEF u
<1>4. \A i \in DOMAIN u : [id |-> u[i].id, opened |-> u[i].opened] \in Envelope
  <2> SUFFICES ASSUME NEW i \in DOMAIN u
               PROVE  [id |-> u[i].id, opened |-> u[i].opened] \in Envelope
    OBVIOUS
  <2>1. u[i] \in Row
    BY <1>3
  <2> QED BY <2>1 DEF Row, Envelope
<1>5. Requeued(s, S) \in Seq(Envelope)
  BY <1>1, <1>3, <1>4
<1>6. Ids(Requeued(s, S)) = Ids(u)
  BY <1>1, <1>3 DEF Ids
<1> QED BY <1>3, <1>5, <1>6, IdsAreThose

\* updateCacheWithDecryptedContent changes no identifier.
LEMMA OpenedFacts ==
  ASSUME NEW s \in Seq(Row), NEW m
  PROVE  Opened(s, m) \in Seq(Row) /\ Ids(Opened(s, m)) = Ids(s)
<1>1. \A r \in Row : [r EXCEPT !.opened = @ \/ r.id = m] \in Row
                     /\ [r EXCEPT !.opened = @ \/ r.id = m].id = r.id
  BY DEF Row
<1>2. Opened(s, m) \in Seq(Row)
  BY <1>1 DEF Opened
<1>3. ASSUME NEW i \in DOMAIN s PROVE Opened(s, m)[i].id = s[i].id
  <2>1. s[i] \in Row
    OBVIOUS
  <2>2. Opened(s, m)[i] = [s[i] EXCEPT !.opened = @ \/ s[i].id = m]
    BY DEF Opened
  <2> QED BY <1>1, <2>1, <2>2
<1>4. DOMAIN Opened(s, m) = DOMAIN s
  BY DEF Opened
<1> QED BY <1>2, <1>3, <1>4 DEF Ids

LEMMA AppendFacts ==
  ASSUME NEW A, NEW s \in Seq(A), NEW x \in A
  PROVE  Append(s, x) \in Seq(A) /\ Ids(Append(s, x)) = Ids(s) \union {x.id}
<1>1. Range(Append(s, x)) = Range(s) \union {x}
  BY RangeOfAppend
<1> QED BY <1>1, IdsAreThose

LEMMA ConcatFacts ==
  ASSUME NEW A, NEW s \in Seq(A), NEW t \in Seq(A)
  PROVE  s \o t \in Seq(A) /\ Ids(s \o t) = Ids(s) \union Ids(t)
<1>1. s \o t \in Seq(A)
  OBVIOUS
<1>2. Ids(s \o t) \subseteq Ids(s) \union Ids(t)
  <2> SUFFICES ASSUME NEW i \in DOMAIN (s \o t) PROVE (s \o t)[i].id \in Ids(s) \union Ids(t)
    BY DEF Ids
  <2>1. CASE i \in DOMAIN s
    BY <2>1 DEF Ids
  <2>2. CASE i \notin DOMAIN s
    <3>1. i - Len(s) \in DOMAIN t /\ (s \o t)[i] = t[i - Len(s)]
      BY <2>2
    <3> QED BY <3>1 DEF Ids
  <2> QED BY <2>1, <2>2
<1>3. ASSUME NEW i \in DOMAIN s PROVE s[i].id \in Ids(s \o t)
  <2>1. i \in DOMAIN (s \o t) /\ (s \o t)[i] = s[i]
    OBVIOUS
  <2> QED BY <2>1 DEF Ids
<1>4. ASSUME NEW i \in DOMAIN t PROVE t[i].id \in Ids(s \o t)
  <2>1. i + Len(s) \in DOMAIN (s \o t) /\ (s \o t)[i + Len(s)] = t[i]
    OBVIOUS
  <2> QED BY <2>1 DEF Ids
<1>5. Ids(s) \subseteq Ids(s \o t) /\ Ids(t) \subseteq Ids(s \o t)
  BY <1>3, <1>4 DEF Ids
<1> QED BY <1>1, <1>2, <1>5

\* All but the first envelope of the queue.
LEMMA TailFacts ==
  ASSUME NEW A, NEW s \in Seq(A), s # <<>>
  PROVE  /\ Head(s) \in A /\ Tail(s) \in Seq(A)
         /\ Ids(s) = {Head(s).id} \union Ids(Tail(s))
<1>1. Head(s) \in A /\ Tail(s) \in Seq(A) /\ Head(s) = s[1] /\ 1 \in DOMAIN s
  OBVIOUS
<1>2. \A i \in DOMAIN Tail(s) : i + 1 \in DOMAIN s /\ Tail(s)[i] = s[i + 1]
  OBVIOUS
<1>3. ASSUME NEW i \in DOMAIN s PROVE s[i].id \in {Head(s).id} \union Ids(Tail(s))
  <2>1. CASE i = 1
    BY <1>1, <2>1
  <2>2. CASE i # 1
    <3>1. i - 1 \in DOMAIN Tail(s) /\ Tail(s)[i - 1] = s[i]
      BY <2>2
    <3> QED BY <3>1 DEF Ids
  <2> QED BY <2>1, <2>2
<1> QED BY <1>1, <1>2, <1>3 DEF Ids

-----------------------------------------------------------------------------
(* Types *)

TypeInv ==
  /\ TypeOK
  /\ \A t \in tasks : t.step = "joining" => Kind[t.id] = "invite"

\* A record of a set of records with another value of a field is one, too.
LEMMA TaskStepType ==
  ASSUME NEW t \in Task,
         NEW s \in {"opened", "handling", "joining", "new key", "known key", "invited"}
  PROVE  /\ [t EXCEPT !.step = s] \in Task
         /\ [t EXCEPT !.step = s].id = t.id
         /\ [t EXCEPT !.step = s].step = s
BY DEF Task

LEMMA TaskLateType ==
  ASSUME NEW t \in Task
  PROVE  /\ [t EXCEPT !.late = TRUE] \in Task
         /\ [t EXCEPT !.late = TRUE].id = t.id
         /\ [t EXCEPT !.late = TRUE].step = t.step
BY DEF Task

LEMMA LaterJob ==
  ASSUME NEW j \in Job
  PROVE  /\ [j EXCEPT !.step = "confirm"] \in Job
         /\ [j EXCEPT !.step = "confirm"].id = j.id
         /\ [j EXCEPT !.step = "confirm"].step = "confirm"
         /\ [j EXCEPT !.step = "confirm"].late = j.late
BY DEF Job

LEMMA LateJobType ==
  ASSUME NEW j \in Job
  PROVE  [j EXCEPT !.late = TRUE] \in Job /\ [j EXCEPT !.late = TRUE].id = j.id
BY DEF Job

\* A task ends.
LEMMA EndFacts ==
  ASSUME TypeInv, NEW t \in tasks, End(t)
  PROVE  /\ tasks' \subseteq Task /\ tasks' = tasks \ {t}
         /\ \A u \in tasks' : u.step = "joining" => Kind[u.id] = "invite"
BY DEF TypeInv, TypeOK, End

\* A task goes on.
LEMMA AdvanceFacts ==
  ASSUME TypeInv, NEW t \in tasks,
         NEW s \in {"opened", "handling", "joining", "new key", "known key", "invited"},
         s = "joining" => Kind[t.id] = "invite", Advance(t, s)
  PROVE  /\ tasks' \subseteq Task
         /\ \E u \in Task : u.id = t.id /\ tasks' = (tasks \ {t}) \union {u}
         /\ \A u \in tasks' : u.step = "joining" => Kind[u.id] = "invite"
<1> DEFINE u == [t EXCEPT !.step = s]
<1>1. u \in Task /\ u.id = t.id /\ u.step = s
  BY TaskStepType DEF TypeInv, TypeOK
<1>2. tasks' = (tasks \ {t}) \union {u}
  BY DEF Advance
<1> HIDE DEF u
<1> QED BY <1>1, <1>2 DEF TypeInv, TypeOK

LEMMA TypeInit == Init => TypeInv
<1> SUFFICES ASSUME Init PROVE TypeInv
  OBVIOUS
<1>1. joined \subseteq Groups /\ keys \subseteq Keys
  BY KeyAssumption DEF Init
<1>2. <<>> \in Seq(Row) /\ <<>> \in Seq(Envelope) /\ <<>> \in Seq(Messages)
  OBVIOUS
<1>3. rows \in Seq(Row) /\ queue \in Seq(Envelope) /\ jobs \in [Chats -> Seq(Messages)]
  BY <1>2 DEF Init
<1>4. /\ fresh \subseteq Messages /\ emitted \subseteq Messages /\ started \in BOOLEAN
      /\ stored \in [Messages -> Nat] /\ tasks = {} /\ saving = {}
  BY DEF Init
<1> QED BY <1>1, <1>3, <1>4 DEF TypeInv, TypeOK

LEMMA TypeStep ==
  ASSUME TypeInv, [Next]_vars
  PROVE  TypeInv'
<1> DEFINE Tasks == tasks' \subseteq Task
                    /\ \A t \in tasks' : t.step = "joining" => Kind[t.id] = "invite"
           Rest == /\ fresh' \subseteq Messages /\ joined' \subseteq Groups /\ keys' \subseteq Keys
                   /\ stored' \in [Messages -> Nat] /\ emitted' \subseteq Messages
                   /\ started' \in BOOLEAN
                   /\ jobs' \in [Chats -> Seq(Messages)] /\ saving' \subseteq Job
           Queues == rows' \in Seq(Row) /\ queue' \in Seq(Envelope)
<1>0. /\ rows \in Seq(Row) /\ queue \in Seq(Envelope)
      /\ \A t \in tasks : t \in Task /\ t.id \in Messages
      /\ \A j \in saving : j \in Job /\ j.id \in Messages
      /\ \A t \in tasks : t.step = "joining" => Kind[t.id] = "invite"
  BY DEF TypeInv, TypeOK, Task, Job
<1>a. ASSUME Tasks, Rest, Queues PROVE TypeInv'
  BY <1>a DEF TypeInv, TypeOK
<1>b. ASSUME UNCHANGED tasks PROVE Tasks
  BY <1>b DEF TypeInv, TypeOK
<1>c. ASSUME UNCHANGED <<rows, queue>> PROVE Queues
  BY <1>0, <1>c
<1>1. ASSUME NEW m \in Messages, HandleRequest(m) PROVE TypeInv'
  <2>1. [id |-> m, attempts |-> 1, opened |-> FALSE] \in Row
    BY AttemptsAssumption DEF Row
  <2>2. [id |-> m, opened |-> FALSE] \in Envelope
    BY DEF Envelope
  <2>3. Queues
    BY <1>0, <1>1, <2>1, <2>2, AppendFacts DEF HandleRequest
  <2>4. Tasks
    BY <1>1, <1>b DEF HandleRequest
  <2>5. Rest
    BY <1>1 DEF HandleRequest, TypeInv, TypeOK
  <2> QED BY <1>a, <2>3, <2>4, <2>5
<1>2. CASE QueueAllCached
  <2>1. Queues
    BY <1>0, <1>2, BumpedFacts, RequeuedFacts, ConcatFacts DEF QueueAllCached
  <2>2. Tasks
    BY <1>2, <1>b DEF QueueAllCached
  <2>3. Rest
    BY <1>2 DEF QueueAllCached, TypeInv, TypeOK
  <2> QED BY <1>a, <2>1, <2>2, <2>3
<1>3. CASE Decrypt
  <2> DEFINE e == Head(queue)
  <2>0. queue # <<>> /\ queue' = Tail(queue)
    BY <1>3 DEF Decrypt
  <2>1. e \in Envelope /\ e.id \in Messages /\ queue' \in Seq(Envelope)
    <3>1. e \in Envelope /\ Tail(queue) \in Seq(Envelope)
      BY <1>0, <2>0
    <3> QED BY <2>0, <3>1 DEF Envelope
  <2>2. rows' \in {rows, Without(rows, e.id), Opened(rows, e.id)}
    BY <1>3 DEF Decrypt
  <2>3. Queues
    BY <1>0, <2>1, <2>2, WithoutFacts, OpenedFacts
  <2>4. tasks' = tasks \/ tasks' = tasks \union {[id |-> e.id, late |-> FALSE, step |-> "opened"]}
    BY <1>3 DEF Decrypt
  <2>5. [id |-> e.id, late |-> FALSE, step |-> "opened"] \in Task
    BY <2>1 DEF Task
  <2>6. Tasks
    <3> DEFINE t == [id |-> e.id, late |-> FALSE, step |-> "opened"]
    <3>1. t \in Task /\ t.step = "opened" /\ (tasks' = tasks \/ tasks' = tasks \union {t})
      BY <2>4, <2>5
    <3> HIDE DEF t
    <3> QED BY <1>0, <3>1
  <2>7. Rest
    BY <1>3 DEF Decrypt, TypeInv, TypeOK
  <2> QED BY <1>a, <2>3, <2>6, <2>7
<1>4. ASSUME NEW t \in tasks, TaskStep(t) PROVE TypeInv'
  <2>1. CASE Emit(t)
    <3>1. Tasks
      BY <2>1, AdvanceFacts, EndFacts DEF Emit
    <3>2. Rest /\ Queues
      BY <1>0, <2>1 DEF Emit, TypeInv, TypeOK
    <3> QED BY <1>a, <3>1, <3>2
  <2>2. CASE HandleSwarmMessage(t)
    <3>1. Tasks
      BY <2>2, EndFacts DEF HandleSwarmMessage
    <3>2. Queues
      BY <1>c, <2>2 DEF HandleSwarmMessage, durable
    <3>3. jobs' \in [Chats -> Seq(Messages)]
      <4>1. Chat[t.id] \in Chats /\ jobs[Chat[t.id]] \in Seq(Messages)
        BY <1>0, ChatAssumption DEF TypeInv, TypeOK
      <4>2. Append(jobs[Chat[t.id]], t.id) \in Seq(Messages)
        BY <1>0, <4>1
      <4> QED BY <2>2, <4>1, <4>2 DEF HandleSwarmMessage, TypeInv, TypeOK
    <3>4. Rest
      BY <2>2, <3>3 DEF HandleSwarmMessage, durable, TypeInv, TypeOK
    <3> QED BY <1>a, <3>1, <3>2, <3>4
  <2>3. CASE HandleOther(t)
    <3>1. Tasks
      BY <2>3, EndFacts DEF HandleOther
    <3>2. Queues
      BY <1>0, <2>3, WithoutFacts DEF HandleOther
    <3>3. Rest
      BY <2>3 DEF HandleOther, TypeInv, TypeOK
    <3> QED BY <1>a, <3>1, <3>2, <3>3
  <2>4. CASE HandleClosedGroupEncryptionKeyPair(t)
    <3>0. Key[t.id] \in Keys
      BY <1>0, <2>4, KeyAssumption DEF HandleClosedGroupEncryptionKeyPair
    <3>1. Tasks
      BY <2>4, AdvanceFacts, EndFacts DEF HandleClosedGroupEncryptionKeyPair
    <3>2. Queues
      BY <1>0, <2>4, WithoutFacts DEF HandleClosedGroupEncryptionKeyPair
    <3>3. Rest
      BY <2>4, <3>0 DEF HandleClosedGroupEncryptionKeyPair, TypeInv, TypeOK
    <3> QED BY <1>a, <3>1, <3>2, <3>3
  <2>5. CASE HandleNewClosedGroup(t)
    <3>0. Key[t.id] \in Keys /\ KeyGroup[Key[t.id]] \in Groups
      BY <1>0, <2>5, KeyAssumption DEF HandleNewClosedGroup
    <3>1. Tasks
      BY <2>5, AdvanceFacts DEF HandleNewClosedGroup
    <3>2. Rest /\ Queues
      BY <1>0, <2>5, <3>0 DEF HandleNewClosedGroup, TypeInv, TypeOK
    <3> QED BY <1>a, <3>1, <3>2
  <2>6. CASE AddKeyPair(t)
    <3>0. Key[t.id] \in Keys
      BY <1>0, <2>6, KeyAssumption DEF AddKeyPair
    <3>1. Tasks
      BY <2>6, AdvanceFacts DEF AddKeyPair
    <3>2. Rest /\ Queues
      BY <1>0, <2>6, <3>0 DEF AddKeyPair, TypeInv, TypeOK
    <3> QED BY <1>a, <3>1, <3>2
  <2>7. CASE FinishKeyPair(t)
    <3>1. Tasks
      BY <2>7, EndFacts DEF FinishKeyPair
    <3>2. Queues
      <4> DEFINE w == Without(rows, t.id)
                 S == FromSource({w[i].id : i \in DOMAIN w})
      <4>1. w \in Seq(Row)
        BY <1>0, WithoutFacts
      <4>2. \/ rows' = w /\ queue' = queue
            \/ rows' = Bumped(w, S) /\ queue' = queue \o Requeued(w, S)
        BY <2>7 DEF FinishKeyPair, QueueAllCachedFromSource
      <4> HIDE DEF w, S
      <4>3. Bumped(w, S) \in Seq(Row)
        BY <4>1, BumpedFacts
      <4>4. Requeued(w, S) \in Seq(Envelope)
        BY <4>1, RequeuedFacts
      <4>5. queue \o Requeued(w, S) \in Seq(Envelope)
        BY <1>0, <4>4, ConcatFacts
      <4> QED BY <1>0, <4>1, <4>2, <4>3, <4>5
    <3>3. Rest
      BY <2>7 DEF FinishKeyPair, TypeInv, TypeOK
    <3> QED BY <1>a, <3>1, <3>2, <3>3
  <2> QED BY <1>4, <2>1, <2>2, <2>3, <2>4, <2>5, <2>6, <2>7 DEF TaskStep
<1>5. ASSUME NEW t \in tasks, TaskFails(t) \/ TaskTimesOut(t) PROVE TypeInv'
  <2>1. CASE TaskFails(t)
    BY <2>1, EndFacts DEF TaskFails, durable, TypeInv, TypeOK
  <2>2. CASE TaskTimesOut(t)
    <3> DEFINE u == [t EXCEPT !.late = TRUE]
    <3>1. u \in Task /\ u.id = t.id /\ u.step = t.step
      BY <1>0, TaskLateType
    <3>2. tasks' = (tasks \ {t}) \union {u}
      BY <2>2 DEF TaskTimesOut
    <3> HIDE DEF u
    <3>3. Tasks
      BY <1>0, <3>1, <3>2
    <3>4. Rest /\ Queues
      BY <2>2 DEF TaskTimesOut, durable, TypeInv, TypeOK
    <3> QED BY <1>a, <3>3, <3>4
  <2> QED BY <1>5, <2>1, <2>2
<1>6. ASSUME NEW c \in Chats, CheckDuplicate(c) PROVE TypeInv'
  <2>1. jobs[c] \in Seq(Messages) /\ jobs[c] # <<>>
    BY <1>6 DEF CheckDuplicate, TypeInv, TypeOK
  <2>2. Head(jobs[c]) \in Messages /\ Tail(jobs[c]) \in Seq(Messages)
    BY <2>1
  <2>3. [id |-> Head(jobs[c]), late |-> FALSE, step |-> "save"] \in Job
    BY <2>2 DEF Job
  <2>4. Tasks
    BY <1>6, <1>b DEF CheckDuplicate
  <2>5. Queues
    BY <1>0, <1>6, WithoutFacts DEF CheckDuplicate
  <2>6. Rest
    BY <1>6, <2>2, <2>3 DEF CheckDuplicate, TypeInv, TypeOK
  <2> QED BY <1>a, <2>4, <2>5, <2>6
<1>7. ASSUME NEW j \in saving, JobStep(j) PROVE TypeInv'
  <2>1. CASE CommitMessage(j)
    <3>1. [j EXCEPT !.step = "confirm"] \in Job
      BY <1>0, LaterJob
    <3>a. stored' \in [Messages -> Nat]
      BY <1>0, <2>1 DEF CommitMessage, TypeInv, TypeOK
    <3>2. Rest
      BY <2>1, <3>1, <3>a DEF CommitMessage, TypeInv, TypeOK
    <3>3. Tasks /\ Queues
      BY <1>b, <1>c, <2>1 DEF CommitMessage
    <3> QED BY <1>a, <3>2, <3>3
  <2>2. CASE Confirm(j)
    <3>1. Queues
      BY <1>0, <2>2, WithoutFacts DEF Confirm
    <3>2. Tasks /\ Rest
      BY <1>b, <2>2 DEF Confirm, TypeInv, TypeOK
    <3> QED BY <1>a, <3>1, <3>2
  <2> QED BY <1>7, <2>1, <2>2 DEF JobStep
<1>8. ASSUME NEW j \in saving, JobFails(j) \/ JobTimesOut(j) PROVE TypeInv'
  <2>1. [j EXCEPT !.late = TRUE] \in Job
    BY <1>0, LateJobType
  <2> QED BY <1>8, <2>1 DEF JobFails, JobTimesOut, durable, TypeInv, TypeOK
<1>9. ASSUME NEW g \in Groups, MergeLegacyGroup(g) PROVE TypeInv'
  <2>1. Queues
    BY <1>0, <1>9, BumpedFacts, RequeuedFacts, ConcatFacts
       DEF MergeLegacyGroup, QueueAllCachedFromSource
  <2>2. Tasks /\ Rest
    BY <1>b, <1>9 DEF MergeLegacyGroup, TypeInv, TypeOK
  <2> QED BY <1>a, <2>1, <2>2
<1>10. CASE Crash
  <2>1. <<>> \in Seq(Envelope) /\ <<>> \in Seq(Messages)
    OBVIOUS
  <2>2. jobs' \in [Chats -> Seq(Messages)] /\ queue' \in Seq(Envelope)
    BY <1>10, <2>1 DEF Crash
  <2>3. started' = FALSE /\ tasks' = {} /\ saving' = {} /\ UNCHANGED durable
    BY <1>10 DEF Crash
  <2> QED BY <2>2, <2>3 DEF durable, TypeInv, TypeOK
<1>11. CASE UNCHANGED vars
  BY <1>11 DEF vars, durable, volatile, TypeInv, TypeOK
<1> QED BY <1>1, <1>2, <1>3, <1>4, <1>5, <1>6, <1>7, <1>8, <1>9, <1>10, <1>11 DEF Next

\* TypeInv holds in every state.
THEOREM TypeInvariance == Spec => []TypeInv
<1>1. Init => TypeInv
  BY TypeInit
<1>2. TypeInv /\ [Next]_vars => TypeInv'
  BY TypeStep
<1> QED BY <1>1, <1>2, PTL DEF Spec

\* The table, the queues, the tasks and the jobs have their types; no row is kept that
\* has used all its attempts, whatever increases them (increaseAttemptsOrRemove).
THEOREM TypeCorrect == Spec => []TypeOK
<1>1. TypeInv => TypeOK
  BY DEF TypeInv
<1> QED BY <1>1, TypeInvariance, PTL

-----------------------------------------------------------------------------
(* No row is stranded *)

\* What we know at the start stays known.
KnownKept == Known \subseteq keys /\ \A k \in Known : KeyGroup[k] \in joined

Excused(m) ==
  Kind[m] \in {"unapproved", "blocked"} \/ (Kind[m] = "group" /\ Key[m] \notin Known)

\* The messages something is going to handle.
InHand ==
  Ids(queue) \union {t.id : t \in tasks}
    \union {m \in Messages : \E i \in DOMAIN jobs[Chat[m]] : jobs[Chat[m]][i] = m}
    \union {j.id : j \in saving}

Attended == started => \A m \in Ids(rows) : Excused(m) \/ m \in InHand

RowsInv == KnownKept /\ Attended

\* A step that lets no row out of hand.
LEMMA RowsKept ==
  ASSUME RowsInv, Known \subseteq keys', \A k \in Known : KeyGroup[k] \in joined',
         started' = started, Ids(rows') \subseteq Ids(rows),
         \A m \in InHand : m \in Ids(rows') => Excused(m) \/ m \in InHand'
  PROVE  RowsInv'
BY DEF RowsInv, KnownKept, Attended

\* ... such as one that leaves the jobs and the queue alone.
LEMMA TasksOnly ==
  ASSUME UNCHANGED <<queue, jobs, saving>>,
         \A t \in tasks : t.id \in Ids(rows') =>
           Excused(t.id) \/ \E u \in tasks' : u.id = t.id
  PROVE  \A m \in InHand : m \in Ids(rows') => Excused(m) \/ m \in InHand'
BY DEF InHand

LEMMA RowsStep ==
  ASSUME ~MayFail, TypeInv, RowsInv, [Next]_vars
  PROVE  RowsInv'
<1>0. /\ rows \in Seq(Row) /\ queue \in Seq(Envelope)
      /\ jobs \in [Chats -> Seq(Messages)]
      /\ \A t \in tasks : t \in Task /\ t.id \in Messages
      /\ \A j \in saving : j \in Job /\ j.id \in Messages
  BY DEF TypeInv, TypeOK, Task, Job
<1>k. Known \subseteq keys /\ \A k \in Known : KeyGroup[k] \in joined
  BY DEF RowsInv, KnownKept
<1>1. ASSUME NEW m \in Messages, HandleRequest(m) PROVE RowsInv'
  <2>1. [id |-> m, attempts |-> 1, opened |-> FALSE] \in Row
    BY AttemptsAssumption DEF Row
  <2>2. [id |-> m, opened |-> FALSE] \in Envelope
    BY DEF Envelope
  <2>3. Ids(rows') = Ids(rows) \union {m} /\ Ids(queue') = Ids(queue) \union {m}
    BY <1>0, <1>1, <2>1, <2>2, AppendFacts DEF HandleRequest
  <2>4. UNCHANGED <<joined, keys, started, tasks, jobs, saving>>
    BY <1>1 DEF HandleRequest
  <2>5. InHand' = InHand \union {m}
    BY <2>3, <2>4 DEF InHand
  <2> QED BY <2>3, <2>4, <2>5 DEF RowsInv, KnownKept, Attended
<1>2. CASE QueueAllCached
  <2>1. Ids(rows') \subseteq Ids(rows)
    BY <1>0, <1>2, BumpedFacts DEF QueueAllCached
  <2>2. Ids(Requeued(rows, Cached)) = Ids(rows) /\ Requeued(rows, Cached) \in Seq(Envelope)
    <3>1. Cached = Ids(rows)
      BY DEF Cached, Ids
    <3>2. Ids(Requeued(rows, Cached)) = Ids(rows) \intersect Cached
          /\ Requeued(rows, Cached) \in Seq(Envelope)
      BY <1>0, RequeuedFacts
    <3> QED BY <3>1, <3>2
  <2>3. Ids(rows) \subseteq Ids(queue')
    BY <1>0, <1>2, <2>2, ConcatFacts DEF QueueAllCached
  <2>4. UNCHANGED <<joined, keys>>
    BY <1>2 DEF QueueAllCached
  <2> QED BY <2>1, <2>3, <2>4 DEF RowsInv, KnownKept, Attended, InHand
<1>3. CASE Decrypt
  <2> DEFINE e == Head(queue)
             t == [id |-> e.id, late |-> FALSE, step |-> "opened"]
  <2>0. queue # <<>> /\ queue' = Tail(queue)
    BY <1>3 DEF Decrypt
  <2>1. e.id \in Messages /\ Ids(queue) = {e.id} \union Ids(queue')
    <3>1. e \in Envelope /\ Ids(queue) = {e.id} \union Ids(Tail(queue))
      BY <1>0, <2>0, TailFacts
    <3> QED BY <2>0, <3>1 DEF Envelope
  <2>2. UNCHANGED <<joined, keys, started, jobs, saving>> /\ tasks \subseteq tasks'
    BY <1>3 DEF Decrypt
  <2>3. Ids(rows') \subseteq Ids(rows)
        /\ (e.id \in Ids(rows') => Excused(e.id) \/ \E u \in tasks' : u.id = e.id)
    <3>1. CASE ~e.opened /\ Kind[e.id] = "junk" /\ rows' = Without(rows, e.id)
      BY <1>0, <3>1, WithoutFacts
    <3>2. CASE ~e.opened /\ Kind[e.id] = "group" /\ ~HasKey(e.id) /\ UNCHANGED <<rows, tasks>>
      BY <1>k, <3>2 DEF HasKey, Excused
    <3>3. CASE /\ rows' = IF e.opened THEN rows ELSE Opened(rows, e.id)
               /\ tasks' = IF Kind[e.id] = "blocked" THEN tasks ELSE tasks \union {t}
      <4>1. Ids(rows') = Ids(rows)
        BY <1>0, <3>3, OpenedFacts
      <4>2. Excused(e.id) \/ t \in tasks'
        BY <3>3 DEF Excused
      <4>3. t.id = e.id
        OBVIOUS
      <4> QED BY <4>1, <4>2, <4>3
    <3> QED BY <1>3, <3>1, <3>2, <3>3 DEF Decrypt
  <2> HIDE DEF t, e
  <2>4. \A m \in InHand : m \in Ids(rows') => Excused(m) \/ m \in InHand'
    BY <2>1, <2>2, <2>3 DEF InHand
  <2> QED BY <1>k, <2>2, <2>3, <2>4, RowsKept
<1>4. ASSUME NEW t \in tasks, TaskStep(t) PROVE RowsInv'
  <2>0. \A s \in {"opened", "handling", "joining", "new key", "known key", "invited"} :
          Advance(t, s) => \A r \in tasks : \E u \in tasks' : u.id = r.id
    <3> SUFFICES ASSUME NEW s \in {"opened", "handling", "joining", "new key", "known key", "invited"},
                        Advance(t, s), NEW r \in tasks
                 PROVE  \E u \in tasks' : u.id = r.id
      OBVIOUS
    <3>1. [t EXCEPT !.step = s].id = t.id
      BY <1>0, TaskStepType
    <3> QED BY <3>1 DEF Advance
  <2>e. End(t) => \A r \in tasks : r # t => r \in tasks'
    BY DEF End
  <2>1. CASE Emit(t)
    <3>1. \A r \in tasks : \E u \in tasks' : u.id = r.id
      BY <2>0, <2>1 DEF Emit
    <3>2. UNCHANGED <<rows, joined, keys, started, queue, jobs, saving>>
      BY <2>1 DEF Emit
    <3> QED BY <1>k, <3>1, <3>2, TasksOnly, RowsKept
  <2>2. CASE HandleSwarmMessage(t)
    <3>1. /\ t.id \in Messages /\ Chat[t.id] \in Chats
          /\ jobs' = [jobs EXCEPT ![Chat[t.id]] = Append(@, t.id)]
          /\ UNCHANGED <<rows, joined, keys, started, queue, saving>>
          /\ \A r \in tasks : r # t => r \in tasks'
      BY <1>0, <2>2, <2>e, ChatAssumption DEF HandleSwarmMessage, durable
    <3>2. \A m \in Messages : (\E i \in DOMAIN jobs[Chat[m]] : jobs[Chat[m]][i] = m) =>
                              \E i \in DOMAIN jobs'[Chat[m]] : jobs'[Chat[m]][i] = m
      <4> SUFFICES ASSUME NEW m \in Messages, NEW i \in DOMAIN jobs[Chat[m]],
                          jobs[Chat[m]][i] = m
                   PROVE  i \in DOMAIN jobs'[Chat[m]] /\ jobs'[Chat[m]][i] = m
        OBVIOUS
      <4>1. Chat[m] \in Chats
        BY ChatAssumption
      <4>2. CASE Chat[m] = Chat[t.id]
        <5>1. jobs'[Chat[m]] = Append(jobs[Chat[m]], t.id) /\ jobs[Chat[m]] \in Seq(Messages)
          BY <1>0, <3>1, <4>1, <4>2
        <5> QED BY <5>1
      <4>3. CASE Chat[m] # Chat[t.id]
        BY <1>0, <3>1, <4>1, <4>3
      <4> QED BY <4>2, <4>3
    <3>3. \E i \in DOMAIN jobs'[Chat[t.id]] : jobs'[Chat[t.id]][i] = t.id
      <4>1. jobs'[Chat[t.id]] = Append(jobs[Chat[t.id]], t.id) /\ jobs[Chat[t.id]] \in Seq(Messages)
        BY <1>0, <3>1
      <4>2. /\ Len(jobs[Chat[t.id]]) + 1 \in DOMAIN jobs'[Chat[t.id]]
            /\ jobs'[Chat[t.id]][Len(jobs[Chat[t.id]]) + 1] = t.id
        BY <4>1
      <4> QED BY <4>2
    <3>4. \A m \in InHand : m \in InHand'
      BY <3>1, <3>2, <3>3 DEF InHand
    <3> QED BY <1>k, <3>1, <3>4, RowsKept
  <2>3. CASE HandleOther(t)
    <3>1. UNCHANGED <<joined, keys, started, queue, jobs, saving>>
      BY <2>3 DEF HandleOther
    <3>2. CASE Kind[t.id] = "ignored"
      <4>1. Ids(rows') = Ids(rows) \ {t.id}
        BY <1>0, <2>3, <3>2, WithoutFacts DEF HandleOther
      <4>2. \A m \in InHand : m \in Ids(rows') => Excused(m) \/ m \in InHand'
        BY <2>3, <2>e, <3>1, <4>1, TasksOnly DEF HandleOther
      <4> QED BY <1>k, <3>1, <4>1, <4>2, RowsKept
    <3>3. CASE Kind[t.id] = "unapproved"
      <4>1. rows' = rows /\ Excused(t.id)
        BY <2>3, <3>3 DEF HandleOther, Excused
      <4>2. \A m \in InHand : m \in Ids(rows') => Excused(m) \/ m \in InHand'
        BY <2>3, <2>e, <3>1, <4>1, TasksOnly DEF HandleOther
      <4> QED BY <1>k, <3>1, <4>1, <4>2, RowsKept
    <3> QED BY <2>3, <3>2, <3>3 DEF HandleOther
  <2>4. CASE HandleClosedGroupEncryptionKeyPair(t)
    <3>1. UNCHANGED <<joined, started, queue, jobs, saving>> /\ keys \subseteq keys'
      BY <2>4 DEF HandleClosedGroupEncryptionKeyPair
    <3>2. CASE rows' = Without(rows, t.id) /\ End(t)
      <4>1. Ids(rows') = Ids(rows) \ {t.id}
        BY <1>0, <3>2, WithoutFacts
      <4>2. \A m \in InHand : m \in Ids(rows') => Excused(m) \/ m \in InHand'
        BY <2>e, <3>1, <3>2, <4>1, TasksOnly
      <4> QED BY <1>k, <3>1, <4>1, <4>2, RowsKept
    <3>3. CASE rows' = rows /\ \E s \in {"known key", "new key"} : Advance(t, s)
      <4>1. \A r \in tasks : \E u \in tasks' : u.id = r.id
        BY <2>0, <3>3
      <4> QED BY <1>k, <3>1, <3>3, <4>1, TasksOnly, RowsKept
    <3> QED BY <2>4, <3>2, <3>3 DEF HandleClosedGroupEncryptionKeyPair
  <2>5. CASE HandleNewClosedGroup(t)
    <3>1. /\ UNCHANGED <<rows, started, queue, jobs, saving>>
          /\ keys \subseteq keys' /\ joined \subseteq joined'
      BY <2>5 DEF HandleNewClosedGroup
    <3>2. \A r \in tasks : \E u \in tasks' : u.id = r.id
      BY <2>0, <2>5 DEF HandleNewClosedGroup
    <3> QED BY <1>k, <3>1, <3>2, TasksOnly, RowsKept
  <2>6. CASE AddKeyPair(t)
    <3>1. UNCHANGED <<rows, joined, started, queue, jobs, saving>> /\ keys \subseteq keys'
      BY <2>6 DEF AddKeyPair
    <3>2. \A r \in tasks : \E u \in tasks' : u.id = r.id
      BY <2>0, <2>6 DEF AddKeyPair
    <3> QED BY <1>k, <3>1, <3>2, TasksOnly, RowsKept
  <2>7. CASE FinishKeyPair(t)
    <3>1. UNCHANGED <<joined, keys, started, jobs, saving>> /\ \A r \in tasks : r # t => r \in tasks'
      BY <2>7, <2>e DEF FinishKeyPair
    <3>2. /\ Ids(rows') \subseteq Ids(rows) \ {t.id}
          /\ Ids(queue) \subseteq Ids(queue')
      <4>1. Without(rows, t.id) \in Seq(Row) /\ Ids(Without(rows, t.id)) = Ids(rows) \ {t.id}
        BY <1>0, WithoutFacts
      <4>2. CASE rows' = Without(rows, t.id) /\ queue' = queue
        BY <4>1, <4>2
      <4>3. CASE QueueAllCachedFromSource(Without(rows, t.id))
        BY <1>0, <4>1, <4>3, BumpedFacts, RequeuedFacts, ConcatFacts DEF QueueAllCachedFromSource
      <4> QED BY <2>7, <4>2, <4>3 DEF FinishKeyPair
    <3>3. \A m \in InHand : m \in Ids(rows') => Excused(m) \/ m \in InHand'
      BY <3>1, <3>2 DEF InHand
    <3> QED BY <1>k, <3>1, <3>2, <3>3, RowsKept
  <2> QED BY <1>4, <2>1, <2>2, <2>3, <2>4, <2>5, <2>6, <2>7 DEF TaskStep
<1>5. ASSUME NEW t \in tasks, TaskTimesOut(t) PROVE RowsInv'
  <2>1. [t EXCEPT !.late = TRUE].id = t.id
    BY <1>0, TaskLateType
  <2>2. \A r \in tasks : \E u \in tasks' : u.id = r.id
    BY <1>5, <2>1 DEF TaskTimesOut
  <2>3. UNCHANGED <<rows, joined, keys, started, queue, jobs, saving>>
    BY <1>5 DEF TaskTimesOut, durable
  <2> QED BY <1>k, <2>2, <2>3, TasksOnly, RowsKept
<1>6. ASSUME NEW c \in Chats, CheckDuplicate(c) PROVE RowsInv'
  <2> DEFINE n == Head(jobs[c])
             j == [id |-> n, late |-> FALSE, step |-> "save"]
  <2>1. jobs[c] \in Seq(Messages) /\ jobs[c] # <<>> /\ n = jobs[c][1]
    BY <1>0, <1>6 DEF CheckDuplicate
  <2>2. jobs' = [jobs EXCEPT ![c] = Tail(@)] /\ UNCHANGED <<joined, keys, started, queue, tasks>>
    BY <1>6 DEF CheckDuplicate
  <2>3. \/ rows' = Without(rows, n) /\ saving' = saving
        \/ rows' = rows /\ saving' = saving \union {j}
    BY <1>6 DEF CheckDuplicate
  <2>4. ASSUME NEW m \in Messages, m # n, NEW i \in DOMAIN jobs[Chat[m]], jobs[Chat[m]][i] = m
        PROVE  \E k \in DOMAIN jobs'[Chat[m]] : jobs'[Chat[m]][k] = m
    <3>1. Chat[m] \in Chats
      BY ChatAssumption
    <3>2. CASE Chat[m] # c
      BY <1>0, <2>2, <2>4, <3>1, <3>2
    <3>3. CASE Chat[m] = c
      <4>1. jobs'[c] = Tail(jobs[c]) /\ i # 1
        BY <1>0, <2>1, <2>2, <2>4, <3>3
      <4>2. i - 1 \in DOMAIN Tail(jobs[c]) /\ Tail(jobs[c])[i - 1] = jobs[c][i]
        BY <2>1, <2>4, <3>3, <4>1
      <4> QED BY <2>4, <3>3, <4>1, <4>2
    <3> QED BY <3>2, <3>3
  <2>5. Ids(rows') \subseteq Ids(rows) /\ (n \in Ids(rows') => \E k \in saving' : k.id = n)
    <3>1. CASE rows' = Without(rows, n)
      BY <1>0, <3>1, WithoutFacts
    <3>2. CASE rows' = rows /\ saving' = saving \union {j}
      <4>1. j.id = n
        OBVIOUS
      <4> QED BY <3>2, <4>1
    <3> QED BY <2>3, <3>1, <3>2
  <2>6. saving \subseteq saving'
    BY <2>3
  <2> HIDE DEF n, j
  <2>7. \A m \in InHand : m \in Ids(rows') => Excused(m) \/ m \in InHand'
    BY <2>2, <2>4, <2>5, <2>6 DEF InHand
  <2> QED BY <1>k, <2>2, <2>5, <2>7, RowsKept
<1>7. ASSUME NEW j \in saving, JobStep(j) PROVE RowsInv'
  <2>1. CASE CommitMessage(j)
    <3>1. [j EXCEPT !.step = "confirm"].id = j.id
      BY <1>0, LaterJob
    <3>2. \A i \in saving : \E k \in saving' : k.id = i.id
      BY <2>1, <3>1 DEF CommitMessage
    <3>3. UNCHANGED <<rows, joined, keys, started, queue, tasks, jobs>>
      BY <2>1 DEF CommitMessage
    <3>4. \A m \in InHand : m \in InHand'
      BY <3>2, <3>3 DEF InHand
    <3> QED BY <1>k, <3>3, <3>4, RowsKept
  <2>2. CASE Confirm(j)
    <3>1. Ids(rows') = Ids(rows) \ {j.id}
      BY <1>0, <2>2, WithoutFacts DEF Confirm
    <3>2. saving' = saving \ {j} /\ UNCHANGED <<joined, keys, started, queue, tasks, jobs>>
      BY <2>2 DEF Confirm
    <3>3. \A m \in InHand : m \in Ids(rows') => m \in InHand'
      BY <3>1, <3>2 DEF InHand
    <3> QED BY <1>k, <3>1, <3>2, <3>3, RowsKept
  <2> QED BY <1>7, <2>1, <2>2 DEF JobStep
<1>8. ASSUME NEW j \in saving, JobTimesOut(j) PROVE RowsInv'
  <2>1. [j EXCEPT !.late = TRUE].id = j.id
    BY <1>0, LateJobType
  <2>2. \A i \in saving : \E k \in saving' : k.id = i.id
    BY <1>8, <2>1 DEF JobTimesOut
  <2>3. UNCHANGED <<rows, joined, keys, started, queue, tasks, jobs>>
    BY <1>8 DEF JobTimesOut, durable
  <2>4. \A m \in InHand : m \in InHand'
    BY <2>2, <2>3 DEF InHand
  <2> QED BY <1>k, <2>3, <2>4, RowsKept
<1>9. ASSUME NEW g \in Groups, MergeLegacyGroup(g) PROVE RowsInv'
  <2>1. /\ UNCHANGED <<started, tasks, jobs, saving>>
        /\ keys \subseteq keys' /\ joined \subseteq joined'
    BY <1>9 DEF MergeLegacyGroup
  <2>2. Ids(rows') \subseteq Ids(rows) /\ Ids(queue) \subseteq Ids(queue')
    BY <1>0, <1>9, BumpedFacts, RequeuedFacts, ConcatFacts
       DEF MergeLegacyGroup, QueueAllCachedFromSource
  <2>3. \A m \in InHand : m \in InHand'
    BY <2>1, <2>2 DEF InHand
  <2> QED BY <1>k, <2>1, <2>2, <2>3, RowsKept
<1>10. CASE Crash
  BY <1>10 DEF Crash, durable, RowsInv, KnownKept, Attended
<1>11. CASE UNCHANGED vars
  <2>1. UNCHANGED <<rows, joined, keys, started, queue, tasks, jobs, saving>>
    BY <1>11 DEF vars, durable, volatile
  <2>2. InHand' = InHand
    BY <2>1 DEF InHand
  <2> QED BY <1>k, <2>1, <2>2, RowsKept
<1>12. ASSUME NEW t \in tasks, TaskFails(t) PROVE FALSE
  BY <1>12 DEF TaskFails
<1>13. ASSUME NEW j \in saving, JobFails(j) PROVE FALSE
  BY <1>13 DEF JobFails
<1> QED
  BY <1>1, <1>2, <1>3, <1>4, <1>5, <1>6, <1>7, <1>8, <1>9, <1>10, <1>11, <1>12, <1>13 DEF Next

\* Once the cache was queued, a row that can be handled is being handled: no path of a
\* task or of a job ends without removing the row, but those of the senders we ignore
\* and of the keys we do not have (contentMessage.ts, dataMessage.ts, closedGroups.ts).
THEOREM RowsAreAttended == ASSUME ~MayFail PROVE Spec => []NoRowStranded
<1>1. Init => RowsInv
  BY DEF Init, RowsInv, KnownKept, Attended
<1>2. TypeInv /\ RowsInv /\ [Next]_vars => RowsInv'
  BY RowsStep
<1>3. TypeInv /\ RowsInv => NoRowStranded
  <2> SUFFICES ASSUME TypeInv, RowsInv, started, NEW m \in Cached
               PROVE  \/ Kind[m] \in {"unapproved", "blocked"}
                      \/ Kind[m] = "group" /\ Key[m] \notin Known
                      \/ \E i \in DOMAIN queue : queue[i].id = m
                      \/ \E t \in tasks : t.id = m
                      \/ \E i \in DOMAIN jobs[Chat[m]] : jobs[Chat[m]][i] = m
                      \/ \E j \in saving : j.id = m
    BY DEF NoRowStranded
  <2>1. Excused(m) \/ m \in InHand
    BY DEF RowsInv, Attended, Cached, Ids
  <2> QED BY <2>1 DEF Excused, InHand, Ids
<1> QED BY <1>1, <1>2, <1>3, TypeInvariance, PTL DEF Spec

-----------------------------------------------------------------------------
(* Every message is stored once *)

Types ==
  /\ jobs \in [Chats -> Seq(Messages)]
  /\ saving \subseteq Job
  /\ stored \in [Messages -> Nat]

\* A conversation is only given the jobs of its messages.
OwnJobs == \A c \in Chats : \A i \in DOMAIN jobs[c] : Chat[jobs[c][i]] = c

\* The jobs of a conversation run one at a time.
OneAtATime ==
  /\ \A j \in saving : ~j.late
  /\ \A j, k \in saving : Chat[j.id] = Chat[k.id] => j = k

\* What a job found before its commit is still so.
StillMissing == \A j \in saving : j.step = "save" => stored[j.id] = 0

StoreInv == Types /\ OwnJobs /\ OneAtATime /\ StillMissing /\ StoredOnce

LEMMA StoreInit == Init => StoreInv
<1>1. ASSUME Init PROVE StoreInv
  BY <1>1 DEF Init, StoreInv, Types, OwnJobs, OneAtATime, StillMissing, StoredOnce
<1> QED BY <1>1

\* Steps that leave the jobs and the message table alone.
LEMMA OtherStep ==
  ASSUME StoreInv, UNCHANGED <<jobs, saving, stored>>
  PROVE  StoreInv'
BY DEF StoreInv, Types, OwnJobs, OneAtATime, StillMissing, StoredOnce

\* handleSwarmMessage
LEMMA QueueJobStep ==
  ASSUME StoreInv, NEW t \in tasks, HandleSwarmMessage(t)
  PROVE  StoreInv'
<1> DEFINE c == Chat[t.id]
<1>1. t.id \in Messages /\ c \in Chats
  BY ChatAssumption DEF HandleSwarmMessage, Storable
<1>2. UNCHANGED <<saving, stored>> /\ jobs' = [jobs EXCEPT ![c] = Append(@, t.id)]
  BY DEF HandleSwarmMessage, durable
<1>3. Types'
  BY <1>1, <1>2 DEF StoreInv, Types
<1>4. OwnJobs'
  <2> SUFFICES ASSUME NEW d \in Chats, NEW i \in DOMAIN jobs'[d]
               PROVE  Chat[jobs'[d][i]] = d
    BY DEF OwnJobs
  <2>1. jobs[d] \in Seq(Messages) /\ \A k \in DOMAIN jobs[d] : Chat[jobs[d][k]] = d
    BY DEF StoreInv, Types, OwnJobs
  <2>2. CASE d # c
    BY <1>2, <2>1, <2>2 DEF StoreInv, Types
  <2>3. CASE d = c
    <3>1. jobs'[d] = Append(jobs[d], t.id)
      BY <1>1, <1>2, <2>3 DEF StoreInv, Types
    <3>2. CASE i \in DOMAIN jobs[d]
      BY <2>1, <3>1, <3>2
    <3>3. CASE i \notin DOMAIN jobs[d]
      BY <1>1, <2>1, <2>3, <3>1, <3>3
    <3> QED BY <3>2, <3>3
  <2> QED BY <2>2, <2>3
<1>5. OneAtATime' /\ StillMissing' /\ StoredOnce'
  BY <1>2 DEF StoreInv, OneAtATime, StillMissing, StoredOnce
<1> QED BY <1>3, <1>4, <1>5 DEF StoreInv

\* The next job of a conversation.
LEMMA CheckStep ==
  ASSUME StoreInv, NEW c \in Chats, CheckDuplicate(c)
  PROVE  StoreInv'
<1> DEFINE m == Head(jobs[c])
           j == [id |-> m, late |-> FALSE, step |-> "save"]
<1>1. jobs[c] \in Seq(Messages) /\ jobs[c] # <<>> /\ m = jobs[c][1] /\ 1 \in DOMAIN jobs[c]
  BY DEF StoreInv, Types, CheckDuplicate
<1>2. m \in Messages /\ Chat[m] = c
  BY <1>1 DEF StoreInv, OwnJobs
<1>3. /\ jobs' = [jobs EXCEPT ![c] = Tail(@)]
      /\ stored' = stored
      /\ saving' = saving \/ (saving' = saving \union {j} /\ stored[m] = 0)
  BY DEF CheckDuplicate
<1>4. \A k \in saving : Chat[k.id] # c
  BY DEF CheckDuplicate, StoreInv, OneAtATime
<1>5. j \in Job /\ j.id = m /\ ~j.late
  BY <1>2 DEF Job
<1>6. Types'
  <2>1. jobs' \in [Chats -> Seq(Messages)]
    BY <1>1, <1>3 DEF StoreInv, Types
  <2>2. saving' \subseteq Job
    BY <1>3, <1>5 DEF StoreInv, Types
  <2> QED BY <1>3, <2>1, <2>2 DEF StoreInv, Types
<1>7. OwnJobs'
  <2> SUFFICES ASSUME NEW d \in Chats, NEW i \in DOMAIN jobs'[d]
               PROVE  Chat[jobs'[d][i]] = d
    BY DEF OwnJobs
  <2>1. jobs[d] \in Seq(Messages) /\ \A k \in DOMAIN jobs[d] : Chat[jobs[d][k]] = d
    BY DEF StoreInv, Types, OwnJobs
  <2>2. CASE d # c
    BY <1>3, <2>1, <2>2 DEF StoreInv, Types
  <2>3. CASE d = c
    <3>1. jobs'[d] = Tail(jobs[d])
      BY <1>3, <2>3 DEF StoreInv, Types
    <3>2. i + 1 \in DOMAIN jobs[d] /\ jobs'[d][i] = jobs[d][i + 1]
      BY <1>1, <2>1, <2>3, <3>1
    <3> QED BY <2>1, <3>2
  <2> QED BY <2>2, <2>3
<1>8. OneAtATime'
  BY <1>2, <1>3, <1>4, <1>5 DEF StoreInv, OneAtATime
<1>9. StillMissing'
  BY <1>3, <1>5 DEF StoreInv, StillMissing
<1> QED BY <1>3, <1>6, <1>7, <1>8, <1>9 DEF StoreInv, StoredOnce

\* The commit of a message.
LEMMA CommitStep ==
  ASSUME StoreInv, NEW j \in saving, CommitMessage(j)
  PROVE  StoreInv'
<1> DEFINE k == [j EXCEPT !.step = "confirm"]
<1>1. /\ j \in Job /\ j.id \in Messages /\ ~j.late /\ stored[j.id] = 0
      /\ \A i \in saving : Chat[i.id] = Chat[j.id] => i = j
  BY DEF StoreInv, Types, OneAtATime, StillMissing, CommitMessage, Job
<1>2. /\ jobs' = jobs /\ saving' = (saving \ {j}) \union {k}
      /\ stored' = [stored EXCEPT ![j.id] = @ + 1]
  BY DEF CommitMessage
<1>3. k \in Job /\ k.id = j.id /\ k.step = "confirm" /\ ~k.late
  BY <1>1, LaterJob
<1> HIDE DEF k
<1>4. Types'
  BY <1>1, <1>2, <1>3 DEF StoreInv, Types
<1>5. OwnJobs'
  BY <1>2 DEF StoreInv, OwnJobs
<1>6. OneAtATime'
  BY <1>1, <1>2, <1>3 DEF StoreInv, OneAtATime
<1>7. StillMissing'
  <2> SUFFICES ASSUME NEW i \in saving', i.step = "save" PROVE stored'[i.id] = 0
    BY DEF StillMissing
  <2>1. i \in saving /\ i # j
    BY <1>2, <1>3
  <2>2. i.id # j.id /\ stored[i.id] = 0
    BY <1>1, <2>1 DEF StoreInv, StillMissing
  <2> QED BY <1>2, <2>1, <2>2 DEF StoreInv, Types, Job
<1>8. StoredOnce'
  BY <1>1, <1>2 DEF StoreInv, Types, StoredOnce
<1> QED BY <1>4, <1>5, <1>6, <1>7, <1>8 DEF StoreInv

\* A job that ends, whether its message was committed or not.
LEMMA EndOfJobStep ==
  ASSUME StoreInv, NEW j \in saving, saving' = saving \ {j}, UNCHANGED <<jobs, stored>>
  PROVE  StoreInv'
BY DEF StoreInv, Types, OwnJobs, OneAtATime, StillMissing, StoredOnce

\* A job may not outlive its timeout.
LEMMA NoLateJob ==
  ASSUME LateLimit = 0, StoreInv, NEW j \in saving
  PROVE  ~JobTimesOut(j)
<1>1. {k \in saving : k.late} = {}
  BY DEF StoreInv, OneAtATime
<1>2. Cardinality({k \in saving : k.late}) = 0
  BY <1>1, FS_EmptySet
<1> QED BY <1>2 DEF JobTimesOut

LEMMA CrashStep ==
  ASSUME StoreInv, Crash
  PROVE  StoreInv'
<1>1. saving' = {} /\ stored' = stored /\ jobs' = [c \in Chats |-> <<>>]
  BY DEF Crash, durable
<1>2. Types' /\ OwnJobs'
  BY <1>1 DEF StoreInv, Types, OwnJobs
<1>3. OneAtATime' /\ StillMissing' /\ StoredOnce'
  BY <1>1 DEF StoreInv, OneAtATime, StillMissing, StoredOnce
<1> QED BY <1>2, <1>3 DEF StoreInv

LEMMA StoreStep ==
  ASSUME LateLimit = 0, StoreInv, [Next]_vars
  PROVE  StoreInv'
<1>1. ASSUME NEW m \in Messages, HandleRequest(m) PROVE StoreInv'
  BY <1>1, OtherStep DEF HandleRequest
<1>2. CASE QueueAllCached
  BY <1>2, OtherStep DEF QueueAllCached
<1>3. CASE Decrypt
  BY <1>3, OtherStep DEF Decrypt
<1>4. ASSUME NEW t \in tasks, TaskStep(t) PROVE StoreInv'
  <2>1. CASE Emit(t)
    BY <2>1, OtherStep DEF Emit
  <2>2. CASE HandleSwarmMessage(t)
    BY <2>2, QueueJobStep
  <2>3. CASE HandleOther(t)
    BY <2>3, OtherStep DEF HandleOther
  <2>4. CASE HandleClosedGroupEncryptionKeyPair(t)
    BY <2>4, OtherStep DEF HandleClosedGroupEncryptionKeyPair
  <2>5. CASE HandleNewClosedGroup(t)
    BY <2>5, OtherStep DEF HandleNewClosedGroup
  <2>6. CASE AddKeyPair(t)
    BY <2>6, OtherStep DEF AddKeyPair
  <2>7. CASE FinishKeyPair(t)
    BY <2>7, OtherStep DEF FinishKeyPair
  <2> QED BY <1>4, <2>1, <2>2, <2>3, <2>4, <2>5, <2>6, <2>7 DEF TaskStep
<1>5. ASSUME NEW t \in tasks, TaskFails(t) \/ TaskTimesOut(t) PROVE StoreInv'
  BY <1>5, OtherStep DEF TaskFails, TaskTimesOut, durable
<1>6. ASSUME NEW c \in Chats, CheckDuplicate(c) PROVE StoreInv'
  BY <1>6, CheckStep
<1>7. ASSUME NEW j \in saving, JobStep(j) \/ JobFails(j) PROVE StoreInv'
  <2>1. CASE CommitMessage(j)
    BY <2>1, CommitStep
  <2>2. CASE Confirm(j)
    BY <2>2, EndOfJobStep DEF Confirm
  <2>3. CASE JobFails(j)
    BY <2>3, EndOfJobStep DEF JobFails, durable
  <2> QED BY <1>7, <2>1, <2>2, <2>3 DEF JobStep
<1>8. ASSUME NEW j \in saving, JobTimesOut(j) PROVE StoreInv'
  BY <1>8, NoLateJob
<1>9. ASSUME NEW g \in Groups, MergeLegacyGroup(g) PROVE StoreInv'
  BY <1>9, OtherStep DEF MergeLegacyGroup
<1>10. CASE Crash
  BY <1>10, CrashStep
<1>11. CASE UNCHANGED vars
  BY <1>11, OtherStep DEF vars, durable, volatile
<1> QED BY <1>1, <1>2, <1>3, <1>4, <1>5, <1>6, <1>7, <1>8, <1>9, <1>10, <1>11 DEF Next

\* StoreInv holds in every state while no job outlives its timeout.
THEOREM StoreInvariance == ASSUME LateLimit = 0 PROVE Spec => []StoreInv
<1>1. Init => StoreInv
  BY StoreInit
<1>2. StoreInv /\ [Next]_vars => StoreInv'
  BY StoreStep
<1> QED BY <1>1, <1>2, PTL DEF Spec

\* However often an envelope is queued and the process killed, its message is stored
\* once: the check for a duplicate (handleMessageJob is queued with it) and the commit
\* are in one job of the conversation, and the jobs of a conversation run in turn.
THEOREM StoredAtMostOnce == ASSUME LateLimit = 0 PROVE Spec => []StoredOnce
<1>1. StoreInv => StoredOnce
  BY DEF StoreInv
<1> QED BY <1>1, StoreInvariance, PTL

-----------------------------------------------------------------------------
(* The rows as an inbox *)

\* The attempts of each message of a table.
Kept(s) == [m \in Ids(s) |-> s[CHOOSE i \in DOMAIN s : s[i].id = m].attempts]

OneRow(s) == \A x, y \in Range(s) : x.id = y.id => x = y

\* The messages of S are tried again, one may be handled: t is what is left of s.
Retried(s, t, S, handled) ==
  /\ OneRow(t)
  /\ Kept(t) = [m \in Ids(s) \ ({x \in S : Kept(s)[x] + 1 >= MaxAttempts} \union handled) |->
                  IF m \in S THEN Kept(s)[m] + 1 ELSE Kept(s)[m]]

LEMMA KeptIs ==
  ASSUME NEW s \in Seq(Row), OneRow(s)
  PROVE  DOMAIN Kept(s) = Ids(s) /\ \A r \in Range(s) : Kept(s)[r.id] = r.attempts
<1>1. ASSUME NEW r \in Range(s) PROVE r.id \in Ids(s) /\ Kept(s)[r.id] = r.attempts
  <2> DEFINE i == CHOOSE i \in DOMAIN s : s[i].id = r.id
  <2>1. \E k \in DOMAIN s : s[k].id = r.id
    BY <1>1 DEF Range
  <2>2. i \in DOMAIN s /\ s[i].id = r.id
    BY <2>1
  <2>3. s[i] = r
    BY <1>1, <2>2 DEF OneRow, Range
  <2>4. r.id \in Ids(s)
    BY <2>1 DEF Ids
  <2>5. Kept(s)[r.id] = s[i].attempts
    BY <2>4 DEF Kept
  <2> HIDE DEF i
  <2> QED BY <2>3, <2>4, <2>5
<1>2. DOMAIN Kept(s) = Ids(s)
  BY DEF Kept
<1> QED BY <1>1, <1>2

\* What a table keeps, from what it is made of.
LEMMA KeptFrom ==
  ASSUME NEW t \in Seq(Row), OneRow(t), NEW D, NEW f, f = [x \in D |-> f[x]], Ids(t) = D,
         \A r \in Range(t) : r.attempts = f[r.id]
  PROVE  Kept(t) = f
<1>1. DOMAIN Kept(t) = D /\ \A r \in Range(t) : Kept(t)[r.id] = r.attempts
  BY KeptIs
<1>2. ASSUME NEW x \in D PROVE Kept(t)[x] = f[x]
  <2>1. PICK r \in Range(t) : r.id = x
    BY <1>2, IdsAreThose
  <2> QED BY <1>1, <2>1
<1>3. Kept(t) = [x \in D |-> Kept(t)[x]]
  BY <1>1 DEF Kept
<1> QED BY <1>2, <1>3

\* removeFromCache
LEMMA WithoutRetries ==
  ASSUME NEW s \in Seq(Row), OneRow(s), NEW m
  PROVE  Retried(s, Without(s, m), {}, {m})
<1> DEFINE R == {s[i] : i \in {j \in DOMAIN s : s[j].id # m}}
           t == Without(s, m)
           D == Ids(s) \ {m}
           f == [x \in D |-> Kept(s)[x]]
<1>1. t \in Seq(Row) /\ Ids(t) = D
  BY WithoutFacts
<1>2. t = Only(s, R)
  BY DEF Without, Filter
<1>3. Range(t) \subseteq Range(s)
  <2> HIDE DEF R, t
  <2> QED BY <1>2, FilterFacts
<1> HIDE DEF t
<1>4. OneRow(t)
  BY <1>3 DEF OneRow
<1>5. \A r \in Range(t) : r.id \in D /\ r.attempts = f[r.id]
  <2> SUFFICES ASSUME NEW r \in Range(t) PROVE r.id \in D /\ r.attempts = f[r.id]
    OBVIOUS
  <2>1. r.id \in D /\ Kept(s)[r.id] = r.attempts
    BY <1>1, <1>3, KeptIs, IdsAreThose
  <2> QED BY <2>1
<1>6. Kept(t) = f
  <2> HIDE DEF D
  <2>1. f = [x \in D |-> f[x]]
    OBVIOUS
  <2> HIDE DEF f
  <2> QED BY <1>1, <1>4, <1>5, <2>1, KeptFrom
<1>7. Ids(s) \ ({x \in {} : Kept(s)[x] + 1 >= MaxAttempts} \union {m}) = D
  OBVIOUS
<1>8. f = [x \in D |-> IF x \in {} THEN Kept(s)[x] + 1 ELSE Kept(s)[x]]
  OBVIOUS
<1> HIDE DEF D, f
<1> QED BY <1>4, <1>6, <1>7, <1>8 DEF Retried, t

\* increaseAttemptsOrRemove: the rows of S that are left have one attempt more.
LEMMA BumpedRows ==
  ASSUME NEW s \in Seq(Row), NEW S
  PROVE  \A x : x \in Range(Bumped(s, S)) <=>
           \E r \in Range(s) :
             /\ x = IF r.id \in S THEN [r EXCEPT !.attempts = @ + 1] ELSE r
             /\ x.attempts < MaxAttempts
<1> DEFINE bump(r) == IF r.id \in S THEN [r EXCEPT !.attempts = @ + 1] ELSE r
           A == [id : Messages, attempts : 1 .. MaxAttempts, opened : BOOLEAN]
           t == [i \in DOMAIN s |-> bump(s[i])]
           R == {t[i] : i \in {j \in DOMAIN t : t[j].attempts < MaxAttempts}}
<1>0. \A r \in Row : bump(r) \in A
  <2> SUFFICES ASSUME NEW r \in Row PROVE bump(r) \in A
    OBVIOUS
  <2>1. r \in A /\ r.attempts + 1 \in 1 .. MaxAttempts
    BY AttemptsAssumption DEF Row
  <2> QED BY <2>1
<1>1. Bumped(s, S) = Only(t, R)
  BY DEF Bumped, Filter
<1>a. \A r : bump(r) = IF r.id \in S THEN [r EXCEPT !.attempts = @ + 1] ELSE r
  OBVIOUS
<1> HIDE DEF bump, A
<1>2. t \in Seq(A) /\ DOMAIN t = DOMAIN s /\ \A i \in DOMAIN s : t[i] = bump(s[i])
  BY <1>0
<1>3. \A x : x \in Range(t) => (x \in R <=> x.attempts < MaxAttempts)
  BY DEF Range
<1>4. \A x : x \in Range(t) <=> \E r \in Range(s) : x = bump(r)
  <2> HIDE DEF t
  <2> QED BY <1>2 DEF Range
<1> HIDE DEF t, R
<1>5. \A x : x \in Range(Only(t, R)) <=> x \in Range(t) /\ x \in R
  BY <1>2, FilterFacts
<1>6. \A x : x \in Range(Bumped(s, S)) <=> \E r \in Range(s) : x = bump(r) /\ x.attempts < MaxAttempts
  BY <1>1, <1>3, <1>4, <1>5
<1> QED BY <1>6, <1>a

LEMMA BumpedRetries ==
  ASSUME NEW s \in Seq(Row), OneRow(s), NEW S, S \subseteq Ids(s)
  PROVE  Retried(s, Bumped(s, S), S, {})
<1> DEFINE t == Bumped(s, S)
           worn == {x \in S : Kept(s)[x] + 1 >= MaxAttempts}
           D == Ids(s) \ (worn \union {})
           f == [m \in D |-> IF m \in S THEN Kept(s)[m] + 1 ELSE Kept(s)[m]]
<1>1. t \in Seq(Row)
  BY BumpedFacts
<1>2. \A r \in Range(s) : r \in Row /\ r.id \in Ids(s) /\ Kept(s)[r.id] = r.attempts
  <2>1. \A r \in Range(s) : r \in Row
    BY DEF Range
  <2> QED BY <2>1, KeptIs, IdsAreThose
<1>3. \A x : x \in Range(t) <=>
         \E r \in Range(s) :
           /\ x = IF r.id \in S THEN [r EXCEPT !.attempts = @ + 1] ELSE r
           /\ x.attempts < MaxAttempts
  BY BumpedRows
<1> HIDE DEF t
<1>4. ASSUME NEW r \in Row, NEW x, x = IF r.id \in S THEN [r EXCEPT !.attempts = @ + 1] ELSE r
      PROVE  x.id = r.id /\ x.attempts = IF r.id \in S THEN r.attempts + 1 ELSE r.attempts
  BY <1>4 DEF Row
<1>5. OneRow(t)
  <2> SUFFICES ASSUME NEW x \in Range(t), NEW y \in Range(t), x.id = y.id PROVE x = y
    BY DEF OneRow
  <2>1. PICK r \in Range(s) : x = IF r.id \in S THEN [r EXCEPT !.attempts = @ + 1] ELSE r
    BY <1>3
  <2>2. PICK q \in Range(s) : y = IF q.id \in S THEN [q EXCEPT !.attempts = @ + 1] ELSE q
    BY <1>3
  <2>3. r.id = q.id
    BY <1>2, <1>4, <2>1, <2>2
  <2>4. r = q
    BY <2>3 DEF OneRow
  <2> QED BY <2>1, <2>2, <2>4
<1>6. ASSUME NEW x \in Range(t)
      PROVE  x.id \in D /\ x.attempts = f[x.id]
  <2>1. PICK r \in Range(s) :
           /\ x = IF r.id \in S THEN [r EXCEPT !.attempts = @ + 1] ELSE r
           /\ x.attempts < MaxAttempts
    BY <1>3
  <2>2. /\ x.id = r.id /\ x.attempts = IF r.id \in S THEN r.attempts + 1 ELSE r.attempts
        /\ r.id \in Ids(s) /\ Kept(s)[r.id] = r.attempts /\ r.attempts \in Nat
    BY <1>2, <1>4, <2>1 DEF Row
  <2>3. x.id \notin worn
    BY <2>1, <2>2, AttemptsAssumption
  <2>4. x.id \in D
    BY <2>2, <2>3
  <2>5. f[x.id] = IF x.id \in S THEN Kept(s)[x.id] + 1 ELSE Kept(s)[x.id]
    BY <2>4
  <2> HIDE DEF D, f
  <2> QED BY <2>2, <2>4, <2>5
<1>7. ASSUME NEW m \in D PROVE m \in Ids(t)
  <2>1. PICK r \in Range(s) : r.id = m
    BY <1>7, IdsAreThose
  <2> DEFINE x == IF r.id \in S THEN [r EXCEPT !.attempts = @ + 1] ELSE r
  <2>2. /\ x.id = r.id /\ x.attempts = IF r.id \in S THEN r.attempts + 1 ELSE r.attempts
        /\ r \in Row /\ Kept(s)[r.id] = r.attempts
    BY <1>2, <1>4
  <2> HIDE DEF x
  <2>3. x.attempts < MaxAttempts
    <3>1. r.attempts \in Nat /\ r.attempts < MaxAttempts
      BY <2>2, AttemptsAssumption DEF Row
    <3>2. CASE r.id \in S
      <4>1. ~(Kept(s)[r.id] + 1 >= MaxAttempts)
        BY <1>7, <2>1, <3>2
      <4> QED BY <2>2, <3>1, <3>2, <4>1, AttemptsAssumption
    <3> QED BY <2>2, <3>1, <3>2
  <2>4. x \in Range(t)
    BY <1>3, <2>3 DEF x
  <2> QED BY <2>1, <2>2, <2>4, IdsAreThose
<1>8. Ids(t) = D
  <2>1. ASSUME NEW m \in Ids(t) PROVE m \in D
    <3>1. PICK x \in Range(t) : x.id = m
      BY IdsAreThose
    <3> QED BY <1>6, <3>1
  <2> HIDE DEF D
  <2> QED BY <1>7, <2>1
<1>9. Kept(t) = f
  <2> HIDE DEF D
  <2>1. f = [x \in D |-> f[x]]
    OBVIOUS
  <2> HIDE DEF f
  <2> QED BY <1>1, <1>5, <1>6, <1>8, <2>1, KeptFrom
<1> QED BY <1>5, <1>9 DEF Retried, t

\* Both: one row goes, and others are tried again.
LEMMA BothRetry ==
  ASSUME NEW s \in Seq(Row), OneRow(s), NEW m, NEW S, S \subseteq Ids(s) \ {m}
  PROVE  Retried(s, Bumped(Without(s, m), S), S, {m})
<1> DEFINE u == Without(s, m)
           t == Bumped(u, S)
<1>1. u \in Seq(Row) /\ Ids(u) = Ids(s) \ {m}
  BY WithoutFacts
<1>2. Retried(s, u, {}, {m})
  BY WithoutRetries
<1> HIDE DEF u
<1>3. Retried(u, t, S, {})
  BY <1>1, <1>2, BumpedRetries DEF Retried
<1> HIDE DEF t
<1>4. \A x \in Ids(u) : Kept(u)[x] = Kept(s)[x]
  BY <1>1, <1>2 DEF Retried
<1>5. Ids(u) \ ({x \in S : Kept(u)[x] + 1 >= MaxAttempts} \union {})
        = Ids(s) \ ({x \in S : Kept(s)[x] + 1 >= MaxAttempts} \union {m})
  BY <1>1, <1>4
<1>6. \A x \in Ids(u) :
        (IF x \in S THEN Kept(u)[x] + 1 ELSE Kept(u)[x]) = IF x \in S THEN Kept(s)[x] + 1 ELSE Kept(s)[x]
  BY <1>4
<1>7. Kept(t) = [x \in Ids(u) \ ({y \in S : Kept(u)[y] + 1 >= MaxAttempts} \union {}) |->
                   IF x \in S THEN Kept(u)[x] + 1 ELSE Kept(u)[x]]
  BY <1>3 DEF Retried
<1>8. Kept(t) = [x \in Ids(s) \ ({y \in S : Kept(s)[y] + 1 >= MaxAttempts} \union {m}) |->
                   IF x \in S THEN Kept(s)[x] + 1 ELSE Kept(s)[x]]
  BY <1>1, <1>5, <1>6, <1>7
<1> QED BY <1>3, <1>8 DEF Retried, t, u

\* updateCacheWithDecryptedContent
LEMMA OpenedKeeps ==
  ASSUME NEW s \in Seq(Row), OneRow(s), NEW m
  PROVE  OneRow(Opened(s, m)) /\ Kept(Opened(s, m)) = Kept(s)
<1> DEFINE t == Opened(s, m)
<1>1. t \in Seq(Row) /\ Ids(t) = Ids(s)
  BY OpenedFacts
<1>2. DOMAIN t = DOMAIN s /\ \A i \in DOMAIN s : t[i] = [s[i] EXCEPT !.opened = @ \/ s[i].id = m]
  BY DEF Opened
<1> HIDE DEF t
<1>3. \A x \in Range(t) : \E r \in Range(s) : x = [r EXCEPT !.opened = @ \/ r.id = m]
  BY <1>2 DEF Range
<1>4. \A r \in Range(s) : r \in Row
  BY DEF Range
<1>5. \A r \in Row : /\ [r EXCEPT !.opened = @ \/ r.id = m].id = r.id
                     /\ [r EXCEPT !.opened = @ \/ r.id = m].attempts = r.attempts
  BY DEF Row
<1>6. OneRow(t)
  <2> SUFFICES ASSUME NEW x \in Range(t), NEW y \in Range(t), x.id = y.id PROVE x = y
    BY DEF OneRow
  <2>1. PICK r \in Range(s) : x = [r EXCEPT !.opened = @ \/ r.id = m]
    BY <1>3
  <2>2. PICK q \in Range(s) : y = [q EXCEPT !.opened = @ \/ q.id = m]
    BY <1>3
  <2>3. r.id = q.id
    BY <1>4, <1>5, <2>1, <2>2
  <2>4. r = q
    BY <2>3 DEF OneRow
  <2> QED BY <2>1, <2>2, <2>4
<1>7. ASSUME NEW x \in Range(t) PROVE x.attempts = Kept(s)[x.id]
  <2>1. PICK r \in Range(s) : x = [r EXCEPT !.opened = @ \/ r.id = m]
    BY <1>3
  <2>2. x.id = r.id /\ x.attempts = r.attempts
    BY <1>4, <1>5, <2>1
  <2> QED BY <2>2, KeptIs
<1>8. Kept(s) = [x \in Ids(s) |-> Kept(s)[x]]
  BY DEF Kept
<1>9. Kept(t) = Kept(s)
  BY <1>1, <1>6, <1>7, <1>8, KeptFrom
<1> QED BY <1>6, <1>9 DEF t

\* addToCache
LEMMA AppendKeeps ==
  ASSUME NEW s \in Seq(Row), OneRow(s), NEW r \in Row, r.id \notin Ids(s), r.attempts = 1
  PROVE  /\ OneRow(Append(s, r))
         /\ Kept(Append(s, r)) =
              [k \in Ids(s) \union {r.id} |-> IF k = r.id THEN 1 ELSE Kept(s)[k]]
<1> DEFINE t == Append(s, r)
           D == Ids(s) \union {r.id}
           f == [k \in D |-> IF k = r.id THEN 1 ELSE Kept(s)[k]]
<1>1. t \in Seq(Row) /\ Ids(t) = D /\ Range(t) = Range(s) \union {r}
  BY AppendFacts, RangeOfAppend
<1> HIDE DEF t
<1>2. \A x \in Range(s) : x.id # r.id /\ x.id \in D
  BY IdsAreThose
<1>3. OneRow(t)
  BY <1>1, <1>2 DEF OneRow
<1>4. \A x \in Range(t) : x.attempts = f[x.id]
  BY <1>1, <1>2, KeptIs
<1>5. Kept(t) = f
  <2>1. f = [x \in D |-> f[x]]
    OBVIOUS
  <2> HIDE DEF D, f
  <2> QED BY <1>1, <1>3, <1>4, <2>1, KeptFrom
<1> QED BY <1>3, <1>5 DEF t

\* What is in hand was handed over; what waits to be stored was given to the bot, and
\* what is to be confirmed is stored; the row of a control message stores nothing.
Handed == fresh \intersect (Ids(rows) \union Ids(queue) \union {t.id : t \in tasks}) = {}

TaskInOrder(t) ==
  /\ t.step # "opened" => t.id \in emitted
  /\ t.step \in {"joining", "new key", "known key", "invited"} => Kind[t.id] \in {"key", "invite"}

JobInOrder(j) ==
  j.id \in Storable \intersect emitted /\ (j.step = "confirm" => stored[j.id] > 0)

InOrder ==
  /\ \A t \in tasks : TaskInOrder(t)
  /\ \A c \in Chats : Range(jobs[c]) \subseteq Storable \intersect emitted
  /\ \A j \in saving : JobInOrder(j)

InboxInv == TypeInv /\ OneRow(rows) /\ Handed /\ InOrder

\* The variables of DurableInbox.
Placed == {m \in Messages : stored[m] > 0}
Seen == <<fresh, Kept(rows), emitted, Placed>>

\* A step that hands over nothing and takes nothing back.
LEMMA InHandKept ==
  ASSUME InboxInv, TypeInv', OneRow(rows'), fresh' = fresh, emitted \subseteq emitted',
         \A m \in Messages : stored[m] > 0 => stored'[m] > 0,
         Ids(rows') \subseteq Ids(rows), Ids(queue') \subseteq Ids(queue) \union Ids(rows),
         \A t \in tasks' : t \in tasks \/ (t.id \notin fresh /\ TaskInOrder(t)'),
         \A c \in Chats, m \in Messages :
           m \in Range(jobs'[c]) => m \in Range(jobs[c]) \/ m \in Storable \intersect emitted',
         \A j \in saving' : j \in saving \/ JobInOrder(j)'
  PROVE  InboxInv'
<1>1. Handed'
  BY DEF InboxInv, Handed
<1>2. ASSUME NEW t \in tasks' PROVE TaskInOrder(t)'
  BY <1>2 DEF InboxInv, InOrder, TaskInOrder
<1>3. ASSUME NEW c \in Chats PROVE Range(jobs'[c]) \subseteq Storable \intersect emitted'
  <2>1. Range(jobs'[c]) \subseteq Messages
    BY DEF TypeInv, TypeOK, Range
  <2> QED BY <2>1 DEF InboxInv, InOrder
<1>4. ASSUME NEW j \in saving' PROVE JobInOrder(j)'
  BY <1>4 DEF InboxInv, InOrder, JobInOrder, Storable
<1> QED BY <1>1, <1>2, <1>3, <1>4 DEF InboxInv, InOrder

\* ... nor changes what the inbox shows, the table, the queue or the jobs.
LEMMA TasksMove ==
  ASSUME InboxInv, TypeInv', UNCHANGED <<fresh, rows, stored, jobs, saving>>,
         Ids(queue') \subseteq Ids(queue), emitted \subseteq emitted',
         \A t \in tasks' : t \in tasks \/ (t.id \notin fresh /\ TaskInOrder(t)')
  PROVE  InboxInv'
<1>1. OneRow(rows')
  BY DEF InboxInv
<1> QED BY <1>1, InHandKept

LEMMA Unseen ==
  ASSUME UNCHANGED <<fresh, rows, emitted, stored>>
  PROVE  [Inbox!Next]_Seen
BY DEF Seen, Placed

\* Some rows are tried again, and one message may go.
LEMMA SeenRetry ==
  ASSUME rows \in Seq(Row), OneRow(rows), NEW S, NEW m, m \in Messages,
         S \subseteq Ids(rows) \ {m}, Retried(rows, rows', S, {m}),
         stored[m] > 0 \/ m \notin Storable, UNCHANGED <<fresh, emitted, stored>>
  PROVE  [Inbox!Next]_Seen
<1> DEFINE K == Kept(rows)
<1>0. UNCHANGED Placed
  BY DEF Placed
<1>1. Kept(rows') = [x \in Ids(rows) \ ({y \in S : K[y] + 1 >= MaxAttempts} \union {m}) |->
                       IF x \in S THEN K[x] + 1 ELSE K[x]]
  BY DEF Retried
<1>2. DOMAIN K = Ids(rows)
  BY KeptIs
<1>3. CASE m \in Ids(rows)
  <2>1. {m} \subseteq Placed \union (Messages \ Storable)
    BY DEF Placed
  <2>2. Inbox!Retry(S, {m})
    BY <1>0, <1>1, <1>2, <2>1 DEF Inbox!Retry, Kept, Ids, Cached, Placed
  <2>3. S \in SUBSET (DOMAIN K \ {m}) /\ m \in DOMAIN K
    BY <1>2, <1>3
  <2> QED BY <2>2, <2>3 DEF Inbox!Next, Kept, Ids, Cached
<1>4. CASE m \notin Ids(rows)
  <2>1. Ids(rows) \ ({y \in S : K[y] + 1 >= MaxAttempts} \union {m})
          = Ids(rows) \ ({y \in S : K[y] + 1 >= MaxAttempts} \union {})
    BY <1>4
  <2>2. Inbox!Retry(S, {})
    BY <1>0, <1>1, <1>2, <2>1 DEF Inbox!Retry, Kept, Ids, Cached, Placed
  <2>3. S \in SUBSET DOMAIN K
    BY <1>2
  <2> QED BY <2>2, <2>3 DEF Inbox!Next, Kept, Ids, Cached
<1> QED BY <1>3, <1>4

LEMMA SeenRetryAll ==
  ASSUME rows \in Seq(Row), OneRow(rows), NEW S, S \subseteq Ids(rows),
         Retried(rows, rows', S, {}), UNCHANGED <<fresh, emitted, stored>>
  PROVE  [Inbox!Next]_Seen
<1> DEFINE K == Kept(rows)
<1>0. UNCHANGED Placed
  BY DEF Placed
<1>1. Kept(rows') = [x \in Ids(rows) \ ({y \in S : K[y] + 1 >= MaxAttempts} \union {}) |->
                       IF x \in S THEN K[x] + 1 ELSE K[x]]
  BY DEF Retried
<1>2. DOMAIN K = Ids(rows)
  BY KeptIs
<1>3. Inbox!Retry(S, {})
  BY <1>0, <1>1, <1>2 DEF Inbox!Retry, Kept, Ids, Cached, Placed
<1>4. S \in SUBSET DOMAIN K
  BY <1>2
<1> QED BY <1>3, <1>4 DEF Inbox!Next, Kept, Ids, Cached

\* A row goes because its message is stored, or is not one to store.
LEMMA RowGoes ==
  ASSUME InboxInv, NEW m \in Messages, rows' = Without(rows, m),
         stored[m] > 0 \/ m \notin Storable, UNCHANGED <<fresh, emitted, stored>>
  PROVE  OneRow(rows') /\ Ids(rows') \subseteq Ids(rows) /\ [Inbox!Next]_Seen
<1>1. rows \in Seq(Row) /\ OneRow(rows)
  BY DEF InboxInv, TypeInv, TypeOK
<1>2. Retried(rows, rows', {}, {m}) /\ Ids(rows') \subseteq Ids(rows)
  BY <1>1, WithoutRetries, WithoutFacts
<1>3. [Inbox!Next]_Seen
  BY <1>1, <1>2, SeenRetry
<1> QED BY <1>2, <1>3 DEF Retried

LEMMA InboxHandOver ==
  ASSUME InboxInv, TypeInv', NEW m \in Messages, HandleRequest(m)
  PROVE  InboxInv' /\ [Inbox!Next]_Seen
<1> DEFINE r == [id |-> m, attempts |-> 1, opened |-> FALSE]
           e == [id |-> m, opened |-> FALSE]
<1>1. /\ rows \in Seq(Row) /\ queue \in Seq(Envelope) /\ OneRow(rows)
      /\ m \in fresh /\ m \notin Ids(rows)
      /\ r \in Row /\ r.id = m /\ r.attempts = 1 /\ e \in Envelope /\ e.id = m
  BY AttemptsAssumption DEF InboxInv, TypeInv, TypeOK, Handed, HandleRequest, Row, Envelope
<1>2. /\ fresh' = fresh \ {m} /\ rows' = Append(rows, r) /\ queue' = Append(queue, e)
      /\ UNCHANGED <<emitted, stored, tasks, jobs, saving>>
  BY DEF HandleRequest
<1> HIDE DEF r, e
<1>3. Ids(rows') = Ids(rows) \union {m} /\ Ids(queue') = Ids(queue) \union {m}
  BY <1>1, <1>2, AppendFacts
<1>4. OneRow(rows') /\ Kept(rows') = [k \in Ids(rows) \union {m} |-> IF k = m THEN 1 ELSE Kept(rows)[k]]
  <2>1. /\ OneRow(Append(rows, r))
        /\ Kept(Append(rows, r)) =
             [k \in Ids(rows) \union {r.id} |-> IF k = r.id THEN 1 ELSE Kept(rows)[k]]
    <3>1. r.id \notin Ids(rows)
      BY <1>1
    <3> QED BY <1>1, <3>1, AppendKeeps
  <2> QED BY <1>1, <1>2, <2>1
<1>5. Handed'
  BY <1>2, <1>3 DEF InboxInv, Handed
<1>6. InOrder'
  BY <1>2 DEF InboxInv, InOrder, TaskInOrder, JobInOrder
<1>7. DOMAIN Kept(rows) = Ids(rows)
  BY <1>1, KeptIs
<1>8. Inbox!Accept(m)
  BY <1>1, <1>2, <1>4, <1>7 DEF Inbox!Accept, Kept, Ids, Cached
<1>9. [Inbox!Next]_Seen
  BY <1>8 DEF Inbox!Next
<1> QED BY <1>4, <1>5, <1>6, <1>9 DEF InboxInv

LEMMA InboxQueueAll ==
  ASSUME InboxInv, TypeInv', QueueAllCached \/ \E g \in Groups : MergeLegacyGroup(g)
  PROVE  InboxInv' /\ [Inbox!Next]_Seen
<1>1. rows \in Seq(Row) /\ queue \in Seq(Envelope) /\ OneRow(rows) /\ Cached = Ids(rows)
  BY DEF InboxInv, TypeInv, TypeOK, Cached, Ids
<1>2. PICK S : /\ S \subseteq Ids(rows)
               /\ rows' = Bumped(rows, S) /\ queue' = queue \o Requeued(rows, S)
  <2>1. FromSource(Ids(rows)) \subseteq Ids(rows)
    BY DEF FromSource
  <2>2. CASE QueueAllCached
    BY <1>1, <2>2 DEF QueueAllCached
  <2>3. CASE \E g \in Groups : MergeLegacyGroup(g)
    BY <2>1, <2>3 DEF MergeLegacyGroup, QueueAllCachedFromSource, Ids
  <2> QED BY <2>2, <2>3
<1>3. UNCHANGED <<fresh, stored, emitted, tasks, jobs, saving>>
  BY DEF QueueAllCached, MergeLegacyGroup
<1>4. Retried(rows, rows', S, {}) /\ Ids(rows') \subseteq Ids(rows)
  BY <1>1, <1>2, BumpedRetries, BumpedFacts
<1>5. [Inbox!Next]_Seen
  BY <1>1, <1>2, <1>3, <1>4, SeenRetryAll
<1>6. Ids(queue') \subseteq Ids(queue) \union Ids(rows)
  <2>1. Requeued(rows, S) \in Seq(Envelope) /\ Ids(Requeued(rows, S)) = Ids(rows) \intersect S
    BY <1>1, RequeuedFacts
  <2> QED BY <1>1, <1>2, <2>1, ConcatFacts
<1>7. InboxInv'
  BY <1>3, <1>4, <1>6, InHandKept DEF Retried
<1> QED BY <1>5, <1>7

LEMMA InboxDecrypt ==
  ASSUME InboxInv, TypeInv', Decrypt
  PROVE  InboxInv' /\ [Inbox!Next]_Seen
<1> PICK e : e = Head(queue)
  OBVIOUS
<1> PICK t : t = [id |-> e.id, late |-> FALSE, step |-> "opened"]
  OBVIOUS
<1>1. /\ rows \in Seq(Row) /\ queue \in Seq(Envelope) /\ OneRow(rows) /\ queue # <<>>
      /\ queue' = Tail(queue) /\ UNCHANGED <<fresh, emitted, stored, jobs, saving>>
  BY DEF InboxInv, TypeInv, TypeOK, Decrypt
<1>2. e \in Envelope /\ e.id \in Messages /\ Ids(queue) = {e.id} \union Ids(queue')
  <2>1. e \in Envelope
    BY <1>1, TailFacts
  <2> QED BY <1>1, <2>1, TailFacts DEF Envelope
<1>3. t.id = e.id /\ t.step = "opened" /\ e.id \notin fresh
  BY <1>2 DEF InboxInv, Handed
<1>4. \/ rows' = Without(rows, e.id) /\ Kind[e.id] = "junk" /\ UNCHANGED tasks
      \/ rows' \in {rows, Opened(rows, e.id)} /\ tasks' \in {tasks, tasks \union {t}}
  BY DEF Decrypt
<1>5. TaskInOrder(t)'
  BY <1>3 DEF TaskInOrder
<1>6. CASE rows' = Without(rows, e.id) /\ Kind[e.id] = "junk" /\ UNCHANGED tasks
  <2>1. e.id \notin Storable
    BY <1>6 DEF Storable
  <2>2. OneRow(rows') /\ Ids(rows') \subseteq Ids(rows) /\ [Inbox!Next]_Seen
    BY <1>1, <1>2, <1>6, <2>1, RowGoes
  <2>3. Ids(queue') \subseteq Ids(queue) \union Ids(rows)
    BY <1>2
  <2>4. InboxInv'
    BY <1>1, <1>6, <2>2, <2>3, InHandKept
  <2> QED BY <2>2, <2>4
<1>7. CASE rows' \in {rows, Opened(rows, e.id)} /\ tasks' \in {tasks, tasks \union {t}}
  <2>1. OneRow(rows') /\ Kept(rows') = Kept(rows) /\ Ids(rows') = Ids(rows)
    BY <1>1, <1>7, OpenedKeeps, OpenedFacts
  <2>2. \A u \in tasks' : u \in tasks \/ (u.id \notin fresh /\ TaskInOrder(u)')
    BY <1>3, <1>5, <1>7
  <2>3. Ids(queue') \subseteq Ids(queue) \union Ids(rows) /\ Ids(rows') \subseteq Ids(rows)
    BY <1>2, <2>1
  <2>4. InboxInv'
    BY <1>1, <2>1, <2>2, <2>3, InHandKept
  <2>5. UNCHANGED Seen
    BY <1>1, <2>1 DEF Seen, Placed
  <2> QED BY <2>4, <2>5
<1> QED BY <1>4, <1>6, <1>7

\* A task goes from a step to the next, or ends.
LEMMA TaskGoesOn ==
  ASSUME InboxInv, NEW t \in tasks,
         End(t) \/ \E s \in {"opened", "handling", "joining", "new key", "known key", "invited"} :
                     /\ Advance(t, s)
                     /\ s # "opened" => t.id \in emitted'
                     /\ s \notin {"opened", "handling"} => Kind[t.id] \in {"key", "invite"}
  PROVE  \A u \in tasks' : u \in tasks \/ (u.id \notin fresh /\ TaskInOrder(u)')
<1>1. t.id \notin fresh /\ t \in Task
  <2>1. t.id \in {u.id : u \in tasks}
    OBVIOUS
  <2> QED BY <2>1 DEF InboxInv, Handed, TypeInv, TypeOK
<1>2. ASSUME NEW s \in {"opened", "handling", "joining", "new key", "known key", "invited"},
             Advance(t, s), s # "opened" => t.id \in emitted',
             s \notin {"opened", "handling"} => Kind[t.id] \in {"key", "invite"},
             NEW u \in tasks', u \notin tasks
      PROVE  u.id \notin fresh /\ TaskInOrder(u)'
  <2>1. u = [t EXCEPT !.step = s]
    BY <1>2 DEF Advance
  <2>2. u.id = t.id /\ u.step = s
    BY <1>1, <2>1, TaskStepType
  <2>3. u.step # "opened" => u.id \in emitted'
    BY <1>2, <2>2
  <2>4. u.step \in {"joining", "new key", "known key", "invited"} => Kind[u.id] \in {"key", "invite"}
    BY <1>2, <2>2
  <2>5. u.id \notin fresh
    BY <1>1, <2>2
  <2> QED BY <2>3, <2>4, <2>5 DEF TaskInOrder
<1>3. CASE End(t)
  BY <1>3 DEF End
<1>4. CASE \E s \in {"opened", "handling", "joining", "new key", "known key", "invited"} :
             /\ Advance(t, s)
             /\ s # "opened" => t.id \in emitted'
             /\ s \notin {"opened", "handling"} => Kind[t.id] \in {"key", "invite"}
  <2>1. PICK s \in {"opened", "handling", "joining", "new key", "known key", "invited"} :
          /\ Advance(t, s)
          /\ s # "opened" => t.id \in emitted'
          /\ s \notin {"opened", "handling"} => Kind[t.id] \in {"key", "invite"}
    BY <1>4
  <2> SUFFICES ASSUME NEW u \in tasks', u \notin tasks PROVE u.id \notin fresh /\ TaskInOrder(u)'
    OBVIOUS
  <2> QED BY <1>2, <2>1
<1> QED BY <1>3, <1>4

LEMMA InboxTaskStep ==
  ASSUME InboxInv, TypeInv', NEW t \in tasks, TaskStep(t)
  PROVE  InboxInv' /\ [Inbox!Next]_Seen
<1>1. /\ rows \in Seq(Row) /\ queue \in Seq(Envelope) /\ OneRow(rows)
      /\ t \in Task /\ t.id \in Messages /\ TaskInOrder(t) /\ t.id \notin fresh
      /\ jobs \in [Chats -> Seq(Messages)]
  <2>1. t.id \in {u.id : u \in tasks}
    OBVIOUS
  <2>2. t.id \notin fresh
    BY <2>1 DEF InboxInv, Handed
  <2> QED BY <2>2 DEF InboxInv, TypeInv, TypeOK, Task, InOrder
<1> DEFINE Moved == \A u \in tasks' : u \in tasks \/ (u.id \notin fresh /\ TaskInOrder(u)')
<1>2. CASE Emit(t)
  <2>1. UNCHANGED <<fresh, rows, stored, queue, jobs, saving>>
        /\ emitted' \in {emitted, emitted \union {t.id}}
    BY <1>2 DEF Emit
  <2>2. Moved
    BY <1>2, TaskGoesOn DEF Emit
  <2>3. InboxInv'
    BY <2>1, <2>2, TasksMove
  <2>4. CASE emitted' = emitted \union {t.id}
    <3>1. UNCHANGED <<Kept(rows), Placed>>
      BY <2>1 DEF Placed
    <3>2. Inbox!Give(t.id)
      BY <1>1, <2>1, <2>4, <3>1 DEF Inbox!Give, Kept, Ids, Cached, Placed
    <3>3. Inbox!Next
      BY <1>1, <3>2 DEF Inbox!Next
    <3> QED BY <2>3, <3>3
  <2>5. CASE emitted' = emitted
    BY <2>1, <2>3, <2>5, Unseen
  <2> QED BY <2>1, <2>4, <2>5
<1>3. CASE HandleSwarmMessage(t)
  <2> DEFINE c == Chat[t.id]
  <2>1. /\ UNCHANGED <<fresh, rows, stored, emitted, queue, saving>> /\ c \in Chats
        /\ t.id \in Storable /\ t.id \in emitted
        /\ jobs' = [jobs EXCEPT ![c] = Append(@, t.id)] /\ End(t)
    BY <1>1, <1>3, ChatAssumption DEF HandleSwarmMessage, durable, TaskInOrder
  <2>2. Moved
    BY <2>1, TaskGoesOn
  <2> HIDE DEF c
  <2>3. ASSUME NEW d \in Chats, NEW m \in Messages, m \in Range(jobs'[d])
        PROVE  m \in Range(jobs[d]) \/ m \in Storable \intersect emitted'
    <3>1. CASE d # c
      BY <1>1, <2>1, <2>3, <3>1
    <3>2. CASE d = c
      <4>1. jobs'[d] = Append(jobs[d], t.id) /\ jobs[d] \in Seq(Messages)
        BY <1>1, <2>1, <3>2
      <4>2. Range(jobs'[d]) = Range(jobs[d]) \union {t.id}
        BY <1>1, <4>1, RangeOfAppend
      <4> QED BY <2>1, <2>3, <4>2
    <3> QED BY <3>1, <3>2
  <2>4. InboxInv'
    BY <1>1, <2>1, <2>2, <2>3, InHandKept
  <2> QED BY <2>1, <2>4, Unseen
<1>4. CASE HandleOther(t)
  <2>1. /\ UNCHANGED <<fresh, stored, emitted, queue, jobs, saving>> /\ End(t)
        /\ rows' = rows \/ (rows' = Without(rows, t.id) /\ t.id \notin Storable)
    BY <1>4 DEF HandleOther, Storable
  <2>2. Moved
    BY <2>1, TaskGoesOn
  <2>3. CASE rows' = rows
    BY <2>1, <2>2, <2>3, TasksMove, Unseen
  <2>4. CASE rows' = Without(rows, t.id) /\ t.id \notin Storable
    <3>1. OneRow(rows') /\ Ids(rows') \subseteq Ids(rows) /\ [Inbox!Next]_Seen
      BY <1>1, <2>1, <2>4, RowGoes
    <3>2. InboxInv'
      BY <2>1, <2>2, <3>1, InHandKept
    <3> QED BY <3>1, <3>2
  <2> QED BY <2>1, <2>3, <2>4
<1>5. CASE HandleClosedGroupEncryptionKeyPair(t)
  <2>1. /\ UNCHANGED <<fresh, stored, emitted, queue, jobs, saving>>
        /\ Kind[t.id] = "key" /\ t.id \notin Storable /\ t.id \in emitted
        /\ \/ rows' = Without(rows, t.id) /\ End(t)
           \/ rows' = rows /\ \E s \in {"known key", "new key"} : Advance(t, s)
    BY <1>1, <1>5 DEF HandleClosedGroupEncryptionKeyPair, Storable, TaskInOrder
  <2>2. Moved
    BY <2>1, TaskGoesOn
  <2>3. CASE rows' = rows
    BY <2>1, <2>2, <2>3, TasksMove, Unseen
  <2>4. CASE rows' = Without(rows, t.id)
    <3>1. OneRow(rows') /\ Ids(rows') \subseteq Ids(rows) /\ [Inbox!Next]_Seen
      BY <1>1, <2>1, <2>4, RowGoes
    <3>2. InboxInv'
      BY <2>1, <2>2, <3>1, InHandKept
    <3> QED BY <3>1, <3>2
  <2> QED BY <2>1, <2>3, <2>4
<1>6. CASE HandleNewClosedGroup(t) \/ AddKeyPair(t)
  <2>1. /\ UNCHANGED <<fresh, rows, stored, emitted, queue, jobs, saving>>
        /\ Kind[t.id] \in {"key", "invite"} /\ t.id \in emitted
        /\ \E s \in {"joining", "new key", "invited"} : Advance(t, s)
    BY <1>1, <1>6 DEF HandleNewClosedGroup, AddKeyPair, TaskInOrder
  <2>2. Moved
    BY <2>1, TaskGoesOn
  <2> QED BY <2>1, <2>2, TasksMove, Unseen
<1>7. CASE FinishKeyPair(t)
  <2> DEFINE w == Without(rows, t.id)
             S == FromSource(Ids(w))
  <2>1. /\ UNCHANGED <<fresh, stored, emitted, jobs, saving>> /\ End(t)
        /\ Kind[t.id] \in {"key", "invite"} /\ t.id \notin Storable
        /\ \/ rows' = w /\ queue' = queue
           \/ rows' = Bumped(w, S) /\ queue' = queue \o Requeued(w, S)
    BY <1>1, <1>7 DEF FinishKeyPair, QueueAllCachedFromSource, Ids, TaskInOrder, Storable
  <2>2. Moved
    BY <2>1, TaskGoesOn
  <2>3. w \in Seq(Row) /\ Ids(w) = Ids(rows) \ {t.id} /\ S \subseteq Ids(rows) \ {t.id}
    BY <1>1, WithoutFacts DEF FromSource
  <2>4. CASE rows' = w /\ queue' = queue
    <3>1. OneRow(rows') /\ Ids(rows') \subseteq Ids(rows) /\ [Inbox!Next]_Seen
      BY <1>1, <2>1, <2>4, RowGoes
    <3>2. InboxInv'
      BY <2>1, <2>2, <2>4, <3>1, InHandKept
    <3> QED BY <3>1, <3>2
  <2>5. CASE rows' = Bumped(w, S) /\ queue' = queue \o Requeued(w, S)
    <3>1. Retried(rows, rows', S, {t.id})
      BY <1>1, <2>3, <2>5, BothRetry
    <3> HIDE DEF w, S
    <3>2. [Inbox!Next]_Seen
      BY <1>1, <2>1, <2>3, <3>1, SeenRetry
    <3>3. Ids(rows') \subseteq Ids(rows)
      BY <2>3, <2>5, BumpedFacts
    <3>4. Ids(queue') \subseteq Ids(queue) \union Ids(rows)
      <4>1. Requeued(w, S) \in Seq(Envelope) /\ Ids(Requeued(w, S)) = Ids(w) \intersect S
        BY <2>3, RequeuedFacts
      <4> QED BY <1>1, <2>3, <2>5, <4>1, ConcatFacts
    <3>5. InboxInv'
      BY <2>1, <2>2, <3>1, <3>3, <3>4, InHandKept DEF Retried
    <3> QED BY <3>2, <3>5
  <2> QED BY <2>1, <2>4, <2>5
<1> QED BY <1>2, <1>3, <1>4, <1>5, <1>6, <1>7 DEF TaskStep

LEMMA InboxTaskEnds ==
  ASSUME InboxInv, TypeInv', NEW t \in tasks, TaskFails(t) \/ TaskTimesOut(t)
  PROVE  InboxInv' /\ [Inbox!Next]_Seen
<1>1. UNCHANGED <<fresh, rows, stored, emitted, queue, jobs, saving>>
  BY DEF TaskFails, TaskTimesOut, durable
<1>2. t \in Task /\ TaskInOrder(t) /\ t.id \notin fresh
  BY DEF InboxInv, TypeInv, TypeOK, InOrder, Handed
<1>3. ASSUME NEW u \in tasks' PROVE u \in tasks \/ (u.id \notin fresh /\ TaskInOrder(u)')
  <2>1. u \in tasks \/ u = [t EXCEPT !.late = TRUE]
    BY <1>3 DEF TaskFails, TaskTimesOut, End
  <2> QED BY <1>1, <1>2, <2>1, TaskLateType DEF TaskInOrder
<1> QED BY <1>1, <1>3, TasksMove, Unseen

LEMMA InboxCheck ==
  ASSUME InboxInv, TypeInv', NEW c \in Chats, CheckDuplicate(c)
  PROVE  InboxInv' /\ [Inbox!Next]_Seen
<1> DEFINE m == Head(jobs[c])
           j == [id |-> m, late |-> FALSE, step |-> "save"]
<1>1. /\ jobs \in [Chats -> Seq(Messages)] /\ jobs[c] \in Seq(Messages) /\ jobs[c] # <<>>
      /\ jobs' = [jobs EXCEPT ![c] = Tail(@)] /\ OneRow(rows)
      /\ UNCHANGED <<fresh, stored, emitted, queue, tasks>>
  BY DEF CheckDuplicate, InboxInv, TypeInv, TypeOK
<1>2. m \in Messages /\ m \in Range(jobs[c]) /\ Range(Tail(jobs[c])) \subseteq Range(jobs[c])
  <2>1. m = jobs[c][1] /\ 1 \in DOMAIN jobs[c] /\ m \in Messages
    BY <1>1
  <2>2. \A i \in DOMAIN Tail(jobs[c]) : i + 1 \in DOMAIN jobs[c] /\ Tail(jobs[c])[i] = jobs[c][i + 1]
    BY <1>1
  <2> QED BY <2>1, <2>2 DEF Range
<1>3. m \in Storable \intersect emitted
  BY <1>2 DEF InboxInv, InOrder
<1>4. \/ stored[m] > 0 /\ rows' = Without(rows, m) /\ saving' = saving
      \/ rows' = rows /\ saving' = saving \union {j}
  BY DEF CheckDuplicate
<1>5. j.id = m /\ j.step = "save"
  OBVIOUS
<1> HIDE DEF m, j
<1>6. \A d \in Chats : Range(jobs'[d]) \subseteq Range(jobs[d])
  BY <1>1, <1>2
<1>7. \A k \in saving' : k \in saving \/ JobInOrder(k)'
  BY <1>1, <1>3, <1>4, <1>5 DEF JobInOrder
<1>8. CASE rows' = rows
  BY <1>1, <1>6, <1>7, <1>8, InHandKept, Unseen
<1>9. CASE stored[m] > 0 /\ rows' = Without(rows, m)
  <2>1. OneRow(rows') /\ Ids(rows') \subseteq Ids(rows) /\ [Inbox!Next]_Seen
    BY <1>1, <1>2, <1>9, RowGoes
  <2>2. InboxInv'
    BY <1>1, <1>6, <1>7, <2>1, InHandKept
  <2> QED BY <2>1, <2>2
<1> QED BY <1>4, <1>8, <1>9

LEMMA InboxJobStep ==
  ASSUME InboxInv, TypeInv', NEW j \in saving, JobStep(j) \/ JobFails(j) \/ JobTimesOut(j)
  PROVE  InboxInv' /\ [Inbox!Next]_Seen
<1>1. /\ j \in Job /\ j.id \in Messages /\ JobInOrder(j) /\ OneRow(rows)
      /\ stored \in [Messages -> Nat]
      /\ UNCHANGED <<fresh, emitted, queue, tasks, jobs>>
  BY DEF InboxInv, TypeInv, TypeOK, InOrder, Job, JobStep, JobFails, JobTimesOut, CommitMessage,
         Confirm, durable
<1>2. CASE CommitMessage(j)
  <2> DEFINE k == [j EXCEPT !.step = "confirm"]
  <2>1. /\ stored' = [stored EXCEPT ![j.id] = @ + 1] /\ UNCHANGED rows
        /\ saving' = (saving \ {j}) \union {k}
    BY <1>2 DEF CommitMessage
  <2>2. k.id = j.id /\ k.step = "confirm"
    BY <1>1, LaterJob
  <2> HIDE DEF k
  <2>3. stored'[j.id] > 0 /\ \A m \in Messages : m # j.id => stored'[m] = stored[m]
    BY <1>1, <2>1
  <2>4. JobInOrder(k)'
    BY <1>1, <2>2, <2>3 DEF JobInOrder
  <2>5. InboxInv'
    BY <1>1, <2>1, <2>3, <2>4, InHandKept
  <2>6. Placed' = Placed \union {j.id}
    BY <1>1, <2>3 DEF Placed
  <2>7. Inbox!Store(j.id)
    BY <1>1, <2>1, <2>6 DEF Inbox!Store, JobInOrder, Kept, Ids, Cached, Placed
  <2>8. Inbox!Next
    BY <1>1, <2>7 DEF Inbox!Next
  <2> QED BY <2>5, <2>8
<1>3. CASE Confirm(j)
  <2>1. rows' = Without(rows, j.id) /\ saving' = saving \ {j} /\ UNCHANGED stored /\ stored[j.id] > 0
    BY <1>1, <1>3 DEF Confirm, JobInOrder
  <2>2. OneRow(rows') /\ Ids(rows') \subseteq Ids(rows) /\ [Inbox!Next]_Seen
    BY <1>1, <2>1, RowGoes
  <2>3. InboxInv'
    BY <1>1, <2>1, <2>2, InHandKept
  <2> QED BY <2>2, <2>3
<1>4. CASE JobFails(j) \/ JobTimesOut(j)
  <2>1. UNCHANGED <<rows, stored>>
        /\ (saving' = saving \ {j} \/ saving' = (saving \ {j}) \union {[j EXCEPT !.late = TRUE]})
    BY <1>4 DEF JobFails, JobTimesOut, durable
  <2>2. [j EXCEPT !.late = TRUE].id = j.id /\ [j EXCEPT !.late = TRUE].step = j.step
    BY <1>1 DEF Job
  <2>3. \A k \in saving' : k \in saving \/ JobInOrder(k)'
    BY <1>1, <2>1, <2>2 DEF JobInOrder
  <2>4. InboxInv'
    BY <1>1, <2>1, <2>3, InHandKept
  <2> QED BY <1>1, <2>1, <2>4, Unseen
<1> QED BY <1>2, <1>3, <1>4 DEF JobStep

LEMMA InboxInit == Init => InboxInv /\ Inbox!Init
<1> SUFFICES ASSUME Init PROVE InboxInv /\ Inbox!Init
  OBVIOUS
<1>1. Ids(rows) = {} /\ Ids(queue) = {} /\ tasks = {} /\ saving = {} /\ Range(rows) = {}
  BY DEF Init, Ids, Range
<1>2. Handed /\ OneRow(rows) /\ InOrder
  BY <1>1 DEF Handed, OneRow, InOrder, Init, Range
<1>3. Inbox!Init
  BY <1>1 DEF Init, Inbox!Init, Cached, Ids
<1> QED BY <1>2, <1>3, TypeInit DEF InboxInv

LEMMA InboxStep ==
  ASSUME InboxInv, [Next]_vars
  PROVE  InboxInv' /\ [Inbox!Next]_Seen
<1>0. TypeInv'
  BY TypeStep DEF InboxInv
<1>1. CASE \E m \in Messages : HandleRequest(m)
  BY <1>0, <1>1, InboxHandOver
<1>2. CASE QueueAllCached \/ \E g \in Groups : MergeLegacyGroup(g)
  BY <1>0, <1>2, InboxQueueAll
<1>3. CASE Decrypt
  BY <1>0, <1>3, InboxDecrypt
<1>4. CASE \E t \in tasks : TaskStep(t) \/ TaskFails(t) \/ TaskTimesOut(t)
  BY <1>0, <1>4, InboxTaskStep, InboxTaskEnds
<1>5. CASE \E c \in Chats : CheckDuplicate(c)
  BY <1>0, <1>5, InboxCheck
<1>6. CASE \E j \in saving : JobStep(j) \/ JobFails(j) \/ JobTimesOut(j)
  BY <1>0, <1>6, InboxJobStep
<1>7. CASE Crash
  <2>1. /\ UNCHANGED <<fresh, rows, stored, emitted>> /\ queue' = <<>> /\ tasks' = {} /\ saving' = {}
        /\ jobs' = [c \in Chats |-> <<>>]
    BY <1>7 DEF Crash, durable
  <2>2. Ids(queue') = {} /\ \A c \in Chats : Range(jobs'[c]) = {}
    BY <2>1 DEF Ids, Range
  <2>3. OneRow(rows')
    BY <2>1 DEF InboxInv
  <2>4. InboxInv'
    BY <1>0, <2>1, <2>2, <2>3, InHandKept
  <2> QED BY <2>1, <2>4, Unseen
<1>8. CASE UNCHANGED vars
  <2>1. UNCHANGED <<fresh, rows, stored, emitted, queue, tasks, jobs, saving>>
    BY <1>8 DEF vars, durable, volatile
  <2> QED BY <1>0, <2>1, TasksMove, Unseen
<1> QED BY <1>1, <1>2, <1>3, <1>4, <1>5, <1>6, <1>7, <1>8 DEF Next

\* The unprocessed table and the message table implement the durable inbox: a row goes only
\* once its message is stored, was never one to store, or used all its attempts; and a
\* message is given to the bot before it is stored, whatever times out or is killed.
THEOREM Refinement == Spec => ImplementsDurableInbox
<1>1. Init => InboxInv /\ Inbox!Init
  BY InboxInit
<1>2. InboxInv /\ [Next]_vars => InboxInv' /\ [Inbox!Next]_Seen
  BY InboxStep
<1>3. [Inbox!Next]_Seen => [Inbox!Next]_(Inbox!vars)
  BY DEF Seen, Inbox!vars, Kept, Ids, Cached, Placed
<1> QED BY <1>1, <1>2, <1>3, PTL DEF Spec, ImplementsDurableInbox, Inbox!Spec

-----------------------------------------------------------------------------
(* The invariant: types, rows, and what we and the admin are in *)

Tasks == [step : {"idle", "valid", "noting", "writing", "joining", "naming", "joined", "done"},
          old : SUBSET People, apply : BOOLEAN, attached : BOOLEAN]
Merges == [phase : {"none", "merged", "asked", "comparing", "updated", "handled"},
           answer : Entry, at : 0 .. LastUpdate, attached : BOOLEAN]

GroupTypeInv ==
  /\ GroupTypeOK
  /\ task \in Tasks /\ merge \in Merges
  /\ other \in [seen : 0 .. LastUpdate, at : 0 .. LastUpdate]
  /\ task.step = "idle" => task = Idle
  /\ merge.phase = "none" => merge = NoMerge

MembersAt(k) == Members(sent)[k]
HasUpdate(k) == [at |-> k, invite |-> FALSE] \in Range(cached)
HasInvitation(k) == [at |-> k, invite |-> TRUE] \in Range(cached)
AtUpdate(k) == cached # <<>> /\ cached[1] = [at |-> k, invite |-> FALSE]

\* The first f of the updates are handled, and the others that were fetched have rows.
Upto(f) == f \in 0 .. fetched /\ \A k \in 1 .. fetched : HasUpdate(k) <=> f < k

Joining == task.step \in {"joining", "naming", "joined"}

\* The rows of a kind are in the order in which they were sent, without a gap.
TableInv ==
  /\ \A i, j \in DOMAIN cached : i < j /\ cached[i].invite = cached[j].invite => cached[i].at < cached[j].at
  /\ \A k \in Updates : HasUpdate(k) => k <= fetched
  /\ \E f \in 0 .. fetched : Upto(f)
  /\ invited \subseteq Invitations
  /\ \A k \in Updates : HasInvitation(k) => k \in invited
  /\ \A k, l \in invited : k < l /\ HasInvitation(k) => HasInvitation(l)
  /\ \A k \in invited, l \in Invitations \ invited : k < l

\* Whose handler has the first row.
TaskRow ==
  /\ task.step \in {"valid", "noting", "writing", "done"} => ~cached[1].invite
  /\ Joining => cached[1].invite

\* A group that is active has us and its admin in it, and the others nobody.
Ours(c) ==
  /\ c.active => {Us, Admin} \subseteq c.members
  /\ ~c.active => c.members = {}
  /\ ~c.exists => c = NoGroup

OursInv ==
  /\ Ours(convo) /\ Ours(saved)
  /\ merge.answer.in => {Us, Admin} \subseteq merge.answer.members
  /\ merge.phase = "updated" /\ merge.attached => convo.exists
  /\ task.step \in {"valid", "noting", "writing"} /\ task.attached => convo.exists /\ convo.active
  /\ Joining /\ task.attached => convo.exists
  /\ task.step \in {"noting", "writing"} /\ task.attached /\ task.apply => {Us, Admin} \subseteq After(Now, task.old)

-----------------------------------------------------------------------------
(* The invariant: the members *)

Concerns(u, p) == IF u.type = "left" THEN u.sender \in {p, Admin} ELSE u.subject = p

IsOpened(k) == k \in invited /\ ~HasInvitation(k)
Unopened(k) == k \in Invitations /\ ~IsOpened(k)

Later(a, b) == IF a < b THEN b ELSE a

\* The update that the conversation is at. That of the first row may be in it, and
\* is after its handler is done.
Level(e) ==
  \E f \in 0 .. fetched :
    /\ Upto(f)
    /\ \/ task.step # "done" /\ e = Later(f, convo.joined)
       \/ AtUpdate(f + 1) /\ e = Later(f + 1, convo.joined)

\* The members are those of the group at e; or those of the wrapper, but for whom a
\* later update that will be applied again concerns.
AsSent(members, e) == members = MembersAt(e) /\ EnvelopeMoreRecent(e + 1)

AsWrapped(members, e) ==
  /\ e < other.seen /\ Us \in MembersAt(other.seen) /\ convo.joined = JoinedBy(other.seen)
  /\ \A p \in People :
       \/ p \in members <=> p \in MembersAt(other.seen)
       \/ \E k \in e + 1 .. other.seen : EnvelopeMoreRecent(k) /\ Concerns(sent[k], p)

AsKnown(members, e) == AsSent(members, e) \/ AsWrapped(members, e)

\* No zombie is a member.
NoZombie(zombies, e) == zombies \intersect MembersAt(e) = {}

MembersKnown == \E e \in 0 .. LastUpdate : Level(e) /\ AsKnown(convo.members, e) /\ NoZombie(saved.zombies, e)

\* No invitation was opened that is younger than the one we joined with.
JoinKnown == \A k \in Updates : IsOpened(k) => k <= convo.joined

\* An invitation will overtake an update, or was overtaken.
Doomed(i) == Unopened(i) /\ (i < fetched \/ (convo.exists /\ i <= convo.joined))
Doom == \E i \in Updates : Doomed(i)

LastJoin == JoinedBy(LastUpdate)
\* The last invitation brings us back.
Awaits == LastJoin # 0 /\ Unopened(LastJoin) /\ EnvelopeMoreRecent(LastJoin)

\* What the wrappers may do with the times.
Times == latest <= other.at /\ other.at - Tolerance <= other.seen /\ other.seen <= other.at

\* What a handler knows is still so: no merge is in its way.
TaskOf ==
  /\ task # Idle => merge = NoMerge
  /\ task.step \in {"valid", "noting", "writing"} =>
       /\ task.attached /\ convo.exists
       /\ Current > convo.joined /\ Now.sender \in convo.members
  /\ task.step \in {"noting", "writing"} =>
       /\ task.old = convo.members /\ task.apply = EnvelopeMoreRecent(Current)
       /\ ~Out(Now) /\ Changes(Now)
       /\ Now.type = "added" => Now.subject \notin convo.zombies
  /\ Joining =>
       /\ convo.exists /\ task.attached /\ ~polled
       /\ fetched <= Current /\ EnvelopeMoreRecent(Current)
       /\ convo.zombies = {} /\ convo.joined = IF task.step = "joined" THEN Current ELSE 0
       /\ task.step # "joining" => convo.active /\ convo.members = MembersAt(Current)

\* Only who was a zombie may differ, until the handler saves.
SavedIs ==
  IF task.step \in {"noting", "writing"}
  THEN saved = [convo EXCEPT !.zombies = saved.zombies] /\ convo.zombies \subseteq saved.zombies
  ELSE saved = convo

\* All that was handled before a merge was seen by the wrapper.
HandledSeen ==
  /\ \A k \in 1 .. fetched : HasUpdate(k) \/ k <= other.seen
  /\ \A k \in invited : HasInvitation(k) \/ k <= other.seen

\* During a merge, which has us forget what we knew and takes it from the wrapper.
InMerge ==
  merge # NoMerge =>
    /\ task = Idle /\ HandledSeen /\ merge.at = other.at /\ merge.answer = EntryAt(other.seen)
    /\ merge.phase \in {"merged", "asked", "handled"} => polled = convo.exists
    /\ merge.phase \in {"comparing", "updated"} => convo.exists
    /\ merge.phase = "updated" => convo.active /\ convo.members = merge.answer.members /\ merge.attached
    /\ merge.phase # "handled" /\ convo.exists /\ ~Doom =>
         \/ convo.zombies = {}
         \/ JoinKnown /\ \E e \in 0 .. LastUpdate :
                             Level(e) /\ NoZombie(saved.zombies, e) /\ (e <= other.seen \/ e = convo.joined)
    /\ merge.phase = "handled" => convo.exists = merge.answer.in
    /\ merge.phase = "handled" /\ convo.exists =>
         /\ convo.active /\ convo.members = merge.answer.members /\ convo.joined = merge.answer.joined
         /\ ~Doom => \E e \in 0 .. other.seen : Level(e) /\ NoZombie(saved.zombies, e)

\* Between the merges.
AtRest ==
  merge = NoMerge =>
    /\ latest = other.at
    /\ ~convo.exists => ~polled /\ (Us \notin MembersAt(LastUpdate) \/ Awaits \/ Doom)
    /\ convo.exists /\ ~Joining => polled /\ (~Doom => convo.active /\ MembersKnown /\ JoinKnown)

\* The invitation we joined with was opened, or the wrapper had seen it.
JoinSeen ==
  convo.exists =>
    /\ convo.joined \in {0} \union Invitations
    /\ \/ convo.joined <= other.seen \/ IsOpened(convo.joined)
       \/ HasInvitation(convo.joined) /\ (fetched > convo.joined \/ convo.zombies = {})
-----------------------------------------------------------------------------
(* The members after each of the updates: the recursive function *)

MembersStep(g, h, n) == [k \in 0 .. n |-> IF k = 0 THEN First ELSE After(h[k], g[k - 1])]

\* Members is a recursive function: one that satisfies its definition exists.
LEMMA MembersStepExists ==
  ASSUME NEW h, NEW n \in Nat
  PROVE  \E g : g = MembersStep(g, h, n)
<1> SUFFICES ASSUME ~\E g : g = MembersStep(g, h, n) PROVE FALSE
  OBVIOUS
<1> DEFINE T == {i \in Nat : ~\E g : g = MembersStep(g, h, i)}
<1>1. PICK m \in T : \A i \in T : m <= i
  <2>1. T \subseteq Nat /\ T # {}
    OBVIOUS
  <2> HIDE DEF T
  <2> QED BY <2>1, LeastNumber
<1>2. m \in Nat /\ ~\E g : g = MembersStep(g, h, m)
  OBVIOUS
<1>3. m # 0
  <2> SUFFICES ASSUME m = 0 PROVE FALSE
    OBVIOUS
  <2> DEFINE g == [k \in 0 .. 0 |-> First]
  <2>1. \A k \in 0 .. 0 : k = 0
    OBVIOUS
  <2>2. g = MembersStep(g, h, m)
    BY <2>1 DEF MembersStep
  <2> QED BY <1>2, <2>2
<1>4. m - 1 \in Nat /\ m - 1 \notin T
  BY <1>1, <1>2, <1>3
<1>5. PICK g : g = MembersStep(g, h, m - 1)
  BY <1>4
<1> DEFINE f == [k \in 0 .. m |-> IF k < m THEN g[k] ELSE After(h[m], g[m - 1])]
<1>6. ASSUME NEW k \in 0 .. m
      PROVE  f[k] = IF k = 0 THEN First ELSE After(h[k], f[k - 1])
  <2>1. CASE k = m
    <3>1. f[k] = After(h[m], g[m - 1]) /\ f[k - 1] = g[m - 1]
      BY <1>2, <1>3, <2>1
    <3> QED BY <1>3, <2>1, <3>1
  <2>2. CASE k # m
    <3>1. k \in 0 .. m - 1 /\ f[k] = g[k]
      BY <1>2, <2>2
    <3>2. g[k] = MembersStep(g, h, m - 1)[k]
      BY <1>5
    <3>3. g[k] = IF k = 0 THEN First ELSE After(h[k], g[k - 1])
      BY <3>1, <3>2 DEF MembersStep
    <3>4. k # 0 => f[k - 1] = g[k - 1]
      BY <1>2, <3>1
    <3> QED BY <3>1, <3>3, <3>4
  <2> QED BY <2>1, <2>2
<1>7. f = MembersStep(f, h, m)
  BY <1>6 DEF MembersStep
<1> QED BY <1>2, <1>7

\* The members after each update, by its definition.
LEMMA MembersIs ==
  ASSUME NEW h
  PROVE  /\ Members(h)[0] = People
         /\ \A k \in Updates : Members(h)[k] = After(h[k], Members(h)[k - 1])
<1> DEFINE g == CHOOSE g : g = MembersStep(g, h, LastUpdate)
<1>0. LastUpdate \in Nat
  BY NumberAssumption
<1>1. g = MembersStep(g, h, LastUpdate)
  BY <1>0, MembersStepExists
<1>2. Members(h) = g
  BY DEF Members, MembersStep
<1> HIDE DEF g
<1>3. \A k \in 0 .. LastUpdate : g[k] = MembersStep(g, h, LastUpdate)[k]
  BY <1>1
<1>4. \A k \in 0 .. LastUpdate : g[k] = IF k = 0 THEN First ELSE After(h[k], g[k - 1])
  BY <1>3 DEF MembersStep
<1> QED BY <1>0, <1>2, <1>4 DEF First, Updates

-----------------------------------------------------------------------------
(* What an update does to one of the people *)

\* An update says something of whom it concerns, and of nobody else.
LEMMA AfterIs ==
  ASSUME NEW u \in Update, NEW S, NEW p
  PROVE  p \in After(u, S) <=> IF Concerns(u, p) THEN u.type = "added" ELSE p \in S
BY DEF After, Concerns, Update

\* An update of a legal history, and what it does.
LEMMA SentIs ==
  ASSUME sent \in Histories, NEW k \in Updates
  PROVE  /\ sent[k] \in Update
         /\ Legal(sent[k], MembersAt(k - 1)) \/ (MembersAt(k - 1) = {} /\ sent[k] = sent[k - 1])
         /\ MembersAt(k) = After(sent[k], MembersAt(k - 1))
         /\ k - 1 \in 0 .. LastUpdate
<1>1. MembersAt(k) = After(sent[k], MembersAt(k - 1))
  BY MembersIs DEF MembersAt
<1>2. k - 1 \in 0 .. LastUpdate
  BY NumberAssumption DEF Updates
<1>3. sent \in [Updates -> Update]
  BY DEF Histories
<1>4. Legal(sent[k], MembersAt(k - 1)) \/ (MembersAt(k - 1) = {} /\ sent[k] = sent[k - 1])
  BY DEF Histories, MembersAt
<1> QED BY <1>1, <1>2, <1>3, <1>4

\* The group has its admin in it, until he leaves and it has nobody.
LEMMA AdminOrNobody ==
  ASSUME sent \in Histories, NEW k \in 0 .. LastUpdate
  PROVE  /\ MembersAt(k) \subseteq People
         /\ \/ Admin \in MembersAt(k)
            \/ MembersAt(k) = {} /\ k # 0 /\ sent[k].type = "left" /\ sent[k].sender = Admin
<1> DEFINE P(i) == /\ MembersAt(i) \subseteq People
                   /\ \/ Admin \in MembersAt(i)
                      \/ MembersAt(i) = {} /\ i # 0 /\ sent[i].type = "left" /\ sent[i].sender = Admin
<1> SUFFICES ASSUME ~P(k) PROVE FALSE
  OBVIOUS
<1> DEFINE T == {i \in 0 .. LastUpdate : ~P(i)}
<1>1. PICK m \in T : \A i \in T : m <= i
  <2>1. T \subseteq Nat /\ T # {}
    OBVIOUS
  <2> HIDE DEF T
  <2> QED BY <2>1, LeastNumber
<1>2. m \in 0 .. LastUpdate /\ ~P(m)
  OBVIOUS
<1>3. m # 0
  BY <1>2, MembersIs, PeopleAssumption DEF MembersAt
<1>4. m \in Updates /\ m - 1 \in 0 .. LastUpdate
  BY <1>2, <1>3, NumberAssumption DEF Updates
<1>5. P(m - 1)
  <2>1. m - 1 \notin T
    BY <1>1, <1>4
  <2> QED BY <1>4, <2>1
<1>6. /\ sent[m] \in Update
      /\ Legal(sent[m], MembersAt(m - 1)) \/ (MembersAt(m - 1) = {} /\ sent[m] = sent[m - 1])
      /\ MembersAt(m) = After(sent[m], MembersAt(m - 1))
  BY <1>4, SentIs
<1> HIDE DEF T
<1>7. CASE MembersAt(m - 1) = {}
  <2>1. sent[m] = sent[m - 1]
    BY <1>6, <1>7 DEF Legal
  <2>2. sent[m].type = "left" /\ sent[m].sender = Admin
    BY <1>5, <1>7, <2>1
  <2> QED BY <1>2, <1>3, <1>6, <2>2 DEF After
<1>8. CASE Legal(sent[m], MembersAt(m - 1)) /\ Admin \in MembersAt(m - 1)
  <2>1. CASE sent[m].type = "left" /\ sent[m].sender = Admin
    BY <1>2, <1>3, <1>6, <2>1 DEF After
  <2>2. CASE ~(sent[m].type = "left" /\ sent[m].sender = Admin)
    BY <1>2, <1>5, <1>6, <1>8, <2>2 DEF After, Legal, Update
  <2> QED BY <2>1, <2>2
<1> QED BY <1>5, <1>6, <1>7, <1>8

\* Nothing changes for whom no update concerns.
LEMMA MembersSame ==
  ASSUME sent \in Histories, NEW a \in 0 .. LastUpdate, NEW b \in a .. LastUpdate, NEW p,
         \A k \in a + 1 .. b : ~Concerns(sent[k], p)
  PROVE  p \in MembersAt(a) <=> p \in MembersAt(b)
<1> SUFFICES ASSUME ~(p \in MembersAt(a) <=> p \in MembersAt(b)) PROVE FALSE
  OBVIOUS
<1> DEFINE T == {i \in a .. b : ~(p \in MembersAt(a) <=> p \in MembersAt(i))}
<1>0. LastUpdate \in Nat
  BY NumberAssumption
<1>1. PICK m \in T : \A i \in T : m <= i
  <2>1. T \subseteq Nat /\ T # {}
    BY <1>0
  <2> HIDE DEF T
  <2> QED BY <2>1, LeastNumber
<1>2. m \in a .. b /\ ~(p \in MembersAt(a) <=> p \in MembersAt(m)) /\ m # a
  OBVIOUS
<1>3. m \in Updates /\ m \in a + 1 .. b /\ m - 1 \in a .. b
  BY <1>0, <1>2 DEF Updates
<1>4. p \in MembersAt(a) <=> p \in MembersAt(m - 1)
  <2>1. m - 1 \notin T
    BY <1>1, <1>3
  <2> QED BY <1>3, <2>1
<1>5. sent[m] \in Update /\ MembersAt(m) = After(sent[m], MembersAt(m - 1))
  BY <1>3, SentIs
<1>6. ~Concerns(sent[m], p)
  BY <1>3
<1> QED BY <1>2, <1>4, <1>5, <1>6, AfterIs

\* Who is in the group later and was not is added again in between.
LEMMA AddedBetween ==
  ASSUME sent \in Histories, NEW a \in 0 .. LastUpdate, NEW b \in a .. LastUpdate,
         Us \notin MembersAt(a), Us \in MembersAt(b)
  PROVE  \E i \in Invitations : a < i /\ i <= b
<1> DEFINE T == {i \in a .. b : Us \in MembersAt(i)}
<1>0. LastUpdate \in Nat
  BY NumberAssumption
<1>1. PICK m \in T : \A i \in T : m <= i
  <2>1. T \subseteq Nat /\ T # {}
    BY <1>0
  <2> HIDE DEF T
  <2> QED BY <2>1, LeastNumber
<1>2. m \in a .. b /\ Us \in MembersAt(m) /\ m # a
  OBVIOUS
<1>3. m \in Updates /\ m - 1 \in a .. b
  BY <1>0, <1>2 DEF Updates
<1>4. Us \notin MembersAt(m - 1)
  <2>1. m - 1 \notin T
    BY <1>1, <1>3
  <2> QED BY <1>3, <2>1
<1>5. sent[m] \in Update /\ MembersAt(m) = After(sent[m], MembersAt(m - 1))
  BY <1>3, SentIs
<1>6. sent[m].type = "added" /\ sent[m].subject = Us
  BY <1>2, <1>4, <1>5, AfterIs DEF Concerns
<1>7. m \in Invitations
  BY <1>3, <1>4, <1>6 DEF Invitations, IsInvitation, MembersAt
<1> QED BY <1>0, <1>2, <1>3, <1>7 DEF Updates

\* What is sent to someone who is added has us and the admin in it.
LEMMA InvitationIs ==
  ASSUME sent \in Histories, NEW k \in Invitations
  PROVE  k \in Updates /\ {Us, Admin} \subseteq MembersAt(k) /\ MembersAt(k) \subseteq People
<1>1. k \in Updates /\ sent[k].type = "added" /\ sent[k].subject = Us
  BY DEF Invitations, IsInvitation
<1>2. sent[k] \in Update /\ MembersAt(k) = After(sent[k], MembersAt(k - 1))
  BY <1>1, SentIs
<1>3. Us \in MembersAt(k)
  BY <1>1, <1>2, AfterIs DEF Concerns
<1>4. k \in 0 .. LastUpdate
  BY <1>1, NumberAssumption DEF Updates
<1> QED BY <1>1, <1>3, <1>4, AdminOrNobody

\* The last of the invitations so far.
LEMMA JoinedByIs ==
  ASSUME NEW k \in 0 .. LastUpdate
  PROVE  /\ JoinedBy(k) \in {0} \union Invitations
         /\ JoinedBy(k) \in 0 .. LastUpdate /\ JoinedBy(k) <= k
         /\ \A i \in Invitations : i <= k => i <= JoinedBy(k)
<1> DEFINE Q == {0} \union Invitations
           T == {k - i : i \in {i \in Q : i <= k}}
<1>0. LastUpdate \in Nat /\ Q \subseteq 0 .. LastUpdate /\ k \in Nat
  BY NumberAssumption DEF Invitations, Updates
<1>1. PICK m \in T : \A n \in T : m <= n
  <2>1. T \subseteq Nat /\ T # {}
    BY <1>0
  <2> HIDE DEF T
  <2> QED BY <2>1, LeastNumber
<1>2. PICK j \in Q : j <= k /\ m = k - j
  OBVIOUS
<1>3. \A i \in Invitations : i <= k => i <= j
  <2> TAKE i \in Invitations
  <2>1. i <= k => k - i \in T
    OBVIOUS
  <2> HIDE DEF T
  <2> QED BY <1>0, <1>1, <1>2, <2>1
<1>4. \E x \in {0} \union Invitations : x <= k /\ \A i \in Invitations : i <= k => i <= x
  BY <1>2, <1>3
<1> HIDE DEF T
<1>5. /\ JoinedBy(k) \in {0} \union Invitations
      /\ JoinedBy(k) <= k /\ \A i \in Invitations : i <= k => i <= JoinedBy(k)
  BY <1>4 DEF JoinedBy
<1> QED BY <1>0, <1>5

\* Between an invitation and the next we are in the group, if we are at the end.
LEMMA InSince ==
  ASSUME sent \in Histories, NEW b \in 0 .. LastUpdate, Us \in MembersAt(b),
         NEW k \in 0 .. b, JoinedBy(b) <= k
  PROVE  Us \in MembersAt(k)
<1> SUFFICES ASSUME Us \notin MembersAt(k) PROVE FALSE
  OBVIOUS
<1>0. LastUpdate \in Nat /\ k \in 0 .. LastUpdate /\ b \in k .. LastUpdate
  BY NumberAssumption
<1>1. PICK i \in Invitations : k < i /\ i <= b
  BY <1>0, AddedBetween
<1>2. i \in 0 .. LastUpdate /\ JoinedBy(b) \in 0 .. LastUpdate /\ i <= JoinedBy(b)
  BY <1>1, JoinedByIs DEF Invitations, Updates
<1> QED BY <1>0, <1>1, <1>2

\* An update that leaves us in the group leaves its admin there.
LEMMA AdminStays ==
  ASSUME sent \in Histories, NEW k \in Updates, NEW S, {Us, Admin} \subseteq S,
         sent[k].type = "added" \/ Us \in After(sent[k], S)
  PROVE  {Us, Admin} \subseteq After(sent[k], S)
<1>1. sent[k] \in Update
  BY SentIs
<1>2. CASE sent[k].type = "added"
  BY <1>1, <1>2 DEF After
<1>3. CASE sent[k].type # "added" /\ Us \in After(sent[k], S)
  <2>1. CASE sent[k].type = "left"
    BY <1>1, <1>3, <2>1 DEF After
  <2>2. CASE sent[k].type = "removed"
    <3>1. Legal(sent[k], MembersAt(k - 1))
      <4> SUFFICES ASSUME MembersAt(k - 1) = {}, sent[k] = sent[k - 1] PROVE FALSE
        BY SentIs
      <4>1. k - 1 \in 0 .. LastUpdate
        BY SentIs
      <4> QED BY <4>1, <2>2, AdminOrNobody
    <3>2. sent[k].subject # Admin
      BY <2>2, <3>1 DEF Legal
    <3> QED BY <1>3, <2>2, <3>2 DEF After
  <2> QED BY <1>1, <1>3, <2>1, <2>2 DEF Update
<1> QED BY <1>2, <1>3

-----------------------------------------------------------------------------
(* Rows *)

\* Without its first row a table has the others.
LEMMA RangeOfTail ==
  ASSUME NEW A, NEW s \in Seq(A), s # <<>>,
         \A i, j \in DOMAIN s : i < j => s[i] # s[j]
  PROVE  Range(Tail(s)) = Range(s) \ {s[1]}
<1>1. Tail(s) \in Seq(A) /\ Len(Tail(s)) = Len(s) - 1 /\ \A i \in 1 .. Len(s) - 1 : Tail(s)[i] = s[i + 1]
  OBVIOUS
<1>2. Len(s) \in Nat \ {0} /\ DOMAIN s = 1 .. Len(s) /\ DOMAIN Tail(s) = 1 .. Len(s) - 1
  BY <1>1
<1>3. ASSUME NEW x \in Range(Tail(s)) PROVE x \in Range(s) \ {s[1]}
  <2>1. PICK i \in 1 .. Len(s) - 1 : x = s[i + 1]
    BY <1>1, <1>2, <1>3 DEF Range
  <2>2. i + 1 \in DOMAIN s /\ 1 \in DOMAIN s /\ 1 < i + 1
    BY <1>2
  <2>3. s[1] # s[i + 1]
    BY <2>2
  <2> QED BY <2>1, <2>2, <2>3 DEF Range
<1>4. ASSUME NEW x \in Range(s), x # s[1] PROVE x \in Range(Tail(s))
  <2>1. PICK i \in 1 .. Len(s) : x = s[i]
    BY <1>2 DEF Range
  <2>2. i - 1 \in 1 .. Len(s) - 1
    BY <1>2, <1>4, <2>1
  <2>3. Tail(s)[i - 1] = s[i] /\ i - 1 \in DOMAIN Tail(s)
    BY <1>1, <1>2, <2>2
  <2> QED BY <2>1, <2>3 DEF Range
<1> QED BY <1>3, <1>4

-----------------------------------------------------------------------------
(* Types *)

LEMMA AfterType ==
  ASSUME NEW u \in Update, NEW S \in SUBSET People
  PROVE  After(u, S) \in SUBSET People
BY DEF After, Update

LEMMA EntryType ==
  ASSUME sent \in Histories, NEW j \in 0 .. LastUpdate
  PROVE  /\ EntryAt(j) \in Entry
         /\ EntryAt(j).in <=> Us \in MembersAt(j)
         /\ EntryAt(j).in => /\ EntryAt(j).members = MembersAt(j) /\ EntryAt(j).joined = JoinedBy(j)
                             /\ {Us, Admin} \subseteq MembersAt(j)
<1>1. MembersAt(j) \in SUBSET People /\ JoinedBy(j) \in 0 .. LastUpdate
  BY AdminOrNobody, JoinedByIs
<1>2. 0 \in 0 .. LastUpdate
  BY NumberAssumption
<1>3. Us \in MembersAt(j) => Admin \in MembersAt(j)
  BY AdminOrNobody
<1> QED BY <1>1, <1>2, <1>3 DEF EntryAt, Entry, NoEntry, MembersAt

\* The row that is handled.
LEMMA CurrentIs ==
  ASSUME GroupTypeInv, cached # <<>>
  PROVE  /\ Current \in Updates /\ Now \in Update /\ cached[1] \in GroupEnvelope
         /\ Tail(cached) \in Seq(GroupEnvelope) /\ Len(Tail(cached)) < Len(cached)
         /\ Current \in 0 .. LastUpdate
<1>1. cached \in Seq(GroupEnvelope) /\ sent \in Histories
  BY DEF GroupTypeInv, GroupTypeOK
<1>2. cached[1] \in GroupEnvelope /\ Tail(cached) \in Seq(GroupEnvelope) /\ Len(Tail(cached)) < Len(cached)
  BY <1>1
<1>3. Current \in Updates
  BY <1>2 DEF Current, GroupEnvelope
<1> QED BY <1>1, <1>2, <1>3, SentIs, NumberAssumption DEF Now, Updates

\* What the conversation becomes.
LEMMA RevivedType ==
  ASSUME NEW u, convo \in Group
  PROVE  /\ Revived(u) \in Group /\ Revived(u).zombies \subseteq convo.zombies
         /\ Revived(u) = [convo EXCEPT !.zombies = Revived(u).zombies]
         /\ u.type = "added" => u.subject \notin Revived(u).zombies
         /\ Revived(u).active = convo.active /\ Revived(u).members = convo.members
         /\ Revived(u).joined = convo.joined /\ Revived(u).exists = convo.exists
BY DEF Revived, Group

LEMMA NewType ==
  ASSUME convo \in Group, NEW u \in Update, NEW apply \in BOOLEAN, NEW old \in SUBSET People
  PROVE  NewMembers(u, apply, old) \in SUBSET People /\ NewZombies(u, apply, old) \in SUBSET People
<1>1. After(u, old) \in SUBSET People
  BY AfterType
<1> QED BY <1>1 DEF NewMembers, NewZombies, Group, Update

\* Types: the steps.
LEMMA GroupTypeInit ==
  ASSUME GroupInit
  PROVE  GroupTypeInv
<1>1. 0 \in 0 .. LastUpdate /\ <<>> \in Seq(GroupEnvelope)
  BY NumberAssumption
<1>2. MaxConfigs \in 0 .. MaxConfigs /\ MaxKills \in 0 .. MaxKills
  BY NumberAssumption
<1> QED BY <1>1, <1>2 DEF GroupInit, GroupTypeInv, GroupTypeOK, First, Group, NoGroup, Idle, NoMerge,
       NoEntry, Entry, Tasks, Merges

\* A handler commits a conversation; it deletes it; it drops the row.
LEMMA CommitType ==
  ASSUME GroupTypeInv, NEW c \in Group, Commit(c)
  PROVE  /\ convo' \in Group /\ saved' \in Group /\ convo' = c /\ saved' = c
         /\ merge' \in Merges /\ merge'.phase = merge.phase /\ merge'.at = merge.at
         /\ merge'.attached = merge.attached
         /\ merge'.answer.in => \/ merge'.answer = merge.answer
                                \/ c.active /\ merge'.answer.members = c.members
         /\ merge.phase # "merged" => merge' = merge
BY DEF GroupTypeInv, GroupTypeOK, Commit, Save, Merges, Entry, Group

LEMMA DeleteType ==
  ASSUME GroupTypeInv, Delete
  PROVE  /\ convo' = NoGroup /\ saved' = NoGroup /\ NoGroup \in Group /\ polled' = FALSE
         /\ merge' \in Merges /\ merge'.phase = merge.phase /\ merge'.at = merge.at
         /\ merge.phase = "none" => merge' = NoMerge
         /\ merge'.answer.in => merge'.answer = merge.answer
         /\ merge.phase # "merged" => merge'.answer = merge.answer /\ ~merge'.attached
         /\ merge.phase = "merged" => merge'.attached = merge.attached
<1>1. 0 \in 0 .. LastUpdate
  BY NumberAssumption
<1>2. merge \in Merges /\ (merge.phase = "none" => merge = NoMerge)
  BY DEF GroupTypeInv
<1>3. convo' = NoGroup /\ saved' = NoGroup /\ NoGroup \in Group /\ polled' = FALSE
  BY <1>1 DEF Delete, Removed, Group, NoGroup
<1>4. CASE merge.phase = "merged"
  <2>1. merge' = [merge EXCEPT !.answer = NoEntry] /\ NoEntry \in Entry /\ ~NoEntry.in
    BY <1>1, <1>4 DEF Delete, Entry, NoEntry
  <2> QED BY <1>2, <1>3, <1>4, <2>1 DEF Merges
<1>5. CASE merge.phase # "merged"
  <2>1. merge' = [merge EXCEPT !.attached = FALSE]
    BY <1>5 DEF Delete
  <2>2. merge = NoMerge => merge' = NoMerge
    <3>1. \A m \in Merges : m.attached = FALSE => [m EXCEPT !.attached = FALSE] = m
      BY DEF Merges
    <3>2. NoMerge.attached = FALSE
      BY DEF NoMerge
    <3> QED BY <1>2, <2>1, <3>1, <3>2
  <2> QED BY <1>2, <1>3, <1>5, <2>1, <2>2 DEF Merges
<1> QED BY <1>4, <1>5

LEMMA GroupTypeFetch ==
  ASSUME GroupTypeInv, Fetch \/ FetchInvitation
  PROVE  GroupTypeInv'
<1>1. CASE Fetch
  <2>1. fetched' \in Updates /\ fetched' \in 0 .. LastUpdate
    BY <1>1, NumberAssumption DEF GroupTypeInv, GroupTypeOK, Fetch, Updates
  <2>2. cached' \in Seq(GroupEnvelope) /\ cached' # <<>>
    BY <1>1, <2>1 DEF GroupTypeInv, GroupTypeOK, Fetch, GroupEnvelope
  <2> QED BY <1>1, <2>1, <2>2 DEF GroupTypeInv, GroupTypeOK, Fetch, external
<1>2. CASE FetchInvitation
  <2>1. PICK k \in Invitations : invited' = invited \union {k} /\ cached' = Append(cached, [at |-> k, invite |-> TRUE])
    BY <1>2 DEF FetchInvitation
  <2>2. k \in Updates
    BY DEF Invitations
  <2>3. cached' \in Seq(GroupEnvelope) /\ cached' # <<>> /\ invited' \subseteq Updates
    BY <2>1, <2>2 DEF GroupTypeInv, GroupTypeOK, GroupEnvelope
  <2> QED BY <1>2, <2>3 DEF GroupTypeInv, GroupTypeOK, FetchInvitation, external
<1> QED BY <1>1, <1>2

\* disturbed is one of the two, whatever happens.
LEMMA DisturbedType ==
  ASSUME GroupTypeInv, NEW how \in BOOLEAN, Disturbed(how)
  PROVE  disturbed' \in BOOLEAN
BY DEF GroupTypeInv, GroupTypeOK, Disturbed, Overlaps

LEMMA GroupTypeHandle ==
  ASSUME GroupTypeInv, Handle
  PROVE  GroupTypeInv'
<1>1. /\ task \in Tasks /\ convo \in Group /\ task \in Tasks
      /\ cached \in Seq(GroupEnvelope) /\ (task # Idle => cached # <<>>)
      /\ (merge.phase = "none" => merge = NoMerge) /\ sent \in Histories
  BY DEF GroupTypeInv, GroupTypeOK
<1>2. task.step # "idle" => task # Idle
  BY DEF Idle
<1>3. Idle \in Tasks
  BY DEF Idle, Tasks
<1>4. \A step : [task EXCEPT !.step = step].step = step
  BY <1>1 DEF Tasks
<1>5. ASSUME PerformIfValid PROVE GroupTypeInv'
  <2>1. cached' \in Seq(GroupEnvelope) /\ task' \in Tasks /\ (task' # Idle => cached' # <<>>)
        /\ (task'.step = "idle" => task' = Idle)
    <3>1. CASE Drop
      BY <1>3, <1>5, <3>1, CurrentIs DEF PerformIfValid, Drop
    <3>2. CASE task' = [Idle EXCEPT !.step = "valid", !.attached = TRUE] /\ UNCHANGED cached
      BY <1>1, <1>5, <3>2 DEF PerformIfValid, Idle, Tasks
    <3> QED BY <1>5, <3>1, <3>2 DEF PerformIfValid
  <2>2. disturbed' \in BOOLEAN
    BY <1>5, DisturbedType DEF PerformIfValid, Refused
  <2> QED BY <1>5, <2>1, <2>2 DEF PerformIfValid, GroupTypeInv, GroupTypeOK, external, Tasks
<1>6. ASSUME Read PROVE GroupTypeInv'
  <2>1. cached # <<>> /\ task # Idle /\ Now \in Update /\ Current \in Updates
    BY <1>1, <1>2, <1>6, CurrentIs DEF Read
  <2>2. /\ task' \in Tasks /\ cached' = cached /\ task'.step \in {"done", "noting"}
    <3>1. EnvelopeMoreRecent(Current) \in BOOLEAN
      BY DEF EnvelopeMoreRecent
    <3> QED BY <1>1, <1>6, <3>1 DEF Read, Step, Tasks, Group
  <2>3. /\ convo' \in Group /\ saved' \in Group /\ polled' \in BOOLEAN /\ merge' \in Merges
        /\ merge'.phase = merge.phase /\ (merge.phase = "none" => merge' = NoMerge)
        /\ (merge'.phase \in {"comparing", "updated"} => merge'.answer.in)
    <3>1. CASE UNCHANGED <<saved, polled, merge>> /\ convo' \in {convo, Revived(Now)}
      BY <1>1, <3>1, RevivedType DEF GroupTypeInv, GroupTypeOK
    <3>2. CASE Delete
      BY <3>2, DeleteType DEF GroupTypeInv, GroupTypeOK
    <3>3. CASE Commit(Revived(Now)) /\ UNCHANGED polled
      <4>1. Revived(Now) \in Group
        BY <1>1, RevivedType
      <4> QED BY <1>1, <3>3, <4>1, CommitType DEF GroupTypeInv, GroupTypeOK
    <3> QED BY <1>6, <3>1, <3>2, <3>3 DEF Read
  <2>4. disturbed' \in BOOLEAN
    BY <1>6, DisturbedType DEF Read
  <2> QED BY <1>6, <2>1, <2>2, <2>3, <2>4 DEF Read, GroupTypeInv, GroupTypeOK, external, Merges, Tasks
<1>7. ASSUME AddUpdateMessage \/ Write PROVE GroupTypeInv'
  <2>1. cached # <<>> /\ Now \in Update
    BY <1>1, <1>2, <1>7, CurrentIs DEF AddUpdateMessage, Write
  <2>2. task' \in Tasks /\ cached' = cached /\ task'.step \in {"writing", "done"}
    BY <1>1, <1>7 DEF AddUpdateMessage, Write, Step, Tasks
  <2> DEFINE c == [convo EXCEPT !.members = NewMembers(Now, task.apply, task.old),
                                !.zombies = NewZombies(Now, task.apply, task.old)]
  <2>3. c \in Group
    <3>1. task.apply \in BOOLEAN /\ task.old \in SUBSET People
      BY <1>1 DEF Tasks
    <3> QED BY <1>1, <2>1, <3>1, NewType DEF Group
  <2>4. \/ UNCHANGED <<convo, saved, merge>>
        \/ \E x \in Group : Commit(x)
    BY <1>1, <1>7, <2>3 DEF AddUpdateMessage, Write
  <2>5. /\ convo' \in Group /\ saved' \in Group /\ merge' \in Merges
        /\ merge'.phase = merge.phase /\ (merge.phase = "none" => merge' = NoMerge)
        /\ (merge'.phase \in {"comparing", "updated"} => merge'.answer.in)
    <3>1. CASE UNCHANGED <<convo, saved, merge>>
      BY <3>1 DEF GroupTypeInv, GroupTypeOK
    <3>2. CASE \E x \in Group : Commit(x)
      BY <3>2, CommitType DEF GroupTypeInv, GroupTypeOK
    <3> QED BY <2>4, <3>1, <3>2
  <2>6. disturbed' \in BOOLEAN
    BY <1>7, DisturbedType DEF AddUpdateMessage, Write
  <2> QED BY <1>7, <2>1, <2>2, <2>5, <2>6 DEF AddUpdateMessage, Write, GroupTypeInv, GroupTypeOK, external,
             Merges, Tasks
<1>8. ASSUME RemoveFromCache PROVE GroupTypeInv'
  <2>1. cached # <<>>
    BY <1>1, <1>2, <1>8 DEF RemoveFromCache
  <2>2. cached' \in Seq(GroupEnvelope) /\ task' = Idle
    BY <1>8, <2>1, CurrentIs DEF RemoveFromCache, Drop
  <2>3. disturbed' \in BOOLEAN
    BY <1>8, DisturbedType DEF RemoveFromCache
  <2> QED BY <1>3, <1>8, <2>2, <2>3 DEF RemoveFromCache, GroupTypeInv, GroupTypeOK, external, Tasks
<1> QED BY <1>5, <1>6, <1>7, <1>8 DEF Handle

LEMMA GroupTypeJoin ==
  ASSUME GroupTypeInv, Join
  PROVE  GroupTypeInv'
<1>1. /\ task \in Tasks /\ convo \in Group /\ cached \in Seq(GroupEnvelope) /\ (task # Idle => cached # <<>>)
      /\ (merge.phase = "none" => merge = NoMerge) /\ sent \in Histories
  BY DEF GroupTypeInv, GroupTypeOK
<1>2. task.step # "idle" => task # Idle
  BY DEF Idle
<1>3. Idle \in Tasks /\ Created \in Group
  <2>1. 0 \in 0 .. LastUpdate
    BY NumberAssumption
  <2> QED BY <2>1 DEF Idle, Tasks, Created, NoGroup, Group
<1>4. ASSUME \/ UNCHANGED <<convo, saved, merge>>
             \/ \E x \in Group : Commit(x)
      PROVE  /\ convo' \in Group /\ saved' \in Group /\ merge' \in Merges
             /\ merge'.phase = merge.phase /\ (merge.phase = "none" => merge' = NoMerge)
             /\ (merge'.phase \in {"comparing", "updated"} => merge'.answer.in)
  <2>1. CASE UNCHANGED <<convo, saved, merge>>
    BY <2>1 DEF GroupTypeInv, GroupTypeOK
  <2>2. CASE \E x \in Group : Commit(x)
    BY <2>2, CommitType DEF GroupTypeInv, GroupTypeOK
  <2> QED BY <1>4, <2>1, <2>2
<1>5. ASSUME OpenInvitation PROVE GroupTypeInv'
  <2>1. cached' \in Seq(GroupEnvelope) /\ task' \in Tasks /\ (task' # Idle => cached' # <<>>)
        /\ (task'.step = "idle" => task' = Idle)
    <3>1. CASE Drop
      BY <1>3, <1>5, <3>1, CurrentIs DEF OpenInvitation, Drop
    <3>2. CASE task' = [Idle EXCEPT !.step = "joining", !.attached = TRUE] /\ UNCHANGED cached
      BY <1>1, <1>5, <3>2 DEF OpenInvitation, Idle, Tasks
    <3> QED BY <1>5, <3>1, <3>2 DEF OpenInvitation
  <2>2. \/ UNCHANGED <<convo, saved, merge>>
        \/ \E x \in Group : Commit(x)
    BY <1>3, <1>5 DEF OpenInvitation
  <2>3. disturbed' \in BOOLEAN
    BY <1>5, DisturbedType DEF OpenInvitation, Overtakes, GroupTypeInv, GroupTypeOK, Group
  <2> QED BY <1>4, <1>5, <2>1, <2>2, <2>3 DEF OpenInvitation, GroupTypeInv, GroupTypeOK, external, Merges, Tasks
<1>6. ASSUME UpdateOrCreate \/ SetJoined PROVE GroupTypeInv'
  <2>1. cached # <<>> /\ Current \in Updates /\ Current \in 0 .. LastUpdate
    BY <1>1, <1>2, <1>6, CurrentIs DEF UpdateOrCreate, SetJoined
  <2>2. task' \in Tasks /\ cached' = cached /\ task'.step \in {"naming", "joined"}
    BY <1>1, <1>6 DEF UpdateOrCreate, SetJoined, Step, Tasks
  <2>3. \E x \in Group : Commit(x)
    <3>1. MembersAt(Current) \in SUBSET People
      BY <1>1, <2>1, AdminOrNobody
    <3>2. [IF convo.exists THEN convo ELSE Created EXCEPT !.members = Members(sent)[Current], !.active = TRUE] \in Group
      BY <1>1, <1>3, <3>1 DEF MembersAt, Group
    <3>3. [convo EXCEPT !.joined = Current] \in Group
      BY <1>1, <2>1 DEF Group
    <3>4. CASE UpdateOrCreate
      BY <3>2, <3>4 DEF UpdateOrCreate
    <3>5. CASE SetJoined
      BY <1>1, <3>3, <3>5 DEF SetJoined
    <3> QED BY <1>6, <3>4, <3>5
  <2>4. disturbed' \in BOOLEAN
    BY <1>6, DisturbedType DEF UpdateOrCreate, SetJoined
  <2>5. UNCHANGED <<sent, other, fetched, invited, polled, latest, budget>>
    BY <1>6 DEF UpdateOrCreate, SetJoined, external
  <2>6. Idle.step = "idle" /\ task' # Idle
    BY <2>2 DEF Idle
  <2> QED BY <1>4, <2>1, <2>2, <2>3, <2>4, <2>5, <2>6 DEF GroupTypeInv, GroupTypeOK, Merges, Tasks
<1>7. ASSUME StartPolling PROVE GroupTypeInv'
  <2>1. cached # <<>>
    BY <1>1, <1>2, <1>7 DEF StartPolling
  <2>2. cached' \in Seq(GroupEnvelope) /\ task' = Idle
    BY <1>7, <2>1, CurrentIs DEF StartPolling, Drop
  <2>3. disturbed' \in BOOLEAN
    BY <1>7, DisturbedType DEF StartPolling
  <2> QED BY <1>3, <1>7, <2>2, <2>3 DEF StartPolling, GroupTypeInv, GroupTypeOK, external, Tasks
<1> QED BY <1>5, <1>6, <1>7 DEF Join

LEMMA GroupTypeMerge ==
  ASSUME GroupTypeInv, Merge
  PROVE  GroupTypeInv'
<1>1. /\ task \in Tasks /\ convo \in Group /\ saved \in Group /\ merge \in Merges /\ cached \in Seq(GroupEnvelope)
      /\ (task # Idle => cached # <<>>) /\ (merge.phase = "none" => merge = NoMerge) /\ sent \in Histories
      /\ (merge.phase \in {"comparing", "updated"} => merge.answer.in)
  BY DEF GroupTypeInv, GroupTypeOK
<1>2. NoMerge \in Merges /\ Created \in Group /\ NoGroup \in Group /\ Idle.attached = FALSE
  <2>1. 0 \in 0 .. LastUpdate
    BY NumberAssumption
  <2> QED BY <2>1 DEF NoMerge, NoEntry, Entry, Merges, Created, NoGroup, Group, Idle
<1>3. merge \in Merges => merge.answer \in Entry /\ merge.answer.members \in SUBSET People /\ merge.answer.joined \in 0 .. LastUpdate
  BY DEF Merges, Entry
<1>4. ASSUME MergeConfig PROVE GroupTypeInv'
  <2>1. PICK t \in Updates, j \in 0 .. LastUpdate :
          other' = [seen |-> j, at |-> t] /\ merge' = [NoMerge EXCEPT !.phase = "merged", !.answer = EntryAt(j), !.at = t]
    BY <1>4 DEF MergeConfig
  <2>2. t \in 0 .. LastUpdate /\ EntryAt(j) \in Entry
    BY <1>1, EntryType, NumberAssumption DEF Updates
  <2>3. merge' \in Merges /\ merge'.phase = "merged" /\ other' \in [seen : 0 .. LastUpdate, at : 0 .. LastUpdate]
    BY <1>2, <2>1, <2>2 DEF Merges
  <2>4. disturbed' \in BOOLEAN
    BY <1>4, DisturbedType DEF MergeConfig, Behind
  <2>5. budget' \in [configs : 0 .. MaxConfigs, kills : 0 .. MaxKills]
    <3>1. budget \in [configs : 0 .. MaxConfigs, kills : 0 .. MaxKills]
      BY DEF GroupTypeInv, GroupTypeOK
    <3>2. budget.configs > 0 /\ budget' = [budget EXCEPT !.configs = @ - 1]
      BY <1>4 DEF MergeConfig
    <3>3. budget.configs - 1 \in 0 .. MaxConfigs
      BY <3>1, <3>2, NumberAssumption
    <3> QED BY <3>1, <3>2, <3>3
  <2> QED BY <1>4, <2>3, <2>4, <2>5 DEF MergeConfig, GroupTypeInv, GroupTypeOK, Merges
<1>5. ASSUME Ask PROVE GroupTypeInv'
  <2>1. merge' \in Merges /\ merge'.phase = "asked"
    BY <1>1, <1>5 DEF Ask, Merges
  <2>2. disturbed' \in BOOLEAN
    BY <1>5, DisturbedType DEF Ask
  <2> QED BY <1>5, <2>1, <2>2 DEF Ask, GroupTypeInv, GroupTypeOK, external, Merges
<1>6. ASSUME Compare PROVE GroupTypeInv'
  <2>1. /\ merge' \in Merges /\ merge'.phase \in {"comparing", "handled"} /\ merge'.answer = merge.answer
        /\ merge'.phase = "comparing" => merge'.answer.in
    BY <1>1, <1>6 DEF Compare, Merges
  <2>2. convo' \in Group /\ saved' \in Group /\ polled' \in BOOLEAN
    BY <1>1, <1>2, <1>6 DEF Compare, Removed, Save, GroupTypeInv, GroupTypeOK
  <2>3. task' \in Tasks /\ task'.step = task.step /\ (task = Idle => task' = Idle)
    <3>1. task' = task \/ task' = [task EXCEPT !.attached = FALSE]
      BY <1>6 DEF Compare
    <3>2. \A t \in Tasks : t.attached = FALSE => [t EXCEPT !.attached = FALSE] = t
      BY DEF Tasks
    <3>3. [task EXCEPT !.attached = FALSE] \in Tasks /\ [task EXCEPT !.attached = FALSE].step = task.step
      BY <1>1 DEF Tasks
    <3> QED BY <1>1, <1>2, <3>1, <3>2, <3>3
  <2>4. disturbed' \in BOOLEAN
    BY <1>6, DisturbedType DEF Compare
  <2> QED BY <1>6, <2>1, <2>2, <2>3, <2>4 DEF Compare, GroupTypeInv, GroupTypeOK, external, Merges, Tasks
<1>7. ASSUME UpdateGroup PROVE GroupTypeInv'
  <2>1. merge' \in Merges /\ merge'.phase \in {"updated", "handled"} /\ merge'.answer.in
    BY <1>1, <1>7 DEF UpdateGroup, Merges
  <2>2. convo' \in Group /\ saved' \in Group
    BY <1>1, <1>3, <1>7 DEF UpdateGroup, Save, Group
  <2>3. disturbed' \in BOOLEAN
    BY <1>7, DisturbedType DEF UpdateGroup
  <2> QED BY <1>7, <2>1, <2>2, <2>3 DEF UpdateGroup, GroupTypeInv, GroupTypeOK, external, Merges
<1>8. ASSUME SetJoinedFromWrapper PROVE GroupTypeInv'
  <2>1. merge' \in Merges /\ merge'.phase = "handled"
    BY <1>1, <1>8 DEF SetJoinedFromWrapper, Merges
  <2>2. convo' \in Group /\ saved' \in Group
    BY <1>1, <1>3, <1>8 DEF SetJoinedFromWrapper, Save, Group
  <2>3. disturbed' \in BOOLEAN
    BY <1>8, DisturbedType DEF SetJoinedFromWrapper
  <2> QED BY <1>8, <2>1, <2>2, <2>3 DEF SetJoinedFromWrapper, GroupTypeInv, GroupTypeOK, external, Merges
<1>9. ASSUME EndMerge PROVE GroupTypeInv'
  <2>1. latest' \in 0 .. LastUpdate
    BY <1>9 DEF EndMerge, GroupTypeInv, GroupTypeOK
  <2>2. disturbed' \in BOOLEAN
    BY <1>9, DisturbedType DEF EndMerge
  <2>3. NoMerge.phase = "none"
    BY DEF NoMerge
  <2> QED BY <1>2, <1>9, <2>1, <2>2, <2>3 DEF EndMerge, GroupTypeInv, GroupTypeOK, external, Merges
<1> QED BY <1>4, <1>5, <1>6, <1>7, <1>8, <1>9 DEF Merge

LEMMA GroupTypeRestart ==
  ASSUME GroupTypeInv, Restart
  PROVE  GroupTypeInv'
<1>1. NoMerge \in Merges /\ Idle \in Tasks /\ NoMerge.phase = "none"
  BY NumberAssumption DEF NoMerge, NoEntry, Entry, Merges, Idle, Tasks
<1>2. convo' \in Group /\ saved' \in Group /\ polled' \in BOOLEAN
  BY DEF Restart, GroupTypeInv, GroupTypeOK, Group
<1>3. disturbed' \in BOOLEAN
  <2>1. HalfWay \in BOOLEAN
    BY DEF HalfWay
  <2> QED BY <2>1, DisturbedType DEF Restart
<1>4. budget' \in [configs : 0 .. MaxConfigs, kills : 0 .. MaxKills]
  <2>1. budget \in [configs : 0 .. MaxConfigs, kills : 0 .. MaxKills]
    BY DEF GroupTypeInv, GroupTypeOK
  <2>2. budget.kills > 0 /\ budget' = [budget EXCEPT !.kills = @ - 1]
    BY DEF Restart
  <2>3. budget.kills - 1 \in 0 .. MaxKills
    BY <2>1, <2>2, NumberAssumption
  <2> QED BY <2>1, <2>2, <2>3
<1> QED BY <1>1, <1>2, <1>3, <1>4 DEF Restart, GroupTypeInv, GroupTypeOK, external, Merges, Tasks

LEMMA GroupTypeStep ==
  ASSUME GroupTypeInv, [GroupNext]_groupVars
  PROVE  GroupTypeInv'
<1>1. CASE UNCHANGED groupVars
  BY <1>1 DEF GroupTypeInv, GroupTypeOK, groupVars, external
<1> QED BY <1>1, GroupTypeFetch, GroupTypeHandle, GroupTypeJoin, GroupTypeMerge, GroupTypeRestart DEF GroupNext

\* Types of the closed groups: whatever the handlers of updates and invitations, the
\* merge of a wrapper and a kill interleave to, what is handled has a row, and a merge
\* that compares or updates a group has it in its wrapper.
THEOREM GroupTypeCorrect == GroupSpec => []GroupTypeOK
<1>1. GroupTypeInv => GroupTypeOK
  BY DEF GroupTypeInv
<1> QED BY <1>1, GroupTypeInit, GroupTypeStep, PTL DEF GroupSpec

-----------------------------------------------------------------------------
(* Rows *)

\* Rows, and which update or invitation they are of.
LEMMA EnvelopeIs ==
  ASSUME GroupTypeInv, NEW i \in DOMAIN cached
  PROVE  /\ cached[i] \in GroupEnvelope
         /\ cached[i].at \in Updates /\ cached[i].invite \in BOOLEAN
         /\ cached[i].invite => cached[i] = [at |-> cached[i].at, invite |-> TRUE] /\ HasInvitation(cached[i].at)
         /\ ~cached[i].invite => cached[i] = [at |-> cached[i].at, invite |-> FALSE] /\ HasUpdate(cached[i].at)
<1>1. cached[i] \in GroupEnvelope
  BY DEF GroupTypeInv, GroupTypeOK
<1>2. cached[i] \in Range(cached)
  BY DEF Range
<1>3. /\ cached[i].at \in Updates /\ cached[i].invite \in BOOLEAN
      /\ cached[i].invite => cached[i] = [at |-> cached[i].at, invite |-> TRUE]
      /\ ~cached[i].invite => cached[i] = [at |-> cached[i].at, invite |-> FALSE]
  BY <1>1 DEF GroupEnvelope
<1> QED BY <1>1, <1>2, <1>3 DEF HasUpdate, HasInvitation

LEMMA HasUpdateIs ==
  ASSUME NEW k, HasUpdate(k)
  PROVE  \E i \in DOMAIN cached : cached[i] = [at |-> k, invite |-> FALSE] /\ cached[i].at = k /\ ~cached[i].invite
BY DEF HasUpdate, Range

LEMMA HasInvitationIs ==
  ASSUME NEW k, HasInvitation(k)
  PROVE  \E i \in DOMAIN cached : cached[i] = [at |-> k, invite |-> TRUE] /\ cached[i].at = k /\ cached[i].invite
BY DEF HasInvitation, Range

\* The first row.
LEMMA HeadRow ==
  ASSUME GroupTypeInv, cached # <<>>
  PROVE  /\ 1 \in DOMAIN cached /\ Current \in Updates
         /\ cached[1].invite => /\ HasInvitation(Current) /\ (\A k : ~AtUpdate(k))
                                /\ cached[1] = [at |-> Current, invite |-> TRUE]
         /\ ~cached[1].invite => /\ HasUpdate(Current) /\ (\A k : AtUpdate(k) <=> k = Current)
                                 /\ cached[1] = [at |-> Current, invite |-> FALSE]
<1>1. 1 \in DOMAIN cached
  BY DEF GroupTypeInv, GroupTypeOK
<1> QED BY <1>1, EnvelopeIs DEF Current, AtUpdate

\* A row is added, or the first one goes.
LEMMA AppendUpdate ==
  ASSUME GroupTypeInv, NEW x \in Updates, cached' = Append(cached, [at |-> x, invite |-> FALSE])
  PROVE  /\ \A k : HasUpdate(k)' <=> HasUpdate(k) \/ k = x
         /\ \A k : HasInvitation(k)' <=> HasInvitation(k)
         /\ cached # <<>> => cached'[1] = cached[1] /\ cached' # <<>>
         /\ \A k : AtUpdate(k) => AtUpdate(k)'
<1>1. cached \in Seq(GroupEnvelope) /\ [at |-> x, invite |-> FALSE] \in GroupEnvelope
  BY DEF GroupTypeInv, GroupTypeOK, GroupEnvelope
<1>2. Range(cached') = Range(cached) \union {[at |-> x, invite |-> FALSE]}
  <2>1. PICK e \in GroupEnvelope : e = [at |-> x, invite |-> FALSE]
    BY <1>1
  <2>2. Range(Append(cached, e)) = Range(cached) \union {e}
    BY <1>1, RangeOfAppend
  <2> QED BY <2>1, <2>2
<1>3. cached # <<>> => cached'[1] = cached[1] /\ cached' # <<>>
  BY <1>1
<1> QED BY <1>2, <1>3 DEF HasUpdate, HasInvitation, AtUpdate

LEMMA AppendInvitation ==
  ASSUME GroupTypeInv, NEW x \in Updates, cached' = Append(cached, [at |-> x, invite |-> TRUE])
  PROVE  /\ \A k : HasInvitation(k)' <=> HasInvitation(k) \/ k = x
         /\ \A k : HasUpdate(k)' <=> HasUpdate(k)
         /\ cached # <<>> => cached'[1] = cached[1] /\ cached' # <<>>
         /\ \A k : AtUpdate(k) => AtUpdate(k)'
<1>1. cached \in Seq(GroupEnvelope) /\ [at |-> x, invite |-> TRUE] \in GroupEnvelope
  BY DEF GroupTypeInv, GroupTypeOK, GroupEnvelope
<1>2. Range(cached') = Range(cached) \union {[at |-> x, invite |-> TRUE]}
  <2>1. PICK e \in GroupEnvelope : e = [at |-> x, invite |-> TRUE]
    BY <1>1
  <2>2. Range(Append(cached, e)) = Range(cached) \union {e}
    BY <1>1, RangeOfAppend
  <2> QED BY <2>1, <2>2
<1>3. cached # <<>> => cached'[1] = cached[1] /\ cached' # <<>>
  BY <1>1
<1> QED BY <1>2, <1>3 DEF HasUpdate, HasInvitation, AtUpdate

\* The rest of the rows, when the first is dropped.
LEMMA TableTail ==
  ASSUME GroupTypeInv, TableInv, cached # <<>>, cached' = Tail(cached)
  PROVE  /\ cached[1].invite =>
              /\ \A k : HasInvitation(k)' <=> HasInvitation(k) /\ k # Current
              /\ \A k : HasInvitation(k)' => Current < k
              /\ \A k : HasUpdate(k)' <=> HasUpdate(k)
         /\ ~cached[1].invite =>
              /\ \A k : HasUpdate(k)' <=> HasUpdate(k) /\ k # Current
              /\ \A k : HasInvitation(k)' <=> HasInvitation(k)
<1>1. cached \in Seq(GroupEnvelope) /\ 1 \in DOMAIN cached /\ DOMAIN cached \subseteq Nat \ {0}
  BY DEF GroupTypeInv, GroupTypeOK
<1>2. ASSUME NEW i \in DOMAIN cached, NEW j \in DOMAIN cached, i < j
      PROVE  cached[i] # cached[j]
  <2>1. cached[i].at \in Nat
    BY EnvelopeIs DEF Updates
  <2>2. cached[i].invite = cached[j].invite => cached[i].at < cached[j].at
    BY <1>2 DEF TableInv
  <2> QED BY <2>1, <2>2
<1>3. Range(cached') = Range(cached) \ {cached[1]}
  BY <1>1, <1>2, RangeOfTail
<1>4. CASE cached[1].invite
  <2>1. cached[1] = [at |-> Current, invite |-> TRUE]
    BY <1>4, HeadRow
  <2>2. /\ \A k : HasInvitation(k)' <=> HasInvitation(k) /\ k # Current
        /\ \A k : HasUpdate(k)' <=> HasUpdate(k)
    BY <1>3, <2>1 DEF HasInvitation, HasUpdate
  <2>3. ASSUME NEW k, HasInvitation(k)' PROVE Current < k
    <3>1. PICK i \in DOMAIN cached : cached[i] = [at |-> k, invite |-> TRUE] /\ cached[i].at = k /\ cached[i].invite
      BY <2>2, <2>3, HasInvitationIs
    <3>2. i # 1 /\ cached[1].invite = cached[i].invite
      BY <2>1, <2>2, <2>3, <3>1
    <3>3. 1 < i
      BY <1>1, <3>2
    <3> QED BY <1>1, <3>1, <3>2, <3>3 DEF TableInv, Current
  <2> QED BY <1>4, <2>2, <2>3
<1>5. CASE ~cached[1].invite
  <2>1. cached[1] = [at |-> Current, invite |-> FALSE]
    BY <1>5, HeadRow
  <2> QED BY <1>3, <1>5, <2>1 DEF HasInvitation, HasUpdate
<1> QED BY <1>4, <1>5

\* How far the updates are handled.
LEMMA UptoUnique ==
  ASSUME GroupTypeInv, NEW f \in Nat, NEW g \in Nat, Upto(f), Upto(g)
  PROVE  f = g
<1>1. fetched \in Nat
  BY DEF GroupTypeInv, GroupTypeOK
<1> QED BY <1>1 DEF Upto

\* The first row of an update is of the first that is not handled.
LEMMA HeadIsNext ==
  ASSUME GroupTypeInv, TableInv, cached # <<>>, ~cached[1].invite, NEW f \in 0 .. fetched, Upto(f)
  PROVE  Current = f + 1 /\ Current \in 1 .. fetched /\ AtUpdate(f + 1)
<1>0. fetched \in Nat /\ LastUpdate \in Nat
  BY NumberAssumption DEF GroupTypeInv, GroupTypeOK
<1>1. Current \in Updates /\ HasUpdate(Current) /\ AtUpdate(Current) /\ 1 \in DOMAIN cached
  BY HeadRow
<1>2. Current <= fetched
  BY <1>1 DEF TableInv
<1>3. f < Current
  BY <1>0, <1>1, <1>2 DEF Upto, Updates
<1>4. ASSUME f + 1 < Current PROVE FALSE
  <2>1. f + 1 \in 1 .. fetched
    BY <1>0, <1>1, <1>2, <1>4 DEF Updates
  <2>2. HasUpdate(f + 1)
    BY <1>0, <2>1 DEF Upto
  <2>3. PICK i \in DOMAIN cached : cached[i].at = f + 1 /\ ~cached[i].invite
    BY <2>2, HasUpdateIs
  <2>4. i # 1 /\ i \in Nat /\ i >= 1
    BY <1>4, <2>3 DEF Current, GroupTypeInv, GroupTypeOK
  <2>5. cached[1].invite = cached[i].invite
    BY <1>1, <2>3, EnvelopeIs
  <2>6. cached[1].at < cached[i].at
    BY <1>1, <2>4, <2>5 DEF TableInv
  <2> QED BY <1>0, <1>1, <1>4, <2>3, <2>6 DEF Current, Updates
<1> QED BY <1>0, <1>1, <1>2, <1>3, <1>4 DEF Updates

\* What only depends on the history.
LEMMA Unchanging ==
  ASSUME sent' = sent
  PROVE  /\ Invitations' = Invitations
         /\ \A k : MembersAt(k)' = MembersAt(k)
         /\ \A k : JoinedBy(k)' = JoinedBy(k)
         /\ \A k : EntryAt(k)' = EntryAt(k)
<1>1. Invitations' = Invitations
  BY DEF Invitations, IsInvitation
<1>2. \A k : MembersAt(k)' = MembersAt(k)
  BY DEF MembersAt
<1>3. \A k : JoinedBy(k)' = JoinedBy(k)
  BY <1>1 DEF JoinedBy
<1> QED BY <1>1, <1>2, <1>3 DEF EntryAt, MembersAt

LEMMA TableSame ==
  ASSUME cached' = cached
  PROVE  /\ \A k : HasUpdate(k)' <=> HasUpdate(k)
         /\ \A k : HasInvitation(k)' <=> HasInvitation(k)
         /\ \A k : AtUpdate(k)' <=> AtUpdate(k)
BY DEF HasUpdate, HasInvitation, AtUpdate

\* The first row is handled.
LEMMA TailUpto ==
  ASSUME GroupTypeInv, TableInv, cached # <<>>, cached' = Tail(cached), fetched' = fetched,
         NEW f \in 0 .. fetched, Upto(f)
  PROVE  /\ cached[1].invite => Upto(f)'
         /\ ~cached[1].invite => f + 1 \in 0 .. fetched /\ Upto(f + 1)'
<1>0. fetched \in Nat
  BY DEF GroupTypeInv, GroupTypeOK
<1>1. CASE cached[1].invite
  <2>1. \A k : HasUpdate(k)' <=> HasUpdate(k)
    BY <1>1, TableTail
  <2> QED BY <1>1, <2>1 DEF Upto
<1>2. CASE ~cached[1].invite
  <2>1. \A k : HasUpdate(k)' <=> HasUpdate(k) /\ k # Current
    BY <1>2, TableTail
  <2>2. Current = f + 1 /\ f + 1 \in 1 .. fetched
    BY <1>2, HeadIsNext
  <2> QED BY <1>0, <1>2, <2>1, <2>2 DEF Upto
<1> QED BY <1>1, <1>2

LEMMA TableDrop ==
  ASSUME GroupTypeInv, TableInv, cached # <<>>, cached' = Tail(cached), UNCHANGED <<sent, fetched, invited>>
  PROVE  TableInv'
<1>0. cached \in Seq(GroupEnvelope) /\ Invitations' = Invitations
  BY Unchanging DEF GroupTypeInv, GroupTypeOK
<1>1. \A i, j \in DOMAIN cached' :
        i < j /\ cached'[i].invite = cached'[j].invite => cached'[i].at < cached'[j].at
  <2>1. DOMAIN cached = 1 .. Len(cached) /\ Len(cached) \in Nat \ {0} /\ DOMAIN cached' = 1 .. Len(cached) - 1
    BY <1>0
  <2>2. \A i \in DOMAIN cached' : cached'[i] = cached[i + 1] /\ i + 1 \in DOMAIN cached
    BY <1>0, <2>1
  <2> QED BY <2>1, <2>2 DEF TableInv
<1>2. /\ \A k : HasUpdate(k)' => HasUpdate(k)
      /\ \A k : HasInvitation(k)' => HasInvitation(k)
  BY HeadRow, TableTail
<1>3. \E f \in 0 .. fetched : Upto(f)'
  BY TailUpto DEF TableInv
<1>4. \A k, l \in invited : k < l /\ HasInvitation(k)' => HasInvitation(l)'
  <2> SUFFICES ASSUME NEW k \in invited, NEW l \in invited, k < l, HasInvitation(k)' PROVE HasInvitation(l)'
    OBVIOUS
  <2>1. k \in Nat /\ l \in Nat
    BY DEF GroupTypeInv, GroupTypeOK, Updates
  <2>2. HasInvitation(l)
    BY <1>2 DEF TableInv
  <2>3. CASE cached[1].invite
    <3>1. Current < k /\ Current \in Nat
      BY <2>3, TableTail, HeadRow DEF Updates
    <3> QED BY <2>1, <2>2, <2>3, <3>1, TableTail
  <2>4. CASE ~cached[1].invite
    BY <2>2, <2>4, TableTail
  <2> QED BY <2>3, <2>4
<1> QED BY <1>0, <1>1, <1>2, <1>3, <1>4 DEF TableInv

LEMMA TableKeep ==
  ASSUME TableInv, UNCHANGED <<sent, fetched, invited, cached>>
  PROVE  TableInv' /\ \A f : Upto(f) => Upto(f)'
<1>1. Invitations' = Invitations
  BY Unchanging
<1> QED BY <1>1, TableSame DEF TableInv, Upto

\* What polling does to the rows.
LEMMA FetchIs ==
  ASSUME GroupTypeInv, TableInv, Fetch
  PROVE  /\ fetched + 1 \in Updates
         /\ \A k : HasUpdate(k)' <=> HasUpdate(k) \/ k = fetched + 1
         /\ \A k : HasInvitation(k)' <=> HasInvitation(k)
         /\ cached # <<>> => cached'[1] = cached[1] /\ cached' # <<>>
         /\ \A k : AtUpdate(k) => AtUpdate(k)'
         /\ \A f : Upto(f) => Upto(f)'
<1>0. fetched \in 0 .. LastUpdate /\ fetched < LastUpdate /\ LastUpdate \in Nat /\ fetched' = fetched + 1
  BY NumberAssumption DEF Fetch, GroupTypeInv, GroupTypeOK
<1>1. fetched + 1 \in Updates
  BY <1>0 DEF Updates
<1>2. cached' = Append(cached, [at |-> fetched + 1, invite |-> FALSE])
  BY DEF Fetch
<1>3. /\ \A k : HasUpdate(k)' <=> HasUpdate(k) \/ k = fetched + 1
      /\ \A k : HasInvitation(k)' <=> HasInvitation(k)
      /\ cached # <<>> => cached'[1] = cached[1] /\ cached' # <<>>
      /\ \A k : AtUpdate(k) => AtUpdate(k)'
  BY <1>1, <1>2, AppendUpdate
<1>4. \A f : Upto(f) => Upto(f)'
  BY <1>0, <1>3 DEF Upto
<1> QED BY <1>1, <1>3, <1>4

LEMMA FetchInvitationIs ==
  ASSUME GroupTypeInv, TableInv, FetchInvitation
  PROVE  \E k \in Invitations \ invited :
         /\ k \in Updates /\ invited' = invited \union {k}
         /\ \A i \in invited : i < k
         /\ \A i \in Invitations \ invited' : k < i
         /\ cached' = Append(cached, [at |-> k, invite |-> TRUE])
         /\ \A l : HasInvitation(l)' <=> HasInvitation(l) \/ l = k
         /\ \A l : HasUpdate(l)' <=> HasUpdate(l)
         /\ cached # <<>> => cached'[1] = cached[1] /\ cached' # <<>>
         /\ \A l : AtUpdate(l) => AtUpdate(l)'
         /\ \A f : Upto(f) => Upto(f)'
<1>1. PICK k \in Invitations \ invited :
        /\ \A i \in Invitations \ invited : k <= i
        /\ invited' = invited \union {k}
        /\ cached' = Append(cached, [at |-> k, invite |-> TRUE])
  BY DEF FetchInvitation
<1>2. k \in Updates /\ Invitations \subseteq Nat
  BY DEF Invitations, Updates
<1>3. /\ \A l : HasInvitation(l)' <=> HasInvitation(l) \/ l = k
      /\ \A l : HasUpdate(l)' <=> HasUpdate(l)
      /\ cached # <<>> => cached'[1] = cached[1] /\ cached' # <<>>
      /\ \A l : AtUpdate(l) => AtUpdate(l)'
  BY <1>1, <1>2, AppendInvitation
<1>4. \A i \in invited : i < k
  BY DEF TableInv
<1>5. \A i \in Invitations \ invited' : k < i
  BY <1>1, <1>2
<1>6. \A f : Upto(f) => Upto(f)'
  BY <1>3 DEF Upto, FetchInvitation
<1> QED BY <1>1, <1>2, <1>3, <1>4, <1>5, <1>6

\* The rows stay in order.
LEMMA TableFetch ==
  ASSUME GroupTypeInv, TableInv, TaskRow, Fetch \/ FetchInvitation
  PROVE  TableInv' /\ TaskRow'
<1>0. cached \in Seq(GroupEnvelope) /\ (task # Idle => cached # <<>>) /\ fetched \in 0 .. LastUpdate
  BY DEF GroupTypeInv, GroupTypeOK
<1>1. task.step # "idle" => task # Idle
  BY DEF Idle
<1>2. CASE Fetch
  <2>0. Invitations' = Invitations /\ fetched' = fetched + 1 /\ invited' = invited /\ task' = task
    BY <1>2, Unchanging DEF Fetch, external
  <2>1. cached' = Append(cached, [at |-> fetched + 1, invite |-> FALSE])
    BY <1>2 DEF Fetch
  <2>2. \A i, j \in DOMAIN cached' :
          i < j /\ cached'[i].invite = cached'[j].invite => cached'[i].at < cached'[j].at
    <3> SUFFICES ASSUME NEW i \in DOMAIN cached', NEW j \in DOMAIN cached', i < j,
                        cached'[i].invite = cached'[j].invite
                 PROVE  cached'[i].at < cached'[j].at
      OBVIOUS
    <3>1. i \in DOMAIN cached /\ cached'[i] = cached[i]
      BY <1>0, <2>1
    <3>2. CASE j \in DOMAIN cached
      <4>1. cached'[j] = cached[j]
        BY <1>0, <2>1, <3>2
      <4> QED BY <3>1, <3>2, <4>1 DEF TableInv
    <3>3. CASE j \notin DOMAIN cached
      <4>1. cached'[j] = [at |-> fetched + 1, invite |-> FALSE]
        BY <1>0, <2>1, <3>3
      <4>2. HasUpdate(cached[i].at) /\ cached[i].at \in Updates
        <5>1. cached'[j].invite = FALSE
          BY <4>1
        <5>2. ~cached[i].invite
          BY <3>1, <5>1
        <5> QED BY <3>1, <5>2, EnvelopeIs
      <4>3. cached[i].at <= fetched
        BY <4>2 DEF TableInv
      <4> QED BY <1>0, <3>1, <4>1, <4>2, <4>3 DEF Updates
    <3> QED BY <3>2, <3>3
  <2>3. \E f \in 0 .. fetched' : Upto(f)'
    <3>1. PICK f \in 0 .. fetched : Upto(f)
      BY DEF TableInv
    <3>2. f \in 0 .. fetched'
      BY <1>0, <2>0
    <3> QED BY <1>2, <3>1, <3>2, FetchIs
  <2>4. TableInv'
    BY <1>0, <1>2, <2>0, <2>2, <2>3, FetchIs DEF TableInv, Updates
  <2> QED BY <1>0, <1>1, <1>2, <2>0, <2>4, FetchIs DEF TaskRow, Joining
<1>3. CASE FetchInvitation
  <2>0. Invitations' = Invitations /\ fetched' = fetched /\ task' = task
    BY <1>3, Unchanging DEF FetchInvitation, external
  <2>1. PICK k \in Invitations \ invited :
         /\ k \in Updates /\ invited' = invited \union {k}
         /\ \A i \in invited : i < k
         /\ \A i \in Invitations \ invited' : k < i
         /\ cached' = Append(cached, [at |-> k, invite |-> TRUE])
         /\ \A l : HasInvitation(l)' <=> HasInvitation(l) \/ l = k
         /\ \A l : HasUpdate(l)' <=> HasUpdate(l)
         /\ cached # <<>> => cached'[1] = cached[1] /\ cached' # <<>>
         /\ \A l : AtUpdate(l) => AtUpdate(l)'
         /\ \A f : Upto(f) => Upto(f)'
    BY <1>3, FetchInvitationIs
  <2>2. \A i, j \in DOMAIN cached' :
          i < j /\ cached'[i].invite = cached'[j].invite => cached'[i].at < cached'[j].at
    <3> SUFFICES ASSUME NEW i \in DOMAIN cached', NEW j \in DOMAIN cached', i < j,
                        cached'[i].invite = cached'[j].invite
                 PROVE  cached'[i].at < cached'[j].at
      OBVIOUS
    <3>1. i \in DOMAIN cached /\ cached'[i] = cached[i]
      BY <1>0, <2>1
    <3>2. CASE j \in DOMAIN cached
      <4>1. cached'[j] = cached[j]
        BY <1>0, <2>1, <3>2
      <4> QED BY <3>1, <3>2, <4>1 DEF TableInv
    <3>3. CASE j \notin DOMAIN cached
      <4>1. cached'[j] = [at |-> k, invite |-> TRUE]
        BY <1>0, <2>1, <3>3
      <4>2. HasInvitation(cached[i].at) /\ cached[i].at \in Updates
        <5>1. cached'[j].invite = TRUE
          BY <4>1
        <5>2. cached[i].invite
          BY <3>1, <5>1
        <5> QED BY <3>1, <5>2, EnvelopeIs
      <4>3. cached[i].at \in invited
        BY <4>2 DEF TableInv
      <4> QED BY <2>1, <3>1, <4>1, <4>3
    <3> QED BY <3>2, <3>3
  <2>3. \E f \in 0 .. fetched : Upto(f)'
    BY <2>1 DEF TableInv
  <2>4. \A i, l \in invited' : i < l /\ HasInvitation(i)' => HasInvitation(l)'
    <3>1. invited \subseteq Nat /\ k \in Nat
      BY DEF Invitations, GroupTypeInv, GroupTypeOK, Updates
    <3> QED BY <2>1, <3>1 DEF TableInv
  <2>5. \A i \in invited', l \in Invitations \ invited' : i < l
    BY <2>1 DEF TableInv
  <2>6. TableInv'
    BY <2>0, <2>1, <2>2, <2>3, <2>4, <2>5 DEF TableInv
  <2> QED BY <1>0, <1>1, <2>0, <2>1, <2>6 DEF TaskRow, Joining
<1> QED BY <1>2, <1>3

\* What an action other than the two fetches does to the rows.
LEMMA RowsOf ==
  ASSUME Handle \/ Join \/ Merge \/ Restart
  PROVE  /\ UNCHANGED <<sent, fetched, invited>>
         /\ \/ UNCHANGED cached
            \/ (PerformIfValid \/ RemoveFromCache \/ OpenInvitation \/ StartPolling) /\ Drop
<1>1. CASE Handle
  BY <1>1 DEF Handle, PerformIfValid, Read, AddUpdateMessage, Write, RemoveFromCache, Step, external
<1>2. CASE Join
  BY <1>2 DEF Join, OpenInvitation, UpdateOrCreate, SetJoined, StartPolling, Step, external
<1>3. CASE Merge
  BY <1>3 DEF Merge, MergeConfig, Ask, Compare, UpdateGroup, SetJoinedFromWrapper, EndMerge, external
<1> QED BY <1>1, <1>2, <1>3 DEF Restart, external

LEMMA TableStep ==
  ASSUME GroupTypeInv, TableInv, TaskRow, [GroupNext]_groupVars
  PROVE  TableInv' /\ TaskRow'
<1>0. task \in Tasks /\ (task # Idle => cached # <<>>) /\ Idle.step = "idle"
  BY DEF GroupTypeInv, GroupTypeOK, Idle
<1>1. CASE UNCHANGED groupVars
  BY <1>1, TableKeep DEF groupVars, external, TaskRow, Joining
<1>2. CASE Fetch \/ FetchInvitation
  BY <1>2, TableFetch
<1>3. CASE Handle \/ Join \/ Merge \/ Restart
  <2>1. UNCHANGED <<sent, fetched, invited>>
    BY <1>3, RowsOf
  <2>2. CASE UNCHANGED cached
    <3>1. TableInv'
      BY <2>1, <2>2, TableKeep
    <3>2. TaskRow'
      <4>1. CASE PerformIfValid
        BY <1>0, <2>2, <4>1 DEF PerformIfValid, Drop, TaskRow, Joining, Idle
      <4>2. CASE Read \/ AddUpdateMessage \/ Write
        BY <1>0, <2>2, <4>2 DEF Read, AddUpdateMessage, Write, Step, TaskRow, Joining, Tasks
      <4>3. CASE RemoveFromCache \/ StartPolling \/ Restart
        BY <1>0, <4>3 DEF RemoveFromCache, StartPolling, Restart, Drop, TaskRow, Joining
      <4>4. CASE OpenInvitation
        BY <1>0, <2>2, <4>4 DEF OpenInvitation, Drop, TaskRow, Joining, Idle
      <4>5. CASE UpdateOrCreate \/ SetJoined
        BY <1>0, <2>2, <4>5 DEF UpdateOrCreate, SetJoined, Step, TaskRow, Joining, Tasks
      <4>6. CASE Merge
        <5>1. task'.step = task.step
          BY <1>0, <4>6 DEF Merge, MergeConfig, Ask, Compare, UpdateGroup, SetJoinedFromWrapper, EndMerge, Tasks
        <5> QED BY <2>2, <5>1 DEF TaskRow, Joining
      <4> QED BY <1>3, <4>1, <4>2, <4>3, <4>4, <4>5, <4>6 DEF Handle, Join
    <3> QED BY <3>1, <3>2
  <2>3. CASE (PerformIfValid \/ RemoveFromCache \/ OpenInvitation \/ StartPolling) /\ Drop
    <3>1. cached # <<>>
      BY <1>0, <2>3 DEF PerformIfValid, RemoveFromCache, OpenInvitation, StartPolling
    <3>2. TableInv'
      BY <2>1, <2>3, <3>1, TableDrop DEF Drop
    <3> QED BY <1>0, <2>3, <3>2 DEF Drop, TaskRow, Joining
  <2> QED BY <1>3, <2>2, <2>3, RowsOf
<1> QED BY <1>1, <1>2, <1>3 DEF GroupNext

LEMMA TableInit ==
  ASSUME GroupInit
  PROVE  TableInv /\ TaskRow
<1>1. cached = <<>> /\ fetched = 0 /\ invited = {} /\ task.step = "idle"
  BY DEF GroupInit, Idle
<1>2. DOMAIN cached = {} /\ Range(cached) = {}
  BY <1>1 DEF Range
<1>3. Upto(0)
  BY <1>1, <1>2 DEF Upto
<1> QED BY <1>1, <1>2, <1>3 DEF TableInv, TaskRow, Joining, HasUpdate, HasInvitation

-----------------------------------------------------------------------------
(* We and the admin *)

LEMMA OursInit ==
  ASSUME GroupInit
  PROVE  OursInv
<1>1. task.step = "idle" /\ merge.phase = "none" /\ ~merge.answer.in
  BY DEF GroupInit, Idle, NoMerge, NoEntry
<1>2. convo.active /\ convo.exists /\ convo.members = People /\ saved = convo
  BY DEF GroupInit, NoGroup, First
<1> QED BY <1>1, <1>2, PeopleAssumption DEF OursInv, Ours, Joining

\* What a handler commits.
LEMMA CommitOurs ==
  ASSUME GroupTypeInv, OursInv, NEW c \in Group, Commit(c), Ours(c),
         convo.exists => c.exists
  PROVE  /\ Ours(convo)' /\ Ours(saved)'
         /\ merge'.answer.in => {Us, Admin} \subseteq merge'.answer.members
         /\ merge'.phase = "updated" /\ merge'.attached => convo'.exists
<1>1. /\ convo' = c /\ saved' = c /\ merge'.phase = merge.phase /\ merge'.attached = merge.attached
      /\ merge'.answer.in => merge'.answer = merge.answer \/ (c.active /\ merge'.answer.members = c.members)
  BY CommitType
<1> QED BY <1>1 DEF OursInv, Ours

LEMMA DeleteOurs ==
  ASSUME GroupTypeInv, OursInv, Delete
  PROVE  /\ Ours(convo)' /\ Ours(saved)'
         /\ merge'.answer.in => {Us, Admin} \subseteq merge'.answer.members
         /\ merge'.phase = "updated" /\ merge'.attached => convo'.exists
<1>1. /\ convo' = NoGroup /\ saved' = NoGroup /\ merge'.phase = merge.phase
      /\ merge'.answer.in => merge'.answer = merge.answer
      /\ merge.phase # "merged" => ~merge'.attached
  BY DeleteType
<1> QED BY <1>1 DEF OursInv, Ours, NoGroup

\* No handler writes a group that we or its admin are not in.
LEMMA OursHandle ==
  ASSUME GroupTypeInv, TableInv, TaskRow, OursInv, Handle
  PROVE  OursInv'
<1>1. /\ task \in Tasks /\ convo \in Group /\ sent \in Histories /\ (task # Idle => cached # <<>>)
      /\ Idle.step = "idle"
  BY DEF GroupTypeInv, GroupTypeOK, Idle
<1>2. ASSUME PerformIfValid PROVE OursInv'
  <2>1. UNCHANGED <<sent, convo, saved, merge>> /\ task'.step \in {"idle", "valid"}
    BY <1>1, <1>2 DEF PerformIfValid, Drop, external, Idle
  <2>2. task'.step = "valid" => convo.exists /\ convo.active
    <3>1. task'.step = "valid" => Acceptable(Current)
      BY <1>1, <1>2 DEF PerformIfValid, Drop
    <3> QED BY <3>1 DEF Acceptable, OursInv, Ours
  <2> QED BY <2>1, <2>2 DEF OursInv, Joining, Ours
<1>3. ASSUME Read PROVE OursInv'
  <2>1. cached # <<>> /\ task.step = "valid"
    BY <1>1, <1>3 DEF Read
  <2>2. Current \in Updates /\ Now \in Update /\ Revived(Now) \in Group /\ sent' = sent
    BY <1>1, <1>3, <2>1, CurrentIs, RevivedType DEF Read, external
  <2>3. /\ Revived(Now).active = convo.active /\ Revived(Now).members = convo.members /\ Revived(Now).exists = convo.exists
    BY <1>1, RevivedType
  <2>4. CASE ~task.attached /\ Step("done") /\ UNCHANGED <<convo, saved, polled, merge>>
    <3>1. task'.step = "done"
      BY <1>1, <2>4 DEF Step, Tasks
    <3> QED BY <2>2, <2>4, <3>1 DEF OursInv, Joining, Ours
  <2>5. CASE task.attached /\ Delete /\ Step("done")
    <3>1. task'.step = "done"
      BY <1>1, <2>5 DEF Step, Tasks
    <3> QED BY <2>2, <2>5, <3>1, DeleteOurs DEF OursInv, Joining
  <2>6. CASE task.attached /\ Commit(Revived(Now)) /\ Step("done")
    <3>1. task'.step = "done"
      BY <1>1, <2>6 DEF Step, Tasks
    <3>2. Ours(Revived(Now))
      BY <2>1, <2>3, <2>6 DEF OursInv, Ours
    <3> QED BY <2>2, <2>3, <2>6, <3>1, <3>2, CommitOurs DEF OursInv, Joining
  <2>7. CASE /\ task.attached /\ ~Out(Now)
             /\ convo' = Revived(Now)
             /\ task' = [task EXCEPT !.old = convo.members, !.apply = EnvelopeMoreRecent(Current), !.step = "noting"]
             /\ UNCHANGED <<cached, saved, polled, merge>>
    <3>1. task'.step = "noting" /\ task'.old = convo.members
      BY <1>1, <2>7 DEF Tasks
    <3>2. convo.exists /\ convo.active /\ {Us, Admin} \subseteq convo.members
      BY <2>1, <2>7 DEF OursInv, Ours
    <3>3. {Us, Admin} \subseteq After(Now, convo.members)
      <4>1. sent[Current].type = "added" \/ Us \in After(sent[Current], convo.members)
        BY <2>7 DEF Out, Now
      <4>2. {Us, Admin} \subseteq After(sent[Current], convo.members)
        BY <1>1, <2>2, <3>2, <4>1, AdminStays
      <4> QED BY <4>2 DEF Now
    <3>4. Now' = Now
      BY <2>2, <2>7 DEF Now, Current
    <3>5. Ours(convo)'
      BY <2>3, <2>7, <3>2 DEF Ours
    <3> QED BY <2>3, <2>7, <3>1, <3>2, <3>3, <3>4, <3>5 DEF OursInv, Joining, Ours
  <2> QED BY <1>3, <2>4, <2>5, <2>6, <2>7 DEF Read
<1>4. ASSUME AddUpdateMessage PROVE OursInv'
  <2>1. task'.step = "writing" /\ task'.old = task.old /\ task'.apply = task.apply /\ task'.attached = task.attached
        /\ task.step = "noting" /\ Now' = Now
    BY <1>1, <1>4 DEF AddUpdateMessage, Step, Tasks, Now, Current, external
  <2>2. CASE UNCHANGED <<convo, saved, merge>>
    BY <2>1, <2>2 DEF OursInv, Joining, Ours
  <2>3. CASE Commit(convo)
    <3>1. convo' = convo
      BY <2>3 DEF Commit, Save
    <3>2. Ours(convo)
      BY DEF OursInv
    <3> QED BY <1>1, <2>1, <2>3, <3>1, <3>2, CommitOurs DEF OursInv, Joining
  <2> QED BY <1>4, <2>2, <2>3 DEF AddUpdateMessage
<1>5. ASSUME Write PROVE OursInv'
  <2>1. task'.step = "done" /\ task.step = "writing" /\ cached # <<>>
    BY <1>1, <1>5 DEF Write, Step, Tasks
  <2>2. CASE UNCHANGED <<convo, saved, merge>>
    BY <2>1, <2>2 DEF OursInv, Joining, Ours
  <2>3. CASE task.attached /\ Commit([convo EXCEPT !.members = NewMembers(Now, task.apply, task.old),
                                                   !.zombies = NewZombies(Now, task.apply, task.old)])
    <3> DEFINE c == [convo EXCEPT !.members = NewMembers(Now, task.apply, task.old),
                                  !.zombies = NewZombies(Now, task.apply, task.old)]
    <3>1. c \in Group /\ c.members = NewMembers(Now, task.apply, task.old) /\ c.active = convo.active
          /\ c.exists = convo.exists
      <4>1. Now \in Update /\ task.apply \in BOOLEAN /\ task.old \in SUBSET People
        BY <1>1, <2>1, CurrentIs DEF Tasks
      <4> QED BY <1>1, <4>1, NewType DEF Group
    <3>2. convo.exists /\ convo.active /\ {Us, Admin} \subseteq NewMembers(Now, task.apply, task.old)
      BY <2>1, <2>3 DEF OursInv, Ours, NewMembers
    <3>3. Ours(c)
      BY <3>1, <3>2 DEF Ours
    <3>4. Commit(c)
      BY <2>3
    <3> HIDE DEF c
    <3> QED BY <2>1, <3>1, <3>3, <3>4, CommitOurs DEF OursInv, Joining
  <2> QED BY <1>5, <2>2, <2>3 DEF Write
<1>6. ASSUME RemoveFromCache PROVE OursInv'
  BY <1>1, <1>6 DEF RemoveFromCache, Drop, external, OursInv, Joining, Ours
<1> QED BY <1>2, <1>3, <1>4, <1>5, <1>6 DEF Handle

\* Nor does that of an invitation.
LEMMA OursJoin ==
  ASSUME GroupTypeInv, TableInv, TaskRow, OursInv, Join
  PROVE  OursInv'
<1>1. /\ task \in Tasks /\ convo \in Group /\ sent \in Histories /\ (task # Idle => cached # <<>>)
      /\ Idle.step = "idle" /\ Created \in Group
  <2>1. 0 \in 0 .. LastUpdate
    BY NumberAssumption
  <2> QED BY <2>1 DEF GroupTypeInv, GroupTypeOK, Idle, Created, NoGroup, Group
<1>2. ~Created.active /\ Created.members = {} /\ Created.exists
  BY DEF Created, NoGroup
<1>3. ASSUME OpenInvitation PROVE OursInv'
  <2>1. CASE Drop /\ UNCHANGED <<convo, saved, merge>>
    BY <1>1, <2>1 DEF Drop, OursInv, Joining, Ours
  <2>2. CASE Commit(Created) /\ task' = [Idle EXCEPT !.step = "joining", !.attached = TRUE]
    <3>1. task'.step = "joining" /\ convo' = Created
      BY <2>2 DEF Idle, Commit, Save
    <3>2. Ours(Created)
      BY <1>2 DEF Ours
    <3> QED BY <1>1, <1>2, <2>2, <3>1, <3>2, CommitOurs DEF OursInv, Joining
  <2> QED BY <1>3, <2>1, <2>2 DEF OpenInvitation
<1>4. ASSUME UpdateOrCreate PROVE OursInv'
  <2>1. task.step = "joining" /\ task'.step = "naming" /\ cached # <<>>
    BY <1>1, <1>4 DEF UpdateOrCreate, Step, Tasks
  <2>2. Current \in Invitations
    <3>1. HasInvitation(Current) /\ Current \in Updates
      BY <2>1, HeadRow DEF TaskRow, Joining
    <3> QED BY <3>1 DEF TableInv
  <2>3. {Us, Admin} \subseteq MembersAt(Current) /\ MembersAt(Current) \subseteq People
    BY <1>1, <2>2, InvitationIs
  <2> DEFINE c == [IF convo.exists THEN convo ELSE Created EXCEPT !.members = Members(sent)[Current], !.active = TRUE]
  <2>4. c \in Group /\ c.members = MembersAt(Current) /\ c.active /\ c.exists
    BY <1>1, <1>2, <2>3 DEF MembersAt, Group
  <2>5. Commit(c)
    BY <1>4 DEF UpdateOrCreate
  <2> HIDE DEF c
  <2>6. convo' = c
    BY <2>5 DEF Commit, Save
  <2>7. Ours(c)
    BY <2>3, <2>4 DEF Ours
  <2> QED BY <2>1, <2>4, <2>5, <2>6, <2>7, CommitOurs DEF OursInv, Joining
<1>5. ASSUME SetJoined PROVE OursInv'
  <2>1. task.step = "naming" /\ task'.step = "joined" /\ task'.attached = task.attached /\ cached # <<>>
    BY <1>1, <1>5 DEF SetJoined, Step, Tasks
  <2>2. PICK c \in Group : Commit(c) /\ Ours(c) /\ c.exists = convo.exists
    <3>1. CASE task.attached
      <4>1. Current \in 0 .. LastUpdate /\ convo.exists
        BY <2>1, <3>1, CurrentIs DEF OursInv, Joining
      <4> DEFINE c == [convo EXCEPT !.joined = Current]
      <4>2. c \in Group /\ c.exists /\ c.active = convo.active /\ c.members = convo.members
        BY <1>1, <4>1 DEF Group
      <4>3. Commit(c)
        BY <1>5, <3>1 DEF SetJoined
      <4> HIDE DEF c
      <4>4. Ours(c)
        BY <4>2 DEF OursInv, Ours
      <4> QED BY <4>1, <4>2, <4>3, <4>4
    <3>2. CASE ~task.attached
      <4>1. Commit(convo)
        BY <1>5, <3>2 DEF SetJoined
      <4> QED BY <1>1, <4>1 DEF OursInv
    <3> QED BY <3>1, <3>2
  <2>3. convo' = c
    BY <2>2 DEF Commit, Save
  <2> QED BY <2>1, <2>2, <2>3, CommitOurs DEF OursInv, Joining
<1>6. ASSUME StartPolling PROVE OursInv'
  BY <1>1, <1>6 DEF StartPolling, Drop, external, OursInv, Joining, Ours
<1> QED BY <1>3, <1>4, <1>5, <1>6 DEF Join

\* The task, while a wrapper is merged.
LEMMA OursTask ==
  ASSUME OursInv, UNCHANGED <<sent, cached, task>>,
         convo.exists => convo'.exists, convo.exists /\ convo.active => convo'.active
  PROVE  /\ task'.step \in {"valid", "noting", "writing"} /\ task'.attached => convo'.exists /\ convo'.active
         /\ Joining' /\ task'.attached => convo'.exists
         /\ task'.step \in {"noting", "writing"} /\ task'.attached /\ task'.apply
              => {Us, Admin} \subseteq After(Now', task'.old)
<1>1. Now' = Now
  BY DEF Now, Current
<1> QED BY <1>1 DEF OursInv, Joining

\* Nor a merge.
LEMMA OursMerge ==
  ASSUME GroupTypeInv, OursInv, Merge
  PROVE  OursInv'
<1>1. /\ task \in Tasks /\ merge \in Merges /\ convo \in Group /\ sent \in Histories
      /\ (merge.phase \in {"comparing", "updated"} => merge.answer.in)
      /\ merge.answer \in Entry
  BY DEF GroupTypeInv, GroupTypeOK
<1>2. Ours(convo) /\ Ours(saved)
  BY DEF OursInv
<1>3. ASSUME MergeConfig PROVE OursInv'
  <2>1. PICK j \in 0 .. LastUpdate, t \in Updates : merge' = [NoMerge EXCEPT !.phase = "merged", !.answer = EntryAt(j), !.at = t]
    BY <1>3 DEF MergeConfig
  <2>2. merge'.phase = "merged" /\ merge'.answer = EntryAt(j)
    BY <2>1 DEF NoMerge
  <2>3. merge'.answer.in => {Us, Admin} \subseteq merge'.answer.members
    BY <1>1, <2>2, EntryType
  <2>4. UNCHANGED <<sent, cached, task, convo, saved>>
    BY <1>3 DEF MergeConfig
  <2> QED BY <1>2, <2>2, <2>3, <2>4, OursTask DEF OursInv, Ours
<1>4. ASSUME Ask PROVE OursInv'
  <2>1. merge'.phase = "asked" /\ merge'.answer = merge.answer /\ UNCHANGED <<sent, cached, task, convo, saved>>
    BY <1>1, <1>4 DEF Ask, Merges, external
  <2> QED BY <1>2, <2>1, OursTask DEF OursInv, Ours
<1>5. ASSUME Compare PROVE OursInv'
  <2>1. merge'.phase \in {"comparing", "handled"} /\ merge'.answer = merge.answer /\ UNCHANGED <<sent, cached>>
    BY <1>1, <1>5 DEF Compare, Merges, external
  <2>2. CASE Removed /\ task' = [task EXCEPT !.attached = FALSE]
    <3>1. ~task'.attached /\ convo' = NoGroup /\ saved' = NoGroup
      BY <1>1, <2>2 DEF Removed, Tasks
    <3>2. Ours(convo)' /\ Ours(saved)'
      BY <3>1 DEF Ours, NoGroup
    <3> QED BY <2>1, <3>1, <3>2 DEF OursInv
  <2>3. CASE ~convo.exists /\ Save(Created) /\ UNCHANGED task
    <3>1. convo' = Created /\ saved' = Created /\ convo'.exists
      BY <2>3 DEF Save, Created, NoGroup
    <3>2. Ours(convo)' /\ Ours(saved)'
      BY <3>1 DEF Ours, Created, NoGroup
    <3> QED BY <2>1, <2>3, <3>1, <3>2, OursTask DEF OursInv
  <2>4. CASE UNCHANGED <<task, convo, saved>>
    BY <1>2, <2>1, <2>4, OursTask DEF OursInv, Ours
  <2> QED BY <1>5, <2>2, <2>3, <2>4 DEF Compare
<1>6. ASSUME UpdateGroup PROVE OursInv'
  <2>1. CASE convo.exists /\ merge' = [merge EXCEPT !.phase = "updated", !.attached = TRUE]
    <3>1. /\ convo' = [convo EXCEPT !.members = merge.answer.members, !.active = TRUE] /\ saved' = convo'
          /\ UNCHANGED <<sent, cached, task>>
      BY <1>6, <2>1 DEF UpdateGroup, Save, external
    <3>2. convo'.exists /\ convo'.active /\ convo'.members = merge.answer.members
      BY <1>1, <2>1, <3>1 DEF Group
    <3>3. merge'.answer = merge.answer /\ {Us, Admin} \subseteq merge.answer.members
      BY <1>1, <1>6, <2>1 DEF UpdateGroup, OursInv, Merges
    <3>4. Ours(convo)' /\ Ours(saved)'
      BY <3>1, <3>2, <3>3 DEF Ours
    <3> QED BY <3>1, <3>2, <3>3, <3>4, OursTask DEF OursInv
  <2>2. CASE merge' = [merge EXCEPT !.phase = "handled"] /\ UNCHANGED <<convo, saved>>
    <3>1. merge'.phase = "handled" /\ merge'.answer = merge.answer /\ UNCHANGED <<sent, cached, task>>
      BY <1>1, <1>6, <2>2 DEF UpdateGroup, Merges, external
    <3> QED BY <1>2, <2>2, <3>1, OursTask DEF OursInv, Ours
  <2> QED BY <1>6, <2>1, <2>2 DEF UpdateGroup
<1>7. ASSUME SetJoinedFromWrapper PROVE OursInv'
  <2>1. merge'.phase = "handled" /\ merge'.answer = merge.answer /\ UNCHANGED <<sent, cached, task>>
    BY <1>1, <1>7 DEF SetJoinedFromWrapper, Merges, external
  <2>2. /\ saved' = convo' /\ Ours(convo)'
        /\ convo'.exists = convo.exists /\ convo'.active = convo.active
    <3>1. CASE merge.attached
      <4>1. convo' = [convo EXCEPT !.joined = merge.answer.joined] /\ saved' = convo' /\ convo.exists
        BY <1>7, <3>1 DEF SetJoinedFromWrapper, Save, OursInv
      <4> QED BY <1>1, <1>2, <4>1 DEF Group, Ours
    <3>2. CASE ~merge.attached
      BY <1>2, <1>7, <3>2 DEF SetJoinedFromWrapper, Save, Ours
    <3> QED BY <3>1, <3>2
  <2>3. Ours(saved)'
    BY <2>2 DEF Ours
  <2> QED BY <2>1, <2>2, <2>3, OursTask DEF OursInv
<1>8. ASSUME EndMerge PROVE OursInv'
  <2>1. merge'.phase = "none" /\ ~merge'.answer.in /\ UNCHANGED <<sent, cached, task, convo, saved>>
    BY <1>8 DEF EndMerge, NoMerge, NoEntry, external
  <2> QED BY <1>2, <2>1, OursTask DEF OursInv, Ours
<1> QED BY <1>3, <1>4, <1>5, <1>6, <1>7, <1>8 DEF Merge

LEMMA OursStep ==
  ASSUME GroupTypeInv, TableInv, TaskRow, OursInv, [GroupNext]_groupVars
  PROVE  OursInv'
<1>1. CASE UNCHANGED groupVars
  BY <1>1, OursTask DEF groupVars, external, OursInv, Ours
<1>2. CASE Fetch \/ FetchInvitation
  <2>1. UNCHANGED <<sent, convo, saved, merge, task>>
    BY <1>2 DEF Fetch, FetchInvitation, external
  <2>2. task # Idle => Now' = Now
    <3>1. task # Idle => cached # <<>>
      BY DEF GroupTypeInv, GroupTypeOK
    <3>2. cached # <<>> => cached'[1] = cached[1]
      BY <1>2, FetchIs, FetchInvitationIs
    <3> QED BY <2>1, <3>1, <3>2 DEF Now, Current
  <2>3. task.step # "idle" => task # Idle
    BY DEF Idle
  <2> QED BY <2>1, <2>2, <2>3 DEF OursInv, Ours, Joining
<1>3. CASE Restart
  <2>1. task'.step = "idle" /\ merge'.phase = "none" /\ ~merge'.answer.in /\ convo' = saved /\ saved' = saved
    BY <1>3 DEF Restart, Idle, NoMerge, NoEntry
  <2> QED BY <2>1 DEF OursInv, Ours, Joining
<1> QED BY <1>1, <1>2, <1>3, OursHandle, OursJoin, OursMerge DEF GroupNext

\* No handler, merge or kill leaves us with a group that we or its admin are not in,
\* though handlers write the members that they read before their awaits.
THEOREM OursAndAdminStayCorrect == GroupSpec => []OursAndAdminStay
<1> DEFINE Inv == GroupTypeInv /\ TableInv /\ TaskRow /\ OursInv
<1>1. GroupInit => Inv
  BY GroupTypeInit, TableInit, OursInit
<1>2. Inv /\ [GroupNext]_groupVars => Inv'
  BY GroupTypeStep, TableStep, OursStep
<1>3. Inv => OursAndAdminStay
  BY DEF OursInv, Ours, OursAndAdminStay
<1> QED BY <1>1, <1>2, <1>3, PTL DEF GroupSpec

-----------------------------------------------------------------------------
(* What an update does to the members that are known *)

LEMMA MembersAtIs ==
  ASSUME sent \in Histories, NEW k \in Updates, NEW p
  PROVE  p \in MembersAt(k) <=> IF Concerns(sent[k], p) THEN sent[k].type = "added" ELSE p \in MembersAt(k - 1)
BY SentIs, AfterIs

\* Once an update is to be applied all later ones are.
LEMMA MoreRecent ==
  ASSUME GroupTypeInv, NEW k \in Int, NEW l \in Int, k <= l, EnvelopeMoreRecent(k)
  PROVE  EnvelopeMoreRecent(l)
BY NumberAssumption DEF EnvelopeMoreRecent, GroupTypeInv, GroupTypeOK

\* Those who an update concerns that is applied are as it says, and the others as
\* they were: the members are known at it.
LEMMA MembersAdvance ==
  ASSUME GroupTypeInv, Times, latest = other.at,
         NEW k \in Updates, NEW e \in {k - 1, k}, NEW S \in SUBSET People, NEW T \in SUBSET People,
         AsKnown(S, e),
         \A p \in People : p \in T <=> IF Concerns(sent[k], p) /\ EnvelopeMoreRecent(k)
                                       THEN sent[k].type = "added" ELSE p \in S
  PROVE  AsKnown(T, k)
<1>0. /\ sent \in Histories /\ k \in 1 .. LastUpdate /\ LastUpdate \in Nat
      /\ other.seen \in 0 .. LastUpdate /\ k \in Int /\ k + 1 \in Int /\ k - 1 \in 0 .. LastUpdate
  BY NumberAssumption DEF GroupTypeInv, GroupTypeOK, Updates
<1>1. MembersAt(k) \subseteq People
  BY <1>0, AdminOrNobody
<1>2. CASE AsSent(S, e)
  <2>1. S = MembersAt(e) /\ EnvelopeMoreRecent(e + 1)
    BY <1>2 DEF AsSent
  <2>2. EnvelopeMoreRecent(k + 1)
    <3>1. e + 1 \in Int /\ e + 1 <= k + 1
      BY <1>0
    <3> QED BY <1>0, <2>1, <3>1, MoreRecent
  <2>3. e = k - 1 => EnvelopeMoreRecent(k)
    BY <1>0, <2>1
  <2>4. \A p \in People : p \in T <=> p \in MembersAt(k)
    <3> TAKE p \in People
    <3>1. p \in MembersAt(k) <=> IF Concerns(sent[k], p) THEN sent[k].type = "added" ELSE p \in MembersAt(k - 1)
      BY <1>0, MembersAtIs
    <3>2. CASE e = k - 1
      BY <2>1, <2>3, <3>1, <3>2
    <3>3. CASE e = k
      BY <2>1, <3>1, <3>3
    <3> QED BY <3>2, <3>3
  <2>5. T = MembersAt(k)
    BY <1>1, <2>4
  <2> QED BY <2>2, <2>5 DEF AsKnown, AsSent
<1>3. CASE AsWrapped(S, e)
  <2>1. e < other.seen /\ k <= other.seen
    BY <1>0, <1>3 DEF AsWrapped
  <2>2. ASSUME NEW p \in People
        PROVE  \/ p \in T <=> p \in MembersAt(other.seen)
               \/ \E l \in k + 1 .. other.seen : EnvelopeMoreRecent(l) /\ Concerns(sent[l], p)
    <3>1. CASE Concerns(sent[k], p) /\ EnvelopeMoreRecent(k)
      <4>1. p \in T <=> p \in MembersAt(k)
        BY <1>0, <3>1, MembersAtIs
      <4>2. CASE \E l \in k + 1 .. other.seen : Concerns(sent[l], p)
        <5>1. PICK l \in k + 1 .. other.seen : Concerns(sent[l], p)
          BY <4>2
        <5>2. EnvelopeMoreRecent(l)
          BY <1>0, <3>1, MoreRecent
        <5> QED BY <5>1, <5>2
      <4>3. CASE \A l \in k + 1 .. other.seen : ~Concerns(sent[l], p)
        <5>1. p \in MembersAt(k) <=> p \in MembersAt(other.seen)
          <6>1. k \in 0 .. LastUpdate /\ other.seen \in k .. LastUpdate
            BY <1>0, <2>1
          <6> QED BY <1>0, <4>3, <6>1, MembersSame
        <5> QED BY <4>1, <5>1
      <4> QED BY <4>2, <4>3
    <3>2. CASE ~(Concerns(sent[k], p) /\ EnvelopeMoreRecent(k))
      <4>1. p \in T <=> p \in S
        BY <3>2
      <4>2. \/ p \in S <=> p \in MembersAt(other.seen)
            \/ \E l \in e + 1 .. other.seen : EnvelopeMoreRecent(l) /\ Concerns(sent[l], p)
        BY <1>3 DEF AsWrapped
      <4>3. CASE \E l \in e + 1 .. other.seen : EnvelopeMoreRecent(l) /\ Concerns(sent[l], p)
        <5>1. PICK l \in e + 1 .. other.seen : EnvelopeMoreRecent(l) /\ Concerns(sent[l], p)
          BY <4>3
        <5>2. l # k
          BY <3>2, <5>1
        <5>3. l \in k + 1 .. other.seen
          BY <1>0, <5>2
        <5> QED BY <5>1, <5>3
      <4> QED BY <4>1, <4>2, <4>3
    <3> QED BY <3>1, <3>2
  <2>3. CASE k < other.seen
    <3>1. AsWrapped(T, k)
      BY <1>3, <2>2, <2>3 DEF AsWrapped
    <3> QED BY <3>1 DEF AsKnown
  <2>4. CASE k = other.seen
    <3>1. EnvelopeMoreRecent(k + 1)
      <4>1. latest \in Nat /\ latest - Tolerance <= other.seen /\ Tolerance \in Nat
        BY NumberAssumption DEF Times, GroupTypeInv, GroupTypeOK
      <4> QED BY <1>0, <2>4, <4>1 DEF EnvelopeMoreRecent
    <3>2. k + 1 .. other.seen = {}
      BY <1>0, <2>4
    <3>3. \A p \in People : p \in T <=> p \in MembersAt(k)
      BY <2>2, <2>4, <3>2
    <3>4. T = MembersAt(k)
      BY <1>1, <3>3
    <3> QED BY <3>1, <3>4 DEF AsKnown, AsSent
  <2> QED BY <1>0, <2>1, <2>3, <2>4
<1> QED BY <1>2, <1>3 DEF AsKnown

\* An update that we are out after is not one that the wrapper had seen.
LEMMA InWrapped ==
  ASSUME GroupTypeInv, NEW k \in Updates, NEW e \in {k - 1, k}, NEW S, Us \in S,
         AsWrapped(S, e), k > convo.joined
  PROVE  sent[k].type = "added" \/ Us \in After(sent[k], S)
<1>0. sent \in Histories /\ sent[k] \in Update
  BY SentIs DEF GroupTypeInv, GroupTypeOK
<1>1. /\ k \in 1 .. LastUpdate /\ LastUpdate \in Nat /\ other.seen \in 0 .. LastUpdate
      /\ e < other.seen /\ k <= other.seen /\ Us \in MembersAt(other.seen) /\ convo.joined = JoinedBy(other.seen)
  BY NumberAssumption DEF GroupTypeInv, GroupTypeOK, Updates, AsWrapped
<1>2. JoinedBy(other.seen) <= k /\ k \in 0 .. other.seen
  BY <1>1, JoinedByIs
<1>3. Us \in MembersAt(k)
  BY <1>0, <1>1, <1>2, InSince
<1> QED BY <1>0, <1>3, MembersAtIs, AfterIs

\* ... and one that leaves us out of the members of the group.
LEMMA OutSent ==
  ASSUME GroupTypeInv, NEW k \in Updates, NEW e \in {k - 1, k}, NEW S, Us \in S,
         AsSent(S, e), ~(sent[k].type = "added" \/ Us \in After(sent[k], S))
  PROVE  Us \notin MembersAt(k)
<1>0. sent \in Histories /\ sent[k] \in Update
  BY SentIs DEF GroupTypeInv, GroupTypeOK
<1>1. Concerns(sent[k], Us) /\ sent[k].type # "added"
  BY <1>0, AfterIs
<1> QED BY <1>0, <1>1, MembersAtIs

\* Whoever left is no member, and who is added is no zombie.
LEMMA ZombiesAdvance ==
  ASSUME GroupTypeInv, NEW k \in Updates, NEW e \in {k - 1, k}, NEW Y, NEW Z,
         NoZombie(Y, e), sent[k].type = "added" => sent[k].subject \notin Z,
         \A p \in Z : p \in Y \/ (sent[k].type = "left" /\ p = sent[k].sender)
  PROVE  NoZombie(Z, k)
<1>0. sent \in Histories /\ sent[k] \in Update
  BY SentIs DEF GroupTypeInv, GroupTypeOK
<1> SUFFICES ASSUME NEW p \in Z, p \in MembersAt(k) PROVE FALSE
  BY DEF NoZombie
<1>1. IF Concerns(sent[k], p) THEN sent[k].type = "added" ELSE p \in MembersAt(k - 1)
  BY <1>0, MembersAtIs
<1>2. CASE Concerns(sent[k], p)
  BY <1>1, <1>2 DEF Concerns
<1>3. CASE ~Concerns(sent[k], p)
  <2>1. p \in Y /\ p \in MembersAt(k - 1)
    BY <1>1, <1>3 DEF Concerns
  <2> QED BY <2>1 DEF NoZombie
<1> QED BY <1>2, <1>3

-----------------------------------------------------------------------------
(* The order: what an undisturbed step is *)

GroupInv == GroupTypeInv /\ TableInv /\ TaskRow /\ OursInv
Order == Times /\ TaskOf /\ SavedIs /\ InMerge /\ AtRest /\ JoinSeen

\* An undisturbed step.
LEMMA Quiet ==
  ASSUME NEW how \in BOOLEAN, Disturbed(how), ~disturbed'
  PROVE  ~disturbed /\ ~how /\ ~Overlaps
BY DEF Disturbed, Overlaps

\* A handler runs while no wrapper is merged.
LEMMA HandlerQuiet ==
  ASSUME GroupTypeInv, Handle \/ Join, ~disturbed'
  PROVE  ~disturbed /\ merge = NoMerge /\ merge' = NoMerge /\ cached # <<>>
<1>1. task \in Tasks /\ cached \in Seq(GroupEnvelope) /\ (task # Idle => cached # <<>>) /\ convo \in Group
  BY DEF GroupTypeInv, GroupTypeOK
<1>2. Idle.step = "idle"
  BY DEF Idle
<1>3. cached # <<>>
  BY <1>1, <1>2 DEF Handle, Join, PerformIfValid, Read, AddUpdateMessage, Write, RemoveFromCache,
     OpenInvitation, UpdateOrCreate, SetJoined, StartPolling
<1>4. \E how \in BOOLEAN : Disturbed(how)
  <2>1. Refused(Current) \in BOOLEAN /\ Overtakes(Current) \in BOOLEAN
    BY <1>1 DEF Refused, Overtakes, Group
  <2> QED BY <2>1 DEF Handle, Join, PerformIfValid, Read, AddUpdateMessage, Write, RemoveFromCache,
       OpenInvitation, UpdateOrCreate, SetJoined, StartPolling
<1>5. task' # Idle \/ Len(cached') < Len(cached)
  <2>1. CASE Drop
    <3>1. Len(Tail(cached)) < Len(cached)
      BY <1>1, <1>3
    <3> QED BY <2>1, <3>1 DEF Drop
  <2>2. CASE \E s \in {"done", "noting", "writing", "naming", "joined"} : Step(s)
    <3>1. task'.step # "idle"
      BY <1>1, <2>2 DEF Step, Tasks
    <3> QED BY <1>2, <3>1
  <2>3. CASE task' \in {[Idle EXCEPT !.step = "valid", !.attached = TRUE], [Idle EXCEPT !.step = "joining", !.attached = TRUE],
                        [task EXCEPT !.old = convo.members, !.apply = EnvelopeMoreRecent(Current), !.step = "noting"]}
    <3>1. task'.step # "idle"
      BY <1>1, <2>3 DEF Idle, Tasks
    <3> QED BY <1>2, <3>1
  <2> QED BY <2>1, <2>2, <2>3 DEF Handle, Join, PerformIfValid, Read, AddUpdateMessage, Write, RemoveFromCache,
       OpenInvitation, UpdateOrCreate, SetJoined, StartPolling
<1> QED BY <1>3, <1>4, <1>5, Quiet DEF Overlaps

\* A wrapper is merged while no handler runs.
LEMMA MergeQuiet ==
  ASSUME GroupTypeInv, Merge, ~disturbed'
  PROVE  ~disturbed /\ task = Idle /\ task' = Idle
<1>1. task \in Tasks /\ (task.step = "idle" => task = Idle) /\ Idle.step = "idle" /\ NoMerge.phase = "none"
  BY DEF GroupTypeInv, Idle, NoMerge
<1>2. merge # NoMerge \/ merge' # NoMerge
  <2>1. CASE MergeConfig
    <3>1. PICK j, t : merge' = [NoMerge EXCEPT !.phase = "merged", !.answer = EntryAt(j), !.at = t]
      BY <2>1 DEF MergeConfig
    <3>2. merge'.phase = "merged"
      BY <3>1 DEF NoMerge
    <3> QED BY <1>1, <3>2
  <2>2. CASE ~MergeConfig
    BY <1>1, <2>2 DEF Merge, Ask, Compare, UpdateGroup, SetJoinedFromWrapper, EndMerge
  <2> QED BY <2>1, <2>2
<1>3. Disturbed(FALSE) \/ \E s : Disturbed(Behind(s))
  BY DEF Merge, MergeConfig, Ask, Compare, UpdateGroup, SetJoinedFromWrapper, EndMerge
<1>4. ~disturbed /\ ~Overlaps
  BY <1>3, Quiet DEF Behind
<1>5. task' = Idle
  BY <1>2, <1>4 DEF Overlaps
<1>6. task' = task \/ task' = [task EXCEPT !.attached = FALSE]
  BY DEF Merge, MergeConfig, Ask, Compare, UpdateGroup, SetJoinedFromWrapper, EndMerge
<1>7. task.step = "idle"
  BY <1>1, <1>5, <1>6 DEF Tasks
<1> QED BY <1>1, <1>4, <1>5, <1>7

-----------------------------------------------------------------------------
(* The order: what does not change *)

\* The invitations that were opened, and those to come.
LEMMA OpenedSame ==
  ASSUME UNCHANGED <<sent, invited>>, \A k : HasInvitation(k)' <=> HasInvitation(k)
  PROVE  /\ \A k : IsOpened(k)' <=> IsOpened(k)
         /\ \A k : Unopened(k)' <=> Unopened(k)
<1>1. Invitations' = Invitations
  BY Unchanging
<1> QED BY <1>1 DEF IsOpened, Unopened

LEMMA DoomSame ==
  ASSUME \A k : Unopened(k)' <=> Unopened(k), fetched' = fetched,
         convo'.exists = convo.exists, convo'.joined = convo.joined
  PROVE  Doom' <=> Doom
BY DEF Doom, Doomed

LEMMA AwaitsSame ==
  ASSUME sent' = sent, \A k : Unopened(k)' <=> Unopened(k), latest' = latest
  PROVE  Awaits' <=> Awaits
<1>1. LastJoin' = LastJoin
  BY Unchanging DEF LastJoin
<1> QED BY <1>1 DEF Awaits, EnvelopeMoreRecent

LEMMA AsKnownSame ==
  ASSUME UNCHANGED <<sent, other, latest>>, convo'.joined = convo.joined
  PROVE  \A S, e : AsKnown(S, e)' <=> AsKnown(S, e)
BY Unchanging DEF AsKnown, AsSent, AsWrapped, EnvelopeMoreRecent, MembersAt

\* The invitation that we joined with stays known.
LEMMA JoinSeenKeeps ==
  ASSUME GroupTypeInv, JoinSeen, sent' = sent, other.seen <= other'.seen, other'.seen \in Nat,
         fetched <= fetched', fetched' \in Nat,
         \A k : IsOpened(k) => IsOpened(k)', \A k : HasInvitation(k) => HasInvitation(k)' \/ IsOpened(k)',
         convo'.exists => /\ convo.exists /\ convo'.joined = convo.joined
                          /\ convo.zombies = {} => convo'.zombies = {} \/ fetched' > convo.joined
  PROVE  JoinSeen'
<1>1. convo.joined \in Nat /\ other.seen \in Nat /\ fetched \in Nat
  BY DEF GroupTypeInv, GroupTypeOK, Group
<1>2. Invitations' = Invitations
  BY Unchanging
<1> QED BY <1>1, <1>2 DEF JoinSeen

\* Where the conversation is.
LEMMA LevelKeeps ==
  ASSUME fetched \in Nat, fetched' \in Nat, fetched <= fetched', \A f : Upto(f) => Upto(f)', \A k : AtUpdate(k) => AtUpdate(k)',
         convo'.joined = convo.joined, task'.step = "done" => task.step = "done", NEW e, Level(e)
  PROVE  Level(e)'
BY DEF Level, Later

LEMMA LevelHead ==
  ASSUME GroupTypeInv, TableInv, cached # <<>>, ~cached[1].invite, NEW e, Level(e)
  PROVE  e = Later(Current, convo.joined) \/ e = Later(Current - 1, convo.joined)
<1>1. PICK f \in 0 .. fetched :
        /\ Upto(f)
        /\ \/ task.step # "done" /\ e = Later(f, convo.joined)
           \/ AtUpdate(f + 1) /\ e = Later(f + 1, convo.joined)
  BY DEF Level
<1>2. Current = f + 1
  BY <1>1, HeadIsNext
<1>3. f = Current - 1
  BY <1>1, <1>2
<1> QED BY <1>1, <1>2, <1>3

LEMMA LevelOfHead ==
  ASSUME GroupTypeInv, TableInv, cached # <<>>, ~cached[1].invite, NEW e, Level(e), Current > convo.joined
  PROVE  e \in {Current - 1, Current}
<1>1. Current \in Nat /\ convo.joined \in Nat
  BY CurrentIs DEF Updates, GroupTypeInv, GroupTypeOK, Group
<1> QED BY <1>1, LevelHead DEF Later

\* The update of the first row is done, or dropped.
LEMMA LevelDone ==
  ASSUME GroupTypeInv, TableInv, cached # <<>>, ~cached[1].invite, UNCHANGED <<cached, fetched>>,
         convo'.joined = convo.joined
  PROVE  \E e : e = Later(Current, convo.joined) /\ Level(e)'
<1>1. PICK f \in 0 .. fetched : Upto(f)
  BY DEF TableInv
<1>2. Current = f + 1 /\ AtUpdate(f + 1)
  BY <1>1, HeadIsNext
<1>3. Upto(f)' /\ AtUpdate(f + 1)'
  BY <1>1, <1>2, TableSame DEF Upto
<1>4. PICK e : e = Later(f + 1, convo.joined)
  OBVIOUS
<1>5. Level(e)'
  BY <1>1, <1>3, <1>4 DEF Level, Later
<1> QED BY <1>2, <1>4, <1>5

LEMMA LevelDropped ==
  ASSUME GroupTypeInv, TableInv, cached # <<>>, ~cached[1].invite, Drop, fetched' = fetched,
         convo'.joined = convo.joined
  PROVE  \E e : e = Later(Current, convo.joined) /\ Level(e)'
<1>1. PICK f \in 0 .. fetched : Upto(f)
  BY DEF TableInv
<1>2. Current = f + 1
  BY <1>1, HeadIsNext
<1>3. f + 1 \in 0 .. fetched' /\ Upto(f + 1)'
  BY <1>1, TailUpto DEF Drop
<1>4. task'.step # "done"
  BY DEF Drop, Idle
<1>5. PICK e : e = Later(f + 1, convo.joined)
  OBVIOUS
<1>6. Level(e)'
  BY <1>3, <1>4, <1>5 DEF Level, Later
<1> QED BY <1>2, <1>5, <1>6

-----------------------------------------------------------------------------
(* The order: the handler of an update *)

\* What the steps of a handler of an update leave alone.
LEMMA HandlerIs ==
  ASSUME GroupTypeInv, TableInv, TaskRow, Order, Handle, ~disturbed'
  PROVE  /\ merge = NoMerge /\ merge' = NoMerge /\ latest = other.at
         /\ cached # <<>> /\ ~cached[1].invite /\ Current \in Updates
         /\ UNCHANGED <<sent, fetched, invited, other, latest>>
         /\ \A k : IsOpened(k)' <=> IsOpened(k)
         /\ \A k : Unopened(k)' <=> Unopened(k)
         /\ \A k : HasInvitation(k)' <=> HasInvitation(k)
         /\ ~Joining /\ ~Joining'
         /\ Times' /\ InMerge'
         /\ convo.exists => polled /\ (~Doom => convo.active /\ MembersKnown /\ JoinKnown)
         /\ Current <= fetched
<1>0. task \in Tasks /\ Idle.step = "idle" /\ cached \in Seq(GroupEnvelope)
  BY DEF GroupTypeInv, GroupTypeOK, Idle
<1>1. merge = NoMerge /\ merge' = NoMerge /\ cached # <<>>
  BY HandlerQuiet
<1>2. ~cached[1].invite
  BY DEF TaskRow, Handle, PerformIfValid, Read, AddUpdateMessage, Write, RemoveFromCache
<1>3. UNCHANGED <<sent, fetched, invited, other, latest>>
  BY DEF Handle, PerformIfValid, Read, AddUpdateMessage, Write, RemoveFromCache, external
<1>4. cached' = cached \/ cached' = Tail(cached)
  BY RowsOf DEF Drop
<1>5. \A k : HasInvitation(k)' <=> HasInvitation(k)
  BY <1>1, <1>2, <1>4, TableSame, TableTail
<1>6. ~Joining /\ ~Joining'
  BY <1>0 DEF Handle, PerformIfValid, Read, AddUpdateMessage, Write, RemoveFromCache, Step, Drop, Joining,
     Tasks, Idle
<1>7. Times' /\ InMerge'
  BY <1>1, <1>3 DEF Order, Times, InMerge
<1>8. latest = other.at /\ (convo.exists => polled /\ (~Doom => convo.active /\ MembersKnown /\ JoinKnown))
  BY <1>1, <1>6 DEF Order, AtRest
<1>9. Current \in Updates /\ Current <= fetched
  <2>1. Current \in Updates /\ HasUpdate(Current)
    BY <1>1, <1>2, HeadRow
  <2> QED BY <2>1 DEF TableInv
<1> QED BY <1>1, <1>2, <1>3, <1>5, <1>6, <1>7, <1>8, <1>9, OpenedSame

\* A step that keeps the order, of the group at rest.
LEMMA RestKeeps ==
  ASSUME AtRest, merge = NoMerge, UNCHANGED <<sent, fetched, other, latest, polled>>,
         \A k : IsOpened(k)' <=> IsOpened(k), \A k : Unopened(k)' <=> Unopened(k),
         convo'.exists = convo.exists, convo'.joined = convo.joined, ~Joining,
         convo.exists /\ ~Doom => convo'.active /\ MembersKnown'
  PROVE  AtRest'
<1>1. (Doom' <=> Doom) /\ (Awaits' <=> Awaits)
  BY DoomSame, AwaitsSame
<1>2. MembersAt(LastUpdate)' = MembersAt(LastUpdate)
  BY Unchanging
<1>3. JoinKnown => JoinKnown'
  BY DEF JoinKnown
<1> QED BY <1>1, <1>2, <1>3 DEF AtRest

LEMMA KnownKeeps ==
  ASSUME UNCHANGED <<sent, other, latest>>, convo'.members = convo.members, convo'.joined = convo.joined,
         saved'.zombies \subseteq saved.zombies,
         NEW e, AsKnown(convo.members, e), NoZombie(saved.zombies, e)
  PROVE  AsKnown(convo.members, e)' /\ NoZombie(saved.zombies, e)'
<1>1. PICK S : S = convo.members
  OBVIOUS
<1>2. AsKnown(S, e)'
  BY <1>1, AsKnownSame
<1>3. AsKnown(convo.members, e)'
  BY <1>1, <1>2 DEF AsKnown, AsSent, AsWrapped
<1> QED BY <1>3, Unchanging DEF NoZombie

\* The members are known at the update of the first row, when it is done or dropped.
LEMMA KnownNext ==
  ASSUME GroupTypeInv, TableInv, Times, latest = other.at, cached # <<>>, ~cached[1].invite,
         UNCHANGED <<sent, fetched, other, latest>>, Drop \/ cached' = cached,
         convo \in Group, convo'.joined = convo.joined, convo'.members \in SUBSET People,
         NEW e, Level(e), AsKnown(convo.members, e), NoZombie(saved.zombies, e),
         Current > convo.joined,
         \/ UNCHANGED <<convo, saved>> /\ e = Current
         \/ /\ \A p \in People : p \in convo'.members <=>
                  IF Concerns(Now, p) /\ EnvelopeMoreRecent(Current) THEN Now.type = "added" ELSE p \in convo.members
            /\ Now.type = "added" => Now.subject \notin saved'.zombies
            /\ \A p \in saved'.zombies : p \in saved.zombies \/ (Now.type = "left" /\ p = Now.sender)
  PROVE  MembersKnown'
<1>1. Current \in Updates /\ e \in {Current - 1, Current} /\ Current \in 0 .. LastUpdate
  BY CurrentIs, LevelOfHead
<1>2. convo.members \in SUBSET People /\ convo.joined \in Nat
  BY DEF Group
<1>3. PICK k : k = Current
  OBVIOUS
<1>4. AsKnown(convo'.members, k) /\ NoZombie(saved'.zombies, k)
  <2>1. CASE UNCHANGED <<convo, saved>> /\ e = Current
    BY <1>3, <2>1
  <2>2. CASE /\ \A p \in People : p \in convo'.members <=>
                   IF Concerns(Now, p) /\ EnvelopeMoreRecent(Current) THEN Now.type = "added" ELSE p \in convo.members
             /\ Now.type = "added" => Now.subject \notin saved'.zombies
             /\ \A p \in saved'.zombies : p \in saved.zombies \/ (Now.type = "left" /\ p = Now.sender)
    <3>0. k \in Updates /\ e \in {k - 1, k} /\ sent[k] = Now
      BY <1>1, <1>3 DEF Now
    <3>1. PICK T \in SUBSET People : T = convo'.members
      OBVIOUS
    <3>2. \A p \in People : p \in T <=> IF Concerns(sent[k], p) /\ EnvelopeMoreRecent(k)
                                        THEN sent[k].type = "added" ELSE p \in convo.members
      BY <1>3, <2>2, <3>0, <3>1
    <3>3. AsKnown(T, k)
      BY <1>2, <3>0, <3>2, MembersAdvance
    <3>4. PICK Z : Z = saved'.zombies
      OBVIOUS
    <3>5. NoZombie(Z, k)
      BY <2>2, <3>0, <3>4, ZombiesAdvance
    <3> QED BY <3>1, <3>3, <3>4, <3>5
  <2> QED BY <2>1, <2>2
<1>5. AsKnown(convo.members, k)' /\ NoZombie(saved.zombies, k)'
  <2>1. PICK T : T = convo'.members
    OBVIOUS
  <2>2. AsKnown(T, k)'
    BY <1>4, <2>1, AsKnownSame
  <2>3. \A S : AsKnown(S, k)' => (S = convo'.members => AsKnown(convo.members, k)')
    BY DEF AsKnown, AsSent, AsWrapped
  <2>4. NoZombie(saved.zombies, k)'
    BY <1>4, Unchanging DEF NoZombie
  <2> QED BY <2>1, <2>2, <2>3, <2>4
<1>6. Level(k)'
  <2>1. Later(Current, convo.joined) = k
    BY <1>1, <1>2, <1>3 DEF Later, Updates
  <2> QED BY <2>1, LevelDone, LevelDropped
<1>7. k \in 0 .. LastUpdate
  BY <1>1, <1>3
<1> QED BY <1>5, <1>6, <1>7 DEF MembersKnown

\* An update that is dropped: it is in the members already, or nobody of the group sent it.
LEMMA OrderPerformIfValid ==
  ASSUME GroupInv, Order, PerformIfValid, ~disturbed'
  PROVE  Order'
<1> USE DEF GroupInv
<1>0. /\ task = Idle /\ convo \in Group /\ saved = convo /\ Idle.step = "idle" /\ sent \in Histories
      /\ UNCHANGED <<convo, saved, polled>> /\ convo.joined \in Nat /\ convo.members \in SUBSET People
      /\ merge.phase \in {"none", "merged", "asked", "comparing", "updated", "handled"}
  BY DEF PerformIfValid, GroupTypeInv, GroupTypeOK, Idle, Order, SavedIs, Group
<1>1. /\ merge = NoMerge /\ merge' = NoMerge /\ latest = other.at
      /\ cached # <<>> /\ ~cached[1].invite /\ Current \in Updates
      /\ UNCHANGED <<sent, fetched, invited, other, latest>>
      /\ \A k : IsOpened(k)' <=> IsOpened(k)
      /\ \A k : Unopened(k)' <=> Unopened(k)
      /\ \A k : HasInvitation(k)' <=> HasInvitation(k)
      /\ ~Joining /\ ~Joining'
      /\ Times' /\ InMerge'
      /\ convo.exists => polled /\ (~Doom => convo.active /\ MembersKnown /\ JoinKnown)
  BY HandlerIs DEF Handle
<1>2. ~Refused(Current)
  BY <1>0, Quiet DEF PerformIfValid, Refused, Group
<1>3. JoinSeen'
  BY <1>0, <1>1, JoinSeenKeeps DEF Order, GroupTypeInv, GroupTypeOK
<1>4. ASSUME ~Acceptable(Current), Drop PROVE Order'
  <2>1. TaskOf' /\ SavedIs'
    BY <1>0, <1>1, <1>4 DEF Drop, TaskOf, SavedIs, Joining
  <2>2. ASSUME convo.exists, ~Doom PROVE convo.active /\ MembersKnown'
    <3>1. PICK e \in 0 .. LastUpdate : Level(e) /\ AsKnown(convo.members, e) /\ NoZombie(saved.zombies, e)
      BY <1>1, <2>2 DEF MembersKnown
    <3>2. CASE Current <= convo.joined
      <4>1. e = convo.joined /\ Later(Current, convo.joined) = convo.joined
        BY <1>0, <1>1, <3>1, <3>2, LevelHead DEF Later, Updates
      <4>2. Level(e)'
        BY <1>0, <1>1, <1>4, <4>1, LevelDropped
      <4>3. AsKnown(convo.members, e)' /\ NoZombie(saved.zombies, e)'
        BY <1>0, <1>1, <3>1, KnownKeeps
      <4> QED BY <1>1, <2>2, <3>1, <4>2, <4>3 DEF MembersKnown
    <3>3. CASE Current > convo.joined
      <4>1. Now.sender \notin convo.members
        BY <1>4, <2>2, <3>3 DEF Acceptable, Now
      <4>2. e \in {Current - 1, Current}
        BY <1>1, <3>1, <3>3, LevelOfHead
      <4>3. convo.active /\ Us \in convo.members
        BY <1>1, <2>2 DEF OursInv, Ours
      <4>4. \/ e = Current
            \/ ~EnvelopeMoreRecent(Current) /\ (Now.type = "added" => Now.subject \notin convo.zombies)
        <5> SUFFICES ASSUME e = Current - 1
                     PROVE ~EnvelopeMoreRecent(Current) /\ (Now.type = "added" => Now.subject \notin convo.zombies)
          BY <4>2
        <5>1. ~AsSent(convo.members, e)
          <6> SUFFICES ASSUME convo.members = MembersAt(Current - 1) PROVE FALSE
            BY DEF AsSent
          <6>1. Legal(Now, MembersAt(Current - 1))
            BY <1>0, <1>1, <4>3, SentIs DEF Now
          <6> QED BY <4>1, <6>1 DEF Legal
        <5>2. AsWrapped(convo.members, e)
          BY <3>1, <5>1 DEF AsKnown
        <5>3. Current <= other.seen
          BY <1>1, <5>2 DEF AsWrapped, Updates, GroupTypeInv
        <5> QED BY <1>2, <2>2, <3>3, <4>1, <5>3 DEF Refused, Now
      <4>5. CASE e = Current
        <5>1. UNCHANGED <<convo, saved>>
          BY <1>0
        <5> QED BY <1>0, <1>1, <1>4, <3>1, <3>3, <4>3, <4>5, <5>1, KnownNext DEF Order
      <4>6. CASE ~EnvelopeMoreRecent(Current) /\ (Now.type = "added" => Now.subject \notin convo.zombies)
        <5>1. /\ \A p \in People : p \in convo'.members <=>
                   IF Concerns(Now, p) /\ EnvelopeMoreRecent(Current) THEN Now.type = "added" ELSE p \in convo.members
              /\ Now.type = "added" => Now.subject \notin saved'.zombies
              /\ \A p \in saved'.zombies : p \in saved.zombies \/ (Now.type = "left" /\ p = Now.sender)
          BY <1>0, <4>6
        <5>2. convo'.joined = convo.joined /\ convo'.members \in SUBSET People
          BY <1>0
        <5> QED BY <1>0, <1>1, <1>4, <3>1, <3>3, <4>3, <5>1, <5>2, KnownNext DEF Order
      <4> QED BY <4>4, <4>5, <4>6
    <3> QED BY <1>0, <1>1, <3>2, <3>3 DEF Updates
  <2>3. AtRest'
    BY <1>0, <1>1, <2>2, RestKeeps DEF Order
  <2> QED BY <1>1, <1>3, <2>1, <2>3 DEF Order
<1>5. ASSUME Acceptable(Current), task' = [Idle EXCEPT !.step = "valid", !.attached = TRUE], UNCHANGED cached
      PROVE  Order'
  <2>1. task'.step = "valid" /\ task'.attached /\ Current' = Current /\ Now' = Now
    BY <1>1, <1>5 DEF Idle, Now, Current
  <2>2. TaskOf'
    BY <1>0, <1>1, <1>5, <2>1 DEF TaskOf, Joining, Acceptable, Now
  <2>3. SavedIs'
    BY <1>0, <2>1 DEF SavedIs
  <2>4. ASSUME convo.exists, ~Doom PROVE convo.active /\ MembersKnown'
    <3>1. PICK e \in 0 .. LastUpdate : Level(e) /\ AsKnown(convo.members, e) /\ NoZombie(saved.zombies, e)
      BY <1>1, <2>4 DEF MembersKnown
    <3>2. Level(e)'
      BY <1>0, <1>1, <1>5, <2>1, <3>1, LevelKeeps, TableKeep, TableSame DEF GroupTypeInv, GroupTypeOK
    <3>3. AsKnown(convo.members, e)' /\ NoZombie(saved.zombies, e)'
      BY <1>0, <1>1, <3>1, KnownKeeps
    <3> QED BY <1>1, <2>4, <3>1, <3>2, <3>3 DEF MembersKnown
  <2>5. AtRest'
    BY <1>0, <1>1, <2>4, RestKeeps DEF Order
  <2> QED BY <1>1, <1>3, <2>2, <2>3, <2>5 DEF Order
<1> QED BY <1>4, <1>5 DEF PerformIfValid

\* An update that changes nothing, has us leave, or is about to be applied.
LEMMA OrderRead ==
  ASSUME GroupInv, Order, Read, ~disturbed'
  PROVE  Order'
<1> USE DEF GroupInv
<1>0. /\ task \in Tasks /\ task.step = "valid" /\ convo \in Group /\ saved = convo /\ sent \in Histories
      /\ convo.joined \in Nat /\ convo.members \in SUBSET People
  BY DEF Read, GroupTypeInv, GroupTypeOK, Order, SavedIs, Group
<1>1. /\ merge = NoMerge /\ merge' = NoMerge /\ latest = other.at
      /\ cached # <<>> /\ ~cached[1].invite /\ Current \in Updates
      /\ UNCHANGED <<sent, fetched, invited, other, latest>>
      /\ \A k : IsOpened(k)' <=> IsOpened(k)
      /\ \A k : Unopened(k)' <=> Unopened(k)
      /\ \A k : HasInvitation(k)' <=> HasInvitation(k)
      /\ ~Joining /\ ~Joining'
      /\ Times' /\ InMerge'
      /\ convo.exists => polled /\ (~Doom => convo.active /\ MembersKnown /\ JoinKnown)
      /\ Current <= fetched
  BY HandlerIs DEF Handle
<1>2. task.attached /\ convo.exists /\ Current > convo.joined /\ Now.sender \in convo.members
  BY <1>0 DEF Order, TaskOf
<1>3. convo.active /\ Us \in convo.members
  BY <1>0, <1>2 DEF OursInv, Ours
<1>4. /\ Now \in Update /\ Now = sent[Current] /\ Current \in 0 .. LastUpdate
      /\ Revived(Now).zombies \subseteq convo.zombies
      /\ Revived(Now) = [convo EXCEPT !.zombies = Revived(Now).zombies]
      /\ Now.type = "added" => Now.subject \notin Revived(Now).zombies
      /\ Revived(Now).active = convo.active /\ Revived(Now).members = convo.members
      /\ Revived(Now).joined = convo.joined /\ Revived(Now).exists = convo.exists
  BY <1>0, <1>1, CurrentIs, RevivedType DEF Now
<1>5. fetched \in Nat /\ other.seen \in Nat /\ LastUpdate \in Nat
  BY NumberAssumption DEF GroupTypeInv, GroupTypeOK
<1>6. ASSUME Out(Now), Delete, Step("done") PROVE Order'
  <2>1. convo' = NoGroup /\ saved' = NoGroup /\ ~polled' /\ ~convo'.exists /\ task'.step = "done"
    BY <1>0, <1>6, DeleteType DEF Step, Tasks, NoGroup
  <2>2. TaskOf' /\ SavedIs' /\ JoinSeen'
    BY <1>1, <2>1 DEF TaskOf, SavedIs, JoinSeen
  <2>3. Doom => Doom'
    <3> SUFFICES ASSUME NEW i \in Updates, Doomed(i) PROVE i < fetched
      BY <1>1 DEF Doom, Doomed
    <3> QED BY <1>0, <1>1, <1>2, <1>5 DEF Doomed, Updates
  <2>4. ASSUME ~Doom, Us \in MembersAt(LastUpdate) PROVE Awaits'
    <3>1. PICK e \in 0 .. LastUpdate : Level(e) /\ AsKnown(convo.members, e)
      BY <1>1, <1>2, <2>4 DEF MembersKnown
    <3>2. e \in {Current - 1, Current}
      BY <1>1, <1>2, <3>1, LevelOfHead
    <3>3. ~(Now.type = "added" \/ Us \in After(Now, convo.members))
      BY <1>6 DEF Out
    <3>4. AsSent(convo.members, e)
      BY <1>1, <1>2, <1>3, <1>4, <3>1, <3>2, <3>3, InWrapped DEF AsKnown
    <3>5. Us \notin MembersAt(Current)
      BY <1>1, <1>3, <1>4, <3>2, <3>3, <3>4, OutSent
    <3>6. PICK i \in Invitations : Current < i /\ i <= LastUpdate
      <4>1. LastUpdate \in Current .. LastUpdate
        BY <1>4, <1>5
      <4> QED BY <1>0, <1>4, <2>4, <3>5, <4>1, AddedBetween
    <3>7. /\ LastJoin \in {0} \union Invitations /\ LastJoin \in Nat /\ LastJoin > Current
      <4>1. /\ LastJoin \in {0} \union Invitations /\ LastJoin \in Nat /\ i <= LastJoin
        BY <1>5, <3>6, JoinedByIs DEF LastJoin
      <4> QED BY <1>1, <3>6, <4>1 DEF Invitations, Updates
    <3>8. LastJoin # 0 /\ LastJoin \in Invitations /\ LastJoin \in Updates
      BY <1>1, <3>7 DEF Invitations, Updates
    <3>9. Unopened(LastJoin)
      <4>1. ~IsOpened(LastJoin)
        BY <1>0, <1>1, <1>2, <2>4, <3>7, <3>8 DEF JoinKnown, Updates
      <4> QED BY <3>8, <4>1 DEF Unopened
    <3>10. EnvelopeMoreRecent(LastJoin)
      <4>1. EnvelopeMoreRecent(e + 1) /\ e + 1 \in Int /\ e + 1 <= LastJoin
        BY <1>1, <3>2, <3>4, <3>7 DEF AsSent, Updates
      <4> QED BY <3>7, <4>1, MoreRecent
    <3> QED BY <1>1, <3>8, <3>9, <3>10, AwaitsSame DEF Awaits
  <2>5. AtRest'
    <3>1. MembersAt(LastUpdate)' = MembersAt(LastUpdate)
      BY <1>1, Unchanging
    <3> QED BY <1>1, <2>1, <2>3, <2>4, <3>1 DEF AtRest
  <2> QED BY <1>1, <2>2, <2>5 DEF Order
<1>7. ASSUME ~Out(Now), ~Changes(Now), Commit(Revived(Now)), Step("done"), UNCHANGED polled PROVE Order'
  <2>1. convo' = Revived(Now) /\ saved' = Revived(Now) /\ task'.step = "done" /\ cached' = cached
    BY <1>0, <1>7 DEF Commit, Save, Step, Tasks
  <2>2. TaskOf' /\ SavedIs'
    BY <1>1, <2>1 DEF TaskOf, SavedIs
  <2>3. JoinSeen'
    BY <1>1, <1>4, <1>5, <2>1, JoinSeenKeeps DEF Order
  <2>4. ASSUME ~Doom PROVE MembersKnown'
    <3>1. PICK e \in 0 .. LastUpdate : Level(e) /\ AsKnown(convo.members, e) /\ NoZombie(saved.zombies, e)
      BY <1>1, <1>2, <2>4 DEF MembersKnown
    <3>2. /\ \A p \in People : p \in convo'.members <=>
                IF Concerns(Now, p) /\ EnvelopeMoreRecent(Current) THEN Now.type = "added" ELSE p \in convo.members
          /\ Now.type = "added" => Now.subject \notin saved'.zombies
          /\ \A p \in saved'.zombies : p \in saved.zombies \/ (Now.type = "left" /\ p = Now.sender)
      BY <1>0, <1>4, <1>7, <2>1 DEF Changes, Concerns, Update
    <3>3. convo'.joined = convo.joined /\ convo'.members \in SUBSET People
      BY <1>0, <1>4, <2>1
    <3> QED BY <1>0, <1>1, <1>2, <2>1, <3>1, <3>2, <3>3, KnownNext DEF Order
  <2>5. AtRest'
    BY <1>1, <1>3, <1>4, <1>7, <2>1, <2>4, RestKeeps DEF Order
  <2> QED BY <1>1, <2>2, <2>3, <2>5 DEF Order
<1>8. ASSUME ~Out(Now), Changes(Now), convo' = Revived(Now),
             task' = [task EXCEPT !.old = convo.members, !.apply = EnvelopeMoreRecent(Current), !.step = "noting"],
             UNCHANGED <<cached, saved, polled>>
      PROVE  Order'
  <2>1. /\ task'.step = "noting" /\ task'.old = convo.members /\ task'.apply = EnvelopeMoreRecent(Current)
        /\ task'.attached /\ Current' = Current /\ Now' = Now
    BY <1>0, <1>1, <1>2, <1>8 DEF Tasks, Now, Current
  <2>2. TaskOf'
    <3>1. EnvelopeMoreRecent(Current)' = EnvelopeMoreRecent(Current)
      BY <1>1, <2>1 DEF EnvelopeMoreRecent
    <3>2. Out(Now)' = Out(Now) /\ Changes(Now)' = Changes(Now)
      BY <1>4, <1>8, <2>1 DEF Out, Changes
    <3> QED BY <1>1, <1>2, <1>4, <1>8, <2>1, <3>1, <3>2 DEF TaskOf, Joining
  <2>3. SavedIs'
    <3>1. saved' = [convo' EXCEPT !.zombies = saved'.zombies]
      BY <1>0, <1>4, <1>8 DEF Group
    <3> QED BY <1>0, <1>4, <1>8, <2>1, <3>1 DEF SavedIs
  <2>4. JoinSeen'
    BY <1>1, <1>4, <1>5, <1>8, JoinSeenKeeps DEF Order
  <2>5. ASSUME ~Doom PROVE MembersKnown'
    <3>1. PICK e \in 0 .. LastUpdate : Level(e) /\ AsKnown(convo.members, e) /\ NoZombie(saved.zombies, e)
      BY <1>1, <1>2, <2>5 DEF MembersKnown
    <3>2. Level(e)'
      BY <1>1, <1>4, <1>5, <1>8, <2>1, <3>1, LevelKeeps, TableKeep, TableSame
    <3> QED BY <1>1, <1>4, <1>8, <3>1, <3>2, KnownKeeps DEF MembersKnown
  <2>6. AtRest'
    BY <1>1, <1>3, <1>4, <1>8, <2>5, RestKeeps DEF Order
  <2> QED BY <1>1, <2>2, <2>3, <2>4, <2>6 DEF Order
<1> QED BY <1>2, <1>6, <1>7, <1>8 DEF Read

\* The message is added, and the zombies are saved.
LEMMA OrderAddUpdateMessage ==
  ASSUME GroupInv, Order, AddUpdateMessage, ~disturbed'
  PROVE  Order'
<1> USE DEF GroupInv
<1>0. /\ task \in Tasks /\ task.step = "noting" /\ convo \in Group
      /\ saved = [convo EXCEPT !.zombies = saved.zombies] /\ convo.zombies \subseteq saved.zombies
  BY DEF AddUpdateMessage, GroupTypeInv, GroupTypeOK, Order, SavedIs
<1>1. /\ merge = NoMerge /\ merge' = NoMerge /\ latest = other.at
      /\ cached # <<>> /\ ~cached[1].invite /\ Current \in Updates
      /\ UNCHANGED <<sent, fetched, invited, other, latest>>
      /\ \A k : IsOpened(k)' <=> IsOpened(k)
      /\ \A k : Unopened(k)' <=> Unopened(k)
      /\ \A k : HasInvitation(k)' <=> HasInvitation(k)
      /\ ~Joining /\ ~Joining'
      /\ Times' /\ InMerge'
      /\ convo.exists => polled /\ (~Doom => convo.active /\ MembersKnown /\ JoinKnown)
  BY HandlerIs DEF Handle
<1>2. convo' = convo /\ (saved' = saved \/ saved' = convo) /\ UNCHANGED <<cached, polled>>
  BY DEF AddUpdateMessage, Commit, Save, Step
<1>3. /\ task'.step = "writing" /\ task'.old = task.old /\ task'.apply = task.apply
      /\ task'.attached = task.attached /\ Current' = Current /\ Now' = Now
  BY <1>0, <1>1, <1>2 DEF AddUpdateMessage, Step, Tasks, Now, Current
<1>4. fetched \in Nat /\ other.seen \in Nat
  BY DEF GroupTypeInv, GroupTypeOK
<1>5. TaskOf'
  <2>1. EnvelopeMoreRecent(Current)' = EnvelopeMoreRecent(Current)
    BY <1>1, <1>3 DEF EnvelopeMoreRecent
  <2>2. Out(Now)' = Out(Now) /\ Changes(Now)' = Changes(Now)
    BY <1>2, <1>3 DEF Out, Changes
  <2> QED BY <1>0, <1>1, <1>2, <1>3, <2>1, <2>2 DEF Order, TaskOf, Joining
<1>6. SavedIs'
  <2>1. convo = [convo EXCEPT !.zombies = convo.zombies]
    BY <1>0 DEF Group
  <2> QED BY <1>0, <1>2, <1>3, <2>1 DEF SavedIs
<1>7. JoinSeen'
  BY <1>1, <1>2, <1>4, JoinSeenKeeps DEF Order
<1>8. ASSUME convo.exists, ~Doom PROVE convo.active /\ MembersKnown'
  <2>1. PICK e \in 0 .. LastUpdate : Level(e) /\ AsKnown(convo.members, e) /\ NoZombie(saved.zombies, e)
    BY <1>1, <1>8 DEF MembersKnown
  <2>2. Level(e)'
    BY <1>1, <1>2, <1>3, <1>4, <2>1, LevelKeeps, TableKeep, TableSame
  <2> QED BY <1>0, <1>1, <1>2, <1>8, <2>1, <2>2, KnownKeeps DEF MembersKnown
<1>9. AtRest'
  BY <1>1, <1>2, <1>8, RestKeeps DEF Order
<1> QED BY <1>1, <1>5, <1>6, <1>7, <1>9 DEF Order

\* The members after the update are written.
LEMMA OrderWrite ==
  ASSUME GroupInv, GroupInv', Order, Write, ~disturbed'
  PROVE  Order'
<1> USE DEF GroupInv
<1>0. /\ task \in Tasks /\ task.step = "writing" /\ convo \in Group /\ convo.joined \in Nat
      /\ saved = [convo EXCEPT !.zombies = saved.zombies] /\ convo.zombies \subseteq saved.zombies
  <2>1. task \in Tasks /\ convo \in Group /\ convo.joined \in Nat
    <3>1. task \in Tasks /\ convo \in Group
      BY DEF GroupTypeInv, GroupTypeOK
    <3> QED BY <3>1 DEF Group
  <2>2. task.step = "writing"
    BY DEF Write
  <2>3. saved = [convo EXCEPT !.zombies = saved.zombies] /\ convo.zombies \subseteq saved.zombies
    BY <2>2 DEF Order, SavedIs
  <2> QED BY <2>1, <2>2, <2>3
<1>1. /\ merge = NoMerge /\ merge' = NoMerge /\ latest = other.at
      /\ cached # <<>> /\ ~cached[1].invite /\ Current \in Updates
      /\ UNCHANGED <<sent, fetched, invited, other, latest>>
      /\ \A k : IsOpened(k)' <=> IsOpened(k)
      /\ \A k : Unopened(k)' <=> Unopened(k)
      /\ \A k : HasInvitation(k)' <=> HasInvitation(k)
      /\ ~Joining /\ ~Joining'
      /\ Times' /\ InMerge'
      /\ convo.exists => polled /\ (~Doom => convo.active /\ MembersKnown /\ JoinKnown)
      /\ Current <= fetched
  BY HandlerIs DEF Handle
<1>2. /\ task.attached /\ convo.exists /\ Current > convo.joined
      /\ task.old = convo.members /\ task.apply = EnvelopeMoreRecent(Current)
      /\ Now.type = "added" => Now.subject \notin convo.zombies
  BY <1>0 DEF Order, TaskOf
<1>3. Now \in Update /\ Now = sent[Current] /\ fetched \in Nat /\ other.seen \in Nat
  BY <1>1, CurrentIs DEF Now, GroupTypeInv, GroupTypeOK
<1>4. /\ convo' = [convo EXCEPT !.members = NewMembers(Now, task.apply, task.old),
                                !.zombies = NewZombies(Now, task.apply, task.old)]
      /\ saved' = convo' /\ UNCHANGED <<cached, polled>> /\ task'.step = "done"
  BY <1>0, <1>2 DEF Write, Commit, Save, Step, Tasks
<1>5. /\ convo'.exists /\ convo'.joined = convo.joined /\ convo'.active = convo.active
      /\ convo'.members = NewMembers(Now, task.apply, task.old)
      /\ convo'.zombies = NewZombies(Now, task.apply, task.old)
      /\ convo'.members \in SUBSET People
  BY <1>0, <1>2, <1>4 DEF Group, GroupTypeInv, GroupTypeOK
<1>6. TaskOf' /\ SavedIs'
  BY <1>1, <1>4 DEF TaskOf, SavedIs
<1>7. JoinSeen'
  BY <1>0, <1>1, <1>2, <1>3, <1>5, JoinSeenKeeps DEF Order, Updates
<1>8. ASSUME ~Doom PROVE MembersKnown'
  <2>1. PICK e \in 0 .. LastUpdate : Level(e) /\ AsKnown(convo.members, e) /\ NoZombie(saved.zombies, e)
    BY <1>1, <1>2, <1>8 DEF MembersKnown
  <2>2. \A p \in People : p \in convo'.members <=>
          IF Concerns(Now, p) /\ EnvelopeMoreRecent(Current) THEN Now.type = "added" ELSE p \in convo.members
    BY <1>2, <1>3, <1>5, AfterIs DEF NewMembers
  <2>3. /\ Now.type = "added" => Now.subject \notin saved'.zombies
        /\ \A p \in saved'.zombies : p \in saved.zombies \/ (Now.type = "left" /\ p = Now.sender)
    BY <1>0, <1>2, <1>4, <1>5 DEF NewZombies
  <2> QED BY <1>0, <1>1, <1>2, <1>4, <1>5, <2>1, <2>2, <2>3, KnownNext DEF Order
<1>9. AtRest'
  BY <1>1, <1>2, <1>4, <1>5, <1>8, RestKeeps DEF Order
<1> QED BY <1>1, <1>6, <1>7, <1>9 DEF Order

\* The row goes; the conversation was at its update already.
LEMMA OrderRemoveFromCache ==
  ASSUME GroupInv, Order, RemoveFromCache, ~disturbed'
  PROVE  Order'
<1> USE DEF GroupInv
<1>0. /\ task.step = "done" /\ convo \in Group /\ saved = convo
      /\ UNCHANGED <<convo, saved, polled>> /\ Idle.step = "idle" /\ Drop
  BY DEF RemoveFromCache, GroupTypeInv, GroupTypeOK, Order, SavedIs, Idle
<1>1. /\ merge = NoMerge /\ merge' = NoMerge /\ latest = other.at
      /\ cached # <<>> /\ ~cached[1].invite /\ Current \in Updates
      /\ UNCHANGED <<sent, fetched, invited, other, latest>>
      /\ \A k : IsOpened(k)' <=> IsOpened(k)
      /\ \A k : Unopened(k)' <=> Unopened(k)
      /\ \A k : HasInvitation(k)' <=> HasInvitation(k)
      /\ ~Joining /\ ~Joining'
      /\ Times' /\ InMerge'
      /\ convo.exists => polled /\ (~Doom => convo.active /\ MembersKnown /\ JoinKnown)
  BY HandlerIs DEF Handle
<1>2. fetched \in Nat /\ other.seen \in Nat
  BY DEF GroupTypeInv, GroupTypeOK
<1>3. TaskOf' /\ SavedIs'
  BY <1>0, <1>1 DEF Drop, TaskOf, SavedIs
<1>4. JoinSeen'
  BY <1>0, <1>1, <1>2, JoinSeenKeeps DEF Order
<1>5. ASSUME convo.exists, ~Doom PROVE convo.active /\ MembersKnown'
  <2>1. PICK e \in 0 .. LastUpdate : Level(e) /\ AsKnown(convo.members, e) /\ NoZombie(saved.zombies, e)
    BY <1>1, <1>5 DEF MembersKnown
  <2>2. e = Later(Current, convo.joined)
    <3>1. PICK f \in 0 .. fetched : Upto(f) /\ e = Later(f + 1, convo.joined)
      BY <1>0, <2>1 DEF Level
    <3>2. Current = f + 1
      BY <1>1, <3>1, HeadIsNext
    <3> QED BY <3>1, <3>2
  <2>3. Level(e)'
    BY <1>0, <1>1, <2>2, LevelDropped
  <2> QED BY <1>0, <1>1, <1>5, <2>1, <2>3, KnownKeeps DEF MembersKnown
<1>6. AtRest'
  BY <1>0, <1>1, <1>5, RestKeeps DEF Order
<1> QED BY <1>1, <1>3, <1>4, <1>6 DEF Order

-----------------------------------------------------------------------------
(* The order: the handler of an invitation *)

\* What the steps of the handler of an invitation leave alone.
LEMMA JoinerIs ==
  ASSUME GroupTypeInv, TableInv, TaskRow, Order, Join, ~disturbed'
  PROVE  /\ merge = NoMerge /\ merge' = NoMerge /\ latest = other.at
         /\ cached # <<>> /\ cached[1].invite /\ HasInvitation(Current) /\ Current \in Invitations
         /\ Current \in invited /\ Current \in Nat
         /\ UNCHANGED <<sent, fetched, invited, other, latest>> /\ Invitations' = Invitations
         /\ Times' /\ InMerge' /\ saved = convo /\ saved' = convo'
         /\ \A k : EnvelopeMoreRecent(k)' <=> EnvelopeMoreRecent(k)
<1>1. merge = NoMerge /\ merge' = NoMerge /\ cached # <<>>
  BY HandlerQuiet
<1>2. cached[1].invite
  BY DEF TaskRow, Join, OpenInvitation, UpdateOrCreate, SetJoined, StartPolling, Joining
<1>3. HasInvitation(Current) /\ Current \in Updates
  BY <1>1, <1>2, HeadRow
<1>4. Current \in invited /\ Current \in Invitations
  BY <1>3 DEF TableInv
<1>5. UNCHANGED <<sent, fetched, invited, other, latest>>
  BY DEF Join, OpenInvitation, UpdateOrCreate, SetJoined, StartPolling, external
<1>6. saved = convo /\ saved' = convo'
  <2>0. Idle.step = "idle"
    BY DEF Idle
  <2>1. task.step \notin {"noting", "writing"}
    BY <2>0 DEF Join, OpenInvitation, UpdateOrCreate, SetJoined, StartPolling
  <2>2. saved = convo
    BY <2>1 DEF Order, SavedIs
  <2> QED BY <2>2 DEF Join, OpenInvitation, UpdateOrCreate, SetJoined, StartPolling, Commit, Save
<1>7. Times' /\ InMerge' /\ latest = other.at
  BY <1>1, <1>5 DEF Order, Times, InMerge, AtRest
<1>8. \A k : EnvelopeMoreRecent(k)' <=> EnvelopeMoreRecent(k)
  BY <1>5 DEF EnvelopeMoreRecent
<1> QED BY <1>1, <1>2, <1>3, <1>4, <1>5, <1>6, <1>7, <1>8, Unchanging DEF Updates

\* An invitation is opened when no group is there, and brings nothing when one is.
LEMMA OrderOpenInvitation ==
  ASSUME GroupInv, Order, OpenInvitation, ~disturbed'
  PROVE  Order'
<1> USE DEF GroupInv
<1>0. task = Idle /\ convo \in Group /\ fetched \in Nat /\ other.seen \in Nat /\ Idle.step = "idle"
      /\ UNCHANGED polled
  BY DEF OpenInvitation, GroupTypeInv, GroupTypeOK, Idle
<1>1. /\ merge = NoMerge /\ merge' = NoMerge /\ latest = other.at
      /\ cached # <<>> /\ cached[1].invite /\ HasInvitation(Current) /\ Current \in Invitations
      /\ Current \in invited /\ Current \in Nat
      /\ UNCHANGED <<sent, fetched, invited, other, latest>> /\ Invitations' = Invitations
      /\ Times' /\ InMerge' /\ saved = convo /\ saved' = convo'
      /\ \A k : EnvelopeMoreRecent(k)' <=> EnvelopeMoreRecent(k)
  BY JoinerIs DEF Join
<1>2. ~convo.exists /\ fetched <= Current
  <2>1. ~Overtakes(Current)
    BY <1>0, Quiet DEF OpenInvitation, Overtakes, Group
  <2> QED BY <1>0, <1>1, <2>1 DEF Overtakes
<1>3. ~polled /\ (Us \notin MembersAt(LastUpdate) \/ Awaits \/ Doom)
  BY <1>1, <1>2 DEF Order, AtRest
<1>4. ASSUME ~EnvelopeMoreRecent(Current), Drop, UNCHANGED <<convo, saved, merge>> PROVE Order'
  <2>1. \A k : HasInvitation(k)' <=> HasInvitation(k) /\ k # Current
    BY <1>1, <1>4, TableTail DEF Drop
  <2>2. \A k : k # Current /\ Unopened(k) => Unopened(k)'
    BY <1>1, <2>1 DEF Unopened, IsOpened
  <2>3. Awaits => Awaits'
    <3>1. LastJoin' = LastJoin
      BY <1>1, Unchanging DEF LastJoin
    <3> QED BY <1>1, <1>4, <2>2, <3>1 DEF Awaits
  <2>4. Doom => Doom'
    <3> SUFFICES ASSUME NEW i \in Updates, Doomed(i) PROVE Doomed(i)'
      BY DEF Doom
    <3>1. i < fetched /\ i # Current
      BY <1>0, <1>1, <1>2 DEF Doomed, Updates
    <3> QED BY <1>1, <2>2, <3>1 DEF Doomed
  <2>5. AtRest'
    BY <1>0, <1>1, <1>2, <1>3, <1>4, <2>3, <2>4, Unchanging DEF AtRest
  <2>6. TaskOf' /\ SavedIs' /\ JoinSeen'
    BY <1>0, <1>1, <1>2, <1>4 DEF Drop, TaskOf, SavedIs, JoinSeen, Joining
  <2> QED BY <1>1, <2>5, <2>6 DEF Order
<1>5. ASSUME EnvelopeMoreRecent(Current), Commit(Created),
             task' = [Idle EXCEPT !.step = "joining", !.attached = TRUE], UNCHANGED cached
      PROVE  Order'
  <2>1. task'.step = "joining" /\ task'.attached /\ Current' = Current
    BY <1>5 DEF Idle, Current
  <2>2. convo'.exists /\ convo'.zombies = {} /\ convo'.joined = 0
    BY <1>5 DEF Commit, Save, Created, NoGroup
  <2>3. EnvelopeMoreRecent(Current)'
    BY <1>1, <1>5, <2>1 DEF EnvelopeMoreRecent
  <2>4. TaskOf' /\ SavedIs'
    BY <1>0, <1>1, <1>2, <1>3, <2>1, <2>2, <2>3 DEF TaskOf, SavedIs, Joining
  <2>5. JoinSeen' /\ AtRest'
    BY <1>0, <1>1, <2>1, <2>2 DEF JoinSeen, AtRest, Joining
  <2> QED BY <1>1, <2>4, <2>5 DEF Order
<1> QED BY <1>2, <1>4, <1>5 DEF OpenInvitation

\* The group of an invitation gets its members,
LEMMA OrderUpdateOrCreate ==
  ASSUME GroupInv, Order, UpdateOrCreate, ~disturbed'
  PROVE  Order'
<1> USE DEF GroupInv
<1>0. /\ task \in Tasks /\ task.step = "joining" /\ convo \in Group /\ other.seen \in Nat
      /\ UNCHANGED <<cached, polled>>
  BY DEF UpdateOrCreate, Step, GroupTypeInv, GroupTypeOK
<1>1. /\ merge = NoMerge /\ merge' = NoMerge /\ latest = other.at
      /\ UNCHANGED <<sent, fetched, invited, other, latest>> /\ Invitations' = Invitations
      /\ Times' /\ InMerge' /\ saved = convo /\ saved' = convo'
      /\ \A k : EnvelopeMoreRecent(k)' <=> EnvelopeMoreRecent(k)
  BY JoinerIs DEF Join
<1>2. /\ convo.exists /\ task.attached /\ ~polled
      /\ fetched <= Current /\ EnvelopeMoreRecent(Current)
      /\ convo.zombies = {} /\ convo.joined = 0
  BY <1>0 DEF Order, TaskOf, Joining
<1>3. task'.step = "naming" /\ task'.attached /\ Current' = Current
  BY <1>0, <1>2 DEF UpdateOrCreate, Step, Tasks, Current
<1>4. convo' = [convo EXCEPT !.members = Members(sent)[Current], !.active = TRUE]
  BY <1>2 DEF UpdateOrCreate, Commit, Save
<1>5. /\ convo'.exists /\ convo'.active /\ convo'.members = MembersAt(Current)
      /\ convo'.zombies = {} /\ convo'.joined = 0
  BY <1>0, <1>2, <1>4 DEF Group, MembersAt
<1>6. TaskOf' /\ SavedIs'
  <2>1. EnvelopeMoreRecent(Current)' /\ MembersAt(Current)' = MembersAt(Current)
    BY <1>1, <1>2, <1>3 DEF EnvelopeMoreRecent, MembersAt
  <2> QED BY <1>0, <1>1, <1>2, <1>3, <1>5, <2>1 DEF TaskOf, SavedIs, Joining
<1>7. JoinSeen' /\ AtRest'
  BY <1>0, <1>1, <1>3, <1>5 DEF JoinSeen, AtRest, Joining
<1> QED BY <1>1, <1>6, <1>7 DEF Order

\* and the time at which we joined,
LEMMA OrderSetJoined ==
  ASSUME GroupInv, Order, SetJoined, ~disturbed'
  PROVE  Order'
<1> USE DEF GroupInv
<1>0. /\ task \in Tasks /\ task.step = "naming" /\ convo \in Group
      /\ UNCHANGED <<cached, polled>>
  BY DEF SetJoined, Step, GroupTypeInv, GroupTypeOK
<1>1. /\ merge = NoMerge /\ merge' = NoMerge /\ latest = other.at
      /\ HasInvitation(Current) /\ Current \in Invitations
      /\ UNCHANGED <<sent, fetched, invited, other, latest>> /\ Invitations' = Invitations
      /\ Times' /\ InMerge' /\ saved = convo /\ saved' = convo'
      /\ \A k : EnvelopeMoreRecent(k)' <=> EnvelopeMoreRecent(k)
  BY JoinerIs DEF Join
<1>2. /\ convo.exists /\ task.attached /\ ~polled
      /\ fetched <= Current /\ EnvelopeMoreRecent(Current)
      /\ convo.zombies = {} /\ convo.active /\ convo.members = MembersAt(Current)
  BY <1>0 DEF Order, TaskOf, Joining
<1>3. task'.step = "joined" /\ task'.attached /\ Current' = Current
  BY <1>0, <1>2 DEF SetJoined, Step, Tasks, Current
<1>4. convo' = [convo EXCEPT !.joined = Current]
  BY <1>2 DEF SetJoined, Commit, Save
<1>5. /\ convo'.exists /\ convo'.active /\ convo'.members = MembersAt(Current)
      /\ convo'.zombies = {} /\ convo'.joined = Current
  BY <1>0, <1>2, <1>4 DEF Group
<1>6. TaskOf' /\ SavedIs'
  <2>1. EnvelopeMoreRecent(Current)' /\ MembersAt(Current)' = MembersAt(Current)
    BY <1>1, <1>2, <1>3 DEF EnvelopeMoreRecent, MembersAt
  <2> QED BY <1>0, <1>1, <1>2, <1>3, <1>5, <2>1 DEF TaskOf, SavedIs, Joining
<1>7. JoinSeen'
  <2>1. HasInvitation(Current)'
    BY <1>0, <1>1, <1>3 DEF HasInvitation
  <2>2. convo'.joined = Current'
    BY <1>3, <1>5
  <2> QED BY <1>1, <1>5, <2>1, <2>2 DEF JoinSeen, HasInvitation
<1>8. AtRest'
  BY <1>0, <1>1, <1>3, <1>5 DEF AtRest, Joining
<1> QED BY <1>1, <1>6, <1>7, <1>8 DEF Order

\* and is polled: its members are known at the invitation.
LEMMA OrderStartPolling ==
  ASSUME GroupInv, Order, StartPolling, ~disturbed'
  PROVE  Order'
<1> USE DEF GroupInv
<1>0. /\ task \in Tasks /\ task.step = "joined" /\ convo \in Group /\ fetched \in 0 .. LastUpdate
      /\ UNCHANGED <<convo, saved>> /\ polled' = TRUE /\ Drop /\ Idle.step = "idle" /\ LastUpdate \in Nat
  BY NumberAssumption DEF StartPolling, GroupTypeInv, GroupTypeOK, Idle
<1>1. /\ merge = NoMerge /\ merge' = NoMerge /\ latest = other.at
      /\ cached # <<>> /\ cached[1].invite /\ HasInvitation(Current) /\ Current \in Invitations
      /\ Current \in invited /\ Current \in Nat
      /\ UNCHANGED <<sent, fetched, invited, other, latest>> /\ Invitations' = Invitations
      /\ Times' /\ InMerge' /\ saved = convo /\ saved' = convo'
      /\ \A k : EnvelopeMoreRecent(k)' <=> EnvelopeMoreRecent(k)
  BY JoinerIs DEF Join
<1>2. /\ convo.exists /\ fetched <= Current /\ EnvelopeMoreRecent(Current)
      /\ convo.zombies = {} /\ convo.active /\ convo.members = MembersAt(Current)
      /\ convo.joined = Current
  BY <1>0 DEF Order, TaskOf, Joining
<1>3. /\ \A k : HasInvitation(k)' <=> HasInvitation(k) /\ k # Current
      /\ \A f \in 0 .. fetched : Upto(f) => Upto(f)'
  BY <1>0, <1>1, TableTail, TailUpto DEF Drop
<1>4. TaskOf' /\ SavedIs'
  BY <1>0, <1>1 DEF Drop, TaskOf, SavedIs, Joining
<1>5. PICK k : k = Current
  OBVIOUS
<1>6. IsOpened(k)' /\ k \in 0 .. LastUpdate /\ k \in Updates
  BY <1>0, <1>1, <1>3, <1>5 DEF IsOpened, Invitations, Updates
<1>7. JoinSeen'
  BY <1>0, <1>1, <1>2, <1>5, <1>6 DEF JoinSeen, IsOpened, HasInvitation
<1>8. JoinKnown'
  <2> SUFFICES ASSUME NEW l \in Updates, IsOpened(l)' PROVE l <= k
    BY <1>0, <1>2, <1>5 DEF JoinKnown
  <2>1. ASSUME k < l PROVE FALSE
    <3>1. l \in invited /\ ~HasInvitation(l)'
      BY <1>1, <2>1 DEF IsOpened
    <3>2. HasInvitation(l)
      BY <1>1, <1>5, <2>1, <3>1 DEF TableInv
    <3> QED BY <1>1, <1>3, <1>5, <2>1, <3>1, <3>2
  <2> QED BY <1>6, <2>1 DEF Updates
<1>9. MembersKnown'
  <2>1. PICK f \in 0 .. fetched : Upto(f)
    BY DEF TableInv
  <2>2. k = Later(f, k)
    BY <1>0, <1>1, <1>2, <1>5, <2>1 DEF Later
  <2>3. Level(k)'
    BY <1>0, <1>1, <1>2, <1>3, <1>5, <2>1, <2>2 DEF Level, Drop
  <2>4. EnvelopeMoreRecent(k + 1)'
    BY <1>1, <1>2, <1>5, MoreRecent
  <2>5. AsKnown(convo.members, k)'
    BY <1>0, <1>1, <1>2, <1>5, <2>4 DEF AsKnown, AsSent, MembersAt
  <2>6. NoZombie(saved.zombies, k)'
    BY <1>0, <1>1, <1>2 DEF NoZombie
  <2> QED BY <1>6, <2>3, <2>5, <2>6 DEF MembersKnown
<1>10. AtRest'
  BY <1>0, <1>1, <1>2, <1>8, <1>9 DEF AtRest
<1> QED BY <1>1, <1>4, <1>7, <1>10 DEF Order

-----------------------------------------------------------------------------
(* The order: polling, and a kill *)

\* What is fetched waits at the end of the rows, and changes nothing yet.
LEMMA FetchedIs ==
  ASSUME GroupInv, Order, Fetch \/ FetchInvitation
  PROVE  /\ UNCHANGED <<external, task, convo, saved, polled, latest, merge, disturbed>>
         /\ fetched \in Nat /\ fetched' \in Nat /\ fetched <= fetched'
         /\ (Joining => fetched' = fetched) /\ (~convo.exists /\ merge = NoMerge => fetched' = fetched)
         /\ (cached # <<>> => cached'[1] = cached[1]) /\ (task # Idle => cached # <<>>)
         /\ \A k : HasInvitation(k) => HasInvitation(k)'
         /\ \A k : IsOpened(k)' <=> IsOpened(k)
         /\ \A k : Unopened(k)' <=> Unopened(k)
         /\ \A k : AtUpdate(k) => AtUpdate(k)'
         /\ \A f : Upto(f) => Upto(f)'
         /\ HandledSeen => HandledSeen'
<1> USE DEF GroupInv
<1>0. /\ UNCHANGED <<external, task, convo, saved, polled, latest, merge, disturbed>>
      /\ fetched \in Nat /\ (task # Idle => cached # <<>>)
      /\ task \in Tasks
  BY DEF Fetch, FetchInvitation, GroupTypeInv, GroupTypeOK
<1>1. CASE Fetch
  <2>1. /\ \A k : HasUpdate(k)' <=> HasUpdate(k) \/ k = fetched + 1
        /\ \A k : HasInvitation(k)' <=> HasInvitation(k)
        /\ cached # <<>> => cached'[1] = cached[1] /\ cached' # <<>>
        /\ \A k : AtUpdate(k) => AtUpdate(k)'
        /\ \A f : Upto(f) => Upto(f)'
    BY <1>1, FetchIs
  <2>2. fetched' = fetched + 1 /\ invited' = invited /\ sent' = sent /\ polled
    BY <1>1 DEF Fetch, external
  <2>3. \A k : (IsOpened(k)' <=> IsOpened(k)) /\ (Unopened(k)' <=> Unopened(k))
    BY <2>1, <2>2, OpenedSame
  <2>4. ~Joining /\ (~convo.exists => merge # NoMerge)
    BY <2>2 DEF Order, TaskOf, AtRest
  <2>5. other' = other
    BY <1>0 DEF external
  <2>6. ASSUME HandledSeen PROVE HandledSeen'
    <3>1. ASSUME NEW k \in 1 .. fetched + 1 PROVE HasUpdate(k)' \/ k <= other.seen
      <4>1. CASE k = fetched + 1
        BY <2>1, <4>1
      <4>2. CASE k # fetched + 1
        <5>1. k \in 1 .. fetched
          BY <1>0, <4>2
        <5>2. HasUpdate(k) \/ k <= other.seen
          BY <2>6, <5>1 DEF HandledSeen
        <5> QED BY <2>1, <5>2
      <4> QED BY <4>1, <4>2
    <3>2. ASSUME NEW k \in invited PROVE HasInvitation(k)' \/ k <= other.seen
      BY <2>1, <2>6 DEF HandledSeen
    <3> QED BY <2>2, <2>5, <3>1, <3>2 DEF HandledSeen
  <2>7. fetched' \in Nat /\ fetched <= fetched'
    BY <1>0, <2>2
  <2>8. (Joining => fetched' = fetched) /\ (~convo.exists /\ merge = NoMerge => fetched' = fetched)
    BY <2>4
  <2>9. (cached # <<>> => cached'[1] = cached[1]) /\ \A k : HasInvitation(k) => HasInvitation(k)'
    BY <2>1
  <2> QED BY <1>0, <2>1, <2>3, <2>6, <2>7, <2>8, <2>9
<1>2. CASE FetchInvitation
  <2>1. PICK k \in Invitations \ invited :
         /\ invited' = invited \union {k}
         /\ \A l : HasInvitation(l)' <=> HasInvitation(l) \/ l = k
         /\ \A l : HasUpdate(l)' <=> HasUpdate(l)
         /\ cached # <<>> => cached'[1] = cached[1] /\ cached' # <<>>
         /\ \A l : AtUpdate(l) => AtUpdate(l)'
         /\ \A f : Upto(f) => Upto(f)'
    BY <1>2, FetchInvitationIs
  <2>2. fetched' = fetched /\ Invitations' = Invitations
    BY <1>2, Unchanging DEF FetchInvitation, external
  <2>3. \A l : IsOpened(l)' <=> IsOpened(l)
    BY <2>1 DEF IsOpened
  <2>4. \A l : Unopened(l)' <=> Unopened(l)
    BY <2>2, <2>3 DEF Unopened
  <2>5. other' = other
    BY <1>0 DEF external
  <2>6. ASSUME HandledSeen PROVE HandledSeen'
    <3>1. ASSUME NEW l \in 1 .. fetched PROVE HasUpdate(l)' \/ l <= other.seen
      BY <2>1, <2>6 DEF HandledSeen
    <3>2. ASSUME NEW l \in invited' PROVE HasInvitation(l)' \/ l <= other.seen
      BY <2>1, <2>6 DEF HandledSeen
    <3> QED BY <2>2, <2>5, <3>1, <3>2 DEF HandledSeen
  <2>7. fetched' \in Nat /\ fetched <= fetched'
    BY <1>0, <2>2
  <2>8. (Joining => fetched' = fetched) /\ (~convo.exists /\ merge = NoMerge => fetched' = fetched)
    BY <2>2
  <2>9. (cached # <<>> => cached'[1] = cached[1]) /\ \A l : HasInvitation(l) => HasInvitation(l)'
    BY <2>1
  <2> QED BY <1>0, <2>1, <2>3, <2>4, <2>6, <2>7, <2>8, <2>9
<1> QED BY <1>1, <1>2

\* Nothing is known anew of an update that is only fetched.
LEMMA OrderFetch ==
  ASSUME GroupInv, Order, Fetch \/ FetchInvitation
  PROVE  Order'
<1> USE DEF GroupInv
<1>1. /\ UNCHANGED <<sent, other, task, convo, saved, polled, latest, merge>>
      /\ fetched \in Nat /\ fetched' \in Nat /\ fetched <= fetched'
      /\ Joining => fetched' = fetched
      /\ ~convo.exists /\ merge = NoMerge => fetched' = fetched
      /\ cached # <<>> => cached'[1] = cached[1]
      /\ task # Idle => cached # <<>>
      /\ \A k : HasInvitation(k) => HasInvitation(k)'
      /\ \A k : IsOpened(k)' <=> IsOpened(k)
      /\ \A k : Unopened(k)' <=> Unopened(k)
      /\ \A k : AtUpdate(k) => AtUpdate(k)'
      /\ \A f : Upto(f) => Upto(f)'
      /\ HandledSeen => HandledSeen'
  BY FetchedIs DEF external
<1>2. /\ \A k : EnvelopeMoreRecent(k)' <=> EnvelopeMoreRecent(k)
      /\ \A k : MembersAt(k)' = MembersAt(k) /\ EntryAt(k)' = EntryAt(k)
      /\ Invitations' = Invitations
      /\ other.seen \in Nat
  BY <1>1, Unchanging DEF EnvelopeMoreRecent, GroupTypeInv
<1>3. Times' /\ SavedIs'
  BY <1>1 DEF Order, Times, SavedIs
<1>4. TaskOf'
  <2>1. CASE task = Idle
    <3>1. Idle.step = "idle"
      BY DEF Idle
    <3> QED BY <1>1, <2>1, <3>1 DEF TaskOf, Joining
  <2>2. CASE task # Idle
    <3>1. Current' = Current /\ Now' = Now
      BY <1>1, <2>2 DEF Current, Now
    <3>2. EnvelopeMoreRecent(Current)' = EnvelopeMoreRecent(Current) /\ MembersAt(Current)' = MembersAt(Current)
      BY <1>1, <3>1 DEF EnvelopeMoreRecent, MembersAt
    <3>3. Out(Now)' = Out(Now) /\ Changes(Now)' = Changes(Now)
      BY <1>1, <3>1 DEF Out, Changes
    <3> QED BY <1>1, <3>1, <3>2, <3>3 DEF Order, TaskOf, Joining
  <2> QED BY <2>1, <2>2
<1>5. Doom => Doom'
  <2> SUFFICES ASSUME NEW i \in Updates, Doomed(i) PROVE Doomed(i)'
    BY DEF Doom
  <2> QED BY <1>1 DEF Doomed, Updates
<1>6. \A e : Level(e) => Level(e)'
  BY <1>1, LevelKeeps
<1>7. JoinKnown => JoinKnown'
  BY <1>1 DEF JoinKnown
<1>8. \A e : NoZombie(saved.zombies, e) => NoZombie(saved.zombies, e)'
  BY <1>1, <1>2 DEF NoZombie
<1>9. JoinSeen'
  BY <1>1, <1>2, JoinSeenKeeps DEF Order
<1>10. InMerge'
  <2>1. CASE merge = NoMerge
    BY <1>1, <2>1 DEF InMerge
  <2>2. CASE merge # NoMerge
    <3>1. EntryAt(other.seen)' = EntryAt(other.seen)
      BY <1>1 DEF EntryAt, JoinedBy, Invitations, IsInvitation
    <3>2. \A e \in 0 .. LastUpdate :
              Level(e) /\ NoZombie(saved.zombies, e) => Level(e)' /\ NoZombie(saved.zombies, e)'
      BY <1>6, <1>8
    <3>3. \A e \in 0 .. other.seen :
              Level(e) /\ NoZombie(saved.zombies, e) => Level(e)' /\ NoZombie(saved.zombies, e)'
      BY <1>6, <1>8
    <3> QED BY <1>1, <1>5, <1>7, <2>2, <3>1, <3>2, <3>3 DEF Order, InMerge
  <2> QED BY <2>1, <2>2
<1>11. AtRest'
  <2>1. CASE merge # NoMerge
    BY <1>1, <2>1 DEF AtRest
  <2>2. CASE merge = NoMerge /\ ~convo.exists
    <3>1. LastJoin' = LastJoin /\ MembersAt(LastUpdate)' = MembersAt(LastUpdate)
      BY <1>1, Unchanging DEF LastJoin
    <3>2. Awaits => Awaits'
      BY <1>1, <1>2, <3>1 DEF Awaits
    <3> QED BY <1>1, <1>5, <2>2, <3>1, <3>2 DEF Order, AtRest
  <2>3. CASE merge = NoMerge /\ convo.exists
    <3>1. MembersKnown => MembersKnown'
      <4> SUFFICES ASSUME NEW e \in 0 .. LastUpdate, Level(e), AsKnown(convo.members, e), NoZombie(saved.zombies, e)
                   PROVE  MembersKnown'
        BY DEF MembersKnown
      <4>1. AsKnown(convo.members, e)'
        BY <1>1, KnownKeeps
      <4> QED BY <1>6, <1>8, <4>1 DEF MembersKnown
    <3> QED BY <1>1, <1>5, <1>7, <2>3, <3>1 DEF Order, AtRest, Joining
  <2> QED BY <2>1, <2>2, <2>3
<1> QED BY <1>3, <1>4, <1>9, <1>10, <1>11 DEF Order

\* A kill in none of the delicate moments leaves the group as it was saved.
LEMMA OrderRestart ==
  ASSUME GroupInv, Order, Restart, ~disturbed'
  PROVE  Order'
<1> USE DEF GroupInv
<1>0. task \in Tasks /\ convo \in Group /\ Idle.step = "idle" /\ fetched \in Nat /\ other.seen \in Nat
      /\ (task # Idle => cached # <<>>) /\ convo.joined \in Nat /\ cached \in Seq(GroupEnvelope)
      /\ (task.step = "idle" => task = Idle)
  BY DEF GroupTypeInv, GroupTypeOK, Idle, Group
<1>1. /\ UNCHANGED <<sent, other, fetched, invited, cached, saved, latest>>
      /\ convo' = saved /\ polled' = saved.exists /\ task' = Idle /\ merge' = NoMerge
  BY DEF Restart, external
<1>2. merge = NoMerge /\ task.step \notin {"joining", "naming"}
  <2>1. HalfWay \in BOOLEAN
    BY DEF HalfWay
  <2>2. ~HalfWay
    BY <2>1, Quiet DEF Restart
  <2> QED BY <2>2 DEF HalfWay
<1>3. /\ saved.exists = convo.exists /\ saved.joined = convo.joined /\ saved.members = convo.members
      /\ saved.active = convo.active
      /\ saved = convo \/ (task.step \in {"noting", "writing"} /\ saved = [convo EXCEPT !.zombies = saved.zombies])
  <2>1. saved = convo \/ (task.step \in {"noting", "writing"} /\ saved = [convo EXCEPT !.zombies = saved.zombies])
    BY DEF Order, SavedIs
  <2> QED BY <1>0, <2>1 DEF Group
<1>4. /\ \A k : HasInvitation(k)' <=> HasInvitation(k)
      /\ \A k : AtUpdate(k)' <=> AtUpdate(k)
      /\ \A f : Upto(f) => Upto(f)'
  BY <1>1, TableKeep, TableSame
<1>5. /\ \A k : IsOpened(k)' <=> IsOpened(k)
      /\ \A k : Unopened(k)' <=> Unopened(k)
  BY <1>1, <1>4, OpenedSame
<1>6. Times' /\ TaskOf' /\ SavedIs' /\ InMerge'
  BY <1>0, <1>1 DEF Order, Times, TaskOf, SavedIs, InMerge, Joining
<1>7. JoinSeen'
  <2>1. CASE saved = convo
    BY <1>0, <1>1, <1>4, <1>5, <2>1, JoinSeenKeeps DEF Order
  <2>2. CASE task.step \in {"noting", "writing"}
    <3>1. Current > convo.joined /\ cached # <<>> /\ ~cached[1].invite
      BY <1>0, <2>2 DEF Order, TaskOf, TaskRow, Idle
    <3>2. Current <= fetched /\ Current \in Nat
      <4>1. Current \in Updates /\ HasUpdate(Current)
        BY <3>1, HeadRow
      <4> QED BY <4>1 DEF TableInv, Updates
    <3> QED BY <1>0, <1>1, <1>3, <1>4, <1>5, <3>1, <3>2, JoinSeenKeeps DEF Order
  <2> QED BY <1>3, <2>1, <2>2
<1>8. (Doom' <=> Doom) /\ (Awaits' <=> Awaits)
  BY <1>1, <1>3, <1>5, DoomSame, AwaitsSame
<1>9. ASSUME convo.exists, ~Doom PROVE convo.active /\ MembersKnown' /\ JoinKnown'
  <2>1. ~Joining
    <3> SUFFICES ASSUME Joining PROVE FALSE
      OBVIOUS
    <3>1. task.step = "joined" /\ convo.joined = Current /\ cached # <<>>
      BY <1>0, <1>2 DEF Joining, Order, TaskOf, Idle
    <3>2. HasInvitation(Current) /\ Current \in Updates
      BY <3>1, HeadRow DEF TaskRow, Joining
    <3>3. Unopened(Current)
      BY <3>2 DEF Unopened, IsOpened, TableInv
    <3> QED BY <1>0, <1>9, <3>1, <3>2, <3>3 DEF Doom, Doomed
  <2>2. convo.active /\ MembersKnown /\ JoinKnown
    BY <1>2, <1>9, <2>1 DEF Order, AtRest
  <2>3. JoinKnown'
    BY <1>1, <1>3, <1>5, <2>2 DEF JoinKnown
  <2>4. PICK e \in 0 .. LastUpdate : Level(e) /\ AsKnown(convo.members, e) /\ NoZombie(saved.zombies, e)
    BY <2>2 DEF MembersKnown
  <2>5. Level(e)'
    BY <1>0, <1>1, <1>3, <1>4, <2>4, LevelKeeps
  <2>6. AsKnown(convo.members, e)' /\ NoZombie(saved.zombies, e)'
    BY <1>1, <1>3, <2>4, KnownKeeps
  <2> QED BY <2>2, <2>3, <2>4, <2>5, <2>6 DEF MembersKnown
<1>10. AtRest'
  <2>1. MembersAt(LastUpdate)' = MembersAt(LastUpdate)
    BY <1>1, Unchanging
  <2> QED BY <1>1, <1>2, <1>3, <1>8, <1>9, <2>1 DEF Order, AtRest
<1> QED BY <1>6, <1>7, <1>10 DEF Order

-----------------------------------------------------------------------------
(* The order: the merge of a wrapper *)

\* Types, in one place.
LEMMA WrapperTypes ==
  ASSUME GroupTypeInv
  PROVE  /\ LastUpdate \in Nat /\ Tolerance \in Nat /\ fetched \in 0 .. LastUpdate /\ convo \in Group
         /\ convo.joined \in 0 .. LastUpdate /\ other.seen \in 0 .. LastUpdate /\ other.at \in 0 .. LastUpdate
         /\ latest \in 0 .. LastUpdate /\ sent \in Histories /\ cached \in Seq(GroupEnvelope)
         /\ Idle.step = "idle" /\ NoMerge.phase = "none" /\ merge \in Merges
BY NumberAssumption DEF GroupTypeInv, GroupTypeOK, Group, Idle, NoMerge

\* What the steps of a merge leave alone, while no handler runs.
LEMMA MergerIs ==
  ASSUME GroupInv, Order, Merge, ~disturbed'
  PROVE  /\ task = Idle /\ task' = Idle /\ ~Joining /\ ~Joining'
         /\ UNCHANGED <<sent, fetched, invited, cached>>
         /\ saved = convo /\ saved' = convo'
         /\ TaskOf' /\ SavedIs'
         /\ \A k : HasUpdate(k)' <=> HasUpdate(k)
         /\ \A k : HasInvitation(k)' <=> HasInvitation(k)
         /\ \A k : AtUpdate(k)' <=> AtUpdate(k)
         /\ \A f : Upto(f) => Upto(f)'
         /\ \A k : IsOpened(k)' <=> IsOpened(k)
         /\ \A k : Unopened(k)' <=> Unopened(k)
         /\ \A k : MembersAt(k)' = MembersAt(k)
         /\ \A k : EntryAt(k)' = EntryAt(k)
         /\ \A k : JoinedBy(k)' = JoinedBy(k)
         /\ JoinKnown /\ convo'.joined = convo.joined => JoinKnown'
<1> USE DEF GroupInv
<1>1. task = Idle /\ task' = Idle /\ Idle.step = "idle"
  BY MergeQuiet, WrapperTypes
<1>2. UNCHANGED <<sent, fetched, invited, cached>>
  BY DEF Merge, MergeConfig, Ask, Compare, UpdateGroup, SetJoinedFromWrapper, EndMerge, external
<1>3. saved = convo
  BY <1>1 DEF Order, SavedIs
<1>4. saved' = convo'
  <2>1. CASE Compare
    BY <1>3, <2>1 DEF Compare, Save, Removed
  <2>2. CASE UpdateGroup
    BY <1>3, <2>2 DEF UpdateGroup, Save
  <2>3. CASE SetJoinedFromWrapper
    BY <2>3 DEF SetJoinedFromWrapper, Save
  <2>4. CASE MergeConfig \/ Ask \/ EndMerge
    BY <1>3, <2>4 DEF MergeConfig, Ask, EndMerge
  <2> QED BY <2>1, <2>2, <2>3, <2>4 DEF Merge
<1>5. TaskOf' /\ SavedIs' /\ ~Joining /\ ~Joining'
  BY <1>1, <1>4 DEF TaskOf, SavedIs, Joining
<1>6. /\ \A k : HasUpdate(k)' <=> HasUpdate(k)
      /\ \A k : HasInvitation(k)' <=> HasInvitation(k)
      /\ \A k : AtUpdate(k)' <=> AtUpdate(k)
      /\ \A f : Upto(f) => Upto(f)'
  BY <1>2, TableSame, TableKeep
<1>7. /\ \A k : IsOpened(k)' <=> IsOpened(k)
      /\ \A k : Unopened(k)' <=> Unopened(k)
  BY <1>2, <1>6, OpenedSame
<1>8. JoinKnown /\ convo'.joined = convo.joined => JoinKnown'
  BY <1>7 DEF JoinKnown
<1> QED BY <1>1, <1>2, <1>3, <1>4, <1>5, <1>6, <1>7, <1>8, Unchanging

\* The steps after the first know all that was handled.
LEMMA MergeKeeps ==
  ASSUME GroupInv, Order, Ask \/ Compare \/ UpdateGroup \/ SetJoinedFromWrapper \/ EndMerge, ~disturbed'
  PROVE  /\ merge # NoMerge /\ other' = other /\ HandledSeen /\ HandledSeen'
         /\ merge.at = other.at /\ merge.answer = EntryAt(other.seen)
         /\ EntryAt(other.seen)' = EntryAt(other.seen)
<1> USE DEF GroupInv
<1>1. merge # NoMerge
  BY WrapperTypes DEF Ask, Compare, UpdateGroup, SetJoinedFromWrapper, EndMerge
<1>2. other' = other /\ Merge
  BY DEF Merge, Ask, Compare, UpdateGroup, SetJoinedFromWrapper, EndMerge, external
<1>3. HandledSeen /\ merge.at = other.at /\ merge.answer = EntryAt(other.seen)
  BY <1>1 DEF Order, InMerge
<1>4. /\ UNCHANGED <<sent, fetched, invited>>
      /\ \A k : HasUpdate(k)' <=> HasUpdate(k)
      /\ \A k : HasInvitation(k)' <=> HasInvitation(k)
  BY <1>2, MergerIs
<1>5. HandledSeen'
  BY <1>2, <1>3, <1>4 DEF HandledSeen
<1>6. EntryAt(other.seen)' = EntryAt(other.seen)
  BY <1>2, <1>4 DEF EntryAt, JoinedBy, Invitations, IsInvitation
<1> QED BY <1>1, <1>2, <1>3, <1>5, <1>6

\* The updates that are handled, that of the first row too.
LEMMA LevelHandled ==
  ASSUME GroupInv, NEW s \in Nat, ~Behind(s), NEW e, Level(e)
  PROVE  e <= s \/ e = convo.joined
<1> USE DEF GroupInv
<1>1. /\ LastUpdate \in Nat /\ fetched \in 0 .. LastUpdate /\ cached \in Seq(GroupEnvelope)
      /\ convo.joined \in 0 .. LastUpdate
  BY WrapperTypes
<1>2. PICK f \in 0 .. fetched :
        /\ Upto(f)
        /\ e = Later(f, convo.joined) \/ (AtUpdate(f + 1) /\ e = Later(f + 1, convo.joined))
  BY DEF Level
<1>3. ASSUME NEW k \in 1 .. fetched, ~Waits(k, FALSE) PROVE k <= s
  <2>1. k \in Handled
    BY <1>3 DEF Handled
  <2>2. ~(k > s)
    BY <2>1 DEF Behind
  <2> QED BY <1>1, <2>2
<1>4. f <= s
  <2>1. CASE f = 0
    BY <2>1
  <2>2. CASE f # 0
    <3>1. f \in 1 .. fetched
      BY <1>1, <2>2
    <3>2. ~HasUpdate(f)
      BY <1>1, <1>2, <3>1 DEF Upto
    <3>3. ~Waits(f, FALSE)
      BY <1>1, <3>2 DEF Waits, HasUpdate, Range
    <3> QED BY <1>3, <3>1, <3>3
  <2> QED BY <2>1, <2>2
<1>5. ASSUME AtUpdate(f + 1) PROVE f + 1 <= s
  <2>1. cached # <<>> /\ cached[1] = [at |-> f + 1, invite |-> FALSE] /\ ~cached[1].invite
    BY <1>5 DEF AtUpdate
  <2>2. f + 1 \in 1 .. fetched
    BY <1>2, <2>1, HeadIsNext
  <2>3. ~Waits(f + 1, FALSE)
    <3> SUFFICES ASSUME NEW i \in 2 .. Len(cached), cached[i] = cached[1] PROVE FALSE
      BY <2>1 DEF Waits
    <3>1. 1 \in DOMAIN cached /\ i \in DOMAIN cached /\ 1 < i
      BY <1>1
    <3>2. cached[1].at < cached[i].at /\ cached[1].at \in Int
      BY <3>1, EnvelopeIs DEF TableInv, Updates
    <3> QED BY <3>2
  <2> QED BY <1>3, <2>2, <2>3
<1> QED BY <1>1, <1>2, <1>4, <1>5 DEF Later

\* A wrapper comes that had seen all that was handled.
LEMMA OrderMergeConfig ==
  ASSUME GroupInv, Order, MergeConfig, ~disturbed'
  PROVE  Order'
<1> USE DEF GroupInv
<1>0. /\ LastUpdate \in Nat /\ fetched \in 0 .. LastUpdate /\ other.seen \in 0 .. LastUpdate
      /\ other.at \in 0 .. LastUpdate /\ latest \in 0 .. LastUpdate /\ Tolerance \in Nat
      /\ NoMerge.phase = "none"
  BY WrapperTypes
<1>1. PICK t \in Updates, j \in 0 .. LastUpdate :
        /\ j <= t /\ t - Tolerance <= j /\ other.seen <= j /\ other.at <= t
        /\ other' = [seen |-> j, at |-> t]
        /\ merge' = [NoMerge EXCEPT !.phase = "merged", !.answer = EntryAt(j), !.at = t]
  BY DEF MergeConfig
<1>2. merge = NoMerge /\ UNCHANGED <<convo, saved, polled, latest>> /\ Merge
  BY DEF MergeConfig, Merge
<1>3. /\ merge' # NoMerge /\ merge'.phase = "merged" /\ merge'.answer = EntryAt(j) /\ merge'.at = t
      /\ other'.seen = j /\ other'.at = t
  BY <1>0, <1>1 DEF NoMerge
<1>4. ~Behind(j)
  <2>1. Behind(other'.seen) \in BOOLEAN
    BY DEF Behind
  <2>2. ~Behind(other'.seen)
    BY <2>1, Quiet DEF MergeConfig
  <2> QED BY <1>3, <2>2
<1>5. /\ task = Idle /\ task' = Idle /\ ~Joining
      /\ UNCHANGED <<sent, fetched, invited, cached>>
      /\ saved = convo
      /\ TaskOf' /\ SavedIs'
      /\ \A k : HasUpdate(k)' <=> HasUpdate(k)
      /\ \A k : HasInvitation(k)' <=> HasInvitation(k)
      /\ \A k : AtUpdate(k)' <=> AtUpdate(k)
      /\ \A f : Upto(f) => Upto(f)'
      /\ \A k : IsOpened(k)' <=> IsOpened(k)
      /\ \A k : Unopened(k)' <=> Unopened(k)
  BY <1>2, MergerIs
<1>6. Times'
  BY <1>0, <1>1, <1>2, <1>3 DEF Order, Times, Updates
<1>7. HandledSeen'
  <2>1. ASSUME NEW k \in 1 .. fetched, ~HasUpdate(k) PROVE k <= j
    <3>1. ~Waits(k, FALSE)
      BY <2>1, WrapperTypes DEF Waits, HasUpdate, Range
    <3>2. k \in Handled
      BY <3>1 DEF Handled
    <3>3. ~(k > j)
      BY <1>4, <3>2 DEF Behind
    <3> QED BY <1>0, <3>3
  <2>2. ASSUME NEW k \in invited, ~HasInvitation(k) PROVE k <= j
    <3>1. ~Waits(k, TRUE)
      BY <2>2, WrapperTypes DEF Waits, HasInvitation, Range
    <3>2. k \in Handled
      BY <3>1 DEF Handled
    <3>3. ~(k > j)
      BY <1>4, <3>2 DEF Behind
    <3>4. k \in Updates
      BY DEF GroupTypeInv, GroupTypeOK
    <3> QED BY <1>0, <3>3, <3>4 DEF Updates
  <2> QED BY <1>3, <1>5, <2>1, <2>2 DEF HandledSeen
<1>8. polled = convo.exists /\ (convo.exists /\ ~Doom => MembersKnown /\ JoinKnown)
  <2>1. convo.exists \in BOOLEAN /\ polled \in BOOLEAN
    BY WrapperTypes DEF Group, GroupTypeInv, GroupTypeOK
  <2> QED BY <1>2, <1>5, <2>1 DEF Order, AtRest
<1>9. merge'.answer = EntryAt(other.seen)'
  BY <1>3, <1>5 DEF EntryAt, JoinedBy, Invitations, IsInvitation
<1>10. Doom' <=> Doom
  BY <1>2, <1>5, DoomSame
<1>11. ASSUME convo.exists, ~Doom
       PROVE  JoinKnown' /\ \E e \in 0 .. LastUpdate :
                                Level(e)' /\ NoZombie(saved.zombies, e)' /\ (e <= j \/ e = convo.joined)
  <2>1. PICK e \in 0 .. LastUpdate : Level(e) /\ NoZombie(saved.zombies, e)
    BY <1>8, <1>11 DEF MembersKnown
  <2>2. e <= j \/ e = convo.joined
    BY <1>4, <2>1, LevelHandled
  <2>3. Level(e)'
    BY <1>0, <1>2, <1>5, <2>1, LevelKeeps
  <2>4. NoZombie(saved.zombies, e)'
    BY <1>2, <1>5, <2>1, Unchanging DEF NoZombie
  <2>5. JoinKnown'
    BY <1>2, <1>5, <1>8, <1>11 DEF JoinKnown
  <2> QED BY <2>1, <2>2, <2>3, <2>4, <2>5
<1>12. InMerge'
  BY <1>2, <1>3, <1>5, <1>7, <1>8, <1>9, <1>10, <1>11 DEF InMerge
<1>13. JoinSeen'
  BY <1>0, <1>1, <1>2, <1>3, <1>5, JoinSeenKeeps DEF Order
<1>14. AtRest'
  BY <1>3 DEF AtRest
<1> QED BY <1>5, <1>6, <1>12, <1>13, <1>14 DEF Order

\* A step of the merge that keeps where the conversation is.
LEMMA MergeLevel ==
  ASSUME GroupInv, Order, Ask \/ Compare \/ UpdateGroup, ~disturbed', UNCHANGED other,
         convo.exists, convo'.exists, convo'.joined = convo.joined, convo'.zombies = convo.zombies,
         merge.phase # "handled"
  PROVE  ~Doom' => \/ convo.zombies = {}
                   \/ JoinKnown' /\ \E e \in 0 .. LastUpdate : /\ Level(e)' /\ NoZombie(saved.zombies, e)'
                                                               /\ (e <= other.seen \/ e = convo.joined)
<1> USE DEF GroupInv
<1>1. /\ merge # NoMerge
      /\ fetched \in Nat /\ saved = convo /\ saved' = convo'
  BY MergeKeeps, MergerIs, WrapperTypes DEF Merge
<1>2. /\ task = Idle /\ UNCHANGED <<sent, fetched, invited, cached>>
      /\ \A k : AtUpdate(k)' <=> AtUpdate(k)
      /\ \A f : Upto(f) => Upto(f)'
      /\ \A k : Unopened(k)' <=> Unopened(k)
      /\ JoinKnown => JoinKnown'
      /\ task' = Idle
  BY MergerIs DEF Merge
<1>3. Doom' <=> Doom
  BY <1>2, DoomSame
<1> SUFFICES ASSUME ~Doom, convo.zombies # {}
             PROVE  JoinKnown' /\ \E e \in 0 .. LastUpdate : /\ Level(e)' /\ NoZombie(saved.zombies, e)'
                                                             /\ (e <= other.seen \/ e = convo.joined)
  BY <1>3
<1>4. /\ JoinKnown
      /\ \E e \in 0 .. LastUpdate :
             Level(e) /\ NoZombie(saved.zombies, e) /\ (e <= other.seen \/ e = convo.joined)
  BY <1>1 DEF Order, InMerge
<1>5. PICK e \in 0 .. LastUpdate : Level(e) /\ NoZombie(saved.zombies, e) /\ (e <= other.seen \/ e = convo.joined)
  BY <1>4
<1>6. Level(e)'
  BY <1>1, <1>2, <1>5, LevelKeeps
<1>7. NoZombie(saved.zombies, e)'
  BY <1>1, <1>2, <1>5, Unchanging DEF NoZombie
<1> QED BY <1>2, <1>4, <1>5, <1>6, <1>7

\* While a wrapper is merged the group itself may be anything.
LEMMA OrderMerging ==
  ASSUME GroupInv, Order, Ask \/ Compare \/ UpdateGroup \/ SetJoinedFromWrapper, ~disturbed',
         merge' # NoMerge, JoinSeen', InMerge'
  PROVE  Order'
<1> USE DEF GroupInv
<1>1. TaskOf' /\ SavedIs'
  BY MergerIs DEF Merge
<1>2. Times'
  BY DEF Order, Times, Ask, Compare, UpdateGroup, SetJoinedFromWrapper, external
<1>3. AtRest'
  BY DEF AtRest
<1> QED BY <1>1, <1>2, <1>3 DEF Order

\* Its groups are asked for.
LEMMA OrderAsk ==
  ASSUME GroupInv, Order, Ask, ~disturbed'
  PROVE  Order'
<1> USE DEF GroupInv
<1>1. merge \in Merges /\ NoMerge.phase = "none" /\ other.seen \in Nat /\ fetched \in Nat
  BY WrapperTypes
<1>2. merge.phase = "merged" /\ merge' = [merge EXCEPT !.phase = "asked"] /\ UNCHANGED <<convo, polled>>
  BY DEF Ask
<1>3. merge'.phase = "asked" /\ merge'.answer = merge.answer /\ merge'.at = merge.at /\ merge' # NoMerge
  BY <1>1, <1>2 DEF Merges
<1>4. /\ merge # NoMerge /\ other' = other /\ HandledSeen'
      /\ merge.at = other.at /\ merge.answer = EntryAt(other.seen)
      /\ EntryAt(other.seen)' = EntryAt(other.seen)
  BY MergeKeeps
<1>5. /\ task' = Idle /\ UNCHANGED <<sent, fetched, invited, cached>>
      /\ saved' = convo'
      /\ \A k : HasInvitation(k)' <=> HasInvitation(k)
      /\ \A k : IsOpened(k)' <=> IsOpened(k)
  BY MergerIs DEF Merge
<1>6. polled = convo.exists
  BY <1>2, <1>4 DEF Order, InMerge
<1>7. convo.exists /\ ~Doom' =>
           \/ convo.zombies = {}
           \/ JoinKnown' /\ \E e \in 0 .. LastUpdate :
                                Level(e)' /\ NoZombie(saved.zombies, e)' /\ (e <= other.seen \/ e = convo.joined)
  BY <1>2, <1>4, MergeLevel
<1>8. InMerge'
  BY <1>2, <1>3, <1>4, <1>5, <1>6, <1>7 DEF InMerge
<1>9. JoinSeen'
  BY <1>1, <1>2, <1>4, <1>5, JoinSeenKeeps DEF Order
<1> QED BY <1>3, <1>8, <1>9, OrderMerging

\* The group is removed or created as the wrapper has it.
LEMMA OrderCompare ==
  ASSUME GroupInv, Order, Compare, ~disturbed'
  PROVE  Order'
<1> USE DEF GroupInv
<1>1. /\ merge \in Merges /\ NoMerge.phase = "none" /\ other.seen \in Nat /\ fetched \in Nat
      /\ merge.answer.in \in BOOLEAN /\ convo.exists \in BOOLEAN
  BY WrapperTypes DEF Merges, Entry, Group
<1>2. /\ merge.phase = "asked"
      /\ merge' = [merge EXCEPT !.phase = IF merge.answer.in THEN "comparing" ELSE "handled"]
  BY DEF Compare
<1>3. /\ merge'.phase = IF merge.answer.in THEN "comparing" ELSE "handled"
      /\ merge'.answer = merge.answer /\ merge'.at = merge.at /\ merge' # NoMerge
  BY <1>1, <1>2 DEF Merges
<1>4. /\ merge # NoMerge /\ other' = other /\ HandledSeen'
      /\ merge.at = other.at /\ merge.answer = EntryAt(other.seen)
      /\ EntryAt(other.seen)' = EntryAt(other.seen)
  BY MergeKeeps
<1>5. /\ task' = Idle /\ UNCHANGED <<sent, fetched, invited, cached>>
      /\ saved' = convo'
      /\ \A k : HasInvitation(k)' <=> HasInvitation(k)
      /\ \A k : IsOpened(k)' <=> IsOpened(k)
  BY MergerIs DEF Merge
<1>6. polled = convo.exists
  BY <1>2, <1>4 DEF Order, InMerge
<1>7. CASE ~merge.answer.in /\ convo.exists
  <2>1. convo' = NoGroup /\ polled' = FALSE
    BY <1>1, <1>7 DEF Compare, Removed
  <2>2. convo'.exists = FALSE /\ merge.answer.in = FALSE
    BY <1>1, <1>7, <2>1 DEF NoGroup
  <2>3. merge'.phase = "handled" /\ merge'.answer.in = FALSE
    BY <1>3, <2>2
  <2>4. InMerge'
    BY <1>3, <1>4, <1>5, <2>1, <2>2, <2>3 DEF InMerge
  <2>5. JoinSeen'
    BY <2>2 DEF JoinSeen
  <2> QED BY <1>3, <2>4, <2>5, OrderMerging
<1>8. CASE merge.answer.in /\ ~convo.exists
  <2>1. convo' = Created
    BY <1>1, <1>8 DEF Compare, Save
  <2>2. convo'.exists /\ convo'.zombies = {} /\ convo'.joined = 0
    BY <2>1 DEF Created, NoGroup
  <2>3. InMerge'
    BY <1>3, <1>4, <1>5, <1>8, <2>2 DEF InMerge
  <2>4. JoinSeen'
    BY <1>1, <1>4, <2>2 DEF JoinSeen
  <2> QED BY <1>3, <2>3, <2>4, OrderMerging
<1>9. CASE merge.answer.in <=> convo.exists
  <2>1. UNCHANGED <<convo, polled>>
    BY <1>1, <1>9 DEF Compare
  <2>2. convo.exists /\ ~Doom' =>
           \/ convo.zombies = {}
           \/ JoinKnown' /\ \E e \in 0 .. LastUpdate :
                                Level(e)' /\ NoZombie(saved.zombies, e)' /\ (e <= other.seen \/ e = convo.joined)
    BY <1>2, <1>4, <2>1, MergeLevel
  <2>3. InMerge'
    <3>1. CASE convo.exists
      <4>1. merge'.phase = "comparing"
        BY <1>3, <1>9, <3>1
      <4> QED BY <1>3, <1>4, <1>5, <2>1, <2>2, <3>1, <4>1 DEF InMerge
    <3>2. CASE ~convo.exists
      <4>1. merge'.phase = "handled" /\ convo.exists = FALSE /\ merge.answer.in = FALSE
        BY <1>1, <1>3, <1>9, <3>2
      <4> QED BY <1>3, <1>4, <1>5, <1>6, <2>1, <4>1 DEF InMerge
    <3> QED BY <3>1, <3>2
  <2>4. JoinSeen'
    BY <1>1, <1>4, <1>5, <2>1, JoinSeenKeeps DEF Order
  <2> QED BY <1>3, <2>3, <2>4, OrderMerging
<1> QED BY <1>1, <1>7, <1>8, <1>9

\* It gets the members of the wrapper; the zombies stay.
LEMMA OrderUpdateGroup ==
  ASSUME GroupInv, Order, UpdateGroup, ~disturbed'
  PROVE  Order'
<1> USE DEF GroupInv
<1>1. /\ merge \in Merges /\ NoMerge.phase = "none" /\ other.seen \in Nat /\ fetched \in Nat /\ convo \in Group
  BY WrapperTypes
<1>2. /\ merge # NoMerge /\ other' = other /\ HandledSeen'
      /\ merge.at = other.at /\ merge.answer = EntryAt(other.seen)
      /\ EntryAt(other.seen)' = EntryAt(other.seen)
  BY MergeKeeps
<1>3. merge.phase = "comparing" /\ convo.exists
  BY <1>2 DEF UpdateGroup, Order, InMerge
<1>4. /\ convo' = [convo EXCEPT !.members = merge.answer.members, !.active = TRUE]
      /\ merge' = [merge EXCEPT !.phase = "updated", !.attached = TRUE]
  BY <1>3 DEF UpdateGroup, Save
<1>5. /\ merge'.phase = "updated" /\ merge'.answer = merge.answer /\ merge'.at = merge.at /\ merge'.attached
      /\ merge' # NoMerge
      /\ convo'.exists /\ convo'.active /\ convo'.members = merge.answer.members
      /\ convo'.joined = convo.joined /\ convo'.zombies = convo.zombies
  BY <1>1, <1>3, <1>4 DEF Merges, Group
<1>6. /\ task' = Idle /\ UNCHANGED <<sent, fetched, invited, cached>>
      /\ saved' = convo'
      /\ \A k : HasInvitation(k)' <=> HasInvitation(k)
      /\ \A k : IsOpened(k)' <=> IsOpened(k)
  BY MergerIs DEF Merge
<1>7. ~Doom' =>
           \/ convo.zombies = {}
           \/ JoinKnown' /\ \E e \in 0 .. LastUpdate :
                                Level(e)' /\ NoZombie(saved.zombies, e)' /\ (e <= other.seen \/ e = convo.joined)
  BY <1>2, <1>3, <1>5, MergeLevel
<1>8. InMerge'
  BY <1>2, <1>5, <1>6, <1>7 DEF InMerge
<1>9. JoinSeen'
  BY <1>1, <1>2, <1>3, <1>5, <1>6, JoinSeenKeeps DEF Order
<1> QED BY <1>5, <1>8, <1>9, OrderMerging

\* With the time at which the other device joined, no row is skipped but what it had seen.
LEMMA OrderSetJoinedFromWrapper ==
  ASSUME GroupInv, Order, SetJoinedFromWrapper, ~disturbed'
  PROVE  Order'
<1> USE DEF GroupInv
<1>1. /\ merge \in Merges /\ NoMerge.phase = "none" /\ other.seen \in 0 .. LastUpdate /\ fetched \in 0 .. LastUpdate
      /\ convo \in Group /\ convo.joined \in 0 .. LastUpdate /\ LastUpdate \in Nat /\ Idle.step = "idle"
  BY WrapperTypes
<1>2. /\ merge # NoMerge /\ other' = other /\ HandledSeen /\ HandledSeen'
      /\ merge.at = other.at /\ merge.answer = EntryAt(other.seen)
      /\ EntryAt(other.seen)' = EntryAt(other.seen)
  BY MergeKeeps
<1>3. merge.phase = "updated" /\ merge.answer.in
  BY DEF SetJoinedFromWrapper, GroupTypeInv, GroupTypeOK
<1>4. /\ convo.exists /\ convo.active /\ convo.members = merge.answer.members /\ merge.attached
      /\ ~Doom =>
           \/ convo.zombies = {}
           \/ JoinKnown /\ \E e \in 0 .. LastUpdate :
                               Level(e) /\ NoZombie(saved.zombies, e) /\ (e <= other.seen \/ e = convo.joined)
  BY <1>2, <1>3 DEF Order, InMerge
<1> DEFINE j == JoinedBy(other.seen)
<1>5. /\ j \in {0} \union Invitations /\ j \in 0 .. LastUpdate /\ j <= other.seen
      /\ \A i \in Invitations : i <= other.seen => i <= j
  BY <1>1, JoinedByIs
<1>6. merge.answer.joined = j
  BY <1>2, <1>3 DEF EntryAt, NoEntry
<1> HIDE DEF j
<1>7. /\ convo' = [convo EXCEPT !.joined = merge.answer.joined]
      /\ polled' = TRUE /\ merge' = [merge EXCEPT !.phase = "handled"]
  BY <1>4 DEF SetJoinedFromWrapper, Save
<1>8. /\ merge'.phase = "handled" /\ merge'.answer = merge.answer /\ merge'.at = merge.at /\ merge' # NoMerge
      /\ convo'.exists = TRUE /\ convo'.active /\ convo'.members = merge.answer.members
      /\ convo'.joined = j /\ convo'.zombies = convo.zombies /\ merge.answer.in = TRUE
  <2>1. convo.exists = TRUE /\ merge.answer.in = TRUE
    BY <1>1, <1>3, <1>4 DEF Group, Merges, Entry
  <2> QED BY <1>1, <1>4, <1>6, <1>7, <2>1 DEF Merges, Group
<1>9. /\ task = Idle /\ task' = Idle /\ UNCHANGED <<sent, fetched, invited, cached>>
      /\ saved = convo /\ saved' = convo'
      /\ \A k : HasInvitation(k)' <=> HasInvitation(k)
      /\ \A k : AtUpdate(k)' <=> AtUpdate(k)
      /\ \A f : Upto(f) => Upto(f)'
      /\ \A k : IsOpened(k)' <=> IsOpened(k)
      /\ \A k : Unopened(k)' <=> Unopened(k)
      /\ Invitations' = Invitations
  BY MergerIs, Unchanging DEF Merge
<1>10. JoinSeen'
  BY <1>1, <1>2, <1>5, <1>8, <1>9 DEF JoinSeen
<1>11. ASSUME ~Doom' PROVE \E e \in 0 .. other.seen : Level(e)' /\ NoZombie(saved.zombies, e)'
  <2>0. \A i \in Updates : Unopened(i) => ~(i < fetched) /\ ~(i <= j)
    BY <1>8, <1>9, <1>11 DEF Doom, Doomed, Updates
  <2>1. CASE convo.zombies = {}
    <3>1. PICK f \in 0 .. fetched : Upto(f)
      BY DEF TableInv
    <3>2. f <= other.seen
      BY <1>1, <1>2, <3>1 DEF HandledSeen, Upto
    <3>3. Later(f, j) \in 0 .. other.seen
      BY <1>1, <1>5, <3>1, <3>2 DEF Later
    <3>4. PICK e : e = Later(f, j)
      OBVIOUS
    <3>5. Level(e)'
      BY <1>1, <1>8, <1>9, <3>1, <3>4 DEF Level, Later
    <3>6. NoZombie(saved.zombies, e)'
      BY <1>8, <1>9, <2>1 DEF NoZombie
    <3> QED BY <3>3, <3>4, <3>5, <3>6
  <2>2. CASE convo.zombies # {}
    <3>1. convo.joined <= other.seen
      <4>1. /\ convo.joined \in {0} \union Invitations
            /\ convo.joined <= other.seen \/ IsOpened(convo.joined) \/ (HasInvitation(convo.joined) /\ fetched > convo.joined)
        BY <1>4, <2>2 DEF Order, JoinSeen
      <4>2. CASE IsOpened(convo.joined)
        BY <1>2, <4>2 DEF IsOpened, HandledSeen
      <4>3. CASE HasInvitation(convo.joined) /\ fetched > convo.joined
        <5>1. convo.joined \in Updates
          <6>1. PICK i \in DOMAIN cached : cached[i].at = convo.joined
            BY <4>3, HasInvitationIs
          <6> QED BY <6>1, EnvelopeIs
        <5>2. convo.joined \in Invitations
          BY <4>1, <5>1 DEF Updates
        <5>3. Unopened(convo.joined)
          BY <4>3, <5>2 DEF Unopened, IsOpened
        <5> QED BY <1>1, <2>0, <4>3, <5>1, <5>3
      <4> QED BY <4>1, <4>2, <4>3
    <3>2. convo.joined <= j
      BY <1>1, <1>4, <1>5, <3>1 DEF Order, JoinSeen
    <3>3. ~Doom
      BY <1>1, <1>5, <2>0, <3>2 DEF Doom, Doomed, Updates
    <3>4. JoinKnown
      BY <1>4, <2>2, <3>3
    <3>5. PICK e \in 0 .. LastUpdate : Level(e) /\ NoZombie(saved.zombies, e) /\ (e <= other.seen \/ e = convo.joined)
      BY <1>4, <2>2, <3>3
    <3>6. convo.joined = j
      <4> SUFFICES ASSUME convo.joined < j PROVE FALSE
        BY <1>1, <1>5, <3>2
      <4>1. j \in Invitations /\ j \in Updates
        BY <1>1, <1>5 DEF Updates
      <4>2. ~IsOpened(j)
        BY <1>1, <1>5, <3>4, <4>1 DEF JoinKnown
      <4>3. Unopened(j)
        BY <4>1, <4>2 DEF Unopened
      <4> QED BY <1>5, <2>0, <4>1, <4>3
    <3>7. Level(e)'
      BY <1>1, <1>8, <1>9, <3>5, <3>6, LevelKeeps
    <3>8. NoZombie(saved.zombies, e)'
      BY <1>8, <1>9, <3>5, Unchanging DEF NoZombie
    <3>9. e \in 0 .. other.seen
      BY <1>1, <3>1, <3>5
    <3> QED BY <3>7, <3>8, <3>9
  <2> QED BY <2>1, <2>2
<1>12. InMerge'
  BY <1>2, <1>6, <1>7, <1>8, <1>9, <1>11 DEF InMerge
<1> QED BY <1>8, <1>10, <1>12, OrderMerging

\* From now on the updates since two minutes before the wrapper are applied.
LEMMA OrderEndMerge ==
  ASSUME GroupInv, Order, EndMerge, ~disturbed'
  PROVE  Order'
<1> USE DEF GroupInv
<1>1. /\ merge \in Merges /\ other.seen \in 0 .. LastUpdate /\ fetched \in 0 .. LastUpdate
      /\ other.at \in 0 .. LastUpdate /\ latest \in 0 .. LastUpdate /\ Tolerance \in Nat
      /\ convo \in Group /\ LastUpdate \in Nat /\ Idle.step = "idle" /\ sent \in Histories
      /\ LastUpdate \in other.seen .. LastUpdate
  BY WrapperTypes
<1>2. /\ merge # NoMerge /\ other' = other /\ HandledSeen
      /\ merge.at = other.at /\ merge.answer = EntryAt(other.seen)
  BY MergeKeeps
<1>3. merge.phase = "handled" /\ merge' = NoMerge /\ UNCHANGED <<convo, polled>>
  BY DEF EndMerge
<1>4. latest' = other.at
  BY <1>1, <1>2 DEF EndMerge, Order, Times
<1>5. /\ task = Idle /\ task' = Idle /\ UNCHANGED <<sent, fetched, invited, cached>>
      /\ saved = convo /\ saved' = convo' /\ TaskOf' /\ SavedIs'
      /\ \A k : HasInvitation(k)' <=> HasInvitation(k)
      /\ \A k : AtUpdate(k)' <=> AtUpdate(k)
      /\ \A f : Upto(f) => Upto(f)'
      /\ \A k : IsOpened(k)' <=> IsOpened(k)
      /\ \A k : Unopened(k)' <=> Unopened(k)
      /\ \A k : MembersAt(k)' = MembersAt(k)
      /\ \A k : JoinedBy(k)' = JoinedBy(k)
  BY MergerIs DEF Merge
<1>6. /\ polled = convo.exists /\ convo.exists = merge.answer.in
      /\ convo.exists => /\ convo.active /\ convo.members = merge.answer.members /\ convo.joined = merge.answer.joined
                         /\ ~Doom => \E e \in 0 .. other.seen : Level(e) /\ NoZombie(saved.zombies, e)
  BY <1>2, <1>3 DEF Order, InMerge
<1>7. Times' /\ InMerge'
  BY <1>1, <1>2, <1>3, <1>4 DEF Order, Times, InMerge
<1>8. JoinSeen'
  BY <1>1, <1>2, <1>3, <1>5, JoinSeenKeeps DEF Order
<1>9. \A k \in Int : k >= other.seen => EnvelopeMoreRecent(k + 1)'
  BY <1>1, <1>4 DEF EnvelopeMoreRecent, Order, Times
<1>10. Doom' <=> Doom
  BY <1>3, <1>5, DoomSame
<1>11. ASSUME ~convo.exists, Us \in MembersAt(LastUpdate) PROVE Awaits'
  <2>1. Us \notin MembersAt(other.seen)
    BY <1>2, <1>6, <1>11 DEF EntryAt, MembersAt
  <2>2. PICK i \in Invitations : other.seen < i /\ i <= LastUpdate
    <3>1. LastUpdate \in 0 .. LastUpdate
      BY <1>1
    <3> QED BY <1>1, <1>11, <2>1, <3>1, AddedBetween
  <2>3. LastJoin \in Invitations /\ other.seen < LastJoin /\ LastJoin \in 1 .. LastUpdate
    <3>1. LastUpdate \in 0 .. LastUpdate
      BY <1>1
    <3>2. /\ LastJoin \in {0} \union Invitations /\ LastJoin \in 0 .. LastUpdate
          /\ i <= LastJoin /\ i \in Updates
      BY <2>2, <3>1, JoinedByIs, InvitationIs, <1>1 DEF LastJoin
    <3> QED BY <1>1, <2>2, <3>2 DEF Updates
  <2>4. Unopened(LastJoin)
    BY <1>1, <1>2, <2>3 DEF Unopened, IsOpened, HandledSeen
  <2>5. EnvelopeMoreRecent((LastJoin - 1) + 1)'
    <3>1. LastJoin - 1 \in Int /\ LastJoin - 1 >= other.seen
      BY <1>1, <2>3
    <3>2. PICK k : k = LastJoin - 1
      OBVIOUS
    <3>3. LastJoin' = LastJoin
      BY <1>5, Unchanging DEF LastJoin
    <3> QED BY <1>9, <3>1, <3>3
  <2>6. LastJoin' = LastJoin
    BY <1>5, Unchanging DEF LastJoin
  <2>7. EnvelopeMoreRecent(LastJoin)'
    BY <1>1, <2>3, <2>5, <2>6 DEF EnvelopeMoreRecent
  <2> QED BY <1>5, <2>3, <2>4, <2>6, <2>7 DEF Awaits
<1>12. ASSUME convo.exists, ~Doom PROVE MembersKnown'
  <2>1. PICK e \in 0 .. other.seen : Level(e) /\ NoZombie(saved.zombies, e)
    BY <1>6, <1>12
  <2>2. /\ Us \in MembersAt(other.seen) /\ convo.members = MembersAt(other.seen)
        /\ convo.joined = JoinedBy(other.seen)
    <3>1. merge.answer.in = TRUE /\ NoEntry.in = FALSE
      BY <1>1, <1>6, <1>12 DEF Group, NoEntry
    <3>2. Us \in MembersAt(other.seen)
      BY <1>2, <3>1 DEF EntryAt, MembersAt
    <3> QED BY <1>2, <1>6, <1>12, <3>2 DEF EntryAt, MembersAt
  <2>3. AsKnown(convo.members, e)'
    <3>1. CASE e < other.seen
      <4>1. AsWrapped(convo.members, e)'
        BY <1>2, <1>3, <1>5, <2>2, <3>1 DEF AsWrapped
      <4> QED BY <4>1 DEF AsKnown
    <3>2. CASE e = other.seen
      <4>1. e \in Int /\ e >= other.seen
        BY <1>1, <2>1, <3>2
      <4>2. EnvelopeMoreRecent(e + 1)'
        BY <1>9, <4>1
      <4>3. AsSent(convo.members, e)'
        BY <1>3, <1>5, <2>2, <3>2, <4>2 DEF AsSent
      <4> QED BY <4>3 DEF AsKnown
    <3> QED BY <1>1, <2>1, <3>1, <3>2
  <2>4. Level(e)'
    <3>1. fetched \in Nat
      BY <1>1
    <3> QED BY <1>3, <1>5, <2>1, <3>1, LevelKeeps
  <2>5. NoZombie(saved.zombies, e)'
    BY <1>3, <1>5, <2>1 DEF NoZombie
  <2>6. e \in 0 .. LastUpdate
    BY <1>1, <2>1
  <2> QED BY <2>3, <2>4, <2>5, <2>6 DEF MembersKnown
<1>13. ASSUME convo.exists PROVE JoinKnown'
  <2>1. convo.joined = JoinedBy(other.seen)
    <3>1. merge.answer.in = TRUE /\ NoEntry.in = FALSE
      BY <1>1, <1>6, <1>13 DEF Group, NoEntry
    <3>2. Us \in MembersAt(other.seen)
      BY <1>2, <3>1 DEF EntryAt, MembersAt
    <3> QED BY <1>2, <1>6, <1>13, <3>2 DEF EntryAt, MembersAt
  <2>2. ASSUME NEW k \in Updates, IsOpened(k) PROVE k <= convo.joined
    <3>1. k \in Invitations /\ k <= other.seen
      BY <1>2, <2>2 DEF IsOpened, HandledSeen, TableInv
    <3> QED BY <1>1, <2>1, <3>1, JoinedByIs
  <2> QED BY <1>3, <1>5, <2>2 DEF JoinKnown
<1>14. AtRest'
  <2>1. CASE convo.exists
    BY <1>2, <1>3, <1>4, <1>6, <1>10, <1>12, <1>13, <2>1 DEF AtRest
  <2>2. CASE ~convo.exists
    BY <1>2, <1>3, <1>4, <1>5, <1>6, <1>11, <2>2 DEF AtRest
  <2> QED BY <2>1, <2>2
<1> QED BY <1>5, <1>7, <1>8, <1>14 DEF Order

-----------------------------------------------------------------------------
(* The order: from the start on *)

\* At the start everybody is a member.
LEMMA OrderInit ==
  ASSUME GroupInit
  PROVE  Order
<1>1. GroupTypeInv /\ LastUpdate \in Nat /\ Tolerance \in Nat
  BY GroupTypeInit, NumberAssumption
<1>2. /\ fetched = 0 /\ invited = {} /\ cached = <<>> /\ task = Idle /\ saved = convo /\ polled = TRUE
      /\ latest = 0 /\ merge = NoMerge /\ other.seen = 0 /\ other.at = 0
      /\ convo.exists /\ convo.active /\ convo.members = People /\ convo.joined = 0 /\ convo.zombies = {}
  BY DEF GroupInit, NoGroup, First
<1>3. Idle.step = "idle"
  BY DEF Idle
<1>4. Times /\ TaskOf /\ SavedIs /\ InMerge /\ JoinSeen
  BY <1>1, <1>2, <1>3 DEF Times, TaskOf, SavedIs, InMerge, JoinSeen, Joining
<1>5. MembersKnown
  <2>1. Upto(0) /\ 0 \in 0 .. fetched
    BY <1>2 DEF Upto
  <2>2. Level(0)
    BY <1>2, <1>3, <2>1 DEF Level, Later
  <2>3. AsKnown(convo.members, 0)
    BY <1>2, MembersIs DEF AsKnown, AsSent, MembersAt, EnvelopeMoreRecent
  <2>4. NoZombie(saved.zombies, 0)
    BY <1>2 DEF NoZombie
  <2>5. 0 \in 0 .. LastUpdate
    BY <1>1
  <2> QED BY <2>2, <2>3, <2>4, <2>5 DEF MembersKnown
<1>6. JoinKnown
  BY <1>2 DEF JoinKnown, IsOpened
<1>7. AtRest
  BY <1>2, <1>5, <1>6 DEF AtRest
<1> QED BY <1>4, <1>7 DEF Order

LEMMA OrderSame ==
  ASSUME GroupInv, Order, UNCHANGED groupVars
  PROVE  Order'
<1> USE DEF GroupInv
<1>1. /\ sent' = sent /\ fetched' = fetched /\ invited' = invited /\ cached' = cached /\ task' = task
      /\ convo' = convo /\ saved' = saved /\ polled' = polled /\ latest' = latest /\ merge' = merge
      /\ other' = other
  BY DEF groupVars, external
<1>2. Times' /\ TaskOf' /\ SavedIs' /\ JoinSeen'
  BY <1>1, Unchanging, TableSame DEF Order, Times, TaskOf, SavedIs, JoinSeen, Joining, Current, Now, Out,
     Changes,
     EnvelopeMoreRecent, MembersAt, IsOpened
<1>3. /\ \A k : HasUpdate(k)' <=> HasUpdate(k)
      /\ \A k : HasInvitation(k)' <=> HasInvitation(k)
      /\ \A k : AtUpdate(k)' <=> AtUpdate(k)
      /\ \A f : Upto(f) => Upto(f)'
  BY <1>1, TableSame, TableKeep
<1>4. /\ \A k : IsOpened(k)' <=> IsOpened(k)
      /\ \A k : Unopened(k)' <=> Unopened(k)
  BY <1>1, <1>3, OpenedSame
<1>5. (Doom' <=> Doom) /\ (JoinKnown => JoinKnown') /\ (HandledSeen => HandledSeen')
  BY <1>1, <1>3, <1>4, DoomSame DEF JoinKnown, HandledSeen
<1>6. \A e : Level(e) => Level(e)'
  BY <1>1, <1>3, LevelKeeps DEF GroupTypeInv, GroupTypeOK
<1>7. \A e : NoZombie(saved.zombies, e) => NoZombie(saved.zombies, e)'
  BY <1>1, Unchanging DEF NoZombie
<1>8. EntryAt(other.seen)' = EntryAt(other.seen)
  BY <1>1 DEF EntryAt, JoinedBy, Invitations, IsInvitation
<1>9. /\ \A e \in 0 .. LastUpdate :
             Level(e) /\ NoZombie(saved.zombies, e) => Level(e)' /\ NoZombie(saved.zombies, e)'
      /\ \A e \in 0 .. other.seen :
             Level(e) /\ NoZombie(saved.zombies, e) => Level(e)' /\ NoZombie(saved.zombies, e)'
  BY <1>6, <1>7
<1>10. InMerge'
  BY <1>1, <1>5, <1>8, <1>9 DEF Order, InMerge
<1>11. ASSUME MembersKnown PROVE MembersKnown'
  <2>1. PICK e \in 0 .. LastUpdate : Level(e) /\ AsKnown(convo.members, e) /\ NoZombie(saved.zombies, e)
    BY <1>11 DEF MembersKnown
  <2>2. AsKnown(convo.members, e)'
    BY <1>1, <2>1, KnownKeeps
  <2> QED BY <1>6, <1>7, <2>1, <2>2 DEF MembersKnown
<1>12. AtRest'
  BY <1>1, <1>4, <1>11, RestKeeps, Unchanging, AwaitsSame, <1>5 DEF Order, AtRest, Joining
<1> QED BY <1>2, <1>10, <1>12 DEF Order

\* What disturbed the order before still does.
LEMMA DisturbedStays ==
  ASSUME GroupTypeInv, GroupNext, ~disturbed'
  PROVE  ~disturbed
<1>1. CASE Fetch \/ FetchInvitation
  BY <1>1 DEF Fetch, FetchInvitation
<1>2. CASE Restart
  BY <1>2 DEF Restart, Disturbed
<1> QED BY <1>1, <1>2, HandlerQuiet, MergeQuiet DEF GroupNext

\* The order is kept by every step that does not disturb it.
LEMMA OrderStep ==
  ASSUME GroupInv, GroupInv', ~disturbed => Order, [GroupNext]_groupVars, ~disturbed'
  PROVE  Order'
<1>1. CASE UNCHANGED groupVars
  BY <1>1, OrderSame DEF groupVars, external
<1>2. CASE GroupNext
  <2>1. Order /\ GroupTypeInv
    BY <1>2, DisturbedStays DEF GroupInv
  <2>2. CASE Fetch \/ FetchInvitation
    BY <2>1, <2>2, OrderFetch
  <2>3. CASE Handle
    BY <2>1, <2>3, OrderPerformIfValid, OrderRead, OrderAddUpdateMessage, OrderWrite,
       OrderRemoveFromCache DEF Handle
  <2>4. CASE Join
    BY <2>1, <2>4, OrderOpenInvitation, OrderUpdateOrCreate, OrderSetJoined, OrderStartPolling DEF Join
  <2>5. CASE Merge
    BY <2>1, <2>5, OrderMergeConfig, OrderAsk, OrderCompare, OrderUpdateGroup, OrderSetJoinedFromWrapper,
       OrderEndMerge
       DEF Merge
  <2>6. CASE Restart
    BY <2>1, <2>6, OrderRestart
  <2> QED BY <1>2, <2>2, <2>3, <2>4, <2>5, <2>6 DEF GroupNext
<1> QED BY <1>1, <1>2

\* Nothing is left that could change the members, and they are known at the last update.
LEMMA SettledAsSent ==
  ASSUME GroupInv, Order, Settled
  PROVE  /\ convo.exists <=> Us \in MembersAt(LastUpdate)
         /\ convo.exists => /\ convo.active /\ convo.members = MembersAt(LastUpdate)
                            /\ convo.zombies \intersect MembersAt(LastUpdate) = {}
         /\ polled = convo.exists
         /\ saved = convo
<1> USE DEF GroupInv
<1>1. /\ LastUpdate \in Nat /\ fetched \in 0 .. LastUpdate /\ convo \in Group /\ convo.joined \in 0 .. LastUpdate
      /\ other.seen \in 0 .. LastUpdate /\ Idle.step = "idle"
  BY WrapperTypes
<1>2. cached = <<>> /\ merge = NoMerge /\ invited = Invitations /\ (polled => fetched = LastUpdate)
  BY DEF Settled
<1>3. task = Idle /\ polled \in BOOLEAN /\ convo.exists \in BOOLEAN
  BY <1>1, <1>2 DEF GroupTypeInv, GroupTypeOK, Group
<1>4. saved = convo /\ ~Joining
  BY <1>1, <1>3 DEF Order, SavedIs, Joining
<1>5. \A k : ~HasUpdate(k) /\ ~HasInvitation(k) /\ ~AtUpdate(k)
  BY <1>2 DEF HasUpdate, HasInvitation, AtUpdate, Range
<1>6. ~Doom /\ ~Awaits
  BY <1>2, <1>5 DEF Doom, Doomed, Awaits, Unopened, IsOpened
<1>7. CASE ~convo.exists
  BY <1>2, <1>3, <1>4, <1>6, <1>7 DEF Order, AtRest
<1>8. CASE convo.exists
  <2>1. polled /\ convo.active /\ MembersKnown
    BY <1>2, <1>4, <1>6, <1>8 DEF Order, AtRest
  <2>2. PICK e \in 0 .. LastUpdate : Level(e) /\ AsKnown(convo.members, e) /\ NoZombie(saved.zombies, e)
    BY <2>1 DEF MembersKnown
  <2>3. e = LastUpdate
    <3>1. PICK f \in 0 .. fetched : Upto(f) /\ e = Later(f, convo.joined)
      BY <1>5, <2>2 DEF Level
    <3>2. f = LastUpdate
      BY <1>1, <1>2, <1>5, <2>1, <3>1 DEF Upto
    <3> QED BY <1>1, <3>1, <3>2 DEF Later
  <2>4. AsSent(convo.members, e)
    BY <1>1, <2>2, <2>3 DEF AsKnown, AsWrapped
  <2>5. convo.members = MembersAt(LastUpdate) /\ convo.zombies \intersect MembersAt(LastUpdate) = {}
    BY <1>4, <2>2, <2>3, <2>4 DEF AsSent, NoZombie
  <2>6. Us \in convo.members
    BY <2>1 DEF OursInv, Ours
  <2> QED BY <1>3, <1>4, <1>8, <2>1, <2>5, <2>6
<1> QED BY <1>7, <1>8

\* The inductive invariant: rows without a gap, us and the admin in whatever a handler or a
\* merge is about to write and, until something disturbs the order, the members those of
\* the group at the last update handled, or of the wrapper but for those whom an update
\* concerns that performIfValid will apply again.
THEOREM OrderIsKept == GroupSpec => [](GroupInv /\ (~disturbed => Order))
<1> DEFINE Inv == GroupInv /\ (~disturbed => Order)
<1>1. GroupInit => Inv
  BY GroupTypeInit, TableInit, OursInit, OrderInit DEF GroupInv
<1>2. Inv /\ [GroupNext]_groupVars => Inv'
  <2> SUFFICES ASSUME Inv, [GroupNext]_groupVars PROVE Inv'
    OBVIOUS
  <2>1. GroupInv'
    BY GroupTypeStep, TableStep, OursStep DEF GroupInv
  <2>2. ASSUME ~disturbed' PROVE Order'
    BY <2>1, <2>2, OrderStep
  <2> QED BY <2>1, <2>2
<1> QED BY <1>1, <1>2, PTL DEF GroupSpec

\* Once everything that was sent to us is handled, the group is there, polled, saved and
\* with the members it has, if and only if we are in it: applying the updates of the
\* minutes before a wrapper again (sentAtMoreRecentThanWrapper) does no harm, for any
\* history, tolerance and number of wrappers and kills, unless the order was disturbed.
THEOREM MembersAsSentCorrect == GroupSpec => []MembersAsSent
<1>1. GroupInv /\ (~disturbed => Order) => MembersAsSent
  <2> SUFFICES ASSUME GroupInv, Order, Settled
               PROVE  /\ convo.exists <=> Us \in MembersAt(LastUpdate)
                      /\ convo.exists => /\ convo.active /\ convo.members = MembersAt(LastUpdate)
                                         /\ convo.zombies \intersect MembersAt(LastUpdate) = {}
                      /\ polled = convo.exists
                      /\ saved = convo
    BY DEF MembersAsSent, MembersAt
  <2> QED BY SettledAsSent
<1> QED BY <1>1, OrderIsKept, PTL

=============================================================================
