-------------------------- MODULE SwarmPollingProofs --------------------------
(***************************************************************************)
(* Proofs about the polling of the swarms, for any number of groups, nodes *)
(* and messages, any order in which the nodes store them, any page size    *)
(* and any number of faults and changes: TypeOK, that no message is        *)
(* skipped, that none is handed over twice, and that only a restart makes  *)
(* a group lack its entry in the wrapper.                                  *)
(*                                                                         *)
(* NothingSkipped speaks of the last hashes saved.  It is not inductive: a *)
(* request is out with an older hash, and its answer may set the last hash *)
(* back to what follows that one (AskedAccounted); and a message that was  *)
(* seen before is left out of a batch (SeenAccounted).  HandedOnce needs   *)
(* that the messages about to be handed over are in the seen hashes, were  *)
(* not handed over yet, and are those of one poll (FreshUnhanded).         *)
(***************************************************************************)
EXTENDS SwarmPolling, TLAPS

\* The messages that were handed over or merged, are held by a poll or were lost with one.
Accounted ==
  {m \in Messages : handed[m] > 0} \union merged \union dropped
    \union UNION {Held(p) : p \in polls}

HashAccounted ==
  \A n \in Nodes, b \in Box : UpTo(Stored[n][b], hashDb[n][b]) \subseteq Accounted

\* ... and those up to the hash a request was sent with.
AskedAccounted ==
  \A p \in polls : p.at = "asking" =>
    /\ p.node \in Nodes
    /\ \A b \in Box : UpTo(Stored[p.node][b], p.prev[b]) \subseteq Accounted

\* A message that was seen is not left to be merged.
SeenAccounted ==
  \A m \in seen :
    \/ handed[m] > 0 \/ m \in dropped
    \/ \E p \in polls : p.at = "seen" /\ m \in p.fresh

FreshUnhanded ==
  /\ \A p \in polls : p.at = "seen" =>
       \A m \in p.fresh : m \in seen /\ handed[m] = 0
  /\ \A p, q \in polls : p.at = "seen" /\ q.at = "seen" =>
       p = q \/ p.fresh \intersect q.fresh = {}
  /\ \A m \in Messages : handed[m] > 0 => m \in seen

\* A group we are joining is in the wrapper, and one we are leaving was left.
GroupsTracked ==
  /\ joining \intersect convos \subseteq tracked
  /\ leaving \intersect convos = {}

IInv ==
  /\ TypeOK
  /\ HashAccounted /\ AskedAccounted /\ SeenAccounted
  /\ FreshUnhanded /\ HandedOnce
  /\ GroupsTracked

-----------------------------------------------------------------------------
(* Sequences of messages *)

\* What a node returns is a sequence of messages.
LEMMA AfterType ==
  ASSUME NEW s \in Seq(Messages), NEW h, NEW n \in Nat
  PROVE  After(s, h, n) \in Seq(Messages)
<1> DEFINE i == IF h \in Range(s) THEN CHOOSE j \in DOMAIN s : s[j] = h ELSE 0
           k == IF i + n < Len(s) THEN i + n ELSE Len(s)
<1>1. i \in 0 .. Len(s)
  <2>1. CASE h \in Range(s)
    <3>1. \E j \in DOMAIN s : s[j] = h
      BY <2>1 DEF Range
    <3>2. (CHOOSE j \in DOMAIN s : s[j] = h) \in DOMAIN s
      BY <3>1
    <3> QED BY <2>1, <3>2
  <2>2. CASE h \notin Range(s)
    BY <2>2
  <2> QED BY <2>1, <2>2
<1>2. k \in 0 .. Len(s)
  BY <1>1
<1>3. After(s, h, n) = SubSeq(s, i + 1, k)
  BY DEF After
<1> HIDE DEF i, k
<1>4. SubSeq(s, i + 1, k) \in Seq(Messages)
  BY <1>1, <1>2
<1> QED BY <1>3, <1>4

\* The prefix of a sequence without duplicates that ends with its i-th element.
LEMMA UpToIndex ==
  ASSUME NEW s \in Seq(Messages), IsInjective(s), NEW i \in DOMAIN s
  PROVE  UpTo(s, s[i]) = {s[j] : j \in 1 .. i}
<1>1. s[i] \in Range(s)
  BY DEF Range
<1>2. (CHOOSE j \in DOMAIN s : s[j] = s[i]) = i
  BY DEF IsInjective
<1>3. UpTo(s, s[i]) = Range(SubSeq(s, 1, i))
  BY <1>1, <1>2 DEF UpTo
<1>4. /\ DOMAIN SubSeq(s, 1, i) = 1 .. i
      /\ \A j \in 1 .. i : SubSeq(s, 1, i)[j] = s[j]
  OBVIOUS
<1> QED BY <1>3, <1>4 DEF Range

LEMMA UpToNothing ==
  ASSUME NEW s, NEW h, h \notin Range(s)
  PROVE  UpTo(s, h) = {}
BY DEF UpTo

LEMMA UpToType ==
  ASSUME NEW s \in Seq(Messages), IsInjective(s), NEW h
  PROVE  UpTo(s, h) \subseteq Messages
<1>1. CASE h \notin Range(s)
  BY <1>1, UpToNothing
<1>2. CASE h \in Range(s)
  <2>1. PICK i \in DOMAIN s : s[i] = h
    BY <1>2 DEF Range
  <2>2. UpTo(s, h) = {s[j] : j \in 1 .. i}
    BY <2>1, UpToIndex
  <2> QED BY <2>1, <2>2
<1> QED BY <1>1, <1>2

\* Up to the last message a node returns, there is nothing but what comes up to
\* the hash it was given, and what it returns.
LEMMA AfterUpTo ==
  ASSUME NEW s \in Seq(Messages), IsInjective(s), NEW h, NEW n \in Nat,
         After(s, h, n) # <<>>
  PROVE  UpTo(s, Last(After(s, h, n))) \subseteq UpTo(s, h) \union Range(After(s, h, n))
<1> DEFINE i == IF h \in Range(s) THEN CHOOSE j \in DOMAIN s : s[j] = h ELSE 0
           k == IF i + n < Len(s) THEN i + n ELSE Len(s)
           r == SubSeq(s, i + 1, k)
<1>1. /\ i \in 0 .. Len(s)
      /\ UpTo(s, h) = {s[j] : j \in 1 .. i}
  <2>1. CASE h \in Range(s)
    <3>1. \E j \in DOMAIN s : s[j] = h
      BY <2>1 DEF Range
    <3>2. i \in DOMAIN s /\ s[i] = h
      BY <2>1, <3>1
    <3> HIDE DEF i
    <3> QED BY <3>2, UpToIndex
  <2>2. CASE h \notin Range(s)
    BY <2>2, UpToNothing
  <2> QED BY <2>1, <2>2
<1>2. k \in 0 .. Len(s)
  BY <1>1
<1>3. After(s, h, n) = r
  BY DEF After
<1> HIDE DEF i, k
<1>4. i + 1 <= k /\ Len(r) = k - i /\ r[Len(r)] = s[k] /\ k \in DOMAIN s
      /\ \A j \in (i + 1) .. k : j - i \in DOMAIN r /\ r[j - i] = s[j]
  BY <1>1, <1>2, <1>3
<1>5. UpTo(s, Last(r)) = {s[j] : j \in 1 .. k}
  BY <1>4, UpToIndex DEF Last
<1>6. ASSUME NEW j \in 1 .. k PROVE s[j] \in UpTo(s, h) \union Range(r)
  <2>1. CASE j \in 1 .. i
    BY <1>1, <2>1
  <2>2. CASE j \notin 1 .. i
    <3>1. j - i \in DOMAIN r /\ r[j - i] = s[j]
      BY <1>1, <1>2, <1>4, <2>2
    <3> QED BY <3>1 DEF Range
  <2> QED BY <2>1, <2>2
<1> QED BY <1>3, <1>5, <1>6

-----------------------------------------------------------------------------
(* Polls *)

\* A poll that goes on to another phase, with the same batch.
LEMMA PollAt ==
  ASSUME NEW p \in Poll, NEW a \in Phase, NEW q, q = [p EXCEPT !.at = a]
  PROVE  /\ q \in Poll /\ q.key = p.key /\ q.late = p.late /\ q.at = a /\ q.node = p.node
         /\ q.prev = p.prev /\ q.batch = p.batch /\ q.fresh = p.fresh
BY DEF Poll

LEMMA PollLate ==
  ASSUME NEW p \in Poll, NEW q, q = [p EXCEPT !.late = TRUE]
  PROVE  /\ q \in Poll /\ q.key = p.key /\ q.at = p.at /\ q.node = p.node
         /\ q.prev = p.prev /\ q.batch = p.batch /\ q.fresh = p.fresh
BY DEF Poll

LEMMA PollUnanswered ==
  ASSUME NEW p \in Poll,
         NEW q, q = [p EXCEPT !.at = "reading", !.node = None, !.prev = NoHash]
  PROVE  q \in Poll /\ q.at = "reading"
<1>1. NoHash \in [Box -> Messages \union {None}]
  BY DEF NoHash
<1> QED BY <1>1 DEF Poll, Phase

LEMMA PollSeen ==
  ASSUME NEW p \in Poll, NEW F \in SUBSET Messages,
         NEW q, q = [p EXCEPT !.at = "seen", !.batch = NoBatch, !.fresh = F]
  PROVE  q \in Poll /\ q.at = "seen" /\ q.fresh = F
<1>1. NoBatch \in [Box -> Seq(Messages)]
  BY DEF NoBatch
<1> QED BY <1>1 DEF Poll, Phase

LEMMA NewPollType ==
  ASSUME NEW k \in Keys
  PROVE  NewPoll(k) \in Poll /\ NewPoll(k).at = "swarm"
<1>1. NoBatch \in [Box -> Seq(Messages)] /\ NoHash \in [Box -> Messages \union {None}]
  BY DEF NoBatch, NoHash
<1> QED BY <1>1 DEF NewPoll, Poll, Phase

\* What a poll holds, phase by phase.
LEMMA HeldAt ==
  ASSUME NEW p
  PROVE  /\ p.at = "merging" => Held(p) = Taken(p)
         /\ p.at = "reading" => Held(p) = Taken(p) \ ConfigMessages
         /\ p.at = "seen" => Held(p) = p.fresh
         /\ p.at \in {"swarm", "asking"} => Held(p) = {}
BY DEF Held, TakenMessages

\* ... which depends on its phase, its batch and its fresh messages only.
LEMMA HeldSame ==
  ASSUME NEW p, NEW q, q.at = p.at, q.batch = p.batch, q.fresh = p.fresh
  PROVE  Held(q) = Held(p)
BY DEF Held, TakenMessages, Taken

LEMMA TakenType ==
  ASSUME NEW p \in Poll
  PROVE  Taken(p) \subseteq Messages
BY DEF Taken, Poll, Range

LEMMA HeldType ==
  ASSUME NEW p \in Poll
  PROVE  Held(p) \subseteq Messages
<1>1. p.at \in Phase /\ p.fresh \subseteq Messages
  BY DEF Poll
<1> QED BY <1>1, HeldAt, TakenType DEF Phase

-----------------------------------------------------------------------------
(* What is accounted for stays so *)

\* No poll changes, and nothing is forgotten.
LEMMA AccountedSame ==
  ASSUME polls \subseteq polls', UNCHANGED <<handed, merged, dropped>>
  PROVE  Accounted \subseteq Accounted'
BY DEF Accounted

\* A poll becomes another, or ends, and what it no longer holds was dealt with.
LEMMA AccountedUpdate ==
  ASSUME TypeOK, NEW p \in polls,
         \A q \in polls \ {p} : q \in polls',
         \A m \in Messages : handed[m] > 0 => handed'[m] > 0,
         merged \subseteq merged', dropped \subseteq dropped',
         Held(p) \subseteq Accounted'
  PROVE  Accounted \subseteq Accounted'
<1> SUFFICES ASSUME NEW m \in Accounted PROVE m \in Accounted'
  OBVIOUS
<1>1. CASE m \in Messages /\ handed[m] > 0
  BY <1>1 DEF Accounted
<1>2. CASE m \in merged \union dropped
  BY <1>2 DEF Accounted
<1>3. CASE \E q \in polls : m \in Held(q)
  <2>1. PICK q \in polls : m \in Held(q)
    BY <1>3
  <2>2. CASE q = p
    BY <2>1, <2>2
  <2>3. CASE q # p
    BY <2>1, <2>3 DEF Accounted
  <2> QED BY <2>2, <2>3
<1> QED BY <1>1, <1>2, <1>3 DEF Accounted

\* The last hashes stay, and every request that is out was out before.
LEMMA HashesSame ==
  ASSUME HashAccounted, AskedAccounted, Accounted \subseteq Accounted',
         UNCHANGED hashDb,
         \A p \in polls' : p.at = "asking" =>
           \E q \in polls : q.at = "asking" /\ q.node = p.node /\ q.prev = p.prev
  PROVE  HashAccounted' /\ AskedAccounted'
<1>1. HashAccounted'
  BY DEF HashAccounted
<1>2. ASSUME NEW p \in polls', p.at = "asking"
      PROVE  /\ p.node \in Nodes
             /\ \A b \in Box : UpTo(Stored[p.node][b], p.prev[b]) \subseteq Accounted'
  <2>1. PICK q \in polls : q.at = "asking" /\ q.node = p.node /\ q.prev = p.prev
    BY <1>2
  <2> QED BY <2>1 DEF AskedAccounted
<1> QED BY <1>1, <1>2 DEF AskedAccounted

\* The messages about to be handed over stay the same.
LEMMA FreshSame ==
  ASSUME SeenAccounted, FreshUnhanded, HandedOnce,
         UNCHANGED <<seen, handed>>, dropped \subseteq dropped',
         \A p \in polls : p.at = "seen" =>
           p.fresh \subseteq dropped' \/ \E q \in polls' : q.at = "seen" /\ q.fresh = p.fresh,
         \A p \in polls' : p.at = "seen" => \E q \in polls : q.at = "seen" /\ q.fresh = p.fresh,
         \A p, q \in polls' : p.at = "seen" /\ q.at = "seen" =>
           p = q \/ p.fresh \intersect q.fresh = {}
  PROVE  SeenAccounted' /\ FreshUnhanded' /\ HandedOnce'
<1>1. SeenAccounted'
  <2> SUFFICES ASSUME NEW m \in seen
               PROVE  \/ handed'[m] > 0 \/ m \in dropped'
                      \/ \E p \in polls' : p.at = "seen" /\ m \in p.fresh
    BY DEF SeenAccounted
  <2>1. CASE handed[m] > 0 \/ m \in dropped
    BY <2>1
  <2>2. CASE \E p \in polls : p.at = "seen" /\ m \in p.fresh
    BY <2>2
  <2> QED BY <2>1, <2>2 DEF SeenAccounted
<1>2. FreshUnhanded'
  <2>1. ASSUME NEW p \in polls', p.at = "seen", NEW m \in p.fresh
        PROVE  m \in seen' /\ handed'[m] = 0
    <3>1. PICK q \in polls : q.at = "seen" /\ q.fresh = p.fresh
      BY <2>1
    <3> QED BY <2>1, <3>1 DEF FreshUnhanded
  <2> QED BY <2>1 DEF FreshUnhanded
<1>3. HandedOnce'
  BY DEF HandedOnce
<1> QED BY <1>1, <1>2, <1>3

\* A step of one poll that takes no part in handing over.
LEMMA FreshUpdate ==
  ASSUME SeenAccounted, FreshUnhanded, HandedOnce,
         NEW p \in polls, p.at # "seen", NEW q, q.at # "seen", Update(p, q),
         UNCHANGED <<seen, handed>>, dropped \subseteq dropped'
  PROVE  SeenAccounted' /\ FreshUnhanded' /\ HandedOnce'
<1>1. polls' = (polls \ {p}) \union {q}
  BY DEF Update
<1>2. \A r \in polls : r.at = "seen" => r \in polls'
  BY <1>1
<1>3. \A r \in polls' : r.at = "seen" => r \in polls
  BY <1>1
<1>4. \A r, o \in polls' : r.at = "seen" /\ o.at = "seen" =>
        r = o \/ r.fresh \intersect o.fresh = {}
  BY <1>3 DEF FreshUnhanded
<1> QED BY <1>2, <1>3, <1>4, FreshSame

-----------------------------------------------------------------------------
(* The actions *)

\* Steps that only start polls, and those of the groups.
LEMMA NoPollEnds ==
  ASSUME IInv, TypeOK', GroupsTracked',
         UNCHANGED <<hashDb, seen, handed, merged, dropped>>,
         polls \subseteq polls', \A p \in polls' \ polls : p.at = "swarm"
  PROVE  IInv'
<1>1. Accounted \subseteq Accounted'
  BY AccountedSame
<1>2. HashAccounted' /\ AskedAccounted'
  BY <1>1, HashesSame DEF IInv
<1>3. \A p, q \in polls' : p.at = "seen" /\ q.at = "seen" =>
        p = q \/ p.fresh \intersect q.fresh = {}
  <2> SUFFICES ASSUME NEW p \in polls', NEW q \in polls', p.at = "seen", q.at = "seen"
               PROVE  p = q \/ p.fresh \intersect q.fresh = {}
    OBVIOUS
  <2>1. p \in polls /\ q \in polls
    OBVIOUS
  <2> QED BY <2>1 DEF IInv, FreshUnhanded
<1>4. \A p \in polls : p.at = "seen" => \E q \in polls' : q.at = "seen" /\ q.fresh = p.fresh
  OBVIOUS
<1>5. \A p \in polls' : p.at = "seen" => \E q \in polls : q.at = "seen" /\ q.fresh = p.fresh
  OBVIOUS
<1>6. SeenAccounted' /\ FreshUnhanded' /\ HandedOnce'
  BY <1>3, <1>4, <1>5, FreshSame DEF IInv
<1> QED BY <1>2, <1>6 DEF IInv

LEMMA InitIInv == Init => IInv
<1> SUFFICES ASSUME Init PROVE IInv
  OBVIOUS
<1>1. TypeOK
  BY BoundAssumption DEF Init, TypeOK, NoHash, Poll
<1>2. HashAccounted
  <2> SUFFICES ASSUME NEW n \in Nodes, NEW b \in Box
               PROVE  UpTo(Stored[n][b], hashDb[n][b]) = {}
    BY DEF HashAccounted
  <2>1. hashDb[n][b] = None
    BY DEF Init, NoHash
  <2>2. Stored[n][b] \in Seq(Messages)
    BY StoredAssumption
  <2>3. None \notin Range(Stored[n][b])
    BY <2>2, NoneAssumption DEF Range
  <2> QED BY <2>1, <2>3, UpToNothing
<1>3. AskedAccounted /\ SeenAccounted
  BY DEF Init, AskedAccounted, SeenAccounted
<1>4. FreshUnhanded /\ HandedOnce /\ GroupsTracked
  BY DEF Init, FreshUnhanded, HandedOnce, GroupsTracked
<1> QED BY <1>1, <1>2, <1>3, <1>4 DEF IInv

LEMMA StartStep ==
  ASSUME IInv, Start
  PROVE  IInv'
<1>1. TypeOK'
  BY DEF IInv, TypeOK, Start, durable, volatile
<1>2. GroupsTracked'
  BY DEF IInv, GroupsTracked, Start, durable, volatile
<1> QED BY <1>1, <1>2, NoPollEnds DEF Start, durable, volatile

LEMMA PollForAllKeysStep ==
  ASSUME IInv, PollForAllKeys
  PROVE  IInv'
<1>1. \A p \in polls' \ polls : p \in Poll /\ p.at = "swarm"
  BY NewPollType DEF PollForAllKeys, Keys, IInv, TypeOK
<1>2. TypeOK'
  BY <1>1 DEF IInv, TypeOK, PollForAllKeys, durable
<1>3. GroupsTracked' /\ polls \subseteq polls' /\ UNCHANGED <<hashDb, seen, handed, merged, dropped>>
  BY DEF IInv, GroupsTracked, PollForAllKeys, durable
<1> QED BY <1>1, <1>2, <1>3, NoPollEnds

LEMMA BecomeDueStep ==
  ASSUME IInv, NEW g \in Groups, BecomeDue(g)
  PROVE  IInv'
<1>1. TypeOK'
  BY DEF IInv, TypeOK, BecomeDue, durable, volatile
<1>2. GroupsTracked'
  BY DEF IInv, GroupsTracked, BecomeDue, durable, volatile
<1> QED BY <1>1, <1>2, NoPollEnds DEF BecomeDue, durable, volatile

LEMMA JoinGroupStep ==
  ASSUME IInv, NEW g \in Groups, JoinGroup(g)
  PROVE  IInv'
<1>1. TypeOK'
  BY BoundAssumption DEF IInv, TypeOK, JoinGroup, durable, volatile
<1>2. GroupsTracked'
  BY DEF IInv, GroupsTracked, JoinGroup, durable, volatile
<1> QED BY <1>1, <1>2, NoPollEnds DEF JoinGroup, durable, volatile

LEMMA AddGroupIdStep ==
  ASSUME IInv, NEW g \in Groups, AddGroupId(g)
  PROVE  IInv'
<1>1. TypeOK'
  BY DEF IInv, TypeOK, AddGroupId, durable, volatile
<1>2. GroupsTracked'
  BY DEF IInv, GroupsTracked, AddGroupId, durable, volatile
<1> QED BY <1>1, <1>2, NoPollEnds DEF AddGroupId, durable, volatile

LEMMA LeaveGroupStep ==
  ASSUME IInv, NEW g \in Groups, LeaveGroup(g)
  PROVE  IInv'
<1>1. TypeOK'
  BY BoundAssumption DEF IInv, TypeOK, LeaveGroup, durable, volatile
<1>2. GroupsTracked'
  BY DEF IInv, GroupsTracked, LeaveGroup, durable, volatile
<1> QED BY <1>1, <1>2, NoPollEnds DEF LeaveGroup, durable, volatile

LEMMA EraseGroupStep ==
  ASSUME IInv, NEW g \in Groups, EraseGroup(g)
  PROVE  IInv'
<1>1. TypeOK'
  BY DEF IInv, TypeOK, EraseGroup, durable, volatile
<1>2. GroupsTracked'
  BY DEF IInv, GroupsTracked, EraseGroup, durable, volatile
<1> QED BY <1>1, <1>2, NoPollEnds DEF EraseGroup, durable, volatile

LEMMA SaveDumpStep ==
  ASSUME IInv, SaveDump
  PROVE  IInv'
<1>1. TypeOK'
  BY DEF IInv, TypeOK, SaveDump, durable, volatile
<1>2. GroupsTracked'
  BY DEF IInv, GroupsTracked, SaveDump, durable, volatile
<1> QED BY <1>1, <1>2, NoPollEnds DEF SaveDump, durable, volatile

\* The process dies: what the polls held is lost.
LEMMA CrashStep ==
  ASSUME IInv, Crash
  PROVE  IInv'
<1>1. /\ polls' = {} /\ dropped' = dropped \union UNION {Held(p) : p \in polls}
      /\ UNCHANGED <<hashDb, seen, handed, merged>>
  BY DEF Crash, durable
<1>2. dropped' \subseteq Messages
  BY <1>1, HeldType DEF IInv, TypeOK
<1>3. TypeOK'
  BY <1>1, <1>2, BoundAssumption DEF IInv, TypeOK, Crash, durable
<1>4. GroupsTracked'
  BY DEF GroupsTracked, Crash
<1>5. Accounted \subseteq Accounted'
  BY <1>1 DEF Accounted
<1>6. HashAccounted' /\ AskedAccounted'
  BY <1>1, <1>5, HashesSame DEF IInv
<1>7. \A p \in polls : p.at = "seen" => p.fresh \subseteq dropped'
  BY <1>1, HeldAt
<1>8. SeenAccounted' /\ FreshUnhanded' /\ HandedOnce'
  BY <1>1, <1>7, FreshSame DEF IInv
<1> QED BY <1>3, <1>4, <1>6, <1>8 DEF IInv

\* A poll asks a node with the last hash of it.
LEMMA AskNodeStep ==
  ASSUME IInv, NEW p \in polls, AskNode(p)
  PROVE  IInv'
<1>1. PICK n \in Nodes :
        /\ Update(p, [p EXCEPT !.at = "asking", !.node = n, !.prev =
                        [b \in Box |-> IF b.key = p.key THEN hashDb[n][b] ELSE None]])
        /\ known' = known \union {n}
  <2>1. p.key \in Keys
    BY DEF IInv, TypeOK, Poll
  <2> QED BY <2>1 DEF AskNode, Nodes
<1> DEFINE h == [b \in Box |-> IF b.key = p.key THEN hashDb[n][b] ELSE None]
           q == [p EXCEPT !.at = "asking", !.node = n, !.prev = h]
<1>2. /\ p.at = "swarm"
      /\ UNCHANGED <<mode, groups, due, tracked, joining, leaving, convos, dumped, hashDb, seen>>
      /\ UNCHANGED <<handed, merged, dropped, faults, changes>>
  BY DEF AskNode, durable
<1>3. h \in [Box -> Messages \union {None}]
  BY DEF IInv, TypeOK
<1>4. q \in Poll /\ q.at = "asking" /\ q.node = n /\ q.prev = h
  <2>1. p \in Poll
    BY DEF IInv, TypeOK
  <2> HIDE DEF h
  <2> QED BY <1>3, <2>1 DEF Poll, Phase
<1>5. \A b \in Box : UpTo(Stored[n][b], h[b]) \subseteq Accounted
  <2> SUFFICES ASSUME NEW b \in Box PROVE UpTo(Stored[n][b], h[b]) \subseteq Accounted
    OBVIOUS
  <2>1. CASE b.key = p.key
    BY <2>1 DEF IInv, HashAccounted
  <2>2. CASE b.key # p.key
    <3>1. None \notin Range(Stored[n][b])
      BY StoredAssumption, NoneAssumption DEF Range
    <3> QED BY <2>2, <3>1, UpToNothing
  <2> QED BY <2>1, <2>2
<1>6. Update(p, q)
  BY <1>1
<1> HIDE DEF h, q
<1>7. TypeOK'
  BY <1>1, <1>2, <1>4, <1>6 DEF IInv, TypeOK, Update
<1>8. GroupsTracked'
  BY <1>2 DEF IInv, GroupsTracked
<1>9. Accounted \subseteq Accounted'
  <2>1. Held(p) = {}
    BY <1>2, HeldAt
  <2> QED BY <1>2, <1>6, <2>1, AccountedUpdate DEF IInv, Update
<1>10. HashAccounted'
  BY <1>2, <1>9 DEF IInv, HashAccounted
<1>11. AskedAccounted'
  <2> SUFFICES ASSUME NEW r \in polls', r.at = "asking"
               PROVE  /\ r.node \in Nodes
                      /\ \A b \in Box : UpTo(Stored[r.node][b], r.prev[b]) \subseteq Accounted'
    BY DEF AskedAccounted
  <2>1. CASE r = q
    BY <1>4, <1>5, <1>9, <2>1
  <2>2. CASE r # q
    BY <1>6, <1>9, <2>2 DEF IInv, AskedAccounted, Update
  <2> QED BY <2>1, <2>2
<1>12. SeenAccounted' /\ FreshUnhanded' /\ HandedOnce'
  BY <1>2, <1>4, <1>6, FreshUpdate DEF IInv
<1> QED BY <1>7, <1>8, <1>10, <1>11, <1>12 DEF IInv

\* A poll that holds nothing goes on to handleSeenMessages.
LEMMA NothingToAsk ==
  ASSUME IInv, NEW p \in polls, p.at \in {"swarm", "asking"},
         NEW q \in Poll, q.at = "reading", Update(p, q),
         UNCHANGED <<hashDb, seen, handed, merged, dropped, joining, convos, tracked, leaving>>,
         TypeOK'
  PROVE  IInv'
<1>1. Held(p) = {}
  BY HeldAt
<1>2. Accounted \subseteq Accounted'
  BY <1>1, AccountedUpdate DEF IInv, Update
<1>3. HashAccounted' /\ AskedAccounted'
  BY <1>2, HashesSame DEF IInv, Update
<1>4. SeenAccounted' /\ FreshUnhanded' /\ HandedOnce'
  BY FreshUpdate DEF IInv
<1>5. GroupsTracked'
  BY DEF IInv, GroupsTracked
<1> QED BY <1>3, <1>4, <1>5 DEF IInv

LEMMA AskNobodyStep ==
  ASSUME IInv, NEW p \in polls, AskNobody(p)
  PROVE  IInv'
<1> DEFINE q == [p EXCEPT !.at = "reading"]
<1>1. q \in Poll /\ q.at = "reading"
  BY PollAt DEF IInv, TypeOK, Phase
<1>2. /\ p.at = "swarm" /\ Update(p, q) /\ faults > 0 /\ faults' = faults - 1
      /\ UNCHANGED <<mode, groups, due, known, tracked, joining, leaving, convos, dumped>>
      /\ UNCHANGED <<hashDb, seen, handed, merged, dropped, changes>>
  BY DEF AskNobody, durable
<1> HIDE DEF q
<1>3. TypeOK'
  BY <1>1, <1>2, BoundAssumption DEF IInv, TypeOK, Update
<1> QED BY <1>1, <1>2, <1>3, NothingToAsk

LEMMA NoAnswerStep ==
  ASSUME IInv, NEW p \in polls, NoAnswer(p)
  PROVE  IInv'
<1> DEFINE q == [p EXCEPT !.at = "reading", !.node = None, !.prev = NoHash]
<1>1. q \in Poll /\ q.at = "reading"
  BY PollUnanswered DEF IInv, TypeOK
<1>2. /\ p.at = "asking" /\ Update(p, q)
      /\ UNCHANGED <<mode, groups, due, known, tracked, joining, leaving, convos, dumped>>
      /\ UNCHANGED <<hashDb, seen, handed, merged, dropped, faults, changes>>
  BY DEF NoAnswer, durable
<1> HIDE DEF q
<1>3. TypeOK'
  BY <1>1, <1>2 DEF IInv, TypeOK, Update
<1> QED BY <1>1, <1>2, <1>3, NothingToAsk

\* The answer of a node: the new last hash follows the one the node was asked with.
LEMMA AnswerStep ==
  ASSUME IInv, NEW p \in polls, NEW n \in [BOOLEAN -> 0 .. PageSize], Answer(p, n)
  PROVE  IInv'
<1> DEFINE batch == [b \in Box |-> IF b.key = p.key
                       THEN After(Stored[p.node][b], p.prev[b], n[b.config]) ELSE <<>>]
           q == [p EXCEPT !.node = None, !.prev = NoHash, !.batch = batch]
           a == IF TakenConfig(q) = {} THEN "reading" ELSE "merging"
           r == [q EXCEPT !.at = a]
<1>1. /\ p.at = "asking" /\ hashDb' = NewLastHash(p.node, batch) /\ Update(p, r)
      /\ UNCHANGED <<mode, groups, due, known, tracked, joining, leaving, convos, dumped>>
      /\ UNCHANGED <<seen, handed, merged, dropped, faults, changes>>
  BY DEF Answer
<1>2. /\ p \in Poll /\ p.node \in Nodes
      /\ \A b \in Box : UpTo(Stored[p.node][b], p.prev[b]) \subseteq Accounted
  BY <1>1 DEF IInv, TypeOK, AskedAccounted
<1>3. \A b \in Box : b.config \in BOOLEAN
  BY DEF Box
<1>4. \A b \in Box : Stored[p.node][b] \in Seq(Messages) /\ IsInjective(Stored[p.node][b])
  BY <1>2, StoredAssumption
<1>5. ASSUME NEW b \in Box PROVE n[b.config] \in Nat
  <2>1. n[b.config] \in 0 .. PageSize
    BY <1>3
  <2> QED BY <2>1
<1>6. batch \in [Box -> Seq(Messages)]
  <2> SUFFICES ASSUME NEW b \in Box
               PROVE  (IF b.key = p.key
                       THEN After(Stored[p.node][b], p.prev[b], n[b.config]) ELSE <<>>)
                        \in Seq(Messages)
    OBVIOUS
  <2>1. After(Stored[p.node][b], p.prev[b], n[b.config]) \in Seq(Messages)
    BY <1>4, <1>5, AfterType
  <2> QED BY <2>1
<1>7. ASSUME NEW b \in Box, batch[b] # <<>>
      PROVE  UpTo(Stored[p.node][b], Last(batch[b])) \subseteq Accounted \union Range(batch[b])
  <2>1. batch[b] = After(Stored[p.node][b], p.prev[b], n[b.config])
    BY <1>7
  <2>2. UpTo(Stored[p.node][b], Last(batch[b]))
          \subseteq UpTo(Stored[p.node][b], p.prev[b]) \union Range(batch[b])
    BY <1>4, <1>5, <1>7, <2>1, AfterUpTo
  <2> QED BY <1>2, <2>2
<1> HIDE DEF batch
<1>8. /\ q.batch = batch
      /\ r \in Poll /\ r.at = a /\ r.batch = batch
  <2>1. a \in Phase
    BY DEF Phase
  <2>2. NoHash \in [Box -> Messages \union {None}]
    BY DEF NoHash
  <2> HIDE DEF a
  <2> QED BY <1>2, <1>6, <2>1, <2>2 DEF Poll
<1>9. \A b \in Box : Range(batch[b]) \subseteq Held(r)
  <2>1. Taken(r) = Taken(q)
    BY <1>8 DEF Taken
  <2>2. Held(r) = Taken(r)
    <3>1. CASE TakenConfig(q) = {}
      <4>1. Taken(q) \intersect ConfigMessages = {}
        BY <3>1 DEF TakenConfig
      <4>2. r.at = "reading"
        BY <1>8, <3>1
      <4> HIDE DEF r, q
      <4> QED BY <2>1, <4>1, <4>2, HeldAt
    <3>2. CASE TakenConfig(q) # {}
      <4>1. r.at = "merging"
        BY <1>8, <3>2
      <4> HIDE DEF r, q
      <4> QED BY <4>1, HeldAt
    <3> QED BY <3>1, <3>2
  <2>3. \A b \in Box : Range(batch[b]) \subseteq Taken(r)
    BY <1>8 DEF Taken
  <2> QED BY <2>2, <2>3
<1>10. r.at \in {"reading", "merging"}
  BY <1>8
<1> HIDE DEF r, q, a
<1>11. hashDb' \in [Nodes -> [Box -> Messages \union {None}]]
  <2>1. ASSUME NEW b \in Box, batch[b] # <<>> PROVE Last(batch[b]) \in Messages
    BY <1>6, <2>1 DEF Last
  <2> QED BY <1>1, <1>6, <2>1 DEF IInv, TypeOK, NewLastHash
<1>12. TypeOK'
  BY <1>1, <1>8, <1>11 DEF IInv, TypeOK, Update
<1>13. Accounted \subseteq Accounted'
  <2>1. Held(p) = {}
    BY <1>1, HeldAt
  <2> QED BY <1>1, <2>1, AccountedUpdate DEF IInv, Update
<1>14. Held(r) \subseteq Accounted'
  BY <1>1 DEF Accounted, Update
<1>15. HashAccounted'
  <2> SUFFICES ASSUME NEW o \in Nodes, NEW b \in Box
               PROVE  UpTo(Stored[o][b], hashDb'[o][b]) \subseteq Accounted'
    BY DEF HashAccounted
  <2>1. CASE o = p.node /\ batch[b] # <<>>
    <3>1. hashDb'[o][b] = Last(batch[b])
      BY <1>1, <2>1 DEF IInv, TypeOK, NewLastHash
    <3> QED BY <1>7, <1>9, <1>13, <1>14, <2>1, <3>1
  <2>2. CASE ~(o = p.node /\ batch[b] # <<>>)
    <3>1. hashDb'[o][b] = hashDb[o][b]
      BY <1>1, <2>2 DEF IInv, TypeOK, NewLastHash
    <3> QED BY <1>13, <3>1 DEF IInv, HashAccounted
  <2> QED BY <2>1, <2>2
<1>16. AskedAccounted'
  BY <1>1, <1>10, <1>13 DEF IInv, AskedAccounted, Update
<1>17. SeenAccounted' /\ FreshUnhanded' /\ HandedOnce'
  BY <1>1, <1>10, FreshUpdate DEF IInv
<1>18. GroupsTracked'
  BY <1>1 DEF IInv, GroupsTracked
<1> QED BY <1>12, <1>15, <1>16, <1>17, <1>18 DEF IInv

\* The configuration messages are merged, or lost.
LEMMA MergeStep ==
  ASSUME IInv, NEW p \in polls, HandleSharedConfigMessages(p)
  PROVE  IInv'
<1> DEFINE q == [p EXCEPT !.at = "reading"]
<1>1. p \in Poll /\ q \in Poll /\ q.at = "reading" /\ q.batch = p.batch
  BY PollAt DEF IInv, TypeOK, Phase
<1>2. /\ p.at = "merging" /\ Update(p, q)
      /\ UNCHANGED <<mode, groups, due, known, tracked, joining, leaving, convos, dumped>>
      /\ UNCHANGED <<hashDb, seen, handed, changes>>
      /\ \/ merged' = merged \union TakenConfig(p) /\ UNCHANGED <<dropped, faults>>
         \/ /\ faults > 0 /\ faults' = faults - 1
            /\ dropped' = dropped \union TakenConfig(p)
            /\ UNCHANGED merged
  BY DEF HandleSharedConfigMessages, durable
<1> HIDE DEF q
<1>3. TakenConfig(p) \subseteq Messages
  BY <1>1, TakenType DEF TakenConfig
<1>4. TypeOK'
  <2>1. merged' \subseteq Messages /\ dropped' \subseteq Messages /\ faults' \in 0 .. MaxFaults
    BY <1>2, <1>3, BoundAssumption DEF IInv, TypeOK
  <2> QED BY <1>1, <1>2, <2>1 DEF IInv, TypeOK, Update
<1>5. merged \subseteq merged' /\ dropped \subseteq dropped'
  BY <1>2
<1>6. Accounted \subseteq Accounted'
  <2>1. Held(p) = Taken(p) /\ Held(q) = Taken(q) \ ConfigMessages /\ Taken(q) = Taken(p)
    BY <1>1, <1>2, HeldAt DEF Taken
  <2>2. TakenConfig(p) \subseteq merged' \union dropped'
    BY <1>2
  <2>3. Held(p) \subseteq Accounted'
    BY <1>2, <2>1, <2>2 DEF Accounted, Update, TakenConfig
  <2> QED BY <1>2, <1>5, <2>3, AccountedUpdate DEF IInv, Update
<1>7. HashAccounted' /\ AskedAccounted'
  BY <1>1, <1>2, <1>6, HashesSame DEF IInv, Update
<1>8. SeenAccounted' /\ FreshUnhanded' /\ HandedOnce'
  BY <1>1, <1>2, <1>5, FreshUpdate DEF IInv
<1>9. GroupsTracked'
  BY <1>2 DEF IInv, GroupsTracked
<1> QED BY <1>4, <1>7, <1>8, <1>9 DEF IInv

\* handleSeenMessages: what was seen before is left out.
LEMMA SeenStep ==
  ASSUME IInv, NEW p \in polls, HandleSeenMessages(p)
  PROVE  IInv'
<1> DEFINE F == TakenMessages(p) \ seen
           q == [p EXCEPT !.at = "seen", !.batch = NoBatch, !.fresh = F]
<1>1. p \in Poll /\ F \subseteq Messages /\ TakenMessages(p) \subseteq Messages
  BY TakenType DEF IInv, TypeOK, TakenMessages
<1>2. q \in Poll /\ q.at = "seen" /\ q.fresh = F
  BY <1>1, PollSeen
<1>3. /\ p.at = "reading" /\ Update(p, q) /\ seen' = seen \union TakenMessages(p)
      /\ due' \subseteq due
      /\ UNCHANGED <<mode, groups, known, tracked, joining, leaving, convos, dumped>>
      /\ UNCHANGED <<hashDb, handed, merged, dropped, faults, changes>>
  BY DEF HandleSeenMessages
<1> HIDE DEF q
<1>4. TypeOK'
  BY <1>1, <1>2, <1>3 DEF IInv, TypeOK, Update
<1>5. SeenAccounted'
  <2> SUFFICES ASSUME NEW m \in seen'
               PROVE  \/ handed'[m] > 0 \/ m \in dropped'
                      \/ \E r \in polls' : r.at = "seen" /\ m \in r.fresh
    BY DEF SeenAccounted
  <2>1. CASE m \in seen
    <3>1. handed[m] > 0 \/ m \in dropped \/ \E r \in polls : r.at = "seen" /\ m \in r.fresh
      BY <2>1 DEF IInv, SeenAccounted
    <3>2. \A r \in polls : r.at = "seen" => r \in polls'
      BY <1>3 DEF Update
    <3> QED BY <1>3, <3>1, <3>2
  <2>2. CASE m \notin seen
    BY <1>2, <1>3, <2>2 DEF Update
  <2> QED BY <2>1, <2>2
<1>6. Accounted \subseteq Accounted'
  <2>1. ASSUME NEW m \in Held(p) PROVE m \in Accounted'
    <3>1. m \in Messages /\ m \in TakenMessages(p)
      BY <1>1, <1>3, HeldAt DEF TakenMessages
    <3>2. m \in seen'
      BY <1>3, <3>1
    <3>3. \/ handed'[m] > 0 \/ m \in dropped'
          \/ \E r \in polls' : r.at = "seen" /\ m \in r.fresh
      BY <1>5, <3>2 DEF SeenAccounted
    <3>4. ASSUME NEW r \in polls', r.at = "seen", m \in r.fresh PROVE m \in Accounted'
      <4>1. m \in Held(r)
        BY <3>4, HeldAt
      <4> QED BY <4>1 DEF Accounted
    <3> QED BY <3>1, <3>3, <3>4 DEF Accounted
  <2>2. Held(p) \subseteq Accounted'
    BY <2>1
  <2> QED BY <1>3, <2>2, AccountedUpdate DEF IInv, Update
<1>7. HashAccounted' /\ AskedAccounted'
  BY <1>2, <1>3, <1>6, HashesSame DEF IInv, Update
<1>8. FreshUnhanded'
  <2>1. \A m \in F : m \in seen' /\ handed'[m] = 0
    <3> SUFFICES ASSUME NEW m \in F PROVE m \in seen' /\ handed'[m] = 0
      OBVIOUS
    <3>1. m \in Messages /\ m \notin seen /\ m \in seen'
      BY <1>1, <1>3
    <3>2. handed[m] \in Nat /\ ~(handed[m] > 0)
      BY <3>1 DEF IInv, TypeOK, FreshUnhanded
    <3> QED BY <1>3, <3>1, <3>2
  <2>2. ASSUME NEW r \in polls', r.at = "seen", r # q
        PROVE  /\ r \in polls /\ r.fresh \subseteq seen /\ r.fresh \intersect F = {}
               /\ \A m \in r.fresh : m \in seen' /\ handed'[m] = 0
    <3>1. r \in polls
      BY <1>3, <2>2 DEF Update
    <3> QED BY <1>3, <2>2, <3>1 DEF IInv, FreshUnhanded
  <2>3. ASSUME NEW r \in polls', r.at = "seen", NEW m \in r.fresh
        PROVE  m \in seen' /\ handed'[m] = 0
    BY <1>2, <2>1, <2>2, <2>3
  <2>4. ASSUME NEW r \in polls', NEW o \in polls', r.at = "seen", o.at = "seen", r # o
        PROVE  r.fresh \intersect o.fresh = {}
    <3>1. CASE r = q
      BY <1>2, <2>2, <2>4, <3>1
    <3>2. CASE o = q
      BY <1>2, <2>2, <2>4, <3>2
    <3>3. CASE r # q /\ o # q
      BY <2>2, <2>4, <3>3 DEF IInv, FreshUnhanded
    <3> QED BY <3>1, <3>2, <3>3
  <2>5. \A m \in Messages : handed'[m] > 0 => m \in seen'
    BY <1>3 DEF IInv, FreshUnhanded
  <2> QED BY <2>3, <2>4, <2>5 DEF FreshUnhanded
<1>9. HandedOnce' /\ GroupsTracked'
  BY <1>3 DEF IInv, HandedOnce, GroupsTracked
<1> QED BY <1>4, <1>5, <1>7, <1>8, <1>9 DEF IInv

\* A poll ends: its messages are handed over, or thrown away with their group.
LEMMA HandOverStep ==
  ASSUME IInv, NEW p \in polls, HandleRequests(p)
  PROVE  IInv'
<1>1. /\ p.at = "seen" /\ p \in Poll /\ p.fresh \subseteq Messages /\ polls' = polls \ {p}
      /\ mode' \in {"timer", mode} /\ groups' \subseteq groups
      /\ UNCHANGED <<due, known, tracked, joining, leaving, convos, dumped, hashDb, seen>>
      /\ UNCHANGED <<merged, faults, changes>>
  BY DEF HandleRequests, EndPoll, durable, IInv, TypeOK, Poll
<1>2. \/ /\ handed' = [m \in Messages |-> IF m \in p.fresh THEN handed[m] + 1 ELSE handed[m]]
         /\ dropped' = dropped
      \/ handed' = handed /\ dropped' = dropped \union p.fresh
  BY DEF HandleRequests
<1>3. handed \in [Messages -> Nat]
  BY DEF IInv, TypeOK
<1>4. \A m \in Messages :
        /\ handed'[m] \in Nat /\ (handed[m] > 0 => handed'[m] > 0)
        /\ m \notin p.fresh => handed'[m] = handed[m]
  BY <1>2, <1>3
<1>5. \A m \in p.fresh : handed'[m] > 0 \/ m \in dropped'
  BY <1>1, <1>2, <1>3
<1>6. dropped \subseteq dropped'
  BY <1>2
<1>7. TypeOK'
  <2>1. handed' \in [Messages -> Nat] /\ dropped' \subseteq Messages
    BY <1>1, <1>2, <1>3 DEF IInv, TypeOK
  <2> QED BY <1>1, <2>1 DEF IInv, TypeOK
<1>8. Accounted \subseteq Accounted'
  <2>1. Held(p) \subseteq Accounted'
    BY <1>1, <1>5, HeldAt DEF Accounted
  <2> QED BY <1>1, <1>4, <1>6, <2>1, AccountedUpdate DEF IInv
<1>9. HashAccounted' /\ AskedAccounted'
  BY <1>1, <1>8, HashesSame DEF IInv
<1>10. SeenAccounted'
  <2> SUFFICES ASSUME NEW m \in seen
               PROVE  \/ handed'[m] > 0 \/ m \in dropped'
                      \/ \E r \in polls' : r.at = "seen" /\ m \in r.fresh
    BY <1>1 DEF SeenAccounted
  <2>1. m \in Messages
    BY DEF IInv, TypeOK
  <2>2. handed[m] > 0 \/ m \in dropped \/ \E r \in polls : r.at = "seen" /\ m \in r.fresh
    BY DEF IInv, SeenAccounted
  <2> QED BY <1>1, <1>4, <1>5, <1>6, <2>1, <2>2
<1>11. FreshUnhanded'
  <2>1. ASSUME NEW r \in polls', r.at = "seen", NEW m \in r.fresh
        PROVE  m \in seen' /\ handed'[m] = 0
    <3>1. r \in polls /\ r # p /\ r \in Poll
      BY <1>1 DEF IInv, TypeOK
    <3>2. m \in seen /\ handed[m] = 0 /\ m \notin p.fresh
      BY <1>1, <2>1, <3>1 DEF IInv, FreshUnhanded
    <3>3. m \in Messages
      BY <3>2 DEF IInv, TypeOK
    <3> QED BY <1>1, <1>4, <3>2, <3>3
  <2>2. \A r, o \in polls' : r.at = "seen" /\ o.at = "seen" =>
          r = o \/ r.fresh \intersect o.fresh = {}
    BY <1>1 DEF IInv, FreshUnhanded
  <2>3. ASSUME NEW m \in Messages, handed'[m] > 0 PROVE m \in seen'
    <3>1. CASE m \in p.fresh
      BY <1>1, <3>1 DEF IInv, FreshUnhanded
    <3>2. CASE m \notin p.fresh
      BY <1>1, <1>4, <2>3, <3>2 DEF IInv, FreshUnhanded
    <3> QED BY <3>1, <3>2
  <2> QED BY <2>1, <2>2, <2>3 DEF FreshUnhanded
<1>12. HandedOnce'
  <2> SUFFICES ASSUME NEW m \in Messages PROVE handed'[m] <= 1
    BY DEF HandedOnce
  <2>1. CASE m \in p.fresh
    <3>1. handed[m] = 0
      BY <1>1, <2>1 DEF IInv, FreshUnhanded
    <3> QED BY <1>2, <3>1
  <2>2. CASE m \notin p.fresh
    BY <1>4, <2>2 DEF IInv, HandedOnce
  <2> QED BY <2>1, <2>2
<1>13. GroupsTracked'
  BY <1>1 DEF IInv, GroupsTracked
<1> QED BY <1>7, <1>9, <1>10, <1>11, <1>12, <1>13 DEF IInv

\* The other polls of the round become late ones.
LEMMA RejectStep ==
  ASSUME IInv, NEW p \in polls, Reject(p)
  PROVE  IInv'
<1> DEFINE Late(q) == [q EXCEPT !.late = TRUE]
<1>1. /\ faults > 0 /\ faults' = faults - 1 /\ dropped' = dropped \union Held(p)
      /\ UNCHANGED <<groups, due, known, tracked, joining, leaving, convos, dumped, hashDb, seen>>
      /\ UNCHANGED <<handed, merged, changes>>
      /\ mode' \in {"timer", mode}
      /\ polls' = polls \ {p} \/ polls' = {Late(q) : q \in polls \ {p}}
  BY DEF Reject, durable
<1>2. \A q \in polls : q \in Poll
  BY DEF IInv, TypeOK
<1>3. \A q \in polls : /\ Late(q) \in Poll /\ Late(q).at = q.at /\ Late(q).node = q.node
                       /\ Late(q).prev = q.prev /\ Late(q).batch = q.batch
                       /\ Late(q).fresh = q.fresh
  BY <1>2, PollLate
<1>4. \A q \in polls : Held(Late(q)) = Held(q)
  BY <1>3, HeldSame
<1> HIDE DEF Late
<1>5. \A r \in polls' : \E q \in polls \ {p} :
        r \in Poll /\ r.at = q.at /\ r.node = q.node /\ r.prev = q.prev /\ r.fresh = q.fresh
  BY <1>1, <1>2, <1>3
<1>6. \A q \in polls \ {p} : \E r \in polls' :
        r.at = q.at /\ r.fresh = q.fresh /\ Held(r) = Held(q)
  BY <1>1, <1>3, <1>4
<1>7. TypeOK'
  <2>1. polls' \subseteq Poll
    BY <1>5
  <2>2. dropped' \subseteq Messages /\ faults' \in 0 .. MaxFaults
    BY <1>1, <1>2, HeldType, BoundAssumption DEF IInv, TypeOK
  <2> QED BY <1>1, <2>1, <2>2 DEF IInv, TypeOK
<1>8. Accounted \subseteq Accounted'
  <2> SUFFICES ASSUME NEW m \in Accounted PROVE m \in Accounted'
    OBVIOUS
  <2>1. CASE (m \in Messages /\ handed[m] > 0) \/ m \in merged \union dropped \union Held(p)
    BY <1>1, <2>1 DEF Accounted
  <2>2. CASE \E q \in polls \ {p} : m \in Held(q)
    BY <1>6, <2>2 DEF Accounted
  <2> QED BY <2>1, <2>2 DEF Accounted
<1>9. HashAccounted' /\ AskedAccounted'
  <2>1. \A r \in polls' : r.at = "asking" =>
          \E q \in polls : q.at = "asking" /\ q.node = r.node /\ q.prev = r.prev
    BY <1>5
  <2> QED BY <1>1, <1>8, <2>1, HashesSame DEF IInv
<1>10. SeenAccounted' /\ FreshUnhanded' /\ HandedOnce'
  <2>1. \A q \in polls : q.at = "seen" =>
          q.fresh \subseteq dropped' \/ \E r \in polls' : r.at = "seen" /\ r.fresh = q.fresh
    <3> SUFFICES ASSUME NEW q \in polls, q.at = "seen"
                 PROVE  \/ q.fresh \subseteq dropped'
                        \/ \E r \in polls' : r.at = "seen" /\ r.fresh = q.fresh
      OBVIOUS
    <3>1. CASE q = p
      BY <1>1, <3>1, HeldAt
    <3>2. CASE q # p
      BY <1>6, <3>2
    <3> QED BY <3>1, <3>2
  <2>2. \A r \in polls' : r.at = "seen" => \E q \in polls : q.at = "seen" /\ q.fresh = r.fresh
    BY <1>5
  <2>3. ASSUME NEW r \in polls', NEW o \in polls', r.at = "seen", o.at = "seen", r # o
        PROVE  r.fresh \intersect o.fresh = {}
    <3>1. CASE polls' = polls \ {p}
      BY <2>3, <3>1 DEF IInv, FreshUnhanded
    <3>2. CASE polls' = {Late(q) : q \in polls \ {p}}
      <4>1. PICK q \in polls : r = Late(q)
        BY <3>2
      <4>2. PICK u \in polls : o = Late(u)
        BY <3>2
      <4>3. q # u /\ q.at = "seen" /\ u.at = "seen" /\ r.fresh = q.fresh /\ o.fresh = u.fresh
        BY <1>3, <2>3, <4>1, <4>2
      <4> QED BY <4>3 DEF IInv, FreshUnhanded
    <3> QED BY <1>1, <3>1, <3>2
  <2> QED BY <1>1, <2>1, <2>2, <2>3, FreshSame DEF IInv
<1>11. GroupsTracked'
  BY <1>1 DEF IInv, GroupsTracked
<1> QED BY <1>7, <1>9, <1>10, <1>11 DEF IInv

LEMMA StutterStep ==
  ASSUME IInv, UNCHANGED vars
  PROVE  IInv'
<1>1. TypeOK'
  BY DEF IInv, TypeOK, vars, volatile, durable
<1>2. GroupsTracked'
  BY DEF IInv, GroupsTracked, vars, volatile, durable
<1> QED BY <1>1, <1>2, NoPollEnds DEF vars, volatile, durable

LEMMA StepIInv ==
  ASSUME IInv, [Next]_vars
  PROVE  IInv'
<1>1. CASE Start \/ PollForAllKeys \/ SaveDump \/ Crash
  BY <1>1, StartStep, PollForAllKeysStep, SaveDumpStep, CrashStep
<1>2. ASSUME NEW p \in polls, Progress(p) PROVE IInv'
  <2>1. ASSUME NEW n \in [BOOLEAN -> 0 .. PageSize], Answer(p, n) PROVE IInv'
    BY <2>1, AnswerStep
  <2> QED BY <1>2, <2>1, NoAnswerStep, AskNodeStep, MergeStep, SeenStep, HandOverStep DEF Progress
<1>3. ASSUME NEW p \in polls, AskNobody(p) \/ Reject(p) PROVE IInv'
  BY <1>3, AskNobodyStep, RejectStep
<1>4. ASSUME NEW g \in Groups,
             BecomeDue(g) \/ JoinGroup(g) \/ AddGroupId(g) \/ LeaveGroup(g) \/ EraseGroup(g)
      PROVE  IInv'
  BY <1>4, BecomeDueStep, JoinGroupStep, AddGroupIdStep, LeaveGroupStep, EraseGroupStep
<1>5. CASE UNCHANGED vars
  BY <1>5, StutterStep
<1> QED BY <1>1, <1>2, <1>3, <1>4, <1>5 DEF Next

\* IInv holds in every reachable state.
THEOREM Invariance == Spec => []IInv
<1>1. Init => IInv
  BY InitIInv
<1>2. IInv /\ [Next]_vars => IInv'
  BY StepIInv
<1> QED BY <1>1, <1>2, PTL DEF Spec

\* The state has its type: rounds, polls, the last hashes and the seen hashes.
THEOREM TypeCorrect == Spec => []TypeOK
<1>1. IInv => TypeOK
  BY DEF IInv
<1> QED BY <1>1, Invariance, PTL

\* Whatever a node will not return again (pollNodeForKey asks for what comes after the
\* last hash) was handed over or merged, or is with a poll, or was with a lost one.
THEOREM NoMessageSkipped == Spec => []NothingSkipped
<1>1. IInv => NothingSkipped
  <2> SUFFICES ASSUME IInv, NEW n \in Nodes, NEW b \in Box,
                      NEW m \in UpTo(Stored[n][b], hashDb[n][b])
               PROVE  \/ handed[m] > 0 \/ m \in merged \union dropped
                      \/ \E p \in polls : m \in Held(p)
    BY DEF NothingSkipped
  <2>1. m \in Accounted
    BY DEF IInv, HashAccounted
  <2> QED BY <2>1 DEF Accounted
<1> QED BY <1>1, Invariance, PTL

\* handleRequest is given a message once: the seen hashes are saved before any of
\* the messages is handed over, so no other poll takes it, nor one after a restart.
THEOREM NoMessageHandedTwice == Spec => []HandedOnce
<1>1. IInv => HandedOnce
  BY DEF IInv
<1> QED BY <1>1, Invariance, PTL

\* A step that leaves a group polled and in the database without its entry.
LEMMA UntrackedStep ==
  ASSUME IInv, [Next]_vars, NEW g \in Groups, Untracked(g)', ~Untracked(g)
  PROVE  mode = "down"
<1>1. CASE UNCHANGED <<convos, groups, tracked>>
  BY <1>1 DEF Untracked
<1>2. CASE Start
  BY <1>2 DEF Start
<1>3. CASE PollForAllKeys \/ SaveDump \/ UNCHANGED vars
  BY <1>1, <1>3 DEF PollForAllKeys, SaveDump, vars, volatile, durable
<1>4. CASE Crash
  BY <1>4 DEF Crash, Untracked
<1>5. ASSUME NEW p \in polls, Progress(p) PROVE FALSE
  <2>1. CASE HandleRequests(p)
    BY <2>1 DEF HandleRequests, Untracked, durable
  <2>2. ASSUME NEW n \in [BOOLEAN -> 0 .. PageSize], Answer(p, n) PROVE FALSE
    BY <2>2 DEF Answer, Untracked
  <2>3. CASE NoAnswer(p) \/ AskNode(p) \/ HandleSharedConfigMessages(p) \/ HandleSeenMessages(p)
    BY <2>3 DEF NoAnswer, AskNode, HandleSharedConfigMessages, HandleSeenMessages, Untracked, durable
  <2> QED BY <1>5, <2>1, <2>2, <2>3 DEF Progress
<1>6. ASSUME NEW p \in polls, AskNobody(p) \/ Reject(p) PROVE FALSE
  BY <1>6 DEF AskNobody, Reject, Untracked, durable
<1>7. ASSUME NEW k \in Groups, BecomeDue(k) \/ LeaveGroup(k) PROVE FALSE
  BY <1>7 DEF BecomeDue, LeaveGroup, Untracked, durable
<1>8. ASSUME NEW k \in Groups, JoinGroup(k) PROVE FALSE
  BY <1>8 DEF JoinGroup, Untracked
<1>9. ASSUME NEW k \in Groups, AddGroupId(k) PROVE FALSE
  BY <1>9 DEF AddGroupId, Untracked, durable, IInv, GroupsTracked
<1>10. ASSUME NEW k \in Groups, EraseGroup(k) PROVE FALSE
  BY <1>10 DEF EraseGroup, Untracked, durable, IInv, GroupsTracked
<1> QED BY <1>2, <1>3, <1>4, <1>5, <1>6, <1>7, <1>8, <1>9, <1>10 DEF Next

\* While the process runs no group that is polled comes to lack its entry in the
\* wrapper, for want of which its messages would be thrown away: addGroupId comes
\* last when a group is joined, and polling stops before its entry is erased.
THEOREM GroupsStayTracked == Spec => UntrackedByRestartOnly
<1>1. IInv /\ [Next]_vars =>
        [\A g \in Groups : Untracked(g)' => Untracked(g) \/ mode = "down"]_vars
  BY UntrackedStep
<1> QED BY <1>1, Invariance, PTL DEF Spec, UntrackedByRestartOnly

=============================================================================
