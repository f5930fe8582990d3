-------------------------- MODULE ConfigSyncProofs --------------------------
(***************************************************************************)
(* Proofs about ConfigSync, for any groups, contacts, runs and bounds:     *)
(* what a wrapper believes to be pushed is in the swarm, and what is in    *)
(* the swarm stays, or is superseded.                                      *)
(*                                                                         *)
(* CleanMeansStored speaks of wrappers, but a wrapper becomes clean when a *)
(* run ends that was sent long before.  So the invariant also says of each *)
(* message of a run that its seqno tells whether it is still what the      *)
(* wrapper holds (Follows), and of each code 200 that the message is in    *)
(* the swarm, or what superseded it (Backed).  That nothing leaves the     *)
(* swarm needs that the messages of the superseded hashes are older than   *)
(* the ones they are deleted with, and that those cover them (Sound), and  *)
(* that no change is later than the seqno of its message (Dated).          *)
(***************************************************************************)
EXTENDS ConfigSync, FiltersProofs, FiniteSetTheorems

AnyMessage == Messages("ContactsConfig") \union Messages("UserGroupsConfig")
Wrapper(v) ==
  [content : Content(v), seqno : Nat, state : {"clean", "dirty", "waiting"}, hashes : SUBSET Messages(v)]
Run ==
  [phase : {"idle", "dumped", "sending", "answered"}, todo : Seq(AnyMessage), old : SUBSET AnyMessage,
   codes : Seq({200, 400})]
Merge ==
  [phase : {"none", "merged", "asked", "leaving", "updating", "handled"}, variants : SUBSET Variants,
   push : BOOLEAN, inWrapper : SUBSET Groups, todo : SUBSET Groups, join : SUBSET Groups]

Devices ==
  /\ wrapper = [v \in Variants |-> wrapper[v]] /\ dump = [v \in Variants |-> dump[v]]
  /\ \A v \in Variants : wrapper[v] \in Wrapper(v) /\ dump[v] \in Wrapper(v)

Jobs ==
  /\ waiting \in Seq(Job) /\ Len(waiting) + (IF current = NoJob THEN 0 ELSE 1) <= 2
  /\ current \in [job : {"new", "retried"}, run : RunIds] \union {NoJob}

Kinds ==
  /\ Jobs
  /\ convo \in [Groups -> {"none", "inactive", "active"}]
  /\ swarm \subseteq AnyMessage /\ polled \subseteq AnyMessage
  /\ run \in [RunIds -> Run]
  /\ merge \in Merge
  /\ lost \in BOOLEAN
  /\ budget \in [changes : Nat, other : Nat, faults : Nat]

\* No change is later than the message that tells of it.
Dated(m) == \A k \in Keys(m.variant) : m.content[k].at <= m.seqno

\* What a wrapper supersedes is covered by it, and older than what it has to push.
Sound(v, w) ==
  /\ \A k \in Keys(v) : w.content[k].at <= w.seqno
  /\ \A m \in w.hashes : /\ Dated(m) /\ Covers(w.content, m.content)
                         /\ m.seqno <= w.seqno /\ (NeedsPush(w) => m.seqno < w.seqno)

\* The messages of S know the changes of a content, or later ones.
Backed(v, S, content) ==
  \A k \in Keys(v) : \/ NotBefore(Never, content[k])
                     \/ \E m \in On(v, S) : NotBefore(m.content[k], content[k])

Clean(v, w, S) == ~NeedsPush(w) => Backed(v, S, w.content)

\* A message in flight is older than what the wrapper holds, or the same.
Follows(m, w) ==
  /\ m.seqno <= w.seqno
  /\ w.state = "dirty" => m.seqno < w.seqno
  /\ w.state = "waiting" /\ m.seqno = w.seqno => m.content = w.content

Flying(q) ==
  /\ \A i \in DOMAIN q.todo : Dated(q.todo[i])
  /\ \A i, j \in DOMAIN q.todo : q.todo[i].variant = q.todo[j].variant => i = j
  /\ \A m \in q.old : \E i \in DOMAIN q.todo :
       q.todo[i].variant = m.variant /\ m.seqno < q.todo[i].seqno /\ Covers(q.todo[i].content, m.content)
  /\ q.phase = "sending" => q.codes = <<>>

InStep(q, ws) == \A i \in DOMAIN q.todo : Follows(q.todo[i], ws[q.todo[i].variant])

Answered(q, S) ==
  \A i \in DOMAIN q.todo \cap DOMAIN q.codes : q.codes[i] = 200 => Backed(q.todo[i].variant, S, q.todo[i].content)

Bounded(S) == \E n \in Nat : \A m \in S : m.seqno <= n

\* The other device has pushed nothing, or what it holds.
Pusher(v, o) ==
  \/ o = [content |-> Empty(v), pushed |-> {}]
  \/ \E m \in o.pushed : m \in Messages(v) /\ Dated(m) /\ o = [content |-> m.content, pushed |-> {m}]

Wrappers == \A v \in Variants : Sound(v, wrapper[v]) /\ Sound(v, dump[v])
Cleans == \A v \in Variants : Clean(v, wrapper[v], swarm) /\ Clean(v, dump[v], swarm)
Runs == \A r \in RunIds : Flying(run[r]) /\ InStep(run[r], wrapper) /\ Answered(run[r], swarm)
Swarm == (\A m \in swarm : Dated(m)) /\ Bounded(swarm)
Other == other = [v \in Variants |-> other[v]] /\ \A v \in Variants : Pusher(v, other[v])

IInv == Devices /\ Kinds /\ Wrappers /\ Cleans /\ Runs /\ Swarm /\ Other

-----------------------------------------------------------------------------
(* The order of changes *)

\* NotBefore is a total order.
LEMMA OrderOfChanges ==
  ASSUME NEW c \in Change, NEW d \in Change, NEW e \in Change
  PROVE  /\ NotBefore(c, c)
         /\ NotBefore(c, d) \/ NotBefore(d, c)
         /\ NotBefore(c, d) /\ NotBefore(d, e) => NotBefore(c, e)
         /\ NotBefore(c, Never) /\ Never \in Change
  BY DEF Change, Never, NotBefore

\* Contents are functions of the keys of their variant.
LEMMA ContentOf ==
  ASSUME NEW v \in Variants, NEW c \in Content(v)
  PROVE  DOMAIN c = Keys(v) /\ \A k \in Keys(v) : c[k] \in Change /\ c[k].at \in Nat /\ c[k].in \in BOOLEAN
  BY DEF Content, Change

LEMMA CoversIsOrder ==
  ASSUME NEW v \in Variants, NEW a \in Content(v), NEW b \in Content(v), NEW c \in Content(v)
  PROVE  Covers(a, a) /\ (Covers(a, b) /\ Covers(b, c) => Covers(a, c))
  BY OrderOfChanges, ContentOf DEF Covers

\* A set of numbers that is not empty and has a bound has a highest one.
LEMMA HighestIs ==
  ASSUME NEW S, S \subseteq Nat, S # {}, NEW n \in Nat, \A x \in S : x <= n
  PROVE  Highest(S) \in S /\ Highest(S) \in Nat /\ \A x \in S : x <= Highest(S)
<1> DEFINE T == {m \in Nat : \A x \in S : x <= m}
<1>1. PICK m \in T : \A y \in T : m <= y
  <2>1. T \subseteq Nat /\ n \in T
    OBVIOUS
  <2> QED BY <2>1, LeastNumber
<1>2. m \in S
  <2> SUFFICES ASSUME m \notin S PROVE FALSE
    OBVIOUS
  <2>1. PICK x \in S : TRUE
    OBVIOUS
  <2>2. x <= m /\ x # m /\ x \in Nat /\ m \in Nat
    BY <2>1
  <2>3. m - 1 \in Nat
    BY <2>2
  <2>4. \A y \in S : y <= m - 1
    <3> TAKE y \in S
    <3>1. y <= m /\ y # m /\ y \in Nat
      OBVIOUS
    <3> QED BY <3>1, <2>2
  <2>5. m - 1 \in T
    BY <2>3, <2>4
  <2>6. m <= m - 1
    BY <1>1, <2>5
  <2> QED BY <2>2, <2>6
<1>3. m \in S /\ \A x \in S : x <= m
  BY <1>2
<1> HIDE DEF T
<1>4. Highest(S) \in S /\ \A x \in S : x <= Highest(S)
  BY <1>3 DEF Highest
<1> QED BY <1>4

\* The latest of a set of changes is there when they have a bound.
LEMMA LatestChange ==
  ASSUME NEW C, C \subseteq Change, C # {}, NEW n \in Nat, \A c \in C : c.at <= n
  PROVE  \E c \in C : \A d \in C : NotBefore(c, d)
<1> DEFINE S == {c.at : c \in C}
<1>1. \A c \in C : c.at \in Nat /\ c.in \in BOOLEAN
  BY DEF Change
<1>2. S \subseteq Nat /\ S # {} /\ \A x \in S : x <= n
  BY <1>1
<1> HIDE DEF S
<1>3. Highest(S) \in S /\ \A x \in S : x <= Highest(S)
  BY <1>2, HighestIs
<1> USE DEF S
<1>4. PICK c \in C : c.at = Highest(S)
  BY <1>3
<1>5. \A d \in C : d.at <= c.at
  BY <1>3, <1>4
<1> HIDE DEF S
<1>6. CASE \E d \in C : d.at = c.at /\ d.in
  <2>1. PICK d \in C : d.at = c.at /\ d.in
    BY <1>6
  <2>2. \A e \in C : NotBefore(d, e)
    BY <1>1, <1>5, <2>1 DEF NotBefore
  <2> QED BY <2>2
<1>7. CASE \A d \in C : d.at = c.at => ~d.in
  <2>1. \A e \in C : NotBefore(c, e)
    BY <1>1, <1>5, <1>7 DEF NotBefore
  <2> QED BY <2>1
<1> QED BY <1>6, <1>7

\* Latest gives the latest change of each key.
LEMMA LatestIs ==
  ASSUME NEW v \in Variants, NEW contents, contents \subseteq Content(v), contents # {},
         NEW n \in Nat, \A x \in contents : \A k \in Keys(v) : x[k].at <= n
  PROVE  /\ Latest(v, contents) \in Content(v)
         /\ \A k \in Keys(v) : \E x \in contents : Latest(v, contents)[k] = x[k]
         /\ \A x \in contents : Covers(Latest(v, contents), x)
<1> DEFINE C(k) == {x[k] : x \in contents}
           c(k) == CHOOSE d \in C(k) : \A x \in contents : NotBefore(d, x[k])
<1>1. ASSUME NEW k \in Keys(v)
      PROVE  c(k) \in C(k) /\ \A x \in contents : NotBefore(c(k), x[k])
  <2>1. C(k) \subseteq Change /\ C(k) # {} /\ \A d \in C(k) : d.at <= n
    BY ContentOf
  <2>2. PICK d \in C(k) : \A e \in C(k) : NotBefore(d, e)
    <3> HIDE DEF C
    <3> QED BY <2>1, LatestChange
  <2>3. \A x \in contents : NotBefore(d, x[k])
    BY <2>2
  <2> HIDE DEF C
  <2> QED BY <2>3
<1>2. Latest(v, contents) = [k \in Keys(v) |-> c(k)]
  BY DEF Latest
<1>3. ASSUME NEW k \in Keys(v) PROVE c(k) \in Change
  <2>1. C(k) \subseteq Change
    BY ContentOf
  <2>2. c(k) \in C(k)
    BY <1>1
  <2> HIDE DEF c, C
  <2> QED BY <2>1, <2>2
<1>4. \A k \in Keys(v) : \E x \in contents : c(k) = x[k]
  BY <1>1
<1> HIDE DEF c, C
<1>5. Latest(v, contents) \in Content(v)
  BY <1>2, <1>3 DEF Content
<1>6. ASSUME NEW x \in contents PROVE Covers(Latest(v, contents), x)
  BY <1>1, <1>2, ContentOf DEF Covers
<1> QED BY <1>2, <1>4, <1>5, <1>6

-----------------------------------------------------------------------------
(* What the swarm backs *)

LEMMA MessagesOn ==
  ASSUME NEW S, S \subseteq AnyMessage, NEW v \in Variants
  PROVE  /\ On(v, S) \subseteq Messages(v) /\ On(v, S) \subseteq S
         /\ \A m \in On(v, S) : m.variant = v /\ m.content \in Content(v) /\ m.seqno \in Nat
  BY DEF AnyMessage, Messages, On

\* The variant of a message tells its type.
LEMMA MessageIs ==
  ASSUME NEW m \in AnyMessage
  PROVE  m.variant \in Variants /\ m \in Messages(m.variant) /\ m.content \in Content(m.variant) /\ m.seqno \in Nat
  BY DEF AnyMessage, Messages, Variants

LEMMA MessagesAreAny ==
  ASSUME NEW v \in Variants
  PROVE  Messages(v) \subseteq AnyMessage
  BY DEF AnyMessage, Variants

LEMMA EmptyIs ==
  ASSUME NEW v \in Variants
  PROVE  Empty(v) \in Content(v) /\ \A k \in Keys(v) : Empty(v)[k] = Never
  BY DEF Empty, Content, Never, Change

\* A message of the set is backed by it.
LEMMA MemberIsBacked ==
  ASSUME NEW v \in Variants, NEW S, S \subseteq AnyMessage, NEW m \in On(v, S)
  PROVE  Backed(v, S, m.content)
<1>1. m.content \in Content(v)
  BY MessagesOn
<1>2. \A k \in Keys(v) : NotBefore(m.content[k], m.content[k])
  BY <1>1, ContentOf, OrderOfChanges
<1> QED BY <1>2 DEF Backed

\* What covers a content and is backed backs it.
LEMMA CoveredIsBacked ==
  ASSUME NEW v \in Variants, NEW S, S \subseteq AnyMessage, NEW c \in Content(v), NEW d \in Content(v),
         Covers(d, c), Backed(v, S, d)
  PROVE  Backed(v, S, c)
<1> SUFFICES ASSUME NEW k \in Keys(v)
             PROVE  NotBefore(Never, c[k]) \/ \E m \in On(v, S) : NotBefore(m.content[k], c[k])
  BY DEF Backed
<1>1. c[k] \in Change /\ d[k] \in Change /\ NotBefore(d[k], c[k]) /\ Never \in Change
  BY ContentOf DEF Covers, Never, Change
<1>2. CASE NotBefore(Never, d[k])
  BY <1>1, <1>2, OrderOfChanges
<1>3. CASE \E m \in On(v, S) : NotBefore(m.content[k], d[k])
  <2>1. PICK m \in On(v, S) : NotBefore(m.content[k], d[k])
    BY <1>3
  <2>2. m.content[k] \in Change
    BY MessagesOn, ContentOf
  <2> QED BY <1>1, <2>1, <2>2, OrderOfChanges
<1> QED BY <1>2, <1>3 DEF Backed

\* A set that backs every message of another backs what that one backs.
LEMMA BackedByAll ==
  ASSUME NEW v \in Variants, NEW S, S \subseteq AnyMessage, NEW T, T \subseteq AnyMessage,
         \A m \in On(v, S) : Backed(v, T, m.content),
         NEW c \in Content(v), Backed(v, S, c)
  PROVE  Backed(v, T, c)
<1> SUFFICES ASSUME NEW k \in Keys(v), ~NotBefore(Never, c[k])
             PROVE  \E m \in On(v, T) : NotBefore(m.content[k], c[k])
  BY DEF Backed
<1>1. PICK m \in On(v, S) : NotBefore(m.content[k], c[k])
  BY DEF Backed
<1>2. m.content[k] \in Change /\ c[k] \in Change /\ Never \in Change
  BY MessagesOn, ContentOf DEF Never, Change
<1>3. ~NotBefore(Never, m.content[k])
  BY <1>1, <1>2, OrderOfChanges
<1>4. PICK n \in On(v, T) : NotBefore(n.content[k], m.content[k])
  BY <1>3 DEF Backed
<1>5. n.content[k] \in Change
  BY MessagesOn, ContentOf
<1> QED BY <1>1, <1>2, <1>4, <1>5, OrderOfChanges

\* The content of the swarm is the latest of what its messages tell.
LEMMA SwarmContentIs ==
  ASSUME NEW v \in Variants, NEW S, S \subseteq AnyMessage, \A m \in S : Dated(m), Bounded(S)
  PROVE  /\ SwarmContent(v, S) \in Content(v)
         /\ Backed(v, S, SwarmContent(v, S))
         /\ \A c \in Content(v) : Backed(v, S, c) => Covers(SwarmContent(v, S), c)
<1> DEFINE X == {Empty(v)} \union {m.content : m \in On(v, S)}
           L == SwarmContent(v, S)
<1>1. PICK n \in Nat : \A m \in S : m.seqno <= n
  BY DEF Bounded
<1>2. X \subseteq Content(v) /\ X # {}
  BY MessagesOn, EmptyIs
<1>3. \A x \in X : \A k \in Keys(v) : x[k].at <= n
  <2>1. \A k \in Keys(v) : Empty(v)[k].at <= n
    BY EmptyIs DEF Never
  <2>2. ASSUME NEW m \in On(v, S), NEW k \in Keys(v) PROVE m.content[k].at <= n
    <3>1. m \in S /\ m.variant = v /\ m.seqno \in Nat /\ m.content[k].at \in Nat
      BY MessagesOn, ContentOf
    <3>2. m.content[k].at <= m.seqno
      BY <3>1 DEF Dated
    <3> QED BY <1>1, <3>1, <3>2
  <2> QED BY <2>1, <2>2
<1>4. L = Latest(v, X)
  BY DEF SwarmContent
<1> HIDE DEF X, L
<1>5. L \in Content(v) /\ (\A k \in Keys(v) : \E x \in X : L[k] = x[k]) /\ \A x \in X : Covers(L, x)
  BY <1>1, <1>2, <1>3, <1>4, LatestIs
<1> USE DEF X
<1>6. ASSUME NEW k \in Keys(v)
      PROVE  NotBefore(Never, L[k]) \/ \E m \in On(v, S) : NotBefore(m.content[k], L[k])
  <2>1. NotBefore(L[k], L[k])
    BY <1>5, ContentOf, OrderOfChanges
  <2>2. L[k] = Empty(v)[k] \/ \E m \in On(v, S) : L[k] = m.content[k]
    BY <1>5
  <2>3. L[k] = Never \/ \E m \in On(v, S) : L[k] = m.content[k]
    BY <2>2, EmptyIs
  <2> QED BY <2>1, <2>3
<1>7. ASSUME NEW c \in Content(v), Backed(v, S, c), NEW k \in Keys(v)
      PROVE  NotBefore(L[k], c[k])
  <2>1. L[k] \in Change /\ c[k] \in Change /\ Never \in Change /\ NotBefore(L[k], Never)
    BY <1>5, ContentOf, OrderOfChanges
  <2>2. CASE NotBefore(Never, c[k])
    BY <2>1, <2>2, OrderOfChanges
  <2>3. CASE \E m \in On(v, S) : NotBefore(m.content[k], c[k])
    <3>1. PICK m \in On(v, S) : NotBefore(m.content[k], c[k])
      BY <2>3
    <3>2. m.content[k] \in Change /\ Covers(L, m.content)
      BY <1>5, MessagesOn, ContentOf
    <3>3. NotBefore(L[k], m.content[k])
      BY <1>5, <3>2, ContentOf DEF Covers
    <3> QED BY <2>1, <3>1, <3>2, <3>3, OrderOfChanges
  <2> QED BY <1>7, <2>2, <2>3 DEF Backed
<1>8. \A c \in Content(v) : Backed(v, S, c) => Covers(L, c)
  BY <1>5, <1>7, ContentOf DEF Covers
<1> QED BY <1>5, <1>6, <1>8 DEF L, Backed

-----------------------------------------------------------------------------
(* What the calls of a wrapper do to it *)

\* A later state of a wrapper: what follows the earlier one follows it.
Later(w, u) ==
  \/ u.seqno > w.seqno
  \/ /\ u.seqno = w.seqno
     /\ u.state = "dirty" => w.state = "dirty"
     /\ u.state = "waiting" => w.state = "dirty" \/ (w.state = "waiting" /\ u.content = w.content)

LEMMA WrapperIs ==
  ASSUME NEW v \in Variants, NEW w \in Wrapper(v)
  PROVE  /\ w.content \in Content(v) /\ w.seqno \in Nat /\ w.state \in {"clean", "dirty", "waiting"}
         /\ w.hashes \subseteq Messages(v)
         /\ \A m \in w.hashes : m \in AnyMessage /\ m.variant = v /\ m.content \in Content(v) /\ m.seqno \in Nat
<1>1. w.content \in Content(v) /\ w.seqno \in Nat /\ w.state \in {"clean", "dirty", "waiting"} /\ w.hashes \subseteq Messages(v)
  BY DEF Wrapper
<1>2. \A m \in w.hashes : m \in AnyMessage /\ m.variant = v /\ m.content \in Content(v) /\ m.seqno \in Nat
  BY <1>1, MessagesAreAny DEF Messages
<1> QED BY <1>1, <1>2

LEMMA FollowsLater ==
  ASSUME NEW v \in Variants, NEW w \in Wrapper(v), NEW u \in Wrapper(v), NEW m, m.seqno \in Nat,
         Follows(m, w), Later(w, u)
  PROVE  Follows(m, u)
  BY WrapperIs DEF Follows, Later

LEMMA LaterIsReflexive ==
  ASSUME NEW v \in Variants, NEW w \in Wrapper(v)
  PROVE  Later(w, w)
  BY DEF Later, Wrapper

\* A change of our own is newer than all the wrapper knew.
LEMMA SetIsSound ==
  ASSUME NEW v \in Variants, NEW w \in Wrapper(v), Sound(v, w), NEW k \in Keys(v), NEW in \in BOOLEAN
  PROVE  /\ Set(w, k, in) \in Wrapper(v) /\ Sound(v, Set(w, k, in)) /\ Later(w, Set(w, k, in))
         /\ ~NeedsPush(Set(w, k, in)) => Set(w, k, in) = w
<1>1. CASE w.content[k].in = in
  BY <1>1, LaterIsReflexive DEF Set
<1>2. CASE w.content[k].in # in
  <2> DEFINE next == IF w.state = "dirty" THEN w.seqno ELSE w.seqno + 1
             new == [w.content EXCEPT ![k] = [in |-> in, at |-> next]]
             u == Set(w, k, in)
  <2>1. next \in Nat /\ next >= w.seqno /\ (w.state # "dirty" => next > w.seqno)
    BY WrapperIs
  <2>2. u = [w EXCEPT !.content = new, !.seqno = next, !.state = "dirty"]
    BY <1>2 DEF Set
  <2> HIDE DEF next, u
  <2>3. new \in Content(v) /\ new[k] = [in |-> in, at |-> next] /\ \A j \in Keys(v) \ {k} : new[j] = w.content[j]
    BY <2>1, WrapperIs DEF Content, Change
  <2> HIDE DEF new
  <2>4. u \in Wrapper(v) /\ u.content = new /\ u.seqno = next /\ u.state = "dirty" /\ u.hashes = w.hashes
    BY <2>1, <2>2, <2>3 DEF Wrapper
  <2>5. Later(w, u)
    BY <2>1, <2>4, WrapperIs DEF Later, next
  <2>6. \A j \in Keys(v) : u.content[j].at <= u.seqno
    <3> TAKE j \in Keys(v)
    <3>1. CASE j = k
      BY <2>1, <2>3, <2>4, <3>1
    <3>2. CASE j # k
      BY <2>1, <2>3, <2>4, <3>2, WrapperIs, ContentOf DEF Sound
    <3> QED BY <3>1, <3>2
  <2>7. ASSUME NEW m \in u.hashes
        PROVE  Dated(m) /\ Covers(u.content, m.content) /\ m.seqno < u.seqno
    <3>1. m \in w.hashes /\ m.variant = v /\ m.content \in Content(v) /\ m.seqno \in Nat
      BY <2>4, WrapperIs
    <3>2. Dated(m) /\ Covers(w.content, m.content) /\ m.seqno < next
      BY <2>1, <3>1, WrapperIs DEF Sound, NeedsPush
    <3>3. ASSUME NEW j \in Keys(v) PROVE NotBefore(new[j], m.content[j])
      <4>1. CASE j = k
        <5>1. m.content[k].at <= m.seqno /\ m.content[k].at \in Nat
          BY <3>1, <3>2, ContentOf DEF Dated
        <5>2. new[j].at = next
          BY <2>3, <4>1
        <5> QED BY <2>1, <3>1, <3>2, <4>1, <5>1, <5>2 DEF NotBefore
      <4>2. CASE j # k
        BY <2>3, <3>2, <4>2, WrapperIs, ContentOf DEF Covers
      <4> QED BY <4>1, <4>2
    <3> QED BY <2>3, <2>4, <3>2, <3>3, ContentOf DEF Covers
  <2>8. Sound(v, u)
    BY <2>4, <2>6, <2>7, WrapperIs DEF Sound
  <2> QED BY <2>4, <2>5, <2>8 DEF u, NeedsPush
<1> QED BY <1>1, <1>2

\* What is pushed is the content, and nothing is superseded any more.
LEMMA PushedIsSound ==
  ASSUME NEW v \in Variants, NEW w \in Wrapper(v), Sound(v, w)
  PROVE  /\ Pushed(w) \in Wrapper(v) /\ Sound(v, Pushed(w)) /\ Later(w, Pushed(w))
         /\ NeedsPush(Pushed(w)) = NeedsPush(w) /\ Pushed(w).content = w.content
         /\ Pushed(w).seqno = w.seqno /\ Pushed(w).state # "dirty"
<1> DEFINE u == Pushed(w)
<1>1. u \in Wrapper(v) /\ u.content = w.content /\ u.seqno = w.seqno /\ u.hashes = {}
      /\ u.state = IF w.state = "dirty" THEN "waiting" ELSE w.state
  BY DEF Pushed, Wrapper
<1> HIDE DEF u
<1> QED BY <1>1, WrapperIs DEF u, Sound, Later, NeedsPush

\* A wrapper that becomes clean holds what the message tells.
LEMMA ConfirmIsSound ==
  ASSUME NEW v \in Variants, NEW w \in Wrapper(v), Sound(v, w), NEW m \in Messages(v), Dated(m), Follows(m, w)
  PROVE  LET u == ConfirmPushed(w, m.seqno, m)
         IN  /\ u \in Wrapper(v) /\ Sound(v, u) /\ Later(w, u)
             /\ ~NeedsPush(u) => u = w \/ u.content = m.content
<1> DEFINE u == ConfirmPushed(w, m.seqno, m)
<1>1. CASE w.state = "waiting" /\ w.seqno = m.seqno
  <2>1. u \in Wrapper(v) /\ u.content = w.content /\ u.seqno = w.seqno /\ u.hashes = w.hashes \union {m}
        /\ u.state = "clean"
    BY <1>1 DEF ConfirmPushed, Wrapper
  <2> HIDE DEF u
  <2>2. m.content = w.content
    BY <1>1 DEF Follows
  <2>3. Covers(w.content, m.content)
    BY <2>2, WrapperIs, CoversIsOrder
  <2>4. Sound(v, u)
    BY <1>1, <2>1, <2>3, WrapperIs DEF Sound, NeedsPush
  <2> QED BY <2>1, <2>2, <2>4, WrapperIs DEF u, Later
<1>2. CASE ~(w.state = "waiting" /\ w.seqno = m.seqno)
  BY <1>2, LaterIsReflexive DEF ConfirmPushed
<1> QED BY <1>1, <1>2

\* A merge keeps the latest of each key, and is newer than all it merged unless
\* it says what one of the messages says.
LEMMA MergeIsSound ==
  ASSUME NEW v \in Variants, NEW w \in Wrapper(v), Sound(v, w),
         NEW ms, ms \subseteq Messages(v), ms # {}, \A m \in ms : Dated(m),
         NEW n \in Nat, \A m \in ms : m.seqno <= n
  PROVE  LET u == MergeInto(v, w, ms)
         IN  /\ u \in Wrapper(v) /\ Sound(v, u) /\ Later(w, u)
             /\ ~NeedsPush(u) => \/ \E m \in ms : u.content = m.content
                                 \/ ~NeedsPush(w) /\ u.content = w.content
<1> DEFINE X == {w.content} \union {m.content : m \in ms}
           N == {w.seqno} \union Seqnos(ms)
           top == Latest(v, X)
           newest == Highest(N)
           u == MergeInto(v, w, ms)
<1>1. \A m \in ms : m.variant = v /\ m.content \in Content(v) /\ m.seqno \in Nat /\ m \in AnyMessage
  BY MessagesAreAny DEF Messages
<1>2. w.seqno + n \in Nat /\ w.seqno <= w.seqno + n /\ n <= w.seqno + n
  BY WrapperIs
<1>3. N \subseteq Nat /\ N # {} /\ \A x \in N : x <= w.seqno + n
  BY <1>1, <1>2, WrapperIs DEF Seqnos
<1>4. newest \in Nat /\ newest \in N /\ w.seqno <= newest /\ \A m \in ms : m.seqno <= newest
  <2> HIDE DEF N
  <2>1. newest \in Nat /\ newest \in N /\ \A x \in N : x <= newest
    BY <1>2, <1>3, HighestIs
  <2> QED BY <2>1 DEF N, Seqnos
<1>5. \A x \in X : \A k \in Keys(v) : x[k].at <= newest
  <2>1. \A k \in Keys(v) : w.content[k].at <= newest
    BY <1>4, WrapperIs, ContentOf DEF Sound
  <2>2. ASSUME NEW m \in ms, NEW k \in Keys(v) PROVE m.content[k].at <= newest
    <3>1. m.content[k].at <= m.seqno /\ m.content[k].at \in Nat /\ m.seqno \in Nat /\ m.seqno <= newest
      BY <1>1, <1>4, ContentOf DEF Dated
    <3> QED BY <3>1, <1>4
  <2> QED BY <2>1, <2>2
<1>6. X \subseteq Content(v) /\ X # {}
  BY <1>1, WrapperIs
<1>7. /\ top \in Content(v) /\ (\A k \in Keys(v) : \E x \in X : top[k] = x[k])
      /\ \A x \in X : Covers(top, x)
  <2> HIDE DEF X, newest
  <2> QED BY <1>4, <1>5, <1>6, LatestIs
<1>8. (\A k \in Keys(v) : top[k].at <= newest) /\ Covers(top, w.content) /\ \A m \in ms : Covers(top, m.content)
  BY <1>5, <1>7
<1> DEFINE known == [w EXCEPT !.content = top, !.seqno = newest, !.hashes = @ \union ms]
<1>9. u = IF \E m \in ms : m.content = top /\ m.seqno = newest THEN [known EXCEPT !.state = "clean"]
          ELSE IF top = w.content /\ newest \notin Seqnos(ms) THEN known
          ELSE [known EXCEPT !.seqno = newest + 1, !.state = "dirty"]
  BY DEF MergeInto
<1>10. /\ newest = w.seqno \/ \E m \in ms : m.seqno = newest
       /\ newest \notin Seqnos(ms) => \A m \in ms : m.seqno # newest
  BY <1>4 DEF Seqnos
<1> HIDE DEF X, N, top, newest, u
<1>11. \A m \in w.hashes \union ms :
         m.variant = v /\ m.content \in Content(v) /\ m.seqno \in Nat /\ Dated(m) /\ Covers(top, m.content)
         /\ m.seqno <= newest
  <2>1. ASSUME NEW m \in w.hashes
        PROVE  m.variant = v /\ m.content \in Content(v) /\ m.seqno \in Nat /\ Dated(m) /\ Covers(top, m.content)
               /\ m.seqno <= newest
    <3>1. m.variant = v /\ m.content \in Content(v) /\ m.seqno \in Nat /\ w.content \in Content(v) /\ w.seqno \in Nat
      BY WrapperIs
    <3>2. Dated(m) /\ Covers(w.content, m.content) /\ m.seqno <= w.seqno
      BY DEF Sound
    <3>3. Covers(top, m.content)
      BY <1>7, <1>8, <3>1, <3>2, CoversIsOrder
    <3> QED BY <1>4, <3>1, <3>2, <3>3
  <2> QED BY <1>1, <1>4, <1>8, <2>1
<1>12. u \in Wrapper(v) /\ u.content = top /\ u.hashes = w.hashes \union ms
  <2>1. w.hashes \union ms \in SUBSET Messages(v)
    BY WrapperIs
  <2>2. w \in Wrapper(v) /\ newest \in Nat /\ newest + 1 \in Nat /\ top \in Content(v)
    BY <1>4, <1>7
  <2>3. known \in Wrapper(v) /\ known.content = top /\ known.hashes = w.hashes \union ms
    BY <2>1, <2>2 DEF Wrapper
  <2> HIDE DEF known
  <2> QED BY <1>9, <2>2, <2>3 DEF Wrapper
<1>13. CASE \E m \in ms : m.content = top /\ m.seqno = newest
  <2>1. u.seqno = newest /\ u.state = "clean"
    BY <1>9, <1>13 DEF Wrapper
  <2>2. Later(w, u)
    BY <1>4, <2>1, WrapperIs DEF Later
  <2>3. Sound(v, u)
    BY <1>8, <1>11, <1>12, <2>1 DEF Sound, NeedsPush
  <2>4. \E m \in ms : u.content = m.content
    BY <1>12, <1>13
  <2> QED BY <1>12, <2>2, <2>3, <2>4 DEF u
<1>14. CASE (~\E m \in ms : m.content = top /\ m.seqno = newest) /\ top = w.content /\ newest \notin Seqnos(ms)
  <2>1. u = known
    BY <1>9, <1>14
  <2>2. u.seqno = newest /\ u.state = w.state /\ newest = w.seqno
    BY <1>10, <1>14, <2>1 DEF Wrapper
  <2>3. Later(w, u)
    BY <1>12, <1>14, <2>2, WrapperIs DEF Later
  <2>4. ASSUME NeedsPush(u), NEW m \in u.hashes PROVE m.seqno < u.seqno
    <3>1. CASE m \in w.hashes
      BY <2>2, <2>4, <3>1 DEF Sound, NeedsPush
    <3>2. CASE m \in ms
      BY <1>1, <1>4, <1>10, <1>14, <2>2, <3>2
    <3> QED BY <1>12, <3>1, <3>2
  <2>5. Sound(v, u)
    BY <1>8, <1>11, <1>12, <2>2, <2>4 DEF Sound
  <2>6. ~NeedsPush(u) => ~NeedsPush(w) /\ u.content = w.content
    BY <1>12, <1>14, <2>2 DEF NeedsPush
  <2> QED BY <1>12, <2>3, <2>5, <2>6 DEF u
<1>15. CASE (~\E m \in ms : m.content = top /\ m.seqno = newest) /\ ~(top = w.content /\ newest \notin Seqnos(ms))
  <2>1. u = [known EXCEPT !.seqno = newest + 1, !.state = "dirty"]
    BY <1>9, <1>15
  <2>2. u.seqno = newest + 1 /\ u.state = "dirty"
    BY <2>1 DEF Wrapper
  <2>3. Later(w, u)
    BY <1>4, <2>2, WrapperIs DEF Later
  <2>4. \A k \in Keys(v) : u.content[k].at <= u.seqno
    BY <1>4, <1>7, <1>8, <1>12, <2>2, ContentOf
  <2>5. \A m \in u.hashes : m.seqno < u.seqno /\ m.seqno <= u.seqno
    BY <1>4, <1>11, <1>12, <2>2
  <2>6. Sound(v, u)
    BY <1>11, <1>12, <2>4, <2>5 DEF Sound
  <2> QED BY <1>12, <2>2, <2>3, <2>6 DEF u, NeedsPush
<1> QED BY <1>13, <1>14, <1>15

-----------------------------------------------------------------------------
(* Steps that leave the swarm alone *)

\* What a step may do to the wrappers, the dumps and the runs.
Advances ==
  /\ wrapper' = [v \in Variants |-> wrapper'[v]]
  /\ \A v \in Variants : /\ wrapper'[v] \in Wrapper(v) /\ Sound(v, wrapper'[v])
                         /\ Later(wrapper[v], wrapper'[v]) /\ Clean(v, wrapper'[v], swarm)
Dumps ==
  /\ dump' = [v \in Variants |-> dump'[v]]
  /\ \A v \in Variants : dump'[v] \in {dump[v], wrapper[v], wrapper'[v]}
Goes ==
  \A r \in RunIds : run'[r] = run[r] \/ (Flying(run'[r]) /\ InStep(run'[r], wrapper') /\ Answered(run'[r], swarm))

LEMMA RunIs ==
  ASSUME NEW q \in Run
  PROVE  /\ q.todo \in Seq(AnyMessage) /\ q.old \subseteq AnyMessage /\ q.codes \in Seq({200, 400})
         /\ \A i \in DOMAIN q.todo : q.todo[i] \in AnyMessage
  BY DEF Run

LEMMA WrapperStep ==
  ASSUME IInv, Kinds', UNCHANGED <<swarm, other>>, Advances, Dumps, Goes
  PROVE  IInv'
<1> USE DEF IInv
<1>1. Devices'
  BY DEF Devices, Advances, Dumps
<1>2. Wrappers'
  BY DEF Wrappers, Advances, Dumps
<1>3. Cleans'
  BY DEF Cleans, Advances, Dumps
<1>4. ASSUME NEW r \in RunIds
      PROVE  Flying(run'[r]) /\ InStep(run'[r], wrapper') /\ Answered(run'[r], swarm')
  <2>1. CASE run'[r] = run[r]
    <3>1. run[r] \in Run /\ Flying(run[r]) /\ InStep(run[r], wrapper) /\ Answered(run[r], swarm)
      BY DEF Kinds, Runs
    <3>2. ASSUME NEW i \in DOMAIN run[r].todo
          PROVE  Follows(run[r].todo[i], wrapper'[run[r].todo[i].variant])
      <4> DEFINE m == run[r].todo[i]
                 v == m.variant
      <4>1. m \in AnyMessage
        BY <3>1, RunIs
      <4>2. v \in Variants /\ m.seqno \in Nat
        BY <4>1, MessageIs
      <4>3. Follows(m, wrapper[v])
        BY <3>1 DEF InStep
      <4> HIDE DEF m, v
      <4>4. wrapper[v] \in Wrapper(v) /\ wrapper'[v] \in Wrapper(v) /\ Later(wrapper[v], wrapper'[v])
        BY <4>2 DEF Devices, Advances
      <4>5. Follows(m, wrapper'[v])
        BY <4>2, <4>3, <4>4, FollowsLater
      <4> QED BY <4>5 DEF m, v
    <3> QED BY <2>1, <3>1, <3>2 DEF InStep
  <2> QED BY <2>1 DEF Goes
<1>5. Runs'
  BY <1>4 DEF Runs, Flying, InStep, Answered
<1>6. Swarm' /\ Other'
  BY DEF Swarm, Other
<1> QED BY <1>1, <1>2, <1>3, <1>5, <1>6

\* A run that has sent nothing.
LEMMA EmptyRun ==
  ASSUME NEW q, q.todo = <<>>, q.old = {}, q.codes = <<>>, NEW ws, NEW S
  PROVE  Flying(q) /\ InStep(q, ws) /\ Answered(q, S)
  BY DEF Flying, InStep, Answered

LEMMA IdleIs ==
  Idle \in Run /\ Idle.todo = <<>> /\ Idle.old = {} /\ Idle.codes = <<>>
  BY DEF Idle, Run

LEMMA SetAdvances ==
  ASSUME IInv, NEW v \in Variants, NEW k \in Keys(v), NEW in \in BOOLEAN,
         wrapper' = [wrapper EXCEPT ![v] = Set(@, k, in)]
  PROVE  Advances
<1>1. wrapper = [u \in Variants |-> wrapper[u]] /\ \A u \in Variants : wrapper[u] \in Wrapper(u) /\ Sound(u, wrapper[u]) /\ Clean(u, wrapper[u], swarm)
  BY DEF IInv, Devices, Wrappers, Cleans
<1>2. wrapper' = [u \in Variants |-> IF u = v THEN Set(wrapper[v], k, in) ELSE wrapper[u]]
  BY <1>1
<1>3. ASSUME NEW u \in Variants
      PROVE  wrapper'[u] \in Wrapper(u) /\ Sound(u, wrapper'[u]) /\ Later(wrapper[u], wrapper'[u])
             /\ Clean(u, wrapper'[u], swarm)
  <2>1. CASE u = v
    <3>1. wrapper'[u] = Set(wrapper[v], k, in)
      BY <1>2, <2>1
    <3>2. wrapper[v] \in Wrapper(v) /\ Sound(v, wrapper[v]) /\ Clean(v, wrapper[v], swarm)
      BY <1>1
    <3>3. /\ Set(wrapper[v], k, in) \in Wrapper(v) /\ Sound(v, Set(wrapper[v], k, in)) /\ Later(wrapper[v], Set(wrapper[v], k, in))
          /\ ~NeedsPush(Set(wrapper[v], k, in)) => Set(wrapper[v], k, in) = wrapper[v]
      BY <3>2, SetIsSound
    <3> QED BY <2>1, <3>1, <3>2, <3>3 DEF Clean
  <2>2. CASE u # v
    BY <1>1, <1>2, <2>2, LaterIsReflexive
  <2> QED BY <2>1, <2>2
<1> QED BY <1>2, <1>3 DEF Advances

LEMMA SameAdvances ==
  ASSUME IInv, wrapper' = wrapper
  PROVE  Advances
  BY LaterIsReflexive DEF IInv, Devices, Wrappers, Cleans, Advances

LEMMA Spending ==
  ASSUME IInv, NEW kind \in {"changes", "other", "faults"}, Spend(kind)
  PROVE  budget' \in [changes : Nat, other : Nat, faults : Nat]
  BY DEF IInv, Kinds, Spend

LEMMA Queueing ==
  ASSUME IInv, QueueNewJobIfNeeded, UNCHANGED current
  PROVE  Jobs'
<1>1. Jobs
  BY DEF IInv, Kinds
<1>2. CASE waiting = <<>>
  <2>1. waiting' = <<"new">>
    BY <1>2 DEF QueueNewJobIfNeeded
  <2>2. waiting' \in Seq(Job) /\ Len(waiting') = 1
    BY <2>1 DEF Job
  <2> QED BY <1>1, <2>2 DEF Jobs
<1>3. CASE waiting # <<>>
  BY <1>1, <1>3 DEF Jobs, QueueNewJobIfNeeded
<1> QED BY <1>2, <1>3

\* The attempt in progress ends: no job is listed, or one.
LEMMA Failing ==
  ASSUME IInv, AttemptFails
  PROVE  Jobs'
<1>1. Jobs
  BY DEF IInv, Kinds
<1>2. CASE current.job = "new"
  <2>1. current # NoJob
    BY <1>2 DEF NoJob
  <2>2. waiting' = Append(waiting, "spent") /\ "spent" \in Job
    BY <1>2 DEF AttemptFails, Job
  <2>3. waiting' \in Seq(Job) /\ Len(waiting') = Len(waiting) + 1
    BY <1>1, <2>2 DEF Jobs
  <2> QED BY <1>1, <2>1, <2>3 DEF Jobs, AttemptFails
<1>3. CASE current.job # "new"
  <2>1. waiting' = waiting /\ current' = NoJob
    BY <1>3 DEF AttemptFails
  <2>2. Len(waiting) \in Nat
    BY <1>1 DEF Jobs
  <2> QED BY <1>1, <2>1, <2>2 DEF Jobs
<1> QED BY <1>2, <1>3

LEMMA Ending ==
  ASSUME IInv, NEW r \in RunIds, NEW success \in BOOLEAN, RunEnds(r, success)
  PROVE  Jobs' /\ run' \in [RunIds -> Run] /\ \A x \in RunIds : run'[x] = run[x] \/ run'[x] = Idle
<1>1. Jobs /\ run \in [RunIds -> Run]
  BY DEF IInv, Kinds
<1>2. run' = [run EXCEPT ![r] = Idle]
  BY DEF RunEnds
<1>3. run' \in [RunIds -> Run] /\ \A x \in RunIds : run'[x] = run[x] \/ run'[x] = Idle
  BY <1>1, <1>2, IdleIs
<1>4. CASE UNCHANGED <<current, waiting>>
  BY <1>1, <1>3, <1>4 DEF Jobs
<1>5. CASE current' = NoJob /\ UNCHANGED waiting
  <2>1. Len(waiting) \in Nat
    BY <1>1 DEF Jobs
  <2> QED BY <1>1, <1>3, <1>5, <2>1 DEF Jobs
<1>6. CASE AttemptFails
  BY <1>3, <1>6, Failing
<1> QED BY <1>3, <1>4, <1>5, <1>6 DEF RunEnds

-----------------------------------------------------------------------------
(* Groups, contacts and merges *)

LEMMA GroupKeys ==
  /\ "UserGroupsConfig" \in Variants /\ Keys("UserGroupsConfig") = Groups
  /\ "ContactsConfig" \in Variants /\ Keys("ContactsConfig") = Contacts
  BY DEF Variants, Keys

LEMMA NoMergeIs == NoMerge \in Merge
  BY DEF NoMerge, Merge

\* The steps of the conversations and of the merges: the dump stays, or takes the wrapper.
LEMMA GroupStep ==
  ASSUME IInv, Advances, UNCHANGED <<external, current, run>>, Dumps, Jobs',
         convo' \in [Groups -> {"none", "inactive", "active"}], polled' \subseteq AnyMessage,
         merge' \in Merge, lost' \in BOOLEAN, budget' \in [changes : Nat, other : Nat, faults : Nat]
  PROVE  IInv'
<1>1. Kinds'
  BY DEF IInv, Kinds, external
<1>2. Goes
  BY DEF Goes
<1> QED BY <1>1, <1>2, WrapperStep DEF external

LEMMA SameDumps ==
  ASSUME IInv, UNCHANGED dump
  PROVE  Dumps
  BY DEF IInv, Devices, Dumps

LEMMA SameJobs ==
  ASSUME IInv, UNCHANGED <<waiting, current>>
  PROVE  Jobs'
  BY DEF IInv, Kinds, Jobs

LEMMA KindsAre ==
  ASSUME IInv
  PROVE  /\ Jobs /\ convo \in [Groups -> {"none", "inactive", "active"}]
         /\ swarm \subseteq AnyMessage /\ polled \subseteq AnyMessage
         /\ run \in [RunIds -> Run] /\ merge \in Merge /\ lost \in BOOLEAN
         /\ budget \in [changes : Nat, other : Nat, faults : Nat]
         /\ dump = [v \in Variants |-> dump[v]]
  BY DEF IInv, Kinds, Devices

LEMMA JoinGroupStep ==
  ASSUME IInv, NEW g \in Groups, JoinGroup(g)
  PROVE  IInv'
<1>1. Advances
  BY SetAdvances, GroupKeys DEF JoinGroup
<1>2. Jobs' /\ Dumps /\ budget' \in [changes : Nat, other : Nat, faults : Nat]
  BY Queueing, SameDumps, Spending DEF JoinGroup
<1>3. convo' \in [Groups -> {"none", "inactive", "active"}]
  BY KindsAre DEF JoinGroup
<1> QED BY <1>1, <1>2, <1>3, GroupStep, KindsAre DEF JoinGroup

LEMMA KickedStep ==
  ASSUME IInv, NEW g \in Groups, Kicked(g)
  PROVE  IInv'
<1>1. Advances
  BY SetAdvances, GroupKeys DEF Kicked, Deleted
<1>2. Jobs' /\ Dumps /\ budget' \in [changes : Nat, other : Nat, faults : Nat]
  BY Queueing, SameDumps, Spending DEF Kicked
<1>3. convo' \in [Groups -> {"none", "inactive", "active"}]
  BY KindsAre DEF Kicked, Deleted
<1> QED BY <1>1, <1>2, <1>3, GroupStep, KindsAre DEF Kicked

LEMMA CommitStep ==
  ASSUME IInv, NEW g \in Groups, CommitConversation(g)
  PROVE  IInv'
<1>1. Advances
  <2>1. CASE convo[g] = "active"
    <3>1. wrapper' = [wrapper EXCEPT !["UserGroupsConfig"] = Set(@, g, TRUE)]
      BY <2>1 DEF CommitConversation
    <3> QED BY <3>1, SetAdvances, GroupKeys
  <2>2. CASE convo[g] # "active"
    <3>1. wrapper' = [wrapper EXCEPT !["UserGroupsConfig"] = @]
      BY <2>2 DEF CommitConversation
    <3>2. wrapper' = wrapper
      BY <3>1 DEF IInv, Devices
    <3> QED BY <3>2, SameAdvances
  <2> QED BY <2>1, <2>2
<1>2. Jobs' /\ Dumps
  BY Queueing, SameDumps DEF CommitConversation
<1> QED BY <1>1, <1>2, GroupStep, KindsAre DEF CommitConversation

LEMMA EditContactStep ==
  ASSUME IInv, NEW c \in Contacts, EditContact(c)
  PROVE  IInv'
<1>1. PICK in \in BOOLEAN : wrapper' = [wrapper EXCEPT !["ContactsConfig"] = Set(@, c, in)]
  BY DEF EditContact
<1>2. Advances
  BY <1>1, SetAdvances, GroupKeys
<1>3. Jobs' /\ Dumps /\ budget' \in [changes : Nat, other : Nat, faults : Nat]
  BY Queueing, SameDumps, Spending DEF EditContact
<1> QED BY <1>2, <1>3, GroupStep, KindsAre DEF EditContact

\* What the swarm backs, a merged wrapper that is clean holds.
LEMMA PollStep ==
  ASSUME IInv, Poll
  PROVE  IInv'
<1> DEFINE new == swarm \ polled
<1>1. /\ polled' = polled \union new /\ UNCHANGED <<dump, convo, waiting, external, current, run, budget, lost>>
      /\ wrapper' = [v \in Variants |-> IF On(v, new) = {} THEN wrapper[v] ELSE MergeInto(v, wrapper[v], On(v, new))]
      /\ \E vs, push : /\ vs = {m.variant : m \in new} /\ push \in BOOLEAN
                       /\ merge' = [NoMerge EXCEPT !.phase = IF "UserGroupsConfig" \in vs THEN "merged" ELSE "handled",
                                                   !.variants = vs, !.push = push]
  BY DEF Poll
<1>2. swarm \subseteq AnyMessage /\ new \subseteq AnyMessage /\ \A m \in new : m \in swarm
  BY KindsAre
<1>3. ASSUME NEW v \in Variants
      PROVE  wrapper'[v] \in Wrapper(v) /\ Sound(v, wrapper'[v]) /\ Later(wrapper[v], wrapper'[v])
             /\ Clean(v, wrapper'[v], swarm)
  <2>1. wrapper[v] \in Wrapper(v) /\ Sound(v, wrapper[v]) /\ Clean(v, wrapper[v], swarm)
    BY DEF IInv, Devices, Wrappers, Cleans
  <2>2. CASE On(v, new) = {}
    BY <1>1, <2>1, <2>2, LaterIsReflexive
  <2>3. CASE On(v, new) # {}
    <3> DEFINE ms == On(v, new)
               u == MergeInto(v, wrapper[v], ms)
    <3>1. wrapper'[v] = u
      BY <1>1, <2>3
    <3>2. ms \subseteq Messages(v) /\ ms # {} /\ \A m \in ms : m \in On(v, swarm) /\ m \in swarm
      BY <1>2, <2>3, MessagesOn DEF On
    <3>3. PICK n \in Nat : \A m \in swarm : m.seqno <= n
      BY DEF IInv, Swarm, Bounded
    <3>4. (\A m \in ms : Dated(m)) /\ \A m \in ms : m.seqno <= n
      BY <3>2, <3>3 DEF IInv, Swarm
    <3> HIDE DEF ms
    <3>5. /\ u \in Wrapper(v) /\ Sound(v, u) /\ Later(wrapper[v], u)
          /\ ~NeedsPush(u) => \/ \E m \in ms : u.content = m.content
                              \/ ~NeedsPush(wrapper[v]) /\ u.content = wrapper[v].content
      BY <2>1, <3>2, <3>4, MergeIsSound
    <3> HIDE DEF u
    <3>6. \A m \in ms : Backed(v, swarm, m.content)
      BY <1>2, <3>2, MemberIsBacked
    <3>7. Clean(v, u, swarm)
      BY <2>1, <3>5, <3>6 DEF Clean
    <3> QED BY <3>1, <3>5, <3>7
  <2> QED BY <2>2, <2>3
<1>4. Advances
  BY <1>1, <1>3 DEF Advances
<1>5. merge' \in Merge
  <2>1. PICK vs, push : /\ vs = {m.variant : m \in new} /\ push \in BOOLEAN
                        /\ merge' = [NoMerge EXCEPT !.phase = IF "UserGroupsConfig" \in vs THEN "merged" ELSE "handled",
                                                    !.variants = vs, !.push = push]
    BY <1>1
  <2>2. vs \subseteq Variants
    BY <1>2, <2>1, MessageIs
  <2> HIDE DEF new
  <2> QED BY <2>1, <2>2 DEF NoMerge, Merge
<1>6. polled' \subseteq AnyMessage
  BY <1>1, <1>2, KindsAre
<1>7. Jobs' /\ Dumps
  BY <1>1, SameJobs, SameDumps
<1> QED BY <1>1, <1>4, <1>5, <1>6, <1>7, GroupStep, KindsAre

LEMMA AskForGroupsStep ==
  ASSUME IInv, AskForGroups
  PROVE  IInv'
<1>1. merge' \in Merge
  <2>1. {g \in Groups : wrapper["UserGroupsConfig"].content[g].in} \in SUBSET Groups
    OBVIOUS
  <2> QED BY <2>1, KindsAre DEF AskForGroups, Merge
<1> QED BY <1>1, GroupStep, SameAdvances, SameJobs, SameDumps, KindsAre DEF AskForGroups, durable

LEMMA CompareGroupsStep ==
  ASSUME IInv, CompareGroups
  PROVE  IInv'
<1>1. merge' \in Merge
  BY KindsAre DEF CompareGroups, Merge
<1> QED BY <1>1, GroupStep, SameAdvances, SameJobs, SameDumps, KindsAre DEF CompareGroups, durable

LEMMA LeaveGroupStep ==
  ASSUME IInv, LeaveGroup
  PROVE  IInv'
<1>1. PICK g \in merge.todo :
        \/ /\ Deleted(g)
           /\ merge' = [merge EXCEPT !.todo = @ \ {g}]
        \/ merge' = NoMerge /\ UNCHANGED <<wrapper, convo>>
  BY DEF LeaveGroup
<1>2. g \in Groups
  BY <1>1, KindsAre DEF Merge
<1>3. Jobs' /\ Dumps
  BY SameJobs, SameDumps DEF LeaveGroup
<1>4. CASE Deleted(g) /\ merge' = [merge EXCEPT !.todo = @ \ {g}]
  <2>1. Advances
    BY <1>2, <1>4, SetAdvances, GroupKeys DEF Deleted
  <2>2. merge' \in Merge
    BY <1>4, KindsAre DEF Merge
  <2>3. convo' \in [Groups -> {"none", "inactive", "active"}]
    BY <1>4, KindsAre DEF Deleted
  <2> QED BY <1>3, <2>1, <2>2, <2>3, GroupStep, KindsAre DEF LeaveGroup
<1>5. CASE merge' = NoMerge /\ UNCHANGED <<wrapper, convo>>
  BY <1>3, <1>5, GroupStep, SameAdvances, NoMergeIs, KindsAre DEF LeaveGroup
<1> QED BY <1>1, <1>4, <1>5

LEMMA CreateGroupsStep ==
  ASSUME IInv, CreateGroups
  PROVE  IInv'
<1>1. merge' \in Merge
  BY KindsAre DEF CreateGroups, Merge
<1>2. convo' \in [Groups -> {"none", "inactive", "active"}]
  BY KindsAre DEF CreateGroups
<1> QED BY <1>1, <1>2, GroupStep, SameAdvances, SameJobs, SameDumps, KindsAre DEF CreateGroups

LEMMA UpdateGroupStep ==
  ASSUME IInv, UpdateGroup
  PROVE  IInv'
<1>1. PICK g \in merge.todo :
        /\ merge' = [merge EXCEPT !.todo = @ \ {g}]
        /\ \/ UNCHANGED <<convo, wrapper, waiting>>
           \/ /\ convo' = [convo EXCEPT ![g] = "active"]
              /\ wrapper' = [wrapper EXCEPT !["UserGroupsConfig"] = Set(@, g, TRUE)]
              /\ QueueNewJobIfNeeded
  BY DEF UpdateGroup
<1>2. g \in Groups
  BY <1>1, KindsAre DEF Merge
<1>3. merge' \in Merge /\ Dumps
  BY <1>1, KindsAre, SameDumps DEF UpdateGroup, Merge
<1>4. CASE UNCHANGED <<convo, wrapper, waiting>>
  BY <1>3, <1>4, GroupStep, SameAdvances, SameJobs, KindsAre DEF UpdateGroup
<1>5. CASE /\ convo' = [convo EXCEPT ![g] = "active"]
           /\ wrapper' = [wrapper EXCEPT !["UserGroupsConfig"] = Set(@, g, TRUE)]
           /\ QueueNewJobIfNeeded
  <2>1. Advances
    BY <1>2, <1>5, SetAdvances, GroupKeys
  <2>2. Jobs'
    BY <1>5, Queueing DEF UpdateGroup
  <2>3. convo' \in [Groups -> {"none", "inactive", "active"}]
    BY <1>5, KindsAre
  <2> QED BY <1>3, <2>1, <2>2, <2>3, GroupStep, KindsAre DEF UpdateGroup
<1> QED BY <1>1, <1>4, <1>5

LEMMA EndMergeStep ==
  ASSUME IInv, EndMerge
  PROVE  IInv'
<1>1. Dumps
  BY DEF EndMerge, Dumps
<1>2. Jobs'
  BY Queueing, SameJobs DEF EndMerge
<1> QED BY <1>1, <1>2, GroupStep, SameAdvances, NoMergeIs, KindsAre DEF EndMerge

-----------------------------------------------------------------------------
(* Attempts and runs *)

LEMMA StartAttemptStep ==
  ASSUME IInv, NEW i \in DOMAIN waiting, StartAttempt(i)
  PROVE  IInv'
<1>1. waiting \in Seq(Job) /\ i \in 1 .. Len(waiting) /\ current = NoJob /\ Len(waiting) <= 2 /\ Len(waiting) \in Nat
  BY KindsAre DEF Jobs, StartAttempt
<1>2. waiting' \in Seq(Job) /\ Len(waiting') <= 1
  <2> DEFINE before == SubSeq(waiting, 1, i - 1)
             after == SubSeq(waiting, i + 1, Len(waiting))
  <2>1. waiting' = before \o after
    BY DEF StartAttempt, RemoveAt
  <2>2. \A k \in 1 .. Len(waiting) : waiting[k] \in Job
    BY <1>1, ElementOfSeq
  <2>3. before \in Seq(Job) /\ Len(before) = i - 1
    BY <1>1, <2>2, SubSeqProperties
  <2>4. after \in Seq(Job) /\ Len(after) = Len(waiting) - i
    BY <1>1, <2>2, SubSeqProperties
  <2> HIDE DEF before, after
  <2>5. before \o after \in Seq(Job) /\ Len(before \o after) = Len(before) + Len(after)
    BY <2>3, <2>4, ConcatProperties
  <2> QED BY <1>1, <2>1, <2>3, <2>4, <2>5
<1>3. Advances
  BY SameAdvances DEF StartAttempt
<1>4. CASE UNCHANGED <<current, run, dump>>
  <2>1. Jobs'
    BY <1>1, <1>2, <1>4 DEF Jobs
  <2> QED BY <1>3, <1>4, <2>1, GroupStep, SameDumps, KindsAre DEF StartAttempt
<1>5. CASE /\ waiting[i] # "spent" /\ FreeRuns # {}
           /\ current' = [job |-> waiting[i], run |-> NextRun]
           /\ run' = [run EXCEPT ![NextRun] = [Idle EXCEPT !.phase = "dumped"]]
           /\ dump' = wrapper
  <2>1. NextRun \in RunIds
    BY <1>5 DEF NextRun, FreeRuns
  <2>2. waiting[i] \in {"new", "retried"}
    BY <1>1, <1>5 DEF Job
  <2>3. current' \in [job : {"new", "retried"}, run : RunIds]
    BY <1>5, <2>1, <2>2
  <2>4. Jobs'
    BY <1>2, <2>3 DEF Jobs
  <2> DEFINE q == [Idle EXCEPT !.phase = "dumped"]
  <2>5. q \in Run /\ q.todo = <<>> /\ q.old = {} /\ q.codes = <<>>
    BY IdleIs DEF Run
  <2> HIDE DEF q
  <2>6. run' \in [RunIds -> Run] /\ \A r \in RunIds : run'[r] = run[r] \/ run'[r] = q
    BY <1>5, <2>1, <2>5, KindsAre DEF q
  <2>7. Goes
    BY <2>5, <2>6, EmptyRun DEF Goes
  <2>8. Dumps
    BY <1>5 DEF Dumps, IInv, Devices
  <2>9. Kinds'
    BY <2>4, <2>6, KindsAre DEF StartAttempt, Kinds, external
  <2> QED BY <1>3, <2>7, <2>8, <2>9, WrapperStep DEF StartAttempt, external
<1> QED BY <1>4, <1>5 DEF StartAttempt

LEMMA TimeOutStep ==
  ASSUME IInv, TimeOut
  PROVE  IInv'
<1>1. Jobs' /\ Dumps /\ Advances
  BY Failing, SameDumps, SameAdvances DEF TimeOut
<1>2. Goes
  BY DEF Goes, TimeOut
<1>3. Kinds'
  BY <1>1, KindsAre, Spending DEF TimeOut, Kinds, external
<1> QED BY <1>1, <1>2, <1>3, WrapperStep DEF TimeOut, external

\* The variants of S, each once.
LEMMA OrderedIs ==
  ASSUME NEW S, S \subseteq Variants
  PROVE  /\ Ordered(S) \in Seq(Variants)
         /\ \A i \in DOMAIN Ordered(S) : Ordered(S)[i] \in S
         /\ \A v \in S : \E i \in DOMAIN Ordered(S) : Ordered(S)[i] = v
         /\ \A i, j \in DOMAIN Ordered(S) : Ordered(S)[i] = Ordered(S)[j] => i = j
<1> DEFINE c == "ContactsConfig"
           u == "UserGroupsConfig"
<1>1. CASE c \in S /\ u \in S
  <2> DEFINE s == <<c>>
             t == <<u>>
  <2>1. s \in Seq(Variants) /\ t \in Seq(Variants) /\ Len(s) = 1 /\ Len(t) = 1 /\ s[1] = c /\ t[1] = u
    BY DEF Variants
  <2>2. Ordered(S) = s \o t
    BY <1>1 DEF Ordered
  <2> HIDE DEF s, t
  <2>3. s \o t \in Seq(Variants) /\ Len(s \o t) = 2 /\ (s \o t)[1] = c /\ (s \o t)[2] = u
    BY <2>1, ConcatProperties
  <2>4. DOMAIN (s \o t) = {1, 2}
    BY <2>3
  <2> QED BY <1>1, <2>2, <2>3, <2>4 DEF Variants
<1>2. CASE c \in S /\ u \notin S
  <2>1. Ordered(S) = <<c>>
    BY <1>2 DEF Ordered
  <2> QED BY <1>2, <2>1 DEF Variants
<1>3. CASE c \notin S /\ u \in S
  <2>1. Ordered(S) = <<u>>
    BY <1>3 DEF Ordered
  <2> QED BY <1>3, <2>1 DEF Variants
<1>4. CASE c \notin S /\ u \notin S
  <2>1. Ordered(S) = <<>>
    BY <1>4 DEF Ordered
  <2> QED BY <1>4, <2>1 DEF Variants
<1> QED BY <1>1, <1>2, <1>3, <1>4

LEMMA PendingIs ==
  /\ Pending \in Seq(Variants) /\ DOMAIN Pending = 1 .. Len(Pending) /\ Len(Pending) \in Nat
  /\ ToSet(Pending) = {v \in Variants : NeedsPush(wrapper[v])}
  /\ \A i, j \in DOMAIN Pending : Pending[i] = Pending[j] => i = j
<1> DEFINE S == {v \in Variants : NeedsPush(wrapper[v])}
<1>1. Pending = Ordered(S) /\ S \subseteq Variants
  BY DEF Pending
<1> HIDE DEF S
<1>2. /\ Ordered(S) \in Seq(Variants)
      /\ \A i \in DOMAIN Ordered(S) : Ordered(S)[i] \in S
      /\ \A v \in S : \E i \in DOMAIN Ordered(S) : Ordered(S)[i] = v
      /\ \A i, j \in DOMAIN Ordered(S) : Ordered(S)[i] = Ordered(S)[j] => i = j
  BY <1>1, OrderedIs
<1>3. ToSet(Pending) = S
  BY <1>1, <1>2 DEF ToSet
<1>4. DOMAIN Pending = 1 .. Len(Pending) /\ Len(Pending) \in Nat
  BY <1>1, <1>2
<1> QED BY <1>1, <1>2, <1>3, <1>4 DEF S

\* The messages sent are what the wrappers hold, and supersede what they delete.
LEMMA PendingChangesStep ==
  ASSUME IInv, NEW r \in RunIds, PendingChanges(r)
  PROVE  IInv'
<1> DEFINE P == ToSet(Pending)
<1>1. /\ wrapper' = [v \in Variants |-> IF v \in P THEN Pushed(wrapper[v]) ELSE wrapper[v]]
      /\ UNCHANGED <<dump, convo, polled, external, merge, budget, lost>>
  BY DEF PendingChanges
<1>2. P = {v \in Variants : NeedsPush(wrapper[v])}
  BY PendingIs
<1> HIDE DEF P
<1>3. \A v \in Variants : wrapper[v] \in Wrapper(v) /\ Sound(v, wrapper[v]) /\ Clean(v, wrapper[v], swarm)
  BY DEF IInv, Devices, Wrappers, Cleans
<1>4. ASSUME NEW v \in Variants
      PROVE  wrapper'[v] \in Wrapper(v) /\ Sound(v, wrapper'[v]) /\ Later(wrapper[v], wrapper'[v])
             /\ Clean(v, wrapper'[v], swarm)
  <2>1. CASE v \in P
    <3>1. /\ Pushed(wrapper[v]) \in Wrapper(v) /\ Sound(v, Pushed(wrapper[v])) /\ Later(wrapper[v], Pushed(wrapper[v]))
          /\ NeedsPush(Pushed(wrapper[v])) = NeedsPush(wrapper[v])
      BY <1>3, PushedIsSound
    <3>2. NeedsPush(wrapper[v])
      BY <1>2, <2>1
    <3> QED BY <1>1, <2>1, <3>1, <3>2 DEF Clean
  <2>2. CASE v \notin P
    BY <1>1, <1>3, <2>2, LaterIsReflexive
  <2> QED BY <2>1, <2>2
<1>5. Advances
  BY <1>1, <1>4 DEF Advances
<1>6. Dumps
  BY <1>1, SameDumps
<1>7. CASE RunEnds(r, TRUE)
  <2>1. Jobs' /\ run' \in [RunIds -> Run] /\ \A x \in RunIds : run'[x] = run[x] \/ run'[x] = Idle
    BY <1>7, Ending
  <2>2. Goes
    BY <2>1, IdleIs, EmptyRun DEF Goes
  <2>3. Kinds'
    BY <1>1, <2>1, KindsAre DEF Kinds, external
  <2> QED BY <1>1, <1>5, <1>6, <2>2, <2>3, WrapperStep DEF external
<1>8. CASE /\ run' = [run EXCEPT ![r] =
                [phase |-> "sending",
                 todo |-> [i \in DOMAIN Pending |-> Message(Pending[i], wrapper[Pending[i]])],
                 old |-> UNION {wrapper[v].hashes : v \in P}, codes |-> <<>>]]
           /\ UNCHANGED <<current, waiting>>
  <2> DEFINE m(i) == Message(Pending[i], wrapper[Pending[i]])
             todo == [i \in DOMAIN Pending |-> m(i)]
             old == UNION {wrapper[v].hashes : v \in P}
             q == [phase |-> "sending", todo |-> todo, old |-> old, codes |-> <<>>]
  <2>1. ASSUME NEW i \in DOMAIN Pending
        PROVE  /\ Pending[i] \in P /\ m(i) \in Messages(Pending[i]) /\ m(i).variant = Pending[i]
               /\ m(i).content = wrapper[Pending[i]].content /\ m(i).seqno = wrapper[Pending[i]].seqno
    <3>1. Pending[i] \in P
      BY DEF P, ToSet
    <3>2. Pending[i] \in Variants
      BY <1>2, <3>1
    <3> QED BY <1>3, <3>1, <3>2, WrapperIs DEF Message, Messages
  <2>2. \A v \in P : \E i \in DOMAIN Pending : Pending[i] = v
    BY DEF P, ToSet
  <2> HIDE DEF m
  <2>3. \A i \in DOMAIN Pending : m(i) \in AnyMessage
    BY <1>2, <2>1, MessagesAreAny
  <2>4. todo \in Seq(AnyMessage) /\ DOMAIN todo = DOMAIN Pending /\ \A i \in DOMAIN todo : todo[i] = m(i)
    BY <2>3, PendingIs
  <2>5. old \subseteq AnyMessage
    BY <1>2, <1>3, WrapperIs
  <2> HIDE DEF todo, old
  <2>6. q \in Run
    BY <2>4, <2>5 DEF Run
  <2>7. Flying(q)
    <3>1. ASSUME NEW i \in DOMAIN todo PROVE Dated(todo[i])
      <4>1. Pending[i] \in Variants /\ todo[i] = m(i)
        BY <1>2, <2>1, <2>4
      <4> QED BY <1>3, <2>1, <2>4, <4>1 DEF Dated, Sound
    <3>2. ASSUME NEW x \in old
          PROVE  \E i \in DOMAIN todo : /\ todo[i].variant = x.variant /\ x.seqno < todo[i].seqno
                                        /\ Covers(todo[i].content, x.content)
      <4>1. PICK v \in P : x \in wrapper[v].hashes
        BY DEF old
      <4>2. v \in Variants /\ NeedsPush(wrapper[v])
        BY <1>2
      <4>3. x.variant = v /\ Covers(wrapper[v].content, x.content) /\ x.seqno < wrapper[v].seqno
        BY <1>3, <4>1, <4>2, WrapperIs DEF Sound
      <4>4. PICK i \in DOMAIN Pending : Pending[i] = v
        BY <2>2
      <4> QED BY <2>1, <2>4, <4>3, <4>4
    <3>3. \A i, j \in DOMAIN todo : todo[i].variant = todo[j].variant => i = j
      BY <2>1, <2>4, PendingIs
    <3> QED BY <3>1, <3>2, <3>3 DEF Flying
  <2>8. InStep(q, wrapper')
    <3> SUFFICES ASSUME NEW i \in DOMAIN todo PROVE Follows(todo[i], wrapper'[todo[i].variant])
      BY DEF InStep
    <3>1. /\ Pending[i] \in P /\ Pending[i] \in Variants /\ todo[i].variant = Pending[i]
          /\ todo[i].content = wrapper[Pending[i]].content /\ todo[i].seqno = wrapper[Pending[i]].seqno
      BY <1>2, <2>1, <2>4
    <3>2. wrapper'[Pending[i]] = Pushed(wrapper[Pending[i]])
      BY <1>1, <3>1
    <3>3. /\ Pushed(wrapper[Pending[i]]).content = wrapper[Pending[i]].content
          /\ Pushed(wrapper[Pending[i]]).seqno = wrapper[Pending[i]].seqno
          /\ Pushed(wrapper[Pending[i]]).state # "dirty" /\ wrapper[Pending[i]].seqno \in Nat
      BY <1>3, <3>1, PushedIsSound, WrapperIs
    <3> QED BY <3>1, <3>2, <3>3 DEF Follows
  <2>9. Answered(q, swarm)
    BY DEF Answered
  <2>10. run' = [run EXCEPT ![r] = q]
    BY <1>8 DEF todo, m, old
  <2> HIDE DEF q
  <2>11. run' \in [RunIds -> Run] /\ \A x \in RunIds : run'[x] = run[x] \/ run'[x] = q
    BY <2>6, <2>10, KindsAre
  <2>12. Goes
    BY <2>7, <2>8, <2>9, <2>11 DEF Goes
  <2>13. Kinds'
    BY <1>1, <1>8, <2>11, KindsAre, SameJobs DEF Kinds, external
  <2> QED BY <1>1, <1>5, <1>6, <2>12, <2>13, WrapperStep DEF external
<1> QED BY <1>7, <1>8 DEF PendingChanges, P

\* A run ends: each message the swarm stored may make its wrapper clean.
LEMMA EndRunStep ==
  ASSUME IInv, NEW r \in RunIds, EndRun(r)
  PROVE  IInv'
<1> DEFINE q == run[r]
           stored == SuccessfulChanges(q)
<1>1. PICK failed \in BOOLEAN :
        /\ RunEnds(r, ~failed)
        /\ wrapper' = IF failed THEN wrapper ELSE MarkedAsPushed(stored)
        /\ dump' = [v \in Variants |-> IF failed \/ On(v, stored) = {} THEN dump[v] ELSE wrapper'[v]]
        /\ UNCHANGED <<convo, polled, external, merge, budget, lost>>
  BY DEF EndRun
<1>2. q \in Run /\ Flying(q) /\ InStep(q, wrapper) /\ Answered(q, swarm)
  BY KindsAre DEF IInv, Runs
<1>3. ASSUME NEW m \in stored
      PROVE  /\ m \in AnyMessage /\ Dated(m) /\ Follows(m, wrapper[m.variant])
             /\ Backed(m.variant, swarm, m.content)
  <2>1. PICK i \in DOMAIN q.todo \cap DOMAIN q.codes : q.codes[i] = 200 /\ m = q.todo[i]
    BY DEF SuccessfulChanges
  <2> HIDE DEF q
  <2> QED BY <1>2, <2>1, RunIs DEF Flying, InStep, Answered
<1> HIDE DEF stored
<1>4. ASSUME NEW v \in Variants
      PROVE  LET u == MarkedAsPushed(stored)[v]
             IN  u \in Wrapper(v) /\ Sound(v, u) /\ Later(wrapper[v], u) /\ Clean(v, u, swarm)
  <2>1. wrapper[v] \in Wrapper(v) /\ Sound(v, wrapper[v]) /\ Clean(v, wrapper[v], swarm)
    BY DEF IInv, Devices, Wrappers, Cleans
  <2>2. CASE On(v, stored) = {}
    BY <2>1, <2>2, LaterIsReflexive DEF MarkedAsPushed
  <2>3. CASE On(v, stored) # {}
    <3> DEFINE m == CHOOSE x \in On(v, stored) : TRUE
    <3>1. m \in On(v, stored)
      BY <2>3
    <3>2. MarkedAsPushed(stored)[v] = ConfirmPushed(wrapper[v], m.seqno, m)
      BY <2>3 DEF MarkedAsPushed
    <3> HIDE DEF m
    <3>3. m \in stored /\ m.variant = v
      BY <3>1 DEF On
    <3>4. m \in Messages(v) /\ Dated(m) /\ Follows(m, wrapper[v]) /\ Backed(v, swarm, m.content)
      BY <1>3, <3>3, MessageIs
    <3>5. LET u == ConfirmPushed(wrapper[v], m.seqno, m)
          IN  /\ u \in Wrapper(v) /\ Sound(v, u) /\ Later(wrapper[v], u)
              /\ ~NeedsPush(u) => u = wrapper[v] \/ u.content = m.content
      BY <2>1, <3>4, ConfirmIsSound
    <3> QED BY <2>1, <3>2, <3>4, <3>5 DEF Clean
  <2> QED BY <2>2, <2>3
<1>5. Advances
  <2>1. CASE failed
    BY <1>1, <2>1, SameAdvances
  <2>2. CASE ~failed
    <3>1. wrapper' = MarkedAsPushed(stored)
      BY <1>1, <2>2
    <3>2. wrapper' = [v \in Variants |-> wrapper'[v]]
      BY <3>1 DEF MarkedAsPushed
    <3> QED BY <1>4, <3>1, <3>2 DEF Advances
  <2> QED BY <2>1, <2>2
<1>6. Dumps
  BY <1>1 DEF Dumps
<1>7. Jobs' /\ run' \in [RunIds -> Run] /\ \A x \in RunIds : run'[x] = run[x] \/ run'[x] = Idle
  BY <1>1, Ending
<1>8. Goes
  BY <1>7, IdleIs, EmptyRun DEF Goes
<1>9. Kinds'
  BY <1>1, <1>7, KindsAre DEF Kinds, external
<1> QED BY <1>1, <1>5, <1>6, <1>8, <1>9, WrapperStep DEF external

-----------------------------------------------------------------------------
(* Steps that change the swarm *)

\* A step of the swarm alone: what it stored stays backed.
Grows == \A v \in Variants : \A m \in On(v, swarm) : Backed(v, swarm', m.content)

\* The runs may learn the codes of what they sent.
Learns ==
  \A r \in RunIds : Flying(run'[r]) /\ run'[r].todo = run[r].todo /\ (run'[r].codes = run[r].codes \/ Answered(run'[r], swarm'))

LEMMA SwarmStep ==
  ASSUME IInv, Kinds', UNCHANGED <<wrapper, dump>>, Grows, Learns, Swarm', Other'
  PROVE  IInv'
<1> USE DEF IInv
<1>1. Devices' /\ Wrappers'
  BY DEF Devices, Wrappers
<1>2. swarm \subseteq AnyMessage /\ swarm' \subseteq AnyMessage
  BY DEF Kinds
<1>3. ASSUME NEW v \in Variants, NEW c \in Content(v), Backed(v, swarm, c)
      PROVE  Backed(v, swarm', c)
  <2>1. \A m \in On(v, swarm) : Backed(v, swarm', m.content)
    BY DEF Grows
  <2> QED BY <1>2, <1>3, <2>1, BackedByAll
<1>4. Cleans'
  <2>1. \A v \in Variants : wrapper[v].content \in Content(v) /\ dump[v].content \in Content(v)
    BY WrapperIs DEF Devices
  <2> QED BY <1>3, <2>1 DEF Cleans, Clean
<1>5. ASSUME NEW r \in RunIds
      PROVE  Flying(run'[r]) /\ InStep(run'[r], wrapper') /\ Answered(run'[r], swarm')
  <2>1. run[r] \in Run /\ InStep(run[r], wrapper) /\ Answered(run[r], swarm)
    BY DEF Kinds, Runs
  <2>2. \A i \in DOMAIN run[r].todo : run[r].todo[i].variant \in Variants /\ run[r].todo[i].content \in Content(run[r].todo[i].variant)
    BY <2>1, RunIs, MessageIs
  <2>3. Answered(run[r], swarm')
    BY <1>3, <2>1, <2>2 DEF Answered
  <2>4. Flying(run'[r]) /\ run'[r].todo = run[r].todo /\ (run'[r].codes = run[r].codes \/ Answered(run'[r], swarm'))
    BY DEF Learns
  <2> QED BY <2>1, <2>3, <2>4 DEF InStep, Answered
<1>6. Runs'
  BY <1>5 DEF Runs, Flying, InStep, Answered
<1> QED BY <1>1, <1>4, <1>6

LEMMA CodesAre ==
  ASSUME NEW q \in Run, NEW done \in Stored(q), NEW deleted \in BOOLEAN
  PROVE  /\ Codes(q, done, deleted) \in Seq({200, 400}) /\ done \subseteq DOMAIN q.todo
         /\ \A i \in DOMAIN q.todo \cap DOMAIN Codes(q, done, deleted) : Codes(q, done, deleted)[i] = 200 => i \in done
<1> DEFINE codes == [i \in DOMAIN q.todo |-> IF i \in done THEN 200 ELSE 400]
           c == IF deleted THEN 200 ELSE 400
           C == Codes(q, done, deleted)
<1>1. q.todo \in Seq(AnyMessage) /\ DOMAIN q.todo = 1 .. Len(q.todo) /\ Len(q.todo) \in Nat
  BY RunIs
<1>2. /\ codes \in Seq({200, 400}) /\ DOMAIN codes = DOMAIN q.todo /\ Len(codes) = Len(q.todo)
      /\ \A i \in DOMAIN q.todo : codes[i] = 200 => i \in done
  BY <1>1
<1>3. c \in {200, 400}
  OBVIOUS
<1>4. C = IF q.old = {} THEN codes
          ELSE IF done = DOMAIN q.todo THEN Append(codes, c)
          ELSE SubSeq(codes, 1, Cardinality(done) + 1)
  BY DEF Codes
<1> HIDE DEF codes, c, C
<1>5. CASE q.old = {}
  BY <1>2, <1>4, <1>5 DEF C, Stored
<1>6. CASE q.old # {} /\ done = DOMAIN q.todo
  <2>1. C \in Seq({200, 400}) /\ \A i \in DOMAIN q.todo : C[i] = codes[i]
    BY <1>1, <1>2, <1>3, <1>4, <1>6
  <2> QED BY <1>2, <1>6, <2>1 DEF C
<1>7. CASE q.old # {} /\ done # DOMAIN q.todo
  <2>1. PICK n \in 0 .. Len(q.todo) : done = 1 .. n
    BY <1>7 DEF Stored
  <2>2. n # Len(q.todo)
    BY <1>1, <1>7, <2>1
  <2>3. Cardinality(done) = n
    BY <1>1, <2>1, FS_Interval
  <2>4. n + 1 \in 1 .. Len(codes) /\ n \in Nat
    BY <1>1, <1>2, <2>1, <2>2
  <2>5. C = SubSeq(codes, 1, n + 1)
    BY <1>4, <1>7, <2>3
  <2>6. /\ C \in Seq({200, 400}) /\ Len(C) = n + 1 /\ \A i \in 1 .. n + 1 : C[i] = codes[i]
    <3>1. \A i \in 1 .. n + 1 : codes[i] \in {200, 400}
      BY <1>2, <2>4
    <3> QED BY <1>2, <2>4, <2>5, <3>1, SubSeqProperties
  <2>7. DOMAIN C = 1 .. n + 1 /\ done \subseteq DOMAIN q.todo
    BY <1>1, <2>1, <2>6
  <2>8. \A i \in DOMAIN q.todo \cap DOMAIN C : C[i] = 200 => i \in done
    BY <1>2, <2>6, <2>7
  <2> QED BY <2>6, <2>7, <2>8 DEF C
<1> QED BY <1>5, <1>6, <1>7

\* A message sent is not deleted with the same request.
LEMMA SentIsNotOld ==
  ASSUME NEW q \in Run, Flying(q), NEW i \in DOMAIN q.todo
  PROVE  q.todo[i] \notin q.old
<1> SUFFICES ASSUME q.todo[i] \in q.old PROVE FALSE
  OBVIOUS
<1>1. PICK j \in DOMAIN q.todo : q.todo[j].variant = q.todo[i].variant /\ q.todo[i].seqno < q.todo[j].seqno
  BY DEF Flying
<1>2. j = i
  BY <1>1 DEF Flying
<1>3. q.todo[i].seqno \in Nat
  BY RunIs, MessageIs
<1> QED BY <1>1, <1>2, <1>3

\* What a request does to the swarm.
LEMMA SendGrows ==
  ASSUME IInv, NEW q \in Run, Flying(q), InStep(q, wrapper), NEW done \in Stored(q), NEW deleted \in BOOLEAN,
         deleted => MayDelete(q, done),
         swarm' = (swarm \union {q.todo[i] : i \in done}) \ (IF deleted THEN q.old ELSE {})
  PROVE  /\ swarm' \subseteq AnyMessage /\ Swarm' /\ Grows
         /\ \A i \in done : Backed(q.todo[i].variant, swarm', q.todo[i].content)
<1>1. done \subseteq DOMAIN q.todo /\ swarm \subseteq AnyMessage
  BY CodesAre, KindsAre
<1>2. \A i \in done : /\ q.todo[i] \in AnyMessage /\ Dated(q.todo[i]) /\ q.todo[i] \notin q.old
                      /\ q.todo[i].variant \in Variants /\ q.todo[i].seqno \in Nat
  BY <1>1, RunIs, MessageIs, SentIsNotOld DEF Flying
<1>3. swarm' \subseteq AnyMessage /\ \A i \in done : q.todo[i] \in swarm'
  BY <1>1, <1>2
<1>4. \A i \in done : Backed(q.todo[i].variant, swarm', q.todo[i].content)
  BY <1>2, <1>3, MemberIsBacked DEF On
<1>5. ASSUME NEW v \in Variants, NEW m \in On(v, swarm) PROVE Backed(v, swarm', m.content)
  <2>1. m \in swarm /\ m.variant = v /\ m.content \in Content(v)
    BY <1>1, MessagesOn
  <2>2. CASE m \in swarm'
    BY <1>3, <2>1, <2>2, MemberIsBacked DEF On
  <2>3. CASE m \notin swarm'
    <3>1. deleted /\ m \in q.old /\ done = DOMAIN q.todo
      BY <2>1, <2>3 DEF MayDelete
    <3>2. PICK i \in DOMAIN q.todo : q.todo[i].variant = v /\ Covers(q.todo[i].content, m.content)
      BY <2>1, <3>1 DEF Flying
    <3>3. Backed(v, swarm', q.todo[i].content) /\ q.todo[i].content \in Content(v)
      BY <1>2, <1>4, <3>1, <3>2, MessageIs
    <3> QED BY <1>3, <2>1, <3>2, <3>3, CoveredIsBacked
  <2> QED BY <2>2, <2>3
<1>6. Grows
  BY <1>5 DEF Grows
<1>7. Swarm'
  <2>1. PICK n \in Nat : \A m \in swarm : m.seqno <= n
    BY DEF IInv, Swarm, Bounded
  <2> DEFINE a == wrapper["ContactsConfig"].seqno
             b == wrapper["UserGroupsConfig"].seqno
             top == n + a + b
  <2>2. a \in Nat /\ b \in Nat /\ top \in Nat /\ n <= top /\ a <= top /\ b <= top
    BY <2>1, WrapperIs, GroupKeys DEF IInv, Devices
  <2>3. \A i \in done : q.todo[i].seqno <= a \/ q.todo[i].seqno <= b
    BY <1>1, <1>2 DEF InStep, Follows, Variants
  <2> HIDE DEF a, b, top
  <2>4. \A m \in swarm : m.seqno \in Nat
    BY <1>1, MessageIs
  <2>5. \A m \in swarm' : m.seqno <= top
    <3>1. \A m \in swarm : m.seqno <= top
      BY <2>1, <2>2, <2>4
    <3>2. \A i \in done : q.todo[i].seqno <= top
      BY <1>2, <2>2, <2>3
    <3> QED BY <3>1, <3>2
  <2>6. \A m \in swarm' : Dated(m)
    BY <1>2 DEF IInv, Swarm
  <2> QED BY <2>2, <2>5, <2>6 DEF Swarm, Bounded, Dated
<1> QED BY <1>3, <1>4, <1>6, <1>7

LEMMA SendStep ==
  ASSUME IInv, NEW r \in RunIds, Send(r)
  PROVE  IInv' /\ Grows
<1> DEFINE q == run[r]
<1>1. q \in Run /\ Flying(q) /\ InStep(q, wrapper) /\ Answered(q, swarm) /\ q.phase = "sending" /\ q.codes = <<>>
  BY KindsAre DEF IInv, Runs, Send, Flying
<1>2. PICK done \in Stored(q), deleted \in BOOLEAN :
        /\ deleted => MayDelete(q, done)
        /\ swarm' = (swarm \union {q.todo[i] : i \in done}) \ (IF deleted THEN q.old ELSE {})
        /\ \/ run' = [run EXCEPT ![r].phase = "answered", ![r].codes = Codes(q, done, deleted)]
           \/ run' = run
           \/ run' = [run EXCEPT ![r].phase = "answered"]
        /\ UNCHANGED budget \/ Spend("faults")
  BY DEF Send
<1>3. UNCHANGED <<wrapper, durable, other, merge, current, lost>>
  BY DEF Send
<1>4. /\ swarm' \subseteq AnyMessage /\ Swarm' /\ Grows
      /\ \A i \in done : Backed(q.todo[i].variant, swarm', q.todo[i].content)
  BY <1>1, <1>2, SendGrows
<1>5. budget' \in [changes : Nat, other : Nat, faults : Nat]
  BY <1>2, KindsAre, Spending
<1> DEFINE C == Codes(q, done, deleted)
<1>6. C \in Seq({200, 400}) /\ \A i \in DOMAIN q.todo \cap DOMAIN C : C[i] = 200 => i \in done
  BY <1>1, CodesAre
<1> HIDE DEF C
<1>7. PICK p \in {"sending", "answered"}, c \in {C, <<>>} :
        /\ p = "sending" => c = <<>>
        /\ run' = [run EXCEPT ![r] = [q EXCEPT !.phase = p, !.codes = c]]
  <2>1. run \in [RunIds -> Run]
    BY KindsAre
  <2>2. CASE run' = [run EXCEPT ![r].phase = "answered", ![r].codes = C]
    BY <2>1, <2>2
  <2>3. CASE run' = run
    <3>1. [q EXCEPT !.phase = "sending", !.codes = <<>>] = q
      BY <1>1 DEF Run
    <3>2. run' = [run EXCEPT ![r] = q]
      BY <2>1, <2>3
    <3> QED BY <3>1, <3>2
  <2>4. CASE run' = [run EXCEPT ![r].phase = "answered"]
    <3>1. [q EXCEPT !.phase = "answered", !.codes = <<>>] = [q EXCEPT !.phase = "answered"]
      BY <1>1 DEF Run
    <3>2. run' = [run EXCEPT ![r] = [q EXCEPT !.phase = "answered"]]
      BY <2>1, <2>4
    <3> QED BY <3>1, <3>2
  <2> QED BY <1>2, <2>2, <2>3, <2>4 DEF C
<1> DEFINE u == [q EXCEPT !.phase = p, !.codes = c]
<1>8. c \in Seq({200, 400}) /\ (c = <<>> \/ c = C)
  BY <1>1, <1>6, <1>7, RunIs
<1>9. u \in Run /\ u.todo = q.todo /\ u.old = q.old /\ u.codes = c /\ u.phase = p
  BY <1>1, <1>7, <1>8 DEF Run
<1> HIDE DEF u
<1>10. p = "sending" => c = <<>>
  BY <1>7
<1>11. Flying(u)
  BY <1>1, <1>9, <1>10 DEF Flying
<1>12. Answered(u, swarm')
  BY <1>4, <1>6, <1>8, <1>9 DEF Answered
<1>13. run' \in [RunIds -> Run] /\ run'[r] = u /\ \A x \in RunIds : x = r \/ run'[x] = run[x]
  BY <1>7, <1>9, KindsAre DEF u
<1>14. Learns
  BY <1>9, <1>11, <1>12, <1>13 DEF Learns, IInv, Runs
<1>15. Kinds'
  BY <1>3, <1>4, <1>5, <1>13, KindsAre, SameJobs DEF Kinds, durable
<1>16. Other'
  BY <1>3 DEF Other, IInv
<1> QED BY <1>3, <1>4, <1>14, <1>15, <1>16, SwarmStep DEF durable

\* Another device pushes what covers all it supersedes.
LEMMA OtherChangesStep ==
  ASSUME IInv, NEW v \in Variants, NEW k \in Keys(v), OtherChanges(v, k)
  PROVE  IInv' /\ Grows
<1>1. PICK seen \in SUBSET On(v, swarm) :
        LET base == Latest(v, {other[v].content} \union {m.content : m \in seen})
            superseded == other[v].pushed \union seen
            seqno == Highest({0} \union Seqnos(superseded)) + 1
            m == [variant |-> v, content |-> [base EXCEPT ![k] = [in |-> ~@.in, at |-> seqno]], seqno |-> seqno]
        IN  /\ Spend("other")
            /\ swarm' = (swarm \ superseded) \union {m}
            /\ other' = [other EXCEPT ![v] = [content |-> m.content, pushed |-> {m}]]
            /\ UNCHANGED <<wrapper, durable, merge, current, run, lost>>
  BY DEF OtherChanges
<1> DEFINE X == {other[v].content} \union {m.content : m \in seen}
           base == Latest(v, X)
           superseded == other[v].pushed \union seen
           N == {0} \union Seqnos(superseded)
           seqno == Highest(N) + 1
           content == [base EXCEPT ![k] = [in |-> ~@.in, at |-> seqno]]
           new == [variant |-> v, content |-> content, seqno |-> seqno]
<1>2. /\ Spend("other") /\ swarm' = (swarm \ superseded) \union {new}
      /\ other' = [other EXCEPT ![v] = [content |-> content, pushed |-> {new}]]
      /\ UNCHANGED <<wrapper, durable, merge, current, run, lost>>
  BY <1>1
<1>3. PICK n \in Nat : \A m \in swarm : m.seqno <= n
  BY DEF IInv, Swarm, Bounded
<1>4. swarm \subseteq AnyMessage /\ seen \subseteq swarm /\ seen \subseteq On(v, swarm)
  BY KindsAre, MessagesOn
<1>5. \A m \in seen : m \in Messages(v) /\ Dated(m) /\ m.seqno <= n /\ m.seqno \in Nat
                      /\ m.content \in Content(v) /\ m.variant = v
  BY <1>3, <1>4, MessagesOn DEF IInv, Swarm
<1>6. Pusher(v, other[v])
  BY DEF IInv, Other
<1>7. \/ other[v].content = Empty(v) /\ other[v].pushed = {}
      \/ \E m \in Messages(v) : Dated(m) /\ other[v].content = m.content /\ other[v].pushed = {m}
  <2> DEFINE o == other[v]
  <2>1. CASE o = [content |-> Empty(v), pushed |-> {}]
    BY <2>1
  <2>2. CASE \E m \in o.pushed : m \in Messages(v) /\ Dated(m) /\ o = [content |-> m.content, pushed |-> {m}]
    <3>1. PICK m \in Messages(v) : Dated(m) /\ o = [content |-> m.content, pushed |-> {m}]
      BY <2>2
    <3>2. o.content = m.content /\ o.pushed = {m}
      BY <3>1
    <3> QED BY <3>1, <3>2
  <2> QED BY <1>6, <2>1, <2>2 DEF Pusher
<1>8. /\ other[v].content \in Content(v)
      /\ \A m \in other[v].pushed : /\ m \in Messages(v) /\ Dated(m) /\ m.seqno \in Nat /\ m.variant = v
                                    /\ m.content = other[v].content
      /\ other[v].pushed = {} => other[v].content = Empty(v)
      /\ \E p \in Nat : \A m \in other[v].pushed : m.seqno <= p
  <2>1. CASE other[v].content = Empty(v) /\ other[v].pushed = {}
    BY <2>1, EmptyIs
  <2>2. CASE \E m \in Messages(v) : Dated(m) /\ other[v].content = m.content /\ other[v].pushed = {m}
    <3>1. PICK m \in Messages(v) : Dated(m) /\ other[v].content = m.content /\ other[v].pushed = {m}
      BY <2>2
    <3>2. m.seqno \in Nat /\ m.variant = v /\ m.content \in Content(v)
      BY DEF Messages
    <3> QED BY <3>1, <3>2
  <2> QED BY <1>7, <2>1, <2>2
<1> PICK p \in Nat : \A m \in other[v].pushed : m.seqno <= p
  BY <1>8
<1>9. \A m \in superseded : /\ m \in Messages(v) /\ Dated(m) /\ m.seqno \in Nat /\ m.variant = v
                            /\ m.content \in Content(v) /\ m.seqno <= n + p
  BY <1>3, <1>5, <1>8
<1>10. N \subseteq Nat /\ N # {} /\ (\A x \in N : x <= n + p) /\ n + p \in Nat
  <2> HIDE DEF superseded
  <2> QED BY <1>3, <1>9 DEF Seqnos
<1>11. /\ seqno \in Nat /\ seqno # 0
       /\ \A m \in superseded : m.seqno < seqno
  <2>1. Highest(N) \in Nat /\ \A x \in N : x <= Highest(N)
    <3> HIDE DEF N
    <3> QED BY <1>10, HighestIs
  <2>2. \A m \in superseded : m.seqno \in N
    BY DEF Seqnos
  <2> HIDE DEF N, superseded
  <2> QED BY <1>9, <2>1, <2>2
<1>12. X \subseteq Content(v) /\ X # {} /\ \A m \in superseded : m.content \in X
  BY <1>5, <1>8
<1>13. \A x \in X : \A j \in Keys(v) : x[j].at <= seqno
  <2>1. ASSUME NEW m \in superseded, NEW j \in Keys(v) PROVE m.content[j].at <= seqno
    <3>1. m.content[j].at <= m.seqno /\ m.content[j].at \in Nat /\ m.seqno \in Nat /\ m.seqno < seqno
      BY <1>9, <1>11, ContentOf DEF Dated
    <3> QED BY <1>11, <3>1
  <2>2. ASSUME NEW x \in X PROVE x = Empty(v) \/ \E m \in superseded : x = m.content
    <3>1. x = other[v].content \/ \E m \in seen : x = m.content
      OBVIOUS
    <3>2. other[v].pushed # {} => \E m \in superseded : other[v].content = m.content
      BY <1>8
    <3> QED BY <1>8, <3>1, <3>2
  <2>3. \A j \in Keys(v) : Empty(v)[j].at <= seqno
    BY <1>11, EmptyIs DEF Never
  <2> HIDE DEF X, superseded, seqno
  <2> QED BY <2>1, <2>2, <2>3
<1> HIDE DEF N, seqno
<1>14. /\ base \in Content(v) /\ (\A j \in Keys(v) : \E x \in X : base[j] = x[j])
       /\ \A x \in X : Covers(base, x)
  <2> HIDE DEF X
  <2> QED BY <1>11, <1>12, <1>13, LatestIs
<1>15. (\A j \in Keys(v) : base[j].at <= seqno) /\ \A m \in superseded : Covers(base, m.content)
  BY <1>12, <1>13, <1>14
<1> HIDE DEF X, base
<1>16. /\ content \in Content(v) /\ content[k].at = seqno /\ \A j \in Keys(v) \ {k} : content[j] = base[j]
  <2>1. [in |-> ~base[k].in, at |-> seqno] \in Change
    BY <1>11 DEF Change
  <2> QED BY <1>14, <2>1 DEF Content
<1> HIDE DEF content
<1>17. new \in Messages(v) /\ new \in AnyMessage /\ new.variant = v /\ new.content = content /\ new.seqno = seqno
  BY <1>11, <1>16, MessagesAreAny DEF Messages
<1>18. Dated(new)
  <2>1. \A j \in Keys(v) : content[j].at <= seqno
    BY <1>11, <1>15, <1>16
  <2> QED BY <1>17, <2>1 DEF Dated
<1>19. ASSUME NEW m \in superseded PROVE Covers(content, m.content)
  <2>1. ASSUME NEW j \in Keys(v) PROVE NotBefore(content[j], m.content[j])
    <3>1. CASE j = k
      <4>1. m.content[k].at <= m.seqno /\ m.content[k].at \in Nat /\ m.seqno \in Nat /\ m.seqno < seqno
        BY <1>9, <1>11, ContentOf DEF Dated
      <4> QED BY <1>11, <1>16, <3>1, <4>1 DEF NotBefore
    <3>2. CASE j # k
      BY <1>14, <1>15, <1>16, <3>2, ContentOf DEF Covers
    <3> QED BY <3>1, <3>2
  <2> QED BY <1>16, <2>1, ContentOf DEF Covers
<1> HIDE DEF new, superseded
<1>20. swarm' \subseteq AnyMessage /\ new \in swarm'
  BY <1>2, <1>4, <1>17
<1>21. Backed(v, swarm', content)
  BY <1>17, <1>20, MemberIsBacked DEF On
<1>22. Grows
  <2> SUFFICES ASSUME NEW u \in Variants, NEW m \in On(u, swarm) PROVE Backed(u, swarm', m.content)
    BY DEF Grows
  <2>1. m \in swarm /\ m.variant = u
    BY DEF On
  <2>2. CASE m \in swarm'
    BY <1>20, <2>1, <2>2, MemberIsBacked DEF On
  <2>3. CASE m \notin swarm'
    <3>1. m \in superseded
      BY <1>2, <2>1, <2>3
    <3>2. u = v /\ m.content \in Content(v) /\ Covers(content, m.content)
      BY <1>9, <1>19, <2>1, <3>1
    <3> QED BY <1>16, <1>20, <1>21, <3>2, CoveredIsBacked
  <2> QED BY <2>2, <2>3
<1>23. Swarm'
  <2>1. \A m \in swarm' : Dated(m)
    BY <1>2, <1>18 DEF IInv, Swarm
  <2>2. n + seqno \in Nat /\ \A m \in swarm' : m.seqno <= n + seqno
    <3>1. \A m \in swarm : m.seqno \in Nat /\ m.seqno <= n
      BY <1>3, <1>4, MessageIs
    <3> QED BY <1>2, <1>3, <1>11, <1>17, <3>1
  <2> QED BY <2>1, <2>2 DEF Swarm, Bounded, Dated
<1>24. Other'
  <2>1. other = [u \in Variants |-> other[u]] /\ \A u \in Variants : Pusher(u, other[u])
    BY DEF IInv, Other
  <2>2. other' = [u \in Variants |-> other'[u]] /\ other'[v] = [content |-> content, pushed |-> {new}]
        /\ \A u \in Variants : u = v \/ other'[u] = other[u]
    BY <1>2, <2>1
  <2>3. \A u \in Variants : Pusher(u, other'[u])
    BY <1>17, <1>18, <2>1, <2>2 DEF Pusher
  <2> QED BY <2>2, <2>3 DEF Other, Pusher
<1>25. budget' \in [changes : Nat, other : Nat, faults : Nat]
  BY <1>2, Spending
<1>26. Kinds'
  BY <1>2, <1>20, <1>25, KindsAre, SameJobs DEF Kinds, durable
<1>27. Learns
  BY <1>2 DEF Learns, IInv, Runs
<1> QED BY <1>2, <1>22, <1>23, <1>24, <1>26, <1>27, SwarmStep DEF durable

\* After a kill the wrappers are what was dumped, and no run is left.
LEMMA RestartStep ==
  ASSUME IInv, Restart
  PROVE  IInv'
<1>1. /\ wrapper' = dump /\ current' = NoJob /\ run' = [r \in RunIds |-> Idle] /\ merge' = NoMerge
      /\ lost' \in BOOLEAN /\ UNCHANGED <<dump, convo, polled, external>>
  BY KindsAre DEF Restart
<1>2. Devices' /\ Wrappers' /\ Cleans'
  BY <1>1 DEF IInv, Devices, Wrappers, Cleans, external
<1>3. run' \in [RunIds -> Run] /\ Runs'
  <2>1. run' \in [RunIds -> Run] /\ \A r \in RunIds : run'[r] = Idle
    BY <1>1, IdleIs
  <2>2. \A r \in RunIds : Flying(run'[r]) /\ InStep(run'[r], wrapper') /\ Answered(run'[r], swarm')
    BY <2>1, IdleIs, EmptyRun
  <2> QED BY <2>1, <2>2 DEF Runs, Flying, InStep, Answered
<1>4. Jobs'
  <2> DEFINE a == [i \in DOMAIN waiting |-> IF waiting[i] = "spent" THEN "retried" ELSE waiting[i]]
             b == IF current = NoJob THEN <<>> ELSE <<current.job>>
  <2>1. Jobs /\ waiting' = a \o b
    BY KindsAre DEF Restart
  <2>2. a \in Seq(Job) /\ Len(a) = Len(waiting) /\ Len(waiting) \in Nat
    <3>1. waiting \in Seq(Job)
      BY <2>1 DEF Jobs
    <3>2. DOMAIN waiting = 1 .. Len(waiting) /\ Len(waiting) \in Nat
      BY <3>1
    <3>3. \A i \in DOMAIN waiting : a[i] \in Job
      BY <3>1 DEF Job
    <3> HIDE DEF a
    <3>4. a \in [1 .. Len(waiting) -> Job]
      BY <3>2, <3>3 DEF a
    <3> QED BY <3>2, <3>4
  <2>3. b \in Seq(Job) /\ Len(b) = IF current = NoJob THEN 0 ELSE 1
    BY <2>1 DEF Jobs, Job
  <2> HIDE DEF a, b
  <2>4. a \o b \in Seq(Job) /\ Len(a \o b) = Len(a) + Len(b)
    BY <2>2, <2>3, ConcatProperties
  <2>5. waiting' \in Seq(Job) /\ Len(waiting') <= 2 /\ Len(waiting') \in Nat
    BY <2>1, <2>2, <2>3, <2>4 DEF Jobs
  <2> QED BY <1>1, <2>5 DEF Jobs
<1>5. Kinds'
  BY <1>1, <1>3, <1>4, KindsAre, NoMergeIs, Spending DEF Kinds, external, Restart
<1>6. Swarm' /\ Other'
  BY <1>1 DEF Swarm, Other, IInv, external
<1> QED BY <1>2, <1>3, <1>5, <1>6 DEF IInv

-----------------------------------------------------------------------------
(* The invariant *)

LEMMA InitIsSound == Init => IInv
<1> SUFFICES ASSUME Init PROVE IInv
  OBVIOUS
<1> USE DEF Init
<1>1. ASSUME NEW v \in Variants
      PROVE  Edited(v) \in Wrapper(v) /\ Sound(v, Edited(v)) /\ Clean(v, Edited(v), {})
  <2>1. CASE Keys(v) \cap Contacts = {}
    <3>1. Edited(v) = [content |-> Empty(v), seqno |-> 0, state |-> "clean", hashes |-> {}]
      BY <2>1 DEF Edited, New
    <3>2. Edited(v) \in Wrapper(v)
      BY <3>1, EmptyIs DEF Wrapper
    <3>3. NotBefore(Never, Never)
      BY DEF NotBefore, Never
    <3> QED BY <3>1, <3>2, <3>3, EmptyIs DEF Sound, Clean, Backed, NeedsPush, Never
  <2>2. CASE Keys(v) \cap Contacts # {}
    <3> DEFINE all == [k \in Keys(v) |-> [in |-> TRUE, at |-> 1]]
    <3>1. Edited(v) = [content |-> all, seqno |-> 1, state |-> "dirty", hashes |-> {}]
      BY <2>2 DEF Edited, New
    <3>2. all \in Content(v)
      BY DEF Content, Change
    <3>3. Edited(v) \in Wrapper(v)
      <4> HIDE DEF all
      <4> QED BY <3>1, <3>2 DEF Wrapper
    <3> QED BY <3>1, <3>3 DEF Sound, Clean, NeedsPush
  <2> QED BY <2>1, <2>2
<1>2. /\ wrapper = [v \in Variants |-> wrapper[v]] /\ dump = wrapper
      /\ \A v \in Variants : wrapper[v] = Edited(v)
  OBVIOUS
<1>3. Devices /\ Wrappers /\ Cleans
  BY <1>1, <1>2 DEF Devices, Wrappers, Cleans
<1>4. run \in [RunIds -> Run] /\ Runs
  <2>1. run \in [RunIds -> Run] /\ \A r \in RunIds : run[r] = Idle
    BY IdleIs
  <2> QED BY <2>1, IdleIs, EmptyRun DEF Runs
<1>5. Kinds
  <2>1. Jobs
    BY DEF Jobs, Job
  <2>2. budget \in [changes : Nat, other : Nat, faults : Nat]
    BY BoundAssumption
  <2> QED BY <1>4, <2>1, <2>2, NoMergeIs DEF Kinds
<1>6. Swarm
  BY DEF Swarm, Bounded
<1>7. Other
  BY DEF Other, Pusher
<1> QED BY <1>3, <1>4, <1>5, <1>6, <1>7 DEF IInv

\* Every step keeps the invariant, and what the swarm stored stays backed.
LEMMA NextIsSound ==
  ASSUME IInv, [Next]_vars
  PROVE  IInv' /\ (swarm' = swarm \/ Grows)
<1>1. CASE \E g \in Groups : JoinGroup(g) \/ Kicked(g) \/ CommitConversation(g)
  BY <1>1, JoinGroupStep, KickedStep, CommitStep DEF JoinGroup, Kicked, CommitConversation, external
<1>2. CASE \E c \in Contacts : EditContact(c)
  BY <1>2, EditContactStep DEF EditContact, external
<1>3. CASE \E i \in DOMAIN waiting : StartAttempt(i)
  BY <1>3, StartAttemptStep DEF StartAttempt, external
<1>4. ASSUME NEW r \in RunIds, RunStep(r) PROVE IInv' /\ (swarm' = swarm \/ Grows)
  <2>1. CASE PendingChanges(r)
    BY <2>1, PendingChangesStep DEF PendingChanges, external
  <2>2. CASE Send(r)
    BY <2>2, SendStep
  <2>3. CASE EndRun(r)
    BY <2>3, EndRunStep DEF EndRun, external
  <2> QED BY <1>4, <2>1, <2>2, <2>3 DEF RunStep
<1>5. CASE TimeOut
  BY <1>5, TimeOutStep DEF TimeOut, external
<1>6. CASE Poll
  BY <1>6, PollStep DEF Poll, external
<1>7. CASE MergeStep
  <2>1. CASE AskForGroups
    BY <2>1, AskForGroupsStep DEF AskForGroups, external
  <2>2. CASE CompareGroups
    BY <2>2, CompareGroupsStep DEF CompareGroups, external
  <2>3. CASE LeaveGroup
    BY <2>3, LeaveGroupStep DEF LeaveGroup, external
  <2>4. CASE CreateGroups
    BY <2>4, CreateGroupsStep DEF CreateGroups, external
  <2>5. CASE UpdateGroup
    BY <2>5, UpdateGroupStep DEF UpdateGroup, external
  <2>6. CASE EndMerge
    BY <2>6, EndMergeStep DEF EndMerge, external
  <2> QED BY <1>7, <2>1, <2>2, <2>3, <2>4, <2>5, <2>6 DEF MergeStep
<1>8. CASE \E v \in Variants : \E k \in Keys(v) \cap OtherKeys : OtherChanges(v, k)
  BY <1>8, OtherChangesStep
<1>9. CASE Restart
  BY <1>9, RestartStep DEF Restart, external
<1>10. CASE UNCHANGED vars
  <2>1. UNCHANGED <<wrapper, dump, convo, swarm, polled, other, merge, waiting, current, run, budget, lost>>
    BY <1>10 DEF vars, durable, external
  <2>2. Advances /\ Dumps /\ Goes
    BY <2>1, SameAdvances, SameDumps DEF Goes
  <2>3. Kinds'
    BY <2>1, KindsAre, SameJobs DEF Kinds
  <2> QED BY <2>1, <2>2, <2>3, WrapperStep
<1> QED BY <1>1, <1>2, <1>3, <1>4, <1>5, <1>6, <1>7, <1>8, <1>9, <1>10 DEF Next

\* The invariant of ConfigSync.tla: the types, the clean wrappers, and what they need.
THEOREM Invariance == Spec => []IInv
<1>1. IInv /\ [Next]_vars => IInv'
  BY NextIsSound
<1> QED BY <1>1, InitIsSound, PTL DEF Spec

\* The type invariant (ConfigurationSyncJob.ts and configMessage.ts).
THEOREM TypeCorrect == Spec => []TypeOK
<1>1. ASSUME IInv PROVE TypeOK
  <2>1. \A v \in Variants : \A w \in {wrapper[v], dump[v]} :
          /\ w.content \in Content(v) /\ w.seqno \in Nat
          /\ w.state \in {"clean", "dirty", "waiting"} /\ w.hashes \in SUBSET Messages(v)
    BY <1>1, WrapperIs DEF IInv, Devices
  <2>2. AllMessages(swarm \union polled)
    BY <1>1, KindsAre, MessageIs DEF AllMessages
  <2>3. \A v \in Variants : other[v].content \in Content(v) /\ other[v].pushed \subseteq Messages(v)
    BY <1>1, EmptyIs DEF IInv, Other, Pusher, Messages
  <2>4. /\ \A i \in DOMAIN waiting : waiting[i] \in Job
        /\ Len(waiting) + (IF current = NoJob THEN 0 ELSE 1) <= 2
        /\ current \in [job : {"new", "retried"}, run : RunIds] \union {NoJob}
    BY <1>1, KindsAre DEF Jobs
  <2>5. ASSUME NEW r \in RunIds
        PROVE  /\ run[r].phase \in {"idle", "dumped", "sending", "answered"}
               /\ AllMessages(ToSet(run[r].todo)) /\ AllMessages(run[r].old)
    <3>1. run[r] \in Run
      BY <1>1, KindsAre
    <3>2. run[r].phase \in {"idle", "dumped", "sending", "answered"}
      BY <3>1 DEF Run
    <3> QED BY <3>1, <3>2, RunIs, MessageIs DEF AllMessages, ToSet
  <2>6. /\ merge.phase \in {"none", "merged", "asked", "leaving", "updating", "handled"}
        /\ merge.inWrapper \union merge.todo \union merge.join \subseteq Groups
    BY <1>1, KindsAre DEF Merge
  <2>7. \A kind \in DOMAIN budget : budget[kind] \in Nat
    BY <1>1, KindsAre
  <2> QED BY <1>1, <2>1, <2>2, <2>3, <2>4, <2>5, <2>6, <2>7, KindsAre DEF TypeOK
<1> QED BY <1>1, Invariance, PTL

\* No change is taken for pushed that the swarm does not have (resultsToSuccessfulChange, run).
THEOREM CleanIsStored == Spec => []CleanMeansStored
<1>1. ASSUME IInv PROVE CleanMeansStored
  <2> SUFFICES ASSUME NEW v \in Variants, NEW w \in {wrapper[v], dump[v]}, ~NeedsPush(w)
               PROVE  Covers(SwarmContent(v, swarm), w.content)
    BY DEF CleanMeansStored
  <2>1. w.content \in Content(v) /\ Backed(v, swarm, w.content)
    BY <1>1, WrapperIs DEF IInv, Devices, Cleans, Clean
  <2>2. swarm \subseteq AnyMessage /\ (\A m \in swarm : Dated(m)) /\ Bounded(swarm)
    BY <1>1, KindsAre DEF IInv, Swarm
  <2> QED BY <2>1, <2>2, SwarmContentIs
<1> QED BY <1>1, Invariance, PTL

\* The swarm only grows: what is deleted was superseded (pendingChangesForPubkey, the delete of a request).
THEOREM SwarmOnlyGrows == Spec => NothingLeavesTheSwarm
<1>1. ASSUME IInv, [Next]_vars, NEW v \in Variants
      PROVE  Covers(SwarmContent(v, swarm)', SwarmContent(v, swarm))
  <2>1. SwarmContent(v, swarm)' = SwarmContent(v, swarm')
    BY DEF SwarmContent, Latest, On
  <2>2. IInv' /\ (swarm' = swarm \/ Grows)
    BY <1>1, NextIsSound
  <2>3. /\ swarm \subseteq AnyMessage /\ (\A m \in swarm : Dated(m)) /\ Bounded(swarm)
        /\ swarm' \subseteq AnyMessage /\ (\A m \in swarm' : Dated(m)) /\ Bounded(swarm')
    BY <1>1, <2>2 DEF IInv, Kinds, Swarm, Dated, Bounded
  <2>4. /\ SwarmContent(v, swarm) \in Content(v) /\ Backed(v, swarm, SwarmContent(v, swarm))
        /\ \A c \in Content(v) : Backed(v, swarm', c) => Covers(SwarmContent(v, swarm'), c)
    BY <2>3, SwarmContentIs
  <2>5. Backed(v, swarm', SwarmContent(v, swarm))
    <3>1. CASE swarm' = swarm
      BY <2>4, <3>1
    <3>2. CASE Grows
      <4>1. \A m \in On(v, swarm) : Backed(v, swarm', m.content)
        BY <3>2 DEF Grows
      <4> QED BY <2>3, <2>4, <4>1, BackedByAll
    <3> QED BY <2>2, <3>1, <3>2
  <2> QED BY <2>1, <2>4, <2>5
<1>2. IInv /\ [Next]_vars => [\A v \in Variants : Covers(SwarmContent(v, swarm)', SwarmContent(v, swarm))]_vars
  BY <1>1
<1> QED BY <1>2, Invariance, PTL DEF Spec, NothingLeavesTheSwarm

=============================================================================
