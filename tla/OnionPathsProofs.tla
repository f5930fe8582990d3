--------------------------- MODULE OnionPathsProofs ---------------------------
(***************************************************************************)
(* Proofs about the onion paths, for any number of nodes, callers, hops,   *)
(* guards, thresholds and failures: TypeOK, PathsAreWhole,                 *)
(* PathsAreDisjoint and DroppedNodesLeave.                                 *)
(*                                                                         *)
(* A repair that waits for a seed node writes over the path it remembers.  *)
(* The path is whole nevertheless, because the copy it was taken from was  *)
(* (Remembers), and it is disjoint from the others if the paths are still  *)
(* those of the copy.  A build that selects guards is one in progress      *)
(* (Building), so that its attempts never go below zero.                   *)
(*                                                                         *)
(* That dropped nodes leave is a second invariant, JInv, proved from the   *)
(* first.  A path that failed is dropped by its guard, after its nodes     *)
(* were counted and perhaps replaced: the guard still leads it then        *)
(* (Guarded), because one failure at a time is handled in microtasks       *)
(* (OneBusy).                                                              *)
(***************************************************************************)
EXTENDS OnionPaths, FiltersProofs, FiniteSetTheorems

Whole(p) == Len(p) = Hops /\ IsInjective(p)

Request ==
  [at : {"idle", "path", "waiting", "sent", "failing", "dropping", "fetching", "rebuilding"},
   path : Seq(Nodes), tries : Nat, todo : Seq(Nodes), guard : Nodes \union {"none"},
   count : Nat, node : Nodes \union {"none"}, index : Nat, copy : Seq(Seq(Nodes))]

\* What a request remembers: the path it was sent over, the guard of a path that
\* failed, the node to replace, and the paths when that began to wait.
Remembers(q) ==
  /\ q.at = "sent" => q.path # <<>>
  /\ q.count > 0 => q.guard \in Nodes
  /\ q.at \in {"dropping", "fetching"} => q.node \in Nodes
  /\ q.at = "fetching" =>
       /\ q.index \in DOMAIN q.copy /\ q.node \in Range(q.copy[q.index])
       /\ \A p \in Range(q.copy) : Whole(p)

Good == {q \in Request : Remembers(q)}

Building == candidates # {} => build > 0

Types ==
  /\ pool \subseteq Nodes /\ poolDb \subseteq Nodes
  /\ guards \subseteq Nodes /\ guardDb \subseteq Nodes
  /\ pathFailureCount \in [Nodes -> 0 .. PathThreshold - 1]
  /\ snodeFailureCount \in [Nodes -> 0 .. SnodeThreshold - 1]
  /\ build \in 0 .. BuildTries /\ candidates \subseteq Nodes
  /\ failures \in 0 .. MaxFailures /\ stale \in BOOLEAN /\ stranded \subseteq Nodes
  /\ Building

Paths ==
  /\ onionPaths \in Seq(Seq(Nodes))
  /\ PathsAreWhole
  /\ PathsAreDisjoint

IInv ==
  /\ Types
  /\ req \in [Requests -> Good]
  /\ Paths

-----------------------------------------------------------------------------
(* Requests *)

LEMMA IdleIsGood == Idle \in Good
BY DEF Good, Request, Remembers, Idle

\* Every way in which a request goes on from idle.
LEMMA FreshIsGood ==
  /\ [Idle EXCEPT !.at = "path"] \in Good
  /\ [Idle EXCEPT !.at = "rebuilding"] \in Good
  /\ \A p \in Seq(Nodes) \ {<<>>} : [Idle EXCEPT !.at = "sent", !.path = p] \in Good
  /\ \A n \in Nodes :
       /\ [Idle EXCEPT !.at = "dropping", !.node = n] \in Good
       /\ [Idle EXCEPT !.at = "failing", !.todo = <<n>>] \in Good
  /\ \A s \in Seq(Nodes), g \in Nodes, c \in Nat :
       [Idle EXCEPT !.at = "failing", !.todo = s, !.guard = g, !.count = c] \in Good
<1> DEFINE i == Idle
<1>0. i \in Good
  BY IdleIsGood
<1> HIDE DEF i
<1>1. [i EXCEPT !.at = "path"] \in Good
  BY <1>0 DEF Good, Request, Remembers
<1>2. [i EXCEPT !.at = "rebuilding"] \in Good
  BY <1>0 DEF Good, Request, Remembers
<1>3. ASSUME NEW p \in Seq(Nodes), p # <<>>
      PROVE  [i EXCEPT !.at = "sent", !.path = p] \in Good
  BY <1>0, <1>3 DEF Good, Request, Remembers
<1>4. ASSUME NEW n \in Nodes PROVE [i EXCEPT !.at = "dropping", !.node = n] \in Good
  BY <1>0 DEF Good, Request, Remembers
<1>5. ASSUME NEW n \in Nodes PROVE [i EXCEPT !.at = "failing", !.todo = <<n>>] \in Good
  <2> DEFINE t == <<n>>
  <2>1. t \in Seq(Nodes)
    OBVIOUS
  <2> HIDE DEF t
  <2>2. [i EXCEPT !.at = "failing", !.todo = t] \in Good
    BY <1>0, <2>1 DEF Good, Request, Remembers
  <2> QED BY <2>2 DEF t
<1>6. ASSUME NEW s \in Seq(Nodes), NEW g \in Nodes, NEW c \in Nat
      PROVE  [i EXCEPT !.at = "failing", !.todo = s, !.guard = g, !.count = c] \in Good
  BY <1>0 DEF Good, Request, Remembers
<1> QED BY <1>1, <1>2, <1>3, <1>4, <1>5, <1>6 DEF i

LEMMA RequestIs ==
  ASSUME NEW q \in Good
  PROVE  /\ q.path \in Seq(Nodes) /\ q.tries \in Nat /\ q.todo \in Seq(Nodes)
         /\ q.count \in Nat /\ q.index \in Nat /\ q.copy \in Seq(Seq(Nodes))
         /\ q.node \in Nodes \union {"none"} /\ q.guard \in Nodes \union {"none"}
         /\ Remembers(q)
BY DEF Good, Request

\* And from what it is.
LEMMA NextIsGood ==
  ASSUME NEW q \in Good
  PROVE  /\ [q EXCEPT !.at = "waiting"] \in Good
         /\ [q EXCEPT !.at = "path", !.tries = @ + 1] \in Good
         /\ q.todo # <<>> => Head(q.todo) \in Nodes /\ [q EXCEPT !.todo = Tail(@)] \in Good
         /\ \A n \in Nodes : DropNext(n, q) \in Good
         /\ [q EXCEPT !.at = "failing", !.node = "none"] \in Good
         /\ [q EXCEPT !.at = "failing", !.node = "none", !.index = 0, !.copy = <<>>] \in Good
<1>1. [q EXCEPT !.at = "waiting"] \in Good
  BY DEF Good, Request, Remembers
<1>2. [q EXCEPT !.at = "path", !.tries = @ + 1] \in Good
  <2> DEFINE n == q.tries + 1
  <2>1. n \in Nat
    BY RequestIs
  <2> HIDE DEF n
  <2>2. [q EXCEPT !.at = "path", !.tries = n] \in Good
    BY <2>1 DEF Good, Request, Remembers
  <2> QED BY <2>2 DEF n
<1>3. ASSUME q.todo # <<>>
      PROVE  Head(q.todo) \in Nodes /\ [q EXCEPT !.todo = Tail(@)] \in Good
  <2>1. q.todo \in Seq(Nodes)
    BY DEF Good, Request
  <2>2. Head(q.todo) \in Nodes /\ Tail(q.todo) \in Seq(Nodes)
    BY <1>3, <2>1
  <2> DEFINE t == Tail(q.todo)
  <2> HIDE DEF t
  <2>3. [q EXCEPT !.todo = t] \in Good
    BY <2>2 DEF Good, Request, Remembers, t
  <2> QED BY <2>2, <2>3 DEF t
<1>4. ASSUME NEW n \in Nodes PROVE DropNext(n, q) \in Good
  BY DEF DropNext, Good, Request, Remembers
<1>5. [q EXCEPT !.at = "failing", !.node = "none"] \in Good
  BY DEF Good, Request, Remembers
<1>6. [q EXCEPT !.at = "failing", !.node = "none", !.index = 0, !.copy = <<>>] \in Good
  <2>1. <<>> \in Seq(Seq(Nodes))
    OBVIOUS
  <2> QED BY <2>1 DEF Good, Request, Remembers
<1> QED BY <1>1, <1>2, <1>3, <1>4, <1>5, <1>6

LEMMA BecomeGood ==
  ASSUME req \in [Requests -> Good], NEW r, NEW q \in Good, Become(r, q)
  PROVE  req' \in [Requests -> Good]
BY DEF Become

-----------------------------------------------------------------------------
(* Paths *)

LEMMA MinIs ==
  ASSUME NEW T, T \subseteq Nat, T # {}
  PROVE  Min(T) \in T
BY LeastNumber DEF Min

\* findIndex finds one of them.
LEMMA IndexIs ==
  ASSUME onionPaths \in Seq(Seq(Nodes)), NEW n
  PROVE  /\ IndexOf(With(n)) \in Nat
         /\ IndexOf(With(n)) # 0 =>
              IndexOf(With(n)) \in DOMAIN onionPaths /\ n \in Range(onionPaths[IndexOf(With(n))])
<1>1. With(n) \subseteq DOMAIN onionPaths /\ DOMAIN onionPaths \subseteq Nat
  BY DEF With
<1>2. CASE With(n) = {}
  BY <1>2 DEF IndexOf
<1>3. CASE With(n) # {}
  <2>1. Min(With(n)) \in With(n)
    BY <1>1, <1>3, MinIs
  <2>2. IndexOf(With(n)) = Min(With(n))
    BY <1>3 DEF IndexOf
  <2> QED BY <1>1, <2>1, <2>2 DEF With
<1> QED BY <1>2, <1>3

\* A node leaves a whole path and one that is in no path comes: the path is whole,
\* and as disjoint from the others as it was.
LEMMA PatchedIs ==
  ASSUME NEW ps \in Seq(Seq(Nodes)), NEW i \in DOMAIN ps, NEW n \in Range(ps[i]),
         Whole(ps[i]), NEW new \in Nodes \ NodesIn(ps)
  PROVE  LET q == Patched(ps[i], n, new)
         IN  /\ q \in Seq(Nodes) /\ Whole(q)
             /\ \A j \in DOMAIN ps : Range(q) \intersect Range(ps[j]) \subseteq Range(ps[i]) \intersect Range(ps[j])
<1> DEFINE p == ps[i]
           R == {p[k] : k \in {j \in DOMAIN p : p[j] # n}}
           u == Only(p, R)
<1>1. p \in Seq(Nodes) /\ n \in Nodes /\ Len(p) = Hops /\ IsInjective(p)
  <2>1. p \in Seq(Nodes)
    OBVIOUS
  <2> QED BY <2>1 DEF Range, Whole
<1>2. Range(p) \intersect R = Range(p) \intersect (Nodes \ {n})
  BY <1>1 DEF Range
<1> HIDE DEF R
<1>3. u = Only(p, Nodes \ {n})
  BY <1>1, <1>2, OnlySame
<1> HIDE DEF u
<1>4. u \in Seq(Nodes) /\ Range(u) = Range(p) \intersect (Nodes \ {n}) /\ IsInjective(u)
  BY <1>1, <1>3, OnlyType, OnlyRange, OnlyInjective
<1>5. Len(u) = Len(p) - 1
  <2>1. \A y \in Nodes : y \in Nodes \ {n} <=> y # n
    OBVIOUS
  <2>2. Len(Only(p, Nodes \ {n})) = Len(p) - 1
    <3> DEFINE S == Nodes \ {n}
    <3>1. \A y \in Nodes : y \in S <=> y # n
      BY <2>1
    <3> HIDE DEF S
    <3>2. \A s \in Seq(Nodes) :
            IsInjective(s) /\ n \in Range(s) => Len(Only(s, S)) = Len(s) - 1
      BY <1>1, <3>1, OnlyLess
    <3>3. Len(Only(p, S)) = Len(p) - 1
      BY <1>1, <3>2
    <3> QED BY <3>3 DEF S
  <2> QED BY <1>3, <2>2
<1>6. Patched(ps[i], n, new) = Append(u, new)
  BY DEF Patched, Filter, u, R
<1>7. \A j \in DOMAIN ps : new \notin Range(ps[j])
  BY DEF NodesIn
<1>8. Append(u, new) \in Seq(Nodes) /\ Len(Append(u, new)) = Len(u) + 1
  BY <1>4
<1>9. Range(Append(u, new)) = Range(u) \union {new}
  BY <1>4, RangeOfAppend
<1>10. new \notin Range(u)
  BY <1>4, <1>7
<1>11. IsInjective(Append(u, new))
  <2>1. /\ DOMAIN u = 1 .. Len(u) /\ Len(u) \in Nat /\ DOMAIN Append(u, new) = 1 .. Len(u) + 1
        /\ Append(u, new)[Len(u) + 1] = new
        /\ \A k \in 1 .. Len(u) : Append(u, new)[k] = u[k]
    BY <1>4
  <2>2. \A k \in 1 .. Len(u) : u[k] # new
    BY <1>10, <2>1 DEF Range
  <2> QED BY <1>4, <2>1, <2>2 DEF IsInjective
<1>12. Hops \in Nat
  BY CountAssumption
<1>13. Len(Append(u, new)) = Hops
  BY <1>1, <1>5, <1>8, <1>12
<1>14. \A j \in DOMAIN ps : Range(Append(u, new)) \intersect Range(ps[j]) \subseteq Range(ps[i]) \intersect Range(ps[j])
  BY <1>4, <1>7, <1>9
<1> QED BY <1>6, <1>8, <1>11, <1>13, <1>14 DEF Whole

\* A write at an index, wherever that is.
LEMMA WrittenIs ==
  ASSUME onionPaths \in Seq(Seq(Nodes)), NEW i \in Nat, i # 0, NEW q \in Seq(Nodes)
  PROVE  LET w == Written(i, q)
         IN  /\ w \in Seq(Seq(Nodes))
             /\ \A p \in Range(w) : p = q \/ p = Hole \/ p \in Range(onionPaths)
             /\ i \in DOMAIN onionPaths =>
                  /\ DOMAIN w = DOMAIN onionPaths /\ w[i] = q
                  /\ \A j \in DOMAIN onionPaths \ {i} : w[j] = onionPaths[j]
<1> DEFINE w == Written(i, q)
           len == IF i > Len(onionPaths) THEN i ELSE Len(onionPaths)
<1>1. /\ Len(onionPaths) \in Nat /\ DOMAIN onionPaths = 1 .. Len(onionPaths)
      /\ \A j \in DOMAIN onionPaths : onionPaths[j] \in Seq(Nodes)
  OBVIOUS
<1>2. len \in Nat /\ i \in 1 .. len /\ DOMAIN onionPaths \subseteq 1 .. len
  BY <1>1
<1>3. w = [j \in 1 .. len |-> IF j = i THEN q ELSE IF j \in DOMAIN onionPaths THEN onionPaths[j] ELSE Hole]
  BY DEF Written
<1>4. i \in DOMAIN onionPaths => len = Len(onionPaths)
  <2> HIDE DEF w
  <2>1. i \in DOMAIN onionPaths => ~(i > Len(onionPaths))
    BY <1>1
  <2> QED BY <2>1
<1>5. Hole \in Seq(Nodes)
  BY DEF Hole
<1> HIDE DEF w, len
<1>6. DOMAIN w = 1 .. len /\ \A j \in 1 .. len : w[j] = IF j = i THEN q ELSE IF j \in DOMAIN onionPaths THEN onionPaths[j] ELSE Hole
  BY <1>3
<1>7. w \in Seq(Seq(Nodes))
  <2>1. w \in [1 .. len -> Seq(Nodes)]
    BY <1>1, <1>3, <1>5
  <2> QED BY <1>2, <2>1
<1>8. \A p \in Range(w) : p = q \/ p = Hole \/ p \in Range(onionPaths)
  BY <1>6 DEF Range
<1>9. i \in DOMAIN onionPaths =>
        /\ DOMAIN w = DOMAIN onionPaths /\ w[i] = q
        /\ \A j \in DOMAIN onionPaths \ {i} : w[j] = onionPaths[j]
  BY <1>1, <1>2, <1>4, <1>6
<1> QED BY <1>7, <1>8, <1>9 DEF w

\* Paths built are whole and disjoint.
LEMMA BuiltIs ==
  ASSUME NEW gs \in SUBSET Nodes, NEW others \in SUBSET Nodes, NEW ps \in PathsFrom(gs, others)
  PROVE  /\ ps \in Seq(Seq(Nodes))
         /\ \A p \in Range(ps) : Whole(p)
         /\ \A i, j \in DOMAIN ps : Range(ps[i]) \intersect Range(ps[j]) # {} => i = j
<1>1. Cardinality(gs) \in Nat /\ Hops \in Nat
  BY NodesAssumption, CountAssumption, FS_Subset, FS_CardinalityType
<1>2. /\ ps \in [1 .. Cardinality(gs) -> [1 .. Hops -> gs \union others]]
      /\ \A i, j \in DOMAIN ps, k, l \in 1 .. Hops : ps[i][k] = ps[j][l] => i = j /\ k = l
  BY DEF PathsFrom
<1>3. \A i \in DOMAIN ps : ps[i] \in [1 .. Hops -> Nodes]
  BY <1>2
<1>4. \A i \in DOMAIN ps : ps[i] \in Seq(Nodes) /\ Len(ps[i]) = Hops /\ DOMAIN ps[i] = 1 .. Hops
  BY <1>1, <1>3
<1>5. ps \in Seq(Seq(Nodes))
  <2>1. ps \in [1 .. Cardinality(gs) -> Seq(Nodes)]
    BY <1>2, <1>4
  <2> QED BY <1>1, <2>1
<1>6. \A i \in DOMAIN ps : Whole(ps[i])
  BY <1>2, <1>4 DEF Whole, IsInjective
<1>7. \A i, j \in DOMAIN ps : Range(ps[i]) \intersect Range(ps[j]) # {} => i = j
  BY <1>2, <1>4 DEF Range
<1> QED BY <1>5, <1>6, <1>7 DEF Range

-----------------------------------------------------------------------------
(* Steps that actions share *)

LEMMA PathsKept ==
  ASSUME Paths, UNCHANGED <<onionPaths, stale>>
  PROVE  Paths'
BY DEF Paths, PathsAreWhole, PathsAreDisjoint, HasHole

\* A path is repaired among those it was taken from.
LEMMA PathsRepaired ==
  ASSUME Paths, NEW i \in DOMAIN onionPaths, NEW n \in Range(onionPaths[i]),
         NEW new \in Nodes \ NodesIn(onionPaths),
         onionPaths' = Written(i, Patched(onionPaths[i], n, new)), stale' = stale
  PROVE  Paths'
<1> DEFINE q == Patched(onionPaths[i], n, new)
<1>1. /\ onionPaths \in Seq(Seq(Nodes)) /\ i \in Nat /\ i # 0
      /\ onionPaths[i] \in Range(onionPaths)
  BY DEF Paths, Range
<1>2. Whole(onionPaths[i])
  <2>1. onionPaths[i] # Hole
    BY DEF Range, Hole
  <2> QED BY <1>1, <2>1 DEF Paths, PathsAreWhole, Whole
<1>3. /\ q \in Seq(Nodes) /\ Whole(q)
      /\ \A j \in DOMAIN onionPaths :
           Range(q) \intersect Range(onionPaths[j]) \subseteq Range(onionPaths[i]) \intersect Range(onionPaths[j])
  BY <1>1, <1>2, PatchedIs
<1> HIDE DEF q
<1>4. /\ onionPaths' \in Seq(Seq(Nodes))
      /\ DOMAIN onionPaths' = DOMAIN onionPaths /\ onionPaths'[i] = q
      /\ \A j \in DOMAIN onionPaths \ {i} : onionPaths'[j] = onionPaths[j]
  BY <1>1, <1>3, WrittenIs DEF q
<1>5. PathsAreWhole'
  <2> SUFFICES ASSUME NEW j \in DOMAIN onionPaths
               PROVE  onionPaths'[j] = Hole \/ Whole(onionPaths'[j])
    BY <1>4 DEF PathsAreWhole, Range, Whole
  <2>1. CASE j = i
    BY <1>3, <1>4, <2>1
  <2>2. CASE j # i
    BY <1>4, <2>2 DEF Paths, PathsAreWhole, Whole, Range
  <2> QED BY <2>1, <2>2
<1>6. PathsAreDisjoint'
  <2> SUFFICES ASSUME ~stale
               PROVE  /\ \A j \in DOMAIN onionPaths : onionPaths'[j] # Hole
                      /\ \A j, k \in DOMAIN onionPaths :
                           Range(onionPaths'[j]) \intersect Range(onionPaths'[k]) # {} => j = k
    BY <1>4 DEF PathsAreDisjoint, HasHole
  <2>1. /\ \A j \in DOMAIN onionPaths : onionPaths[j] # Hole
        /\ \A j, k \in DOMAIN onionPaths :
             Range(onionPaths[j]) \intersect Range(onionPaths[k]) # {} => j = k
    BY DEF Paths, PathsAreDisjoint, HasHole
  <2>2. q # Hole
    BY <1>3, CountAssumption DEF Whole, Hole
  <2>3. \A j \in DOMAIN onionPaths : onionPaths'[j] # Hole
    BY <1>4, <2>1, <2>2
  <2>4. ASSUME NEW j \in DOMAIN onionPaths, NEW k \in DOMAIN onionPaths,
               Range(onionPaths'[j]) \intersect Range(onionPaths'[k]) # {}
        PROVE  j = k
    <3>1. CASE j = i /\ k # i
      BY <1>3, <1>4, <2>1, <2>4, <3>1
    <3>2. CASE j # i /\ k = i
      BY <1>3, <1>4, <2>1, <2>4, <3>2
    <3>3. CASE j # i /\ k # i
      BY <1>4, <2>1, <2>4, <3>3
    <3> QED BY <3>1, <3>2, <3>3
  <2> QED BY <2>3, <2>4
<1> QED BY <1>4, <1>5, <1>6 DEF Paths

\* Some paths are dropped.
LEMMA PathsDropped ==
  ASSUME Paths, NEW R, stale' = stale, onionPaths' = Only(onionPaths, R)
  PROVE  Paths'
<1>1. onionPaths' = Only(onionPaths, R)
  OBVIOUS
<1>2. /\ onionPaths' \in Seq(Seq(Nodes)) /\ Range(onionPaths') \subseteq Range(onionPaths)
      /\ IsInjective(onionPaths) => IsInjective(onionPaths')
  <2>0. onionPaths \in Seq(Seq(Nodes))
    BY DEF Paths
  <2>1. Only(onionPaths, R) \in Seq(Seq(Nodes))
    BY <2>0, OnlyType
  <2>2. Range(Only(onionPaths, R)) = Range(onionPaths) \intersect R
    BY <2>0, OnlyRange
  <2>3. IsInjective(onionPaths) => IsInjective(Only(onionPaths, R))
    BY <2>0, OnlyInjective
  <2> QED BY <1>1, <2>1, <2>2, <2>3
<1>3. PathsAreWhole'
  BY <1>2 DEF Paths, PathsAreWhole
<1>4. PathsAreDisjoint'
  <2> SUFFICES ASSUME ~stale
               PROVE  /\ ~HasHole'
                      /\ \A j, k \in DOMAIN onionPaths' :
                           Range(onionPaths'[j]) \intersect Range(onionPaths'[k]) # {} => j = k
    BY DEF PathsAreDisjoint
  <2>1. /\ ~HasHole
        /\ \A j, k \in DOMAIN onionPaths :
             Range(onionPaths[j]) \intersect Range(onionPaths[k]) # {} => j = k
    BY DEF Paths, PathsAreDisjoint
  <2>2. \A k \in DOMAIN onionPaths' : \E j \in DOMAIN onionPaths : onionPaths'[k] = onionPaths[j]
    BY <1>2 DEF Range
  <2>3. ~HasHole'
    BY <2>1, <2>2 DEF HasHole
  <2>4. \A j \in DOMAIN onionPaths : Range(onionPaths[j]) # {}
    <3> SUFFICES ASSUME NEW j \in DOMAIN onionPaths PROVE Range(onionPaths[j]) # {}
      OBVIOUS
    <3>1. onionPaths[j] \in Seq(Nodes) /\ onionPaths[j] # <<>>
      BY <2>1 DEF Paths, HasHole, Hole
    <3> DEFINE p == onionPaths[j]
    <3> HIDE DEF p
    <3>2. 1 \in DOMAIN p
      BY <3>1 DEF p
    <3> QED BY <3>2 DEF Range, p
  <2>5. IsInjective(onionPaths)
    <3> SUFFICES ASSUME NEW j \in DOMAIN onionPaths, NEW k \in DOMAIN onionPaths, onionPaths[j] = onionPaths[k]
                 PROVE  j = k
      BY DEF IsInjective
    <3> QED BY <2>1, <2>4
  <2>6. ASSUME NEW j \in DOMAIN onionPaths', NEW k \in DOMAIN onionPaths',
               Range(onionPaths'[j]) \intersect Range(onionPaths'[k]) # {}
        PROVE  j = k
    <3>1. PICK a \in DOMAIN onionPaths, b \in DOMAIN onionPaths :
            onionPaths'[j] = onionPaths[a] /\ onionPaths'[k] = onionPaths[b]
      BY <2>2
    <3>2. a = b
      BY <2>1, <2>6, <3>1
    <3>3. onionPaths'[j] = onionPaths'[k]
      BY <3>1, <3>2
    <3> QED BY <1>2, <2>5, <3>3 DEF IsInjective
  <2> QED BY <2>3, <2>6
<1> QED BY <1>2, <1>3, <1>4 DEF Paths

\* An attempt to build paths ends.
LEMMA AttemptEnded ==
  ASSUME req \in [Requests -> Good], NEW left \in 0 .. BuildTries, EndAttempt(left)
  PROVE  req' \in [Requests -> Good] /\ build' \in 0 .. BuildTries
<1>1. build' \in 0 .. BuildTries
  BY DEF EndAttempt
<1>2. ASSUME NEW r \in Requests PROVE /\ req[r] \in Good /\ Idle \in Good
                                      /\ [req[r] EXCEPT !.at = "path", !.tries = @ + 1] \in Good
  BY NextIsGood, IdleIsGood
<1>3. req' \in [Requests -> Good]
  BY <1>2 DEF EndAttempt
<1> QED BY <1>1, <1>3

LEMMA BuildMade ==
  ASSUME Types, Paths, req \in [Requests -> Good], build > 0,
         NEW gs \in SUBSET Nodes, NEW p \in SUBSET Nodes, BuildFrom(gs, p), stale' = stale
  PROVE  req' \in [Requests -> Good] /\ build' \in 0 .. BuildTries /\ Paths'
<1>1. build - 1 \in 0 .. BuildTries /\ 0 \in 0 .. BuildTries
  BY CountAssumption DEF Types
<1>2. CASE EndAttempt(build - 1) /\ UNCHANGED onionPaths
  BY <1>1, <1>2, AttemptEnded, PathsKept
<1>3. ASSUME NEW reps \in OnePerSubnet(p), NEW twins, NEW used \in SUBSET gs,
             NEW left \in {build - 1, 0}, EndAttempt(left), onionPaths' \in PathsFrom(used, reps \ gs)
      PROVE  req' \in [Requests -> Good] /\ build' \in 0 .. BuildTries /\ Paths'
  <2>1. reps \ gs \in SUBSET Nodes /\ used \in SUBSET Nodes
    BY DEF OnePerSubnet
  <2>2. /\ onionPaths' \in Seq(Seq(Nodes))
        /\ \A q \in Range(onionPaths') : Whole(q)
        /\ \A i, j \in DOMAIN onionPaths' : Range(onionPaths'[i]) \intersect Range(onionPaths'[j]) # {} => i = j
    BY <1>3, <2>1, BuiltIs
  <2>3. ~HasHole'
    <3>1. ~Whole(Hole)
      BY CountAssumption DEF Whole, Hole
    <3> QED BY <2>2, <3>1 DEF HasHole, Range
  <2>4. Paths'
    BY <2>2, <2>3 DEF Paths, PathsAreWhole, PathsAreDisjoint, Whole
  <2> QED BY <1>1, <1>3, <2>4, AttemptEnded
<1> QED BY <1>2, <1>3 DEF BuildFrom

LEMMA PoolFetched ==
  ASSUME Types, NEW p, GetPool(p)
  PROVE  /\ p \subseteq Nodes /\ pool' \subseteq Nodes /\ poolDb' \subseteq Nodes
         /\ pathFailureCount' \in [Nodes -> 0 .. PathThreshold - 1]
         /\ snodeFailureCount' \in [Nodes -> 0 .. SnodeThreshold - 1]
<1>1. p \in {pool, poolDb, Nodes}
  BY DEF GetPool, Pools
<1>2. Zero \in [Nodes -> 0 .. PathThreshold - 1] /\ Zero \in [Nodes -> 0 .. SnodeThreshold - 1]
  BY CountAssumption DEF Zero
<1> QED BY <1>1, <1>2 DEF GetPool, Types

LEMMA PoolDropped ==
  ASSUME Types, NEW n, DropFromPool(n)
  PROVE  pool' \subseteq Nodes /\ poolDb' \subseteq Nodes
BY DEF Types, DropFromPool

-----------------------------------------------------------------------------
(* The invariant *)

LEMMA InvInit == Init => IInv
<1> SUFFICES ASSUME Init PROVE IInv
  OBVIOUS
<1>1. Types
  <2>1. pool \subseteq Nodes /\ poolDb \subseteq Nodes /\ guards \subseteq Nodes /\ guardDb \subseteq Nodes
    BY DEF Init
  <2>2. /\ pathFailureCount \in [Nodes -> 0 .. PathThreshold - 1]
        /\ snodeFailureCount \in [Nodes -> 0 .. SnodeThreshold - 1]
    BY CountAssumption DEF Init, Zero
  <2>3. build \in 0 .. BuildTries /\ candidates = {} /\ failures \in 0 .. MaxFailures
    BY CountAssumption, BoundAssumption DEF Init
  <2> QED BY <2>1, <2>2, <2>3 DEF Init, Types, Building
<1>2. req \in [Requests -> Good]
  BY IdleIsGood DEF Init
<1>3. Paths
  <2>1. onionPaths = <<>>
    BY DEF Init
  <2>2. DOMAIN onionPaths = {} /\ onionPaths \in Seq(Seq(Nodes))
    BY <2>1
  <2> QED BY <2>2 DEF Paths, PathsAreWhole, PathsAreDisjoint, HasHole, Range
<1> QED BY <1>1, <1>2, <1>3 DEF IInv

\* What a request does before its answer.
LEMMA RequestSteps ==
  ASSUME IInv, NEW r \in Requests,
         Begin(r) \/ AwaitBuild(r) \/ GetOnionPath(r) \/ Succeed(r)
  PROVE  IInv'
<1>1. /\ UNCHANGED <<memory, durable, candidates, history>>
      /\ build' \in 0 .. BuildTries /\ (build > 0 => build' > 0)
  <2>1. build \in 0 .. BuildTries /\ BuildTries \in Nat \ {0}
    BY CountAssumption DEF IInv, Types
  <2>2. CASE Begin(r) \/ GetOnionPath(r) \/ Succeed(r)
    BY <2>1, <2>2 DEF Begin, GetOnionPath, Succeed
  <2>3. CASE AwaitBuild(r)
    BY <2>1, <2>3 DEF AwaitBuild
  <2> QED BY <2>2, <2>3
<1>2. Types' /\ Paths'
  <2>1. Types'
    BY <1>1 DEF IInv, Types, Building, memory, durable, history
  <2>2. Paths'
    BY <1>1, PathsKept DEF IInv, memory, history
  <2> QED BY <2>1, <2>2
<1>3. \E q \in Good : Become(r, q)
  <2>1. CASE Begin(r)
    BY <2>1, FreshIsGood DEF Begin
  <2>2. CASE AwaitBuild(r)
    <3>1. req[r] \in Good
      BY DEF IInv
    <3> QED BY <2>2, <3>1, NextIsGood DEF AwaitBuild
  <2>3. CASE GetOnionPath(r)
    <3>1. CASE Become(r, Idle)
      BY <3>1, IdleIsGood
    <3>2. ASSUME NEW p \in Range(onionPaths) \ {Hole}, Become(r, [Idle EXCEPT !.at = "sent", !.path = p])
          PROVE  \E q \in Good : Become(r, q)
      <4>1. p \in Seq(Nodes) \ {<<>>}
        BY DEF IInv, Paths, Range, Hole
      <4>2. [Idle EXCEPT !.at = "sent", !.path = p] \in Good
        BY <4>1, FreshIsGood
      <4> QED BY <3>2, <4>2
    <3> QED BY <2>3, <3>1, <3>2 DEF GetOnionPath
  <2>4. CASE Succeed(r)
    BY <2>4, IdleIsGood DEF Succeed
  <2> QED BY <2>1, <2>2, <2>3, <2>4
<1>4. req' \in [Requests -> Good]
  BY <1>3, BecomeGood DEF IInv
<1> QED BY <1>2, <1>4 DEF IInv

\* The errors of a request.
LEMMA ErrorSteps ==
  ASSUME IInv, NEW r \in Requests, NodeNotFound(r) \/ TargetFails(r) \/ PathFails(r)
  PROVE  IInv'
<1>1. req[r] \in Good /\ req[r].path \in Seq(Nodes) /\ req[r].path # <<>>
  <2>1. req[r] \in Good /\ req[r].at = "sent"
    BY DEF IInv, NodeNotFound, TargetFails, PathFails
  <2> QED BY <2>1, RequestIs DEF Remembers
<1>2. /\ Head(req[r].path) \in Nodes /\ Tail(req[r].path) \in Seq(Nodes)
      /\ Targets(r) \subseteq Nodes
  <2> DEFINE p == req[r].path
  <2> HIDE DEF p
  <2>1. p \in Seq(Nodes) /\ p # <<>>
    BY <1>1 DEF p
  <2>2. Head(p) \in Nodes /\ Tail(p) \in Seq(Nodes)
    BY <2>1
  <2> QED BY <2>2 DEF p, Targets
<1>3. /\ UNCHANGED <<guards, guardDb, onionPaths, pathFailureCount, build, candidates, stale, stranded>>
      /\ failures' \in 0 .. MaxFailures
  <2>1. /\ UNCHANGED <<guards, guardDb, onionPaths, pathFailureCount, build, candidates, stale, stranded>>
        /\ failures > 0 /\ failures' = failures - 1
    BY DEF NodeNotFound, TargetFails, PathFails, memory, durable
  <2>2. failures \in 0 .. MaxFailures
    BY DEF IInv, Types
  <2> QED BY <2>1, <2>2, BoundAssumption
<1>4. Paths'
  BY <1>3, PathsKept DEF IInv
<1>5. /\ pool' \subseteq Nodes /\ poolDb' \subseteq Nodes
      /\ snodeFailureCount' \in [Nodes -> 0 .. SnodeThreshold - 1]
  <2>1. CASE NodeNotFound(r)
    <3>1. pool' \subseteq Nodes /\ poolDb' \subseteq Nodes
      BY <2>1, PoolDropped DEF NodeNotFound, IInv
    <3>2. PICK n : snodeFailureCount' = [snodeFailureCount EXCEPT ![n] = 0]
      BY <2>1 DEF NodeNotFound
    <3>3. snodeFailureCount \in [Nodes -> 0 .. SnodeThreshold - 1] /\ 0 \in 0 .. SnodeThreshold - 1
      BY CountAssumption DEF IInv, Types
    <3> QED BY <3>1, <3>2, <3>3
  <2>2. CASE TargetFails(r) \/ PathFails(r)
    BY <2>2 DEF TargetFails, PathFails, IInv, Types, memory, durable
  <2> QED BY <2>1, <2>2
<1>6. Types'
  BY <1>3, <1>5 DEF IInv, Types, Building
<1>7. \E q \in Good : Become(r, q)
  <2>1. CASE NodeNotFound(r)
    <3>1. PICK n \in Range(Tail(req[r].path)) \union Targets(r) :
            Become(r, [Idle EXCEPT !.at = "dropping", !.node = n])
      BY <2>1 DEF NodeNotFound
    <3>2. n \in Nodes
      BY <1>2 DEF Range
    <3>3. [Idle EXCEPT !.at = "dropping", !.node = n] \in Good
      BY <3>2, FreshIsGood
    <3> QED BY <3>1, <3>3
  <2>2. CASE TargetFails(r)
    <3>1. PICK n \in Targets(r) : Become(r, [Idle EXCEPT !.at = "failing", !.todo = <<n>>])
      BY <2>2 DEF TargetFails
    <3>2. [Idle EXCEPT !.at = "failing", !.todo = <<n>>] \in Good
      BY <1>2, FreshIsGood
    <3> QED BY <3>1, <3>2
  <2>3. CASE PathFails(r)
    <3> DEFINE g == Head(req[r].path)
               i == IndexOf(With(g))
               p == onionPaths[i]
    <3>1. CASE Become(r, Idle)
      BY <3>1, IdleIsGood
    <3>2. CASE Become(r, [Idle EXCEPT !.at = "failing", !.todo = <<g>>])
      <4>1. [Idle EXCEPT !.at = "failing", !.todo = <<g>>] \in Good
        BY <1>2, FreshIsGood
      <4> QED BY <3>2, <4>1
    <3>3. CASE /\ i # 0
               /\ Become(r, [Idle EXCEPT !.at = "failing", !.todo = Tail(p), !.guard = Head(p),
                                         !.count = pathFailureCount[Head(p)] + 1])
      <4>1. i \in DOMAIN onionPaths /\ g \in Range(onionPaths[i])
        BY <3>3, IndexIs DEF IInv, Paths
      <4>2. p \in Seq(Nodes) /\ p # <<>>
        BY <4>1 DEF IInv, Paths, Range
      <4> HIDE DEF p
      <4>3. Tail(p) \in Seq(Nodes) /\ Head(p) \in Nodes
        BY <4>2
      <4>4. pathFailureCount[Head(p)] + 1 \in Nat
        BY <4>3, CountAssumption DEF IInv, Types
      <4>5. [Idle EXCEPT !.at = "failing", !.todo = Tail(p), !.guard = Head(p),
                         !.count = pathFailureCount[Head(p)] + 1] \in Good
        BY <4>3, <4>4, FreshIsGood
      <4> QED BY <3>3, <4>5
    <3> HIDE DEF g, i, p
    <3> QED BY <2>3, <3>1, <3>2, <3>3 DEF PathFails, g, i, p
  <2> QED BY <2>1, <2>2, <2>3
<1>8. req' \in [Requests -> Good]
  BY <1>7, BecomeGood DEF IInv
<1> QED BY <1>4, <1>6, <1>8 DEF IInv

\* Counting the nodes of a failed request, and the path.
LEMMA CountSteps ==
  ASSUME IInv, NEW r \in Requests, CountNode(r) \/ CountPath(r)
  PROVE  IInv'
<1>0. /\ req[r] \in Good /\ req[r].count \in Nat /\ (req[r].count > 0 => req[r].guard \in Nodes)
      /\ snodeFailureCount \in [Nodes -> 0 .. SnodeThreshold - 1]
      /\ pathFailureCount \in [Nodes -> 0 .. PathThreshold - 1]
      /\ SnodeThreshold \in Nat \ {0} /\ PathThreshold \in Nat \ {0} /\ BuildTries \in Nat \ {0}
      /\ guards \subseteq Nodes /\ guardDb \subseteq Nodes /\ build \in 0 .. BuildTries
  <2>1. req[r] \in Good
    BY DEF IInv
  <2>2. req[r].count \in Nat /\ Remembers(req[r])
    BY <2>1, RequestIs
  <2> QED BY <2>1, <2>2, CountAssumption DEF Remembers, IInv, Types
<1>1. CASE CountNode(r)
  <2> DEFINE n == Head(req[r].todo)
             rest == [req[r] EXCEPT !.todo = Tail(@)]
  <2>1. n \in Nodes /\ rest \in Good
    BY <1>0, <1>1, NextIsGood DEF CountNode
  <2>2. DropNext(n, rest) \in Good
    BY <2>1, NextIsGood
  <2>3. UNCHANGED <<guards, guardDb, onionPaths, pathFailureCount, build, candidates, history>>
    BY <1>1 DEF CountNode
  <2>4. \/ /\ ~TooManyFailures(n)
           /\ snodeFailureCount' = [snodeFailureCount EXCEPT ![n] = @ + 1]
           /\ Become(r, rest) /\ UNCHANGED <<pool, poolDb>>
        \/ /\ DropFromPool(n)
           /\ snodeFailureCount' = [snodeFailureCount EXCEPT ![n] = 0]
           /\ Become(r, DropNext(n, rest))
    BY <1>1 DEF CountNode
  <2> HIDE DEF n, rest
  <2>5. req' \in [Requests -> Good]
    BY <2>1, <2>2, <2>4, BecomeGood DEF IInv
  <2>6. Paths'
    BY <2>3, PathsKept DEF IInv, history
  <2>7. snodeFailureCount' \in [Nodes -> 0 .. SnodeThreshold - 1]
    <3>1. CASE ~TooManyFailures(n) /\ snodeFailureCount' = [snodeFailureCount EXCEPT ![n] = @ + 1]
      <4>1. snodeFailureCount[n] + 1 \in 0 .. SnodeThreshold - 1
        BY <1>0, <2>1, <3>1 DEF TooManyFailures
      <4> QED BY <1>0, <2>1, <3>1, <4>1
    <3>2. CASE snodeFailureCount' = [snodeFailureCount EXCEPT ![n] = 0]
      <4>1. 0 \in 0 .. SnodeThreshold - 1
        BY <1>0
      <4> QED BY <1>0, <3>2, <4>1
    <3> QED BY <2>4, <3>1, <3>2
  <2>8. pool' \subseteq Nodes /\ poolDb' \subseteq Nodes
    BY <2>4, PoolDropped DEF IInv, Types
  <2>9. Types'
    BY <2>3, <2>7, <2>8 DEF IInv, Types, Building, history
  <2> QED BY <2>5, <2>6, <2>9 DEF IInv
<1>2. CASE CountPath(r)
  <2> DEFINE g == req[r].guard
  <2>1. UNCHANGED <<candidates, failures, stale, stranded>>
    BY <1>2 DEF CountPath, history
  <2>2. req' \in [Requests -> Good]
    <3>1. \E q \in Good : Become(r, q)
      BY <1>2, IdleIsGood, FreshIsGood DEF CountPath
    <3> QED BY <3>1, BecomeGood DEF IInv
  <2>3. Paths'
    <3>1. CASE UNCHANGED onionPaths
      BY <2>1, <3>1, PathsKept DEF IInv
    <3>2. CASE onionPaths' = Filter(onionPaths, LAMBDA p : p # Hole /\ Head(p) # g)
      <4> DEFINE R == {onionPaths[k] : k \in {j \in DOMAIN onionPaths : onionPaths[j] # Hole /\ Head(onionPaths[j]) # g}}
      <4>1. onionPaths' = Only(onionPaths, R)
        BY <3>2 DEF Filter
      <4> HIDE DEF R
      <4> QED BY <2>1, <4>1, PathsDropped DEF IInv
    <3> QED BY <1>2, <3>1, <3>2 DEF CountPath, memory
  <2>4. pool' \subseteq Nodes /\ poolDb' \subseteq Nodes
    <3>1. DropFromPool(g) \/ UNCHANGED <<pool, poolDb>>
      BY <1>2 DEF CountPath, memory, durable
    <3> QED BY <3>1, PoolDropped DEF IInv, Types
  <2>5. snodeFailureCount' = snodeFailureCount
    BY <1>2 DEF CountPath, memory
  <2>6. pathFailureCount' \in [Nodes -> 0 .. PathThreshold - 1]
    <3>1. CASE UNCHANGED pathFailureCount
      BY <1>0, <3>1
    <3>2. ASSUME NEW c \in 0 .. PathThreshold - 1, pathFailureCount' = [pathFailureCount EXCEPT ![g] = c]
          PROVE  pathFailureCount' \in [Nodes -> 0 .. PathThreshold - 1]
      BY <1>0, <3>2
    <3>3. CASE req[r].count \in 1 .. PathThreshold - 1 /\ pathFailureCount' = [pathFailureCount EXCEPT ![g] = req[r].count]
      <4>1. req[r].count \in 0 .. PathThreshold - 1
        BY <1>0, <3>3
      <4> QED BY <3>2, <3>3, <4>1
    <3>4. CASE pathFailureCount' = [pathFailureCount EXCEPT ![g] = 0]
      <4>1. 0 \in 0 .. PathThreshold - 1
        BY <1>0
      <4> QED BY <3>2, <3>4, <4>1
    <3> QED BY <1>2, <3>1, <3>3, <3>4 DEF CountPath, memory
  <2>7. guards' \subseteq Nodes /\ guardDb' \subseteq Nodes
    BY <1>0, <1>2 DEF CountPath, memory, durable
  <2>8. build' \in 0 .. BuildTries /\ (build > 0 => build' > 0)
    <3>1. build' = build \/ build' = IF build = 0 THEN BuildTries ELSE build
      BY <1>2 DEF CountPath
    <3> QED BY <1>0, <3>1
  <2>9. Types'
    BY <2>1, <2>4, <2>5, <2>6, <2>7, <2>8 DEF IInv, Types, Building
  <2> QED BY <2>2, <2>3, <2>9 DEF IInv
<1> QED BY <1>1, <1>2

\* The node of a request is replaced in its path, which the code does without an error
\* or before it.
LEMMA ReplacedIs ==
  ASSUME NEW ns \in SUBSET Nodes, NEW ps, NEW n, NEW new \in Replacements(ns, ps, n)
  PROVE  new \in Nodes \ NodesIn(ps)
BY DEF Replacements

LEMMA DropStep ==
  ASSUME IInv, NEW r \in Requests, DropSnodeFromPath(r)
  PROVE  IInv'
<1> DEFINE n == req[r].node
           i == IndexOf(With(n))
           next == [req[r] EXCEPT !.at = "failing", !.node = "none"]
           fetch == [req[r] EXCEPT !.at = "fetching", !.index = i, !.copy = onionPaths]
<1>1. req[r] \in Good /\ n \in Nodes
  <2>1. req[r] \in Good /\ req[r].at = "dropping"
    BY DEF IInv, DropSnodeFromPath
  <2> QED BY <2>1, RequestIs DEF Remembers
<1>2. /\ onionPaths \in Seq(Seq(Nodes)) /\ pool \subseteq Nodes /\ stranded \subseteq Nodes
      /\ i # 0 => i \in DOMAIN onionPaths /\ n \in Range(onionPaths[i])
  BY IndexIs DEF IInv, Types, Paths
<1>3. UNCHANGED <<pool, guards, pathFailureCount, snodeFailureCount, durable, build, candidates, failures, stale>>
  BY DEF DropSnodeFromPath
<1>4. next \in Good
  BY <1>1, NextIsGood
<1>5. /\ \/ UNCHANGED onionPaths
         \/ /\ i # 0
            /\ \E new \in Replacements(pool, onionPaths, n) :
                 onionPaths' = Written(i, Patched(onionPaths[i], n, new))
      /\ \/ Become(r, Idle) \/ Become(r, next)
         \/ ~HasHole /\ i # 0 /\ Become(r, fetch)
      /\ stranded' \in {stranded, stranded \union {n}}
  BY DEF DropSnodeFromPath
<1> HIDE DEF next
<1>6. ASSUME ~HasHole, i # 0 PROVE fetch \in Good
  <2>1. \A p \in Range(onionPaths) : Whole(p)
    <3>1. \A p \in Range(onionPaths) : p # Hole
      BY <1>6 DEF HasHole, Range
    <3> QED BY <3>1 DEF IInv, Paths, PathsAreWhole, Whole
  <2>2. i \in Nat /\ i \in DOMAIN onionPaths /\ n \in Range(onionPaths[i])
    BY <1>2, <1>6
  <2> HIDE DEF i
  <2>3. fetch \in Request
    BY <1>1, <1>2, <2>2 DEF Good, Request
  <2>4. Remembers(fetch)
    <3>1. /\ fetch.at = "fetching" /\ fetch.index = i /\ fetch.copy = onionPaths
          /\ fetch.node = n /\ fetch.count = req[r].count /\ fetch.guard = req[r].guard
      BY <1>1 DEF Good, Request
    <3>2. req[r].count > 0 => req[r].guard \in Nodes
      BY <1>1 DEF Good, Remembers
    <3> HIDE DEF fetch
    <3> QED BY <1>1, <2>1, <2>2, <3>1, <3>2 DEF Remembers
  <2> QED BY <2>3, <2>4 DEF Good
<1> HIDE DEF fetch
<1>7. req' \in [Requests -> Good]
  BY <1>4, <1>5, <1>6, IdleIsGood, BecomeGood DEF IInv
<1> HIDE DEF i
<1>8. Paths'
  <2>1. CASE UNCHANGED onionPaths
    BY <1>3, <2>1, PathsKept DEF IInv
  <2>2. ASSUME i # 0, NEW new \in Replacements(pool, onionPaths, n),
               onionPaths' = Written(i, Patched(onionPaths[i], n, new))
        PROVE  Paths'
    <3>1. new \in Nodes \ NodesIn(onionPaths)
      BY <1>2, ReplacedIs
    <3>2. i \in DOMAIN onionPaths /\ n \in Range(onionPaths[i])
      BY <1>2, <2>2
    <3> QED BY <1>3, <2>2, <3>1, <3>2, PathsRepaired DEF IInv
  <2> QED BY <1>5, <2>1, <2>2
<1>9. Types'
  BY <1>1, <1>2, <1>3, <1>5 DEF IInv, Types, Building, durable
<1> QED BY <1>7, <1>8, <1>9 DEF IInv

\* The seed node answers, or does not.
LEMMA SeedSteps ==
  ASSUME IInv, NEW r \in Requests, SeedAnswers(r) \/ SeedFails(r)
  PROVE  IInv'
<1> DEFINE q == req[r]
           next == [q EXCEPT !.at = "failing", !.node = "none", !.index = 0, !.copy = <<>>]
<1>1. q \in Good /\ q.at = "fetching"
  BY DEF IInv, SeedAnswers, SeedFails
<1>2. /\ q.node \in Nodes /\ q.copy \in Seq(Seq(Nodes)) /\ q.index \in DOMAIN q.copy
      /\ q.node \in Range(q.copy[q.index]) /\ \A p \in Range(q.copy) : Whole(p)
  BY <1>1, RequestIs DEF Remembers
<1>3. next \in Good
  BY <1>1, NextIsGood
<1>4. CASE SeedFails(r)
  <2>1. /\ UNCHANGED <<memory, durable, build, candidates, failures, stale>>
        /\ stranded' = stranded \union {q.node} /\ Become(r, Idle)
    BY <1>4 DEF SeedFails
  <2>2. req' \in [Requests -> Good]
    BY <2>1, IdleIsGood, BecomeGood DEF IInv
  <2>3. Paths'
    BY <2>1, PathsKept DEF IInv, memory
  <2>4. Types'
    BY <1>2, <2>1 DEF IInv, Types, Building, memory, durable
  <2> QED BY <2>2, <2>3, <2>4 DEF IInv
<1>5. CASE SeedAnswers(r)
  <2> HIDE DEF next
  <2>1. /\ pool' = Nodes /\ poolDb' = Nodes
        /\ pathFailureCount' = Zero /\ snodeFailureCount' = Zero
        /\ UNCHANGED <<guards, guardDb, build, candidates, failures>>
    BY <1>5 DEF SeedAnswers
  <2>2. \/ /\ \E new \in Replacements(Nodes, q.copy, q.node) :
                onionPaths' = Written(q.index, Patched(q.copy[q.index], q.node, new))
           /\ Become(r, next)
           /\ stale' = (stale \/ onionPaths # q.copy)
           /\ UNCHANGED stranded
        \/ /\ Become(r, Idle) /\ stranded' = stranded \union {q.node}
           /\ UNCHANGED <<onionPaths, stale>>
    BY <1>5 DEF SeedAnswers, next
  <2>3. req' \in [Requests -> Good]
    BY <1>3, <2>2, IdleIsGood, BecomeGood DEF IInv
  <2> HIDE DEF q
  <2>4. stale' \in BOOLEAN /\ stranded' \subseteq Nodes
    BY <1>2, <2>2 DEF IInv, Types
  <2>5. Zero \in [Nodes -> 0 .. PathThreshold - 1] /\ Zero \in [Nodes -> 0 .. SnodeThreshold - 1]
    BY CountAssumption DEF Zero
  <2>6. Types'
    BY <2>1, <2>4, <2>5 DEF IInv, Types, Building
  <2>7. CASE UNCHANGED <<onionPaths, stale>>
    BY <2>3, <2>6, <2>7, PathsKept DEF IInv
  <2>8. ASSUME NEW new \in Replacements(Nodes, q.copy, q.node),
               onionPaths' = Written(q.index, Patched(q.copy[q.index], q.node, new)),
               stale' = (stale \/ onionPaths # q.copy)
        PROVE  Paths'
    <3> DEFINE i == q.index
               p == Patched(q.copy[i], q.node, new)
    <3>1. new \in Nodes \ NodesIn(q.copy)
      BY ReplacedIs
    <3>2. CASE onionPaths = q.copy
      <4>1. stale' = stale
        BY <2>8, <3>2 DEF IInv, Types
      <4>2. i \in DOMAIN onionPaths /\ q.node \in Range(onionPaths[i]) /\ new \in Nodes \ NodesIn(onionPaths)
        BY <1>2, <3>1, <3>2
      <4>3. onionPaths' = Written(i, Patched(onionPaths[i], q.node, new))
        BY <2>8, <3>2
      <4> HIDE DEF i
      <4> QED BY <4>1, <4>2, <4>3, PathsRepaired DEF IInv
    <3>3. CASE onionPaths # q.copy
      <4>1. stale'
        BY <2>8, <3>3
      <4>2. q.copy[i] \in Range(q.copy) /\ i \in Nat /\ i # 0
        BY <1>2 DEF Range
      <4>3. p \in Seq(Nodes) /\ Whole(p)
        BY <1>2, <3>1, <4>2, PatchedIs
      <4> HIDE DEF i, p
      <4>4. /\ onionPaths' \in Seq(Seq(Nodes))
            /\ \A x \in Range(onionPaths') : x = p \/ x = Hole \/ x \in Range(onionPaths)
        <5>1. onionPaths' = Written(i, p)
          BY <2>8 DEF i, p
        <5> QED BY <4>2, <4>3, <5>1, WrittenIs DEF IInv, Paths
      <4>5. PathsAreWhole'
        BY <4>3, <4>4 DEF PathsAreWhole, IInv, Paths, Whole
      <4>6. PathsAreDisjoint'
        BY <4>1 DEF PathsAreDisjoint
      <4> QED BY <4>4, <4>5, <4>6 DEF Paths
    <3> QED BY <3>2, <3>3
  <2> QED BY <2>2, <2>3, <2>6, <2>7, <2>8 DEF IInv
<1> QED BY <1>4, <1>5

\* The pool and the guards, for a request or for a build.
LEMMA BuildSteps ==
  ASSUME IInv, GetRandomSnode \/ BuildAttempt \/ SelectGuards \/ SelectFails
  PROVE  IInv'
<1>0. /\ build \in 0 .. BuildTries /\ guards \subseteq Nodes /\ guardDb \subseteq Nodes
      /\ candidates \subseteq Nodes /\ (candidates # {} => build > 0) /\ BuildTries \in Nat
      /\ req \in [Requests -> Good] /\ Types /\ Paths
  BY CountAssumption DEF IInv, Types, Building
<1>1. CASE GetRandomSnode
  <2>1. PICK p : GetPool(p)
    BY <1>1 DEF GetRandomSnode
  <2>2. UNCHANGED <<guards, guardDb, onionPaths, build, candidates, req, history>>
    BY <1>1 DEF GetRandomSnode
  <2>3. Types'
    BY <1>0, <2>1, <2>2, PoolFetched DEF Types, Building, history
  <2>4. Paths'
    BY <1>0, <2>2, PathsKept DEF history
  <2> QED BY <1>0, <2>2, <2>3, <2>4 DEF IInv
<1>2. CASE BuildAttempt
  <2>1. PICK p \in Pools :
          LET gs == IF guards = {} THEN guardDb \intersect p ELSE guards
          IN  /\ GetPool(p)
              /\ \/ /\ EndAttempt(build - 1)
                    /\ UNCHANGED <<guards, onionPaths, candidates>>
                 \/ /\ guards' = gs /\ candidates' = p
                    /\ UNCHANGED <<onionPaths, build, req>>
                 \/ /\ guards' = gs
                    /\ BuildFrom(gs, p)
                    /\ UNCHANGED candidates
    BY <1>2 DEF BuildAttempt
  <2>2. build > 0 /\ candidates = {} /\ UNCHANGED <<guardDb, history>>
    BY <1>2 DEF BuildAttempt
  <2> DEFINE gs == IF guards = {} THEN guardDb \intersect p ELSE guards
  <2>3. p \in SUBSET Nodes /\ gs \in SUBSET Nodes
    BY <1>0, <2>1, PoolFetched
  <2>4. stale' = stale /\ failures' = failures /\ stranded' = stranded
    BY <2>2 DEF history
  <2>5. /\ req' \in [Requests -> Good] /\ build' \in 0 .. BuildTries /\ Paths'
        /\ guards' \subseteq Nodes /\ candidates' \subseteq Nodes
        /\ (candidates' # {} => build' > 0)
    <3>1. CASE EndAttempt(build - 1) /\ UNCHANGED <<guards, onionPaths, candidates>>
      <4>1. build - 1 \in 0 .. BuildTries
        BY <1>0, <2>2
      <4>2. req' \in [Requests -> Good] /\ build' \in 0 .. BuildTries
        BY <1>0, <3>1, <4>1, AttemptEnded
      <4>3. Paths'
        BY <1>0, <2>4, <3>1, PathsKept
      <4> QED BY <1>0, <2>2, <3>1, <4>2, <4>3
    <3>2. CASE guards' = gs /\ candidates' = p /\ UNCHANGED <<onionPaths, build, req>>
      <4>1. Paths'
        BY <1>0, <2>4, <3>2, PathsKept
      <4> QED BY <1>0, <2>2, <2>3, <3>2, <4>1
    <3>3. CASE guards' = gs /\ BuildFrom(gs, p) /\ UNCHANGED candidates
      <4> HIDE DEF gs
      <4>1. req' \in [Requests -> Good] /\ build' \in 0 .. BuildTries /\ Paths'
        BY <1>0, <2>2, <2>3, <2>4, <3>3, BuildMade
      <4> QED BY <2>2, <2>3, <3>3, <4>1
    <3> QED BY <2>1, <3>1, <3>2, <3>3
  <2>6. /\ pool' \subseteq Nodes /\ poolDb' \subseteq Nodes
        /\ pathFailureCount' \in [Nodes -> 0 .. PathThreshold - 1]
        /\ snodeFailureCount' \in [Nodes -> 0 .. SnodeThreshold - 1]
    BY <1>0, <2>1, PoolFetched
  <2>7. Types'
    BY <1>0, <2>2, <2>4, <2>5, <2>6 DEF Types, Building
  <2> QED BY <2>5, <2>7 DEF IInv
<1>3. CASE SelectGuards
  <2>1. PICK gs \in SUBSET candidates, p \in Pools :
          /\ guards' = gs /\ guardDb' = gs
          /\ GetPool(p) /\ BuildFrom(gs, p)
    BY <1>3 DEF SelectGuards
  <2>2. candidates # {} /\ candidates' = {} /\ UNCHANGED <<failures, stale>>
        /\ stranded' \in {stranded, stranded \union (guards \ guards')}
    BY <1>3 DEF SelectGuards
  <2>3. /\ p \in SUBSET Nodes /\ pool' \subseteq Nodes /\ poolDb' \subseteq Nodes
        /\ pathFailureCount' \in [Nodes -> 0 .. PathThreshold - 1]
        /\ snodeFailureCount' \in [Nodes -> 0 .. SnodeThreshold - 1]
    BY <1>0, <2>1, PoolFetched
  <2>4. stale' = stale /\ failures' = failures /\ stranded' \subseteq Nodes
    BY <1>0, <2>2 DEF Types
  <2>5. gs \in SUBSET Nodes /\ build > 0
    BY <1>0, <2>1, <2>2
  <2>6. req' \in [Requests -> Good] /\ build' \in 0 .. BuildTries /\ Paths'
    BY <1>0, <2>1, <2>3, <2>4, <2>5, BuildMade
  <2>7. Types'
    BY <1>0, <2>1, <2>2, <2>3, <2>4, <2>5, <2>6 DEF Types, Building
  <2> QED BY <2>6, <2>7 DEF IInv
<1>4. CASE SelectFails
  <2>1. /\ candidates # {} /\ candidates' = {} /\ EndAttempt(build - 1)
        /\ UNCHANGED <<memory, durable, history>>
    BY <1>4 DEF SelectFails
  <2>2. build - 1 \in 0 .. BuildTries
    BY <1>0, <2>1
  <2>3. req' \in [Requests -> Good] /\ build' \in 0 .. BuildTries
    BY <1>0, <2>1, <2>2, AttemptEnded
  <2>4. Paths'
    BY <1>0, <2>1, PathsKept DEF memory, history
  <2>5. Types'
    BY <1>0, <2>1, <2>3 DEF Types, Building, memory, durable, history
  <2> QED BY <2>3, <2>4, <2>5 DEF IInv
<1> QED BY <1>1, <1>2, <1>3, <1>4

LEMMA InvStep == IInv /\ [Next]_vars => IInv'
<1> SUFFICES ASSUME IInv, [Next]_vars PROVE IInv'
  OBVIOUS
<1>1. CASE GetRandomSnode \/ BuildAttempt \/ SelectGuards \/ SelectFails
  BY <1>1, BuildSteps
<1>2. ASSUME NEW r \in Requests,
             \/ Begin(r) \/ AwaitBuild(r) \/ GetOnionPath(r)
             \/ Succeed(r) \/ NodeNotFound(r) \/ TargetFails(r) \/ PathFails(r)
             \/ CountNode(r) \/ CountPath(r)
             \/ DropSnodeFromPath(r) \/ SeedAnswers(r) \/ SeedFails(r)
      PROVE  IInv'
  BY <1>2, RequestSteps, ErrorSteps, CountSteps, DropStep, SeedSteps
<1>3. CASE UNCHANGED vars
  <2>1. UNCHANGED <<memory, durable, build, candidates, req, history>>
    BY <1>3 DEF vars
  <2>2. Paths'
    BY <2>1, PathsKept DEF IInv, memory, history
  <2>3. Types'
    BY <2>1 DEF IInv, Types, Building, memory, durable, history
  <2> QED BY <2>1, <2>2, <2>3 DEF IInv
<1> QED BY <1>1, <1>2, <1>3 DEF Next

-----------------------------------------------------------------------------
(* Dropped nodes *)

Busy(q) == q.at \in {"failing", "dropping"}
Waits(q) == q.at \in {"dropping", "fetching"}
OneBusy == \A r, s \in Requests : Busy(req[r]) /\ Busy(req[s]) => r = s

\* A guard leads one of the paths.
Leads(g, paths) == \E i \in DOMAIN paths : paths[i] # Hole /\ Head(paths[i]) = g

\* The path that failed is still led by its guard, which is not to be replaced.
Guarded(q, paths, st) ==
  q.count > 0 /\ (Busy(q) \/ Waits(q)) =>
    /\ q.guard \notin Range(q.todo) /\ (Waits(q) => q.guard # q.node)
    /\ ~st => /\ q.at = "fetching" => Leads(q.guard, q.copy)
              /\ Busy(q) => Leads(q.guard, paths)

\* A node of a path is in the pool, or is excepted, or about to be replaced.
Accounted ==
  ~stale => \A n \in NodesIn(onionPaths) :
              \/ n \in pool \union guards \union stranded
              \/ \E r \in Requests : Waits(req[r]) /\ req[r].node = n

JInv ==
  /\ pool \subseteq poolDb
  /\ OneBusy
  /\ \A r \in Requests : Guarded(req[r], onionPaths, stale)
  /\ Accounted

LEMMA QuietIs ==
  ASSUME Quiet
  PROVE  \A r \in Requests : ~Busy(req[r])
BY DEF Quiet, Busy

LEMMA IdleIsQuiet ==
  /\ Idle.at = "idle" /\ Idle.count = 0 /\ ~Busy(Idle) /\ ~Waits(Idle)
  /\ \A paths, st : Guarded(Idle, paths, st)
BY DEF Idle, Busy, Waits, Guarded

\* One request goes on.
LEMMA RequestMoves ==
  ASSUME IInv, JInv, NEW r \in Requests, NEW u, Become(r, u),
         Busy(u) => Quiet \/ Busy(req[r]),
         Guarded(u, onionPaths', stale'), ~stale' => ~stale,
         \/ UNCHANGED <<onionPaths, stale>>
         \/ \A s \in Requests \ {r} : ~Busy(req[s])
  PROVE  OneBusy' /\ \A s \in Requests : Guarded(req'[s], onionPaths', stale')
<1>1. req'[r] = u /\ \A s \in Requests \ {r} : req'[s] = req[s]
  BY DEF Become, IInv
<1>2. OneBusy'
  <2>1. ASSUME Busy(u) PROVE \A s \in Requests \ {r} : ~Busy(req[s])
    BY <2>1, QuietIs DEF JInv, OneBusy
  <2>2. \A x, y \in Requests : Busy(req'[x]) /\ Busy(req'[y]) => x = y
    BY <1>1, <2>1 DEF JInv, OneBusy
  <2> QED BY <2>2 DEF OneBusy, Busy
<1>3. ASSUME NEW s \in Requests \ {r} PROVE Guarded(req'[s], onionPaths', stale')
  <2>1. req'[s] = req[s] /\ Guarded(req[s], onionPaths, stale)
    BY <1>1 DEF JInv
  <2> QED BY <2>1 DEF Guarded
<1> QED BY <1>1, <1>2, <1>3

\* What is accounted for stays so.
LEMMA AccountMoves ==
  ASSUME IInv, JInv, NEW r \in Requests, NEW u, Become(r, u), ~stale' => ~stale,
         ~stale' => \A n \in NodesIn(onionPaths') :
           /\ n \in NodesIn(onionPaths) \/ n \in pool'
           /\ \/ n \in pool \union guards \union stranded
              \/ Waits(req[r]) /\ req[r].node = n
              => \/ n \in pool' \union guards' \union stranded'
                 \/ Waits(u) /\ u.node = n
  PROVE  Accounted'
<1>1. req'[r] = u /\ \A s \in Requests \ {r} : req'[s] = req[s]
  BY DEF Become, IInv
<1>2. ASSUME ~stale', NEW n \in NodesIn(onionPaths')
      PROVE  \/ n \in pool' \union guards' \union stranded'
             \/ \E s \in Requests : Waits(req'[s]) /\ req'[s].node = n
  <2>1. CASE n \in pool'
    BY <2>1
  <2>2. CASE n \in NodesIn(onionPaths) /\ n \in pool \union guards \union stranded
    BY <1>1, <1>2, <2>2
  <2>3. ASSUME NEW s \in Requests, Waits(req[s]), req[s].node = n
        PROVE  \/ n \in pool' \union guards' \union stranded'
               \/ \E x \in Requests : Waits(req'[x]) /\ req'[x].node = n
    BY <1>1, <1>2, <2>3
  <2> QED BY <1>2, <2>1, <2>2, <2>3 DEF JInv, Accounted
<1> QED BY <1>2 DEF Accounted, Waits

\* A request goes on from a quiet state and nothing else changes.
LEMMA CalmMoves ==
  ASSUME IInv, JInv, NEW r \in Requests, NEW u, Become(r, u), Quiet, ~Waits(req[r]),
         Guarded(u, onionPaths, stale), UNCHANGED <<pool, poolDb, guards, onionPaths, stale, stranded>>
  PROVE  JInv'
<1>1. OneBusy' /\ \A s \in Requests : Guarded(req'[s], onionPaths', stale')
  BY RequestMoves
<1>2. Accounted'
  BY AccountMoves
<1> QED BY <1>1, <1>2 DEF JInv, Guarded, Busy, Waits, Leads

LEMMA JRequestSteps ==
  ASSUME IInv, JInv, NEW r \in Requests, Begin(r) \/ AwaitBuild(r) \/ GetOnionPath(r) \/ Succeed(r)
  PROVE  JInv'
<1>1. /\ Quiet /\ ~Waits(req[r])
      /\ UNCHANGED <<pool, poolDb, guards, onionPaths, stale, stranded>>
  BY DEF Begin, AwaitBuild, GetOnionPath, Succeed, Waits, memory, durable, history
<1>2. \E u : Become(r, u) /\ u.at \in {"idle", "path", "waiting", "sent"}
  <2>1. req[r] \in Good
    BY DEF IInv
  <2>2. [req[r] EXCEPT !.at = "waiting"].at = "waiting"
    BY <2>1 DEF Good, Request
  <2>3. /\ Idle.at = "idle" /\ [Idle EXCEPT !.at = "path"].at = "path"
        /\ \A p : [Idle EXCEPT !.at = "sent", !.path = p].at = "sent"
    BY DEF Idle
  <2> QED BY <2>2, <2>3 DEF Begin, AwaitBuild, GetOnionPath, Succeed
<1>3. PICK u : Become(r, u) /\ u.at \in {"idle", "path", "waiting", "sent"}
  BY <1>2
<1>4. Guarded(u, onionPaths, stale)
  BY <1>3 DEF Guarded, Busy, Waits
<1> QED BY <1>1, <1>3, <1>4, CalmMoves

LEMMA JErrorSteps ==
  ASSUME IInv, JInv, NEW r \in Requests, TargetFails(r) \/ PathFails(r)
  PROVE  JInv'
<1>1. /\ Quiet /\ ~Waits(req[r])
      /\ UNCHANGED <<pool, poolDb, guards, onionPaths, stale, stranded>>
  BY DEF TargetFails, PathFails, Waits, memory, durable
<1>2. ASSUME NEW s, Become(r, [Idle EXCEPT !.at = "failing", !.todo = s])
      PROVE  JInv'
  <2> DEFINE u == [Idle EXCEPT !.at = "failing", !.todo = s]
  <2>1. u.count = 0
    BY DEF Idle
  <2>2. Guarded(u, onionPaths, stale)
    BY <2>1 DEF Guarded
  <2> HIDE DEF u
  <2>3. Become(r, u)
    BY <1>2 DEF u
  <2> QED BY <1>1, <2>2, <2>3, CalmMoves
<1>3. CASE TargetFails(r)
  BY <1>2, <1>3 DEF TargetFails
<1>4. CASE PathFails(r)
  <2> DEFINE g == Head(req[r].path)
             i == IndexOf(With(g))
             p == onionPaths[i]
             c == pathFailureCount[Head(p)] + 1
             u == [Idle EXCEPT !.at = "failing", !.todo = Tail(p), !.guard = Head(p), !.count = c]
  <2>1. \/ Become(r, Idle) \/ Become(r, [Idle EXCEPT !.at = "failing", !.todo = <<g>>])
        \/ i # 0 /\ Become(r, u)
    BY <1>4 DEF PathFails
  <2>2. CASE Become(r, Idle)
    BY <1>1, <2>2, IdleIsQuiet, CalmMoves
  <2>3. CASE Become(r, [Idle EXCEPT !.at = "failing", !.todo = <<g>>])
    BY <1>2, <2>3
  <2>4. CASE i # 0 /\ Become(r, u)
    <3>1. i \in DOMAIN onionPaths /\ g \in Range(onionPaths[i])
      BY <2>4, IndexIs DEF IInv, Paths
    <3>2. p \in Seq(Nodes) /\ p # <<>> /\ p \in Range(onionPaths)
      BY <3>1 DEF IInv, Paths, Range
    <3>3. IsInjective(p)
      BY <3>2 DEF IInv, Paths, PathsAreWhole, Hole
    <3>4. u.guard = Head(p) /\ u.todo = Tail(p) /\ u.at = "failing"
      BY DEF Idle
    <3> HIDE DEF u, i, c
    <3>5. Leads(Head(p), onionPaths)
      BY <3>1, <3>2 DEF Leads, Hole
    <3> HIDE DEF p
    <3>6. Head(p) \notin Range(Tail(p))
      <4> SUFFICES ASSUME NEW k \in DOMAIN Tail(p), Tail(p)[k] = Head(p) PROVE FALSE
        BY DEF Range
      <4>1. k + 1 \in DOMAIN p /\ 1 \in DOMAIN p /\ p[k + 1] = p[1] /\ k + 1 # 1
        BY <3>2
      <4> QED BY <3>3, <4>1 DEF IsInjective
    <3>7. Guarded(u, onionPaths, stale)
      BY <3>4, <3>5, <3>6 DEF Guarded, Waits
    <3> QED BY <1>1, <2>4, <3>7, CalmMoves
  <2> QED BY <2>1, <2>2, <2>3, <2>4
<1> QED BY <1>3, <1>4

\* A node leaves the pool, and is to be replaced.
LEMMA DropMoves ==
  ASSUME IInv, JInv, NEW r \in Requests, NEW u, Become(r, u), NEW n, DropFromPool(n),
         ~Waits(req[r]), u.at = "dropping", u.node = n, Quiet \/ Busy(req[r]),
         Guarded(u, onionPaths, stale), UNCHANGED <<guards, onionPaths, stale, stranded>>
  PROVE  JInv'
<1>1. OneBusy' /\ \A s \in Requests : Guarded(req'[s], onionPaths', stale')
  BY RequestMoves
<1>2. Accounted'
  <2>1. \A x : x \in pool => x \in pool' \/ x = n
    BY DEF DropFromPool
  <2>2. Waits(u) /\ u.node = n
    BY DEF Waits
  <2> QED BY <2>1, <2>2, AccountMoves
<1>3. pool' \subseteq poolDb'
  BY DEF JInv, DropFromPool
<1> QED BY <1>1, <1>2, <1>3 DEF JInv, Guarded, Busy, Waits, Leads

LEMMA JNotFoundStep ==
  ASSUME IInv, JInv, NEW r \in Requests, NodeNotFound(r)
  PROVE  JInv'
<1>1. PICK n : DropFromPool(n) /\ Become(r, [Idle EXCEPT !.at = "dropping", !.node = n])
  BY DEF NodeNotFound
<1>2. Quiet /\ ~Waits(req[r]) /\ UNCHANGED <<guards, onionPaths, stale, stranded>>
  BY DEF NodeNotFound, Waits
<1> DEFINE u == [Idle EXCEPT !.at = "dropping", !.node = n]
<1>3. u.at = "dropping" /\ u.node = n /\ u.count = 0
  BY DEF Idle
<1>4. Become(r, u)
  BY <1>1
<1> HIDE DEF u
<1>5. Guarded(u, onionPaths, stale)
  BY <1>3 DEF Guarded
<1> QED BY <1>1, <1>2, <1>3, <1>4, <1>5, DropMoves

LEMMA JCountNodeStep ==
  ASSUME IInv, JInv, NEW r \in Requests, CountNode(r)
  PROVE  JInv'
<1> DEFINE q == req[r]
           n == Head(q.todo)
           rest == [q EXCEPT !.todo = Tail(@)]
           drop == DropNext(n, rest)
<1>1. /\ q.at = "failing" /\ q.todo # <<>> /\ UNCHANGED <<guards, onionPaths, stale, stranded>>
      /\ \/ Become(r, rest) /\ UNCHANGED <<pool, poolDb>>
         \/ DropFromPool(n) /\ Become(r, drop)
  BY DEF CountNode, history
<1>2. q \in Good /\ q.todo \in Seq(Nodes) /\ Guarded(q, onionPaths, stale)
  BY RequestIs DEF IInv, JInv
<1>3. /\ rest.at = "failing" /\ rest.todo = Tail(q.todo) /\ rest.count = q.count /\ rest.guard = q.guard
      /\ drop.at = "dropping" /\ drop.todo = Tail(q.todo) /\ drop.count = q.count /\ drop.guard = q.guard
      /\ drop.node = n
  BY <1>1, <1>2 DEF DropNext, Good, Request
<1>4. n \in Range(q.todo) /\ Range(Tail(q.todo)) \subseteq Range(q.todo)
  <2> DEFINE t == q.todo
  <2> HIDE DEF t
  <2>1. t \in Seq(Nodes) /\ t # <<>>
    BY <1>1, <1>2 DEF t
  <2>2. 1 \in DOMAIN t /\ Head(t) = t[1] /\ \A k \in DOMAIN Tail(t) : k + 1 \in DOMAIN t /\ Tail(t)[k] = t[k + 1]
    BY <2>1
  <2>3. Head(t) \in Range(t) /\ Range(Tail(t)) \subseteq Range(t)
    BY <2>2 DEF Range
  <2> QED BY <2>3 DEF t
<1>5. Busy(q) /\ ~Waits(q)
  BY <1>1 DEF Busy, Waits
<1> HIDE DEF rest, drop, n
<1>6. Guarded(rest, onionPaths, stale) /\ Guarded(drop, onionPaths, stale)
  BY <1>2, <1>3, <1>4, <1>5 DEF Guarded, Busy, Waits
<1>7. CASE Become(r, rest) /\ UNCHANGED <<pool, poolDb>>
  <2>1. OneBusy' /\ \A s \in Requests : Guarded(req'[s], onionPaths', stale')
    BY <1>1, <1>5, <1>6, <1>7, RequestMoves
  <2>2. Accounted'
    BY <1>1, <1>5, <1>7, AccountMoves
  <2> QED BY <1>1, <1>7, <2>1, <2>2 DEF JInv, Guarded, Busy, Waits, Leads
<1>8. CASE DropFromPool(n) /\ Become(r, drop)
  BY <1>1, <1>3, <1>5, <1>6, <1>8, DropMoves
<1> QED BY <1>1, <1>7, <1>8

\* The guard of the path that is dropped is in no other path.
LEMMA GuardLeaves ==
  ASSUME IInv, ~stale, NEW g, Leads(g, onionPaths),
         NEW paths, paths = Filter(onionPaths, LAMBDA p : p # Hole /\ Head(p) # g)
  PROVE  NodesIn(paths) \subseteq NodesIn(onionPaths) \ {g}
<1> DEFINE R == {onionPaths[k] : k \in {j \in DOMAIN onionPaths : onionPaths[j] # Hole /\ Head(onionPaths[j]) # g}}
<1>1. paths = Only(onionPaths, R)
  BY DEF Filter
<1>2. onionPaths \in Seq(Seq(Nodes))
  BY DEF IInv, Paths
<1> HIDE DEF R
<1>3. Range(paths) = Range(onionPaths) \intersect R
  BY <1>1, <1>2, OnlyRange
<1>4. PICK i \in DOMAIN onionPaths : onionPaths[i] # Hole /\ Head(onionPaths[i]) = g
  BY DEF Leads
<1>5. g \in Range(onionPaths[i])
  <2> DEFINE p == onionPaths[i]
  <2>1. p \in Seq(Nodes) /\ p # <<>> /\ Head(p) = g
    BY <1>2, <1>4 DEF Hole
  <2> HIDE DEF p
  <2>2. 1 \in DOMAIN p /\ p[1] = g
    BY <2>1
  <2>3. g \in Range(p)
    BY <2>2 DEF Range
  <2> QED BY <2>3 DEF p
<1>6. ASSUME NEW k \in DOMAIN paths
      PROVE  Range(paths[k]) \subseteq NodesIn(onionPaths) \ {g}
  <2>1. paths[k] \in Range(paths)
    BY DEF Range
  <2>2. PICK j \in DOMAIN onionPaths : paths[k] = onionPaths[j] /\ Head(onionPaths[j]) # g
    BY <1>3, <2>1 DEF R
  <2>3. j # i
    BY <1>4, <2>2
  <2>4. g \notin Range(onionPaths[j])
    BY <1>4, <1>5, <2>3 DEF IInv, Paths, PathsAreDisjoint
  <2> QED BY <2>2, <2>4 DEF NodesIn
<1> QED BY <1>6 DEF NodesIn

LEMMA JCountPathStep ==
  ASSUME IInv, JInv, NEW r \in Requests, CountPath(r)
  PROVE  JInv'
<1> DEFINE q == req[r]
           g == q.guard
           u == [Idle EXCEPT !.at = "rebuilding"]
<1>1. q.at = "failing" /\ UNCHANGED <<candidates, failures, stale, stranded>>
  BY DEF CountPath, history
<1>2. Busy(q) /\ ~Waits(q) /\ q \in Good /\ Guarded(q, onionPaths, stale) /\ q.count \in Nat
      /\ \A s \in Requests \ {r} : ~Busy(req[s])
  BY <1>1, RequestIs DEF Busy, Waits, IInv, JInv, OneBusy
<1>3. u.at = "rebuilding"
  BY DEF Idle
<1>4. ~Busy(u) /\ ~Waits(u) /\ Guarded(u, onionPaths', stale')
  BY <1>3 DEF Busy, Waits, Guarded
<1>5. CASE Become(r, Idle) /\ UNCHANGED <<pool, guards, onionPaths, poolDb>>
  <2>1. OneBusy' /\ \A s \in Requests : Guarded(req'[s], onionPaths', stale')
    BY <1>1, <1>5, IdleIsQuiet, RequestMoves
  <2>2. Accounted'
    BY <1>1, <1>2, <1>5, AccountMoves
  <2> QED BY <1>1, <1>5, <2>1, <2>2 DEF JInv, Guarded, Busy, Waits, Leads
<1>6. ASSUME q.count >= PathThreshold
      PROVE  ~stale => Leads(g, onionPaths)
  <2>1. q.count > 0
    BY <1>2, <1>6, CountAssumption
  <2> QED BY <1>2, <2>1 DEF Guarded
<1>7. CASE /\ q.count >= PathThreshold /\ MeetsHole(StartingWith(g)) /\ DropFromPool(g) /\ Become(r, Idle)
           /\ UNCHANGED <<guards, onionPaths>>
  <2>1. OneBusy' /\ \A s \in Requests : Guarded(req'[s], onionPaths', stale')
    BY <1>1, <1>7, IdleIsQuiet, RequestMoves
  <2>2. stale
    BY <1>7 DEF IInv, Paths, PathsAreDisjoint, HasHole, MeetsHole
  <2>3. Accounted'
    BY <1>1, <2>2 DEF Accounted
  <2>4. pool' \subseteq poolDb'
    BY <1>7 DEF JInv, DropFromPool
  <2> QED BY <1>1, <1>7, <2>1, <2>3, <2>4 DEF JInv, Guarded, Busy, Waits, Leads
<1>8. CASE /\ q.count >= PathThreshold /\ DropFromPool(g) /\ Become(r, u)
           /\ onionPaths' = Filter(onionPaths, LAMBDA p : p # Hole /\ Head(p) # g)
           /\ guards' = guards \ {g}
  <2>1. OneBusy' /\ \A s \in Requests : Guarded(req'[s], onionPaths', stale')
    BY <1>1, <1>2, <1>4, <1>8, RequestMoves
  <2>2. ~stale => NodesIn(onionPaths') \subseteq NodesIn(onionPaths) \ {g}
    BY <1>6, <1>8, GuardLeaves
  <2>3. \A x : x # g /\ x \in pool \union guards \union stranded => x \in pool' \union guards' \union stranded'
    BY <1>1, <1>8 DEF DropFromPool
  <2>4. Accounted'
    BY <1>1, <1>2, <1>8, <2>2, <2>3, AccountMoves
  <2>5. pool' \subseteq poolDb'
    BY <1>8 DEF JInv, DropFromPool
  <2> QED BY <2>1, <2>4, <2>5 DEF JInv, Guarded, Busy, Waits, Leads
<1> QED BY <1>5, <1>7, <1>8 DEF CountPath, memory, durable

\* A path that a node leaves for another has the same guard, unless that left.
LEMMA PatchedHas ==
  ASSUME NEW p \in Seq(Nodes), NEW n \in Nodes, NEW new \in Nodes
  PROVE  LET q == Patched(p, n, new)
         IN  /\ q \in Seq(Nodes) /\ q # Hole
             /\ Range(q) = (Range(p) \ {n}) \union {new}
             /\ p # Hole /\ Head(p) # n => Head(q) = Head(p)
<1> DEFINE R == {p[k] : k \in {j \in DOMAIN p : p[j] # n}}
           u == Only(p, R)
<1>1. Patched(p, n, new) = Append(u, new)
  BY DEF Patched, Filter
<1>2. Range(p) \intersect R = Range(p) \ {n}
  BY DEF Range
<1>3. p # Hole /\ Head(p) # n => Head(p) \in R
  <2> SUFFICES ASSUME p # Hole, Head(p) # n PROVE Head(p) \in R
    OBVIOUS
  <2>1. 1 \in DOMAIN p /\ p[1] = Head(p)
    BY DEF Hole
  <2> QED BY <2>1
<1> HIDE DEF R
<1>4. u \in Seq(Nodes) /\ Range(u) = Range(p) \ {n}
  <2>1. u \in Seq(Nodes)
    BY OnlyType
  <2>2. Range(u) = Range(p) \intersect R
    BY OnlyRange
  <2> QED BY <1>2, <2>1, <2>2
<1>5. p # Hole /\ Head(p) # n => u # <<>> /\ Head(u) = Head(p)
  BY <1>3, OnlyHead DEF Hole
<1> HIDE DEF u
<1>6. Append(u, new) \in Seq(Nodes) /\ Append(u, new) # <<>> /\ (u # <<>> => Head(Append(u, new)) = Head(u))
  BY <1>4
<1>7. Range(Append(u, new)) = Range(u) \union {new}
  BY <1>4, RangeOfAppend
<1> QED BY <1>1, <1>4, <1>5, <1>6, <1>7 DEF Hole

LEMMA NodesRepaired ==
  ASSUME IInv, ~stale, NEW i \in DOMAIN onionPaths, NEW n \in Range(onionPaths[i]), NEW new \in Nodes,
         onionPaths' = Written(i, Patched(onionPaths[i], n, new))
  PROVE  /\ NodesIn(onionPaths') \subseteq (NodesIn(onionPaths) \ {n}) \union {new}
         /\ \A g : g # n /\ Leads(g, onionPaths) => Leads(g, onionPaths')
<1> DEFINE p == onionPaths[i]
           q == Patched(p, n, new)
<1>1. /\ onionPaths \in Seq(Seq(Nodes)) /\ i \in Nat /\ i # 0 /\ p \in Seq(Nodes)
      /\ n \in Nodes
  <2>1. onionPaths \in Seq(Seq(Nodes)) /\ i \in Nat /\ i # 0 /\ p \in Seq(Nodes)
    BY DEF IInv, Paths
  <2> QED BY <2>1 DEF Range
<1>2. /\ q \in Seq(Nodes) /\ q # Hole
      /\ Range(q) = (Range(p) \ {n}) \union {new}
      /\ p # Hole /\ Head(p) # n => Head(q) = Head(p)
  <2> HIDE DEF p
  <2> QED BY <1>1, PatchedHas
<1> HIDE DEF q
<1>3. /\ DOMAIN onionPaths' = DOMAIN onionPaths /\ onionPaths'[i] = q
      /\ \A j \in DOMAIN onionPaths \ {i} : onionPaths'[j] = onionPaths[j]
  BY <1>1, <1>2, WrittenIs DEF q
<1>4. \A j \in DOMAIN onionPaths \ {i} : n \notin Range(onionPaths[j])
  BY DEF IInv, Paths, PathsAreDisjoint
<1>5. ASSUME NEW j \in DOMAIN onionPaths'
      PROVE  Range(onionPaths'[j]) \subseteq (NodesIn(onionPaths) \ {n}) \union {new}
  <2>1. CASE j = i
    BY <1>2, <1>3, <2>1 DEF NodesIn
  <2>2. CASE j # i
    BY <1>3, <1>4, <2>2 DEF NodesIn
  <2> QED BY <2>1, <2>2
<1>6. ASSUME NEW g, g # n, Leads(g, onionPaths) PROVE Leads(g, onionPaths')
  <2>1. PICK j \in DOMAIN onionPaths : onionPaths[j] # Hole /\ Head(onionPaths[j]) = g
    BY <1>6 DEF Leads
  <2>2. onionPaths'[j] # Hole /\ Head(onionPaths'[j]) = g
    <3>1. CASE j = i
      BY <1>2, <1>3, <1>6, <2>1, <3>1
    <3>2. CASE j # i
      BY <1>3, <2>1, <3>2
    <3> QED BY <3>1, <3>2
  <2> QED BY <1>3, <2>2 DEF Leads
<1>7. NodesIn(onionPaths') \subseteq (NodesIn(onionPaths) \ {n}) \union {new}
  BY <1>5 DEF NodesIn
<1> QED BY <1>6, <1>7

LEMMA NotThere ==
  ASSUME IInv, NEW n, IndexOf(With(n)) = 0
  PROVE  n \notin NodesIn(onionPaths)
<1>1. With(n) \subseteq Nat \ {0}
  BY DEF With, IInv, Paths
<1>2. With(n) = {}
  <2> SUFFICES ASSUME With(n) # {} PROVE FALSE
    OBVIOUS
  <2>1. Min(With(n)) \in With(n)
    BY <1>1, MinIs
  <2> QED BY <1>1, <2>1 DEF IndexOf
<1> QED BY <1>2 DEF With, NodesIn

\* A node has left its path, or waits for it to be written.
LEMMA NodeReplaced ==
  ASSUME IInv, JInv, NEW r \in Requests, req[r].at = "dropping", NEW u, Become(r, u),
         UNCHANGED <<pool, poolDb, guards, stale>>, stranded \subseteq stranded',
         Guarded(u, onionPaths', stale),
         ~stale => \A m \in NodesIn(onionPaths') : m \in NodesIn(onionPaths) \/ m \in pool,
         \/ stale \/ req[r].node \notin NodesIn(onionPaths') \/ req[r].node \in pool \union stranded'
         \/ Waits(u) /\ u.node = req[r].node
  PROVE  JInv'
<1>1. Busy(req[r]) /\ \A s \in Requests \ {r} : ~Busy(req[s])
  BY DEF Busy, JInv, OneBusy
<1>2. OneBusy' /\ \A s \in Requests : Guarded(req'[s], onionPaths', stale')
  BY <1>1, RequestMoves
<1>3. Accounted'
  BY AccountMoves
<1> QED BY <1>2, <1>3 DEF JInv, Guarded, Busy, Waits, Leads

LEMMA JDropStep ==
  ASSUME IInv, JInv, NEW r \in Requests, DropSnodeFromPath(r)
  PROVE  JInv'
<1> DEFINE q == req[r]
           n == q.node
           i == IndexOf(With(n))
           next == [q EXCEPT !.at = "failing", !.node = "none"]
           fetch == [q EXCEPT !.at = "fetching", !.index = i, !.copy = onionPaths]
<1>1. q.at = "dropping" /\ UNCHANGED <<pool, poolDb, guards, stale>>
  BY DEF DropSnodeFromPath, durable
<1>2. /\ q \in Good /\ Guarded(q, onionPaths, stale) /\ Busy(q) /\ Waits(q) /\ n \in Nodes
      /\ \A s \in Requests \ {r} : ~Busy(req[s])
  <2>1. q \in Good /\ Guarded(q, onionPaths, stale)
    BY DEF IInv, JInv
  <2>2. Busy(q) /\ Waits(q) /\ \A s \in Requests \ {r} : ~Busy(req[s])
    BY <1>1 DEF Busy, Waits, JInv, OneBusy
  <2>3. n \in Nodes
    BY <1>1, <2>1, RequestIs DEF Remembers
  <2> QED BY <2>1, <2>2, <2>3
<1>3. i # 0 => i \in DOMAIN onionPaths /\ n \in Range(onionPaths[i])
  BY IndexIs DEF IInv, Paths
<1>4. /\ next.at = "failing" /\ next.todo = q.todo /\ next.count = q.count /\ next.guard = q.guard
      /\ fetch.at = "fetching" /\ fetch.todo = q.todo /\ fetch.count = q.count /\ fetch.guard = q.guard
      /\ fetch.node = n /\ fetch.copy = onionPaths
  BY <1>2 DEF Good, Request
<1>5. Busy(next) /\ ~Waits(next) /\ ~Busy(fetch) /\ Waits(fetch)
  BY <1>4 DEF Busy, Waits
<1> HIDE DEF next, fetch
<1>6. CASE Become(r, Idle) /\ stranded' = stranded \union {n} /\ UNCHANGED onionPaths
  <2>1. Guarded(Idle, onionPaths', stale)
    BY IdleIsQuiet
  <2>2. \A m \in NodesIn(onionPaths') : m \in NodesIn(onionPaths)
    BY <1>6
  <2>3. stranded \subseteq stranded' /\ req[r].node \in stranded'
    BY <1>6
  <2> QED BY <1>1, <1>6, <2>1, <2>2, <2>3, NodeReplaced
<1>7. CASE i = 0 /\ Become(r, next) /\ UNCHANGED <<onionPaths, stranded>>
  <2>1. Guarded(next, onionPaths', stale)
    BY <1>2, <1>4, <1>5, <1>7 DEF Guarded
  <2>2. n \notin NodesIn(onionPaths')
    BY <1>7, NotThere
  <2>3. \A m \in NodesIn(onionPaths') : m \in NodesIn(onionPaths)
    BY <1>7
  <2> QED BY <1>1, <1>7, <2>1, <2>2, <2>3, NodeReplaced
<1>8. ASSUME i # 0, NEW new \in pool, onionPaths' = Written(i, Patched(onionPaths[i], n, new)),
             Become(r, next), UNCHANGED stranded
      PROVE  JInv'
  <2>0. new \in Nodes /\ i \in DOMAIN onionPaths /\ n \in Range(onionPaths[i])
    BY <1>3, <1>8 DEF IInv, Types
  <2> HIDE DEF i
  <2>1. ~stale => /\ NodesIn(onionPaths') \subseteq (NodesIn(onionPaths) \ {n}) \union {new}
                  /\ \A g : g # n /\ Leads(g, onionPaths) => Leads(g, onionPaths')
    BY <1>8, <2>0, NodesRepaired
  <2>2. Guarded(next, onionPaths', stale)
    BY <1>2, <1>4, <1>5, <2>1 DEF Guarded
  <2>3. ~stale => \A m \in NodesIn(onionPaths') : m \in NodesIn(onionPaths) \/ m \in pool
    BY <1>8, <2>1
  <2>4. ~stale /\ req[r].node \in NodesIn(onionPaths') => req[r].node \in pool
    BY <1>8, <2>1
  <2> QED BY <1>1, <1>8, <2>2, <2>3, <2>4, NodeReplaced
<1>9. CASE Become(r, fetch) /\ UNCHANGED <<onionPaths, stranded>>
  <2>1. Guarded(fetch, onionPaths', stale)
    BY <1>2, <1>4, <1>5, <1>9 DEF Guarded
  <2>2. \A m \in NodesIn(onionPaths') : m \in NodesIn(onionPaths)
    BY <1>9
  <2> QED BY <1>1, <1>4, <1>5, <1>9, <2>1, <2>2, NodeReplaced
<1>10. \/ Become(r, Idle) /\ stranded' = stranded \union {n} /\ UNCHANGED onionPaths
       \/ i = 0 /\ Become(r, next) /\ UNCHANGED <<onionPaths, stranded>>
       \/ /\ i # 0 /\ \E new \in Replacements(pool, onionPaths, n) :
                        onionPaths' = Written(i, Patched(onionPaths[i], n, new))
          /\ Become(r, next) /\ UNCHANGED stranded
       \/ Become(r, fetch) /\ UNCHANGED <<onionPaths, stranded>>
  BY DEF DropSnodeFromPath, next, fetch
<1>11. Replacements(pool, onionPaths, n) \subseteq pool
  BY DEF Replacements
<1> QED BY <1>6, <1>7, <1>8, <1>9, <1>10, <1>11

LEMMA JSeedSteps ==
  ASSUME IInv, JInv, NEW r \in Requests, SeedAnswers(r) \/ SeedFails(r)
  PROVE  JInv'
<1> DEFINE q == req[r]
           next == [q EXCEPT !.at = "failing", !.node = "none", !.index = 0, !.copy = <<>>]
<1>1. /\ Quiet /\ q.at = "fetching" /\ q \in Good /\ Guarded(q, onionPaths, stale) /\ Waits(q)
      /\ \A s \in Requests \ {r} : ~Busy(req[s])
  BY QuietIs DEF SeedAnswers, SeedFails, IInv, JInv, Waits
<1>2. CASE SeedFails(r)
  <2>1. /\ Become(r, Idle) /\ stranded' = stranded \union {q.node}
        /\ UNCHANGED <<pool, poolDb, guards, onionPaths, stale>>
    BY <1>2 DEF SeedFails, memory, durable
  <2>2. OneBusy' /\ \A s \in Requests : Guarded(req'[s], onionPaths', stale')
    BY <2>1, IdleIsQuiet, RequestMoves
  <2>3. Accounted'
    BY <2>1, AccountMoves
  <2> QED BY <2>1, <2>2, <2>3 DEF JInv, Guarded, Busy, Waits, Leads
<1>3. CASE SeedAnswers(r)
  <2>1. IInv'
    BY <1>3, SeedSteps
  <2>2. pool' = Nodes /\ poolDb' = Nodes
    BY <1>3 DEF SeedAnswers
  <2>3. Accounted'
    <3>1. NodesIn(onionPaths') \subseteq Nodes
      <4>1. \A k \in DOMAIN onionPaths' : onionPaths'[k] \in Seq(Nodes)
        BY <2>1 DEF IInv, Paths
      <4> QED BY <4>1 DEF NodesIn, Range
    <3> QED BY <2>2, <3>1 DEF Accounted
  <2>4. /\ q.node \in Nodes /\ q.index \in DOMAIN q.copy /\ q.node \in Range(q.copy[q.index])
    BY <1>1, RequestIs DEF Remembers
  <2>5. next.at = "failing" /\ next.todo = q.todo /\ next.count = q.count /\ next.guard = q.guard
    BY <1>1 DEF Good, Request
  <2>6. Busy(next) /\ ~Waits(next)
    BY <2>5 DEF Busy, Waits
  <2>7. CASE Become(r, Idle) /\ UNCHANGED <<onionPaths, stale>>
    <3>1. OneBusy' /\ \A s \in Requests : Guarded(req'[s], onionPaths', stale')
      BY <2>7, IdleIsQuiet, RequestMoves
    <3> QED BY <2>2, <2>3, <3>1 DEF JInv, Guarded, Busy, Waits, Leads
  <2> HIDE DEF next
  <2>8. ASSUME NEW new \in Nodes, Become(r, next), stale' = (stale \/ onionPaths # q.copy),
               onionPaths' = Written(q.index, Patched(q.copy[q.index], q.node, new))
        PROVE  JInv'
    <3>1. Guarded(next, onionPaths', stale')
      <4> SUFFICES ASSUME q.count > 0
                   PROVE  /\ q.guard \notin Range(q.todo)
                          /\ ~stale' => Leads(q.guard, onionPaths')
        BY <2>5, <2>6 DEF Guarded
      <4>1. /\ q.guard \notin Range(q.todo) /\ q.guard # q.node
            /\ ~stale => Leads(q.guard, q.copy)
        BY <1>1 DEF Guarded
      <4>2. ASSUME ~stale' PROVE Leads(q.guard, onionPaths')
        <5>1. ~stale /\ q.copy = onionPaths
          BY <2>8, <4>2
        <5> DEFINE i == q.index
                   n == q.node
        <5>2. /\ i \in DOMAIN onionPaths /\ n \in Range(onionPaths[i])
              /\ onionPaths' = Written(i, Patched(onionPaths[i], n, new))
          BY <2>4, <2>8, <5>1
        <5>3. q.guard # n /\ Leads(q.guard, onionPaths)
          BY <4>1, <5>1
        <5> HIDE DEF i, n, q
        <5> QED BY <5>1, <5>2, <5>3, NodesRepaired
      <4> QED BY <4>1, <4>2
    <3>2. OneBusy' /\ \A s \in Requests : Guarded(req'[s], onionPaths', stale')
      <4>1. ~stale' => ~stale
        BY <2>8
      <4> QED BY <1>1, <2>8, <3>1, <4>1, RequestMoves
    <3> QED BY <2>2, <2>3, <3>2 DEF JInv, Guarded, Busy, Waits, Leads
  <2>9. \/ Become(r, Idle) /\ UNCHANGED <<onionPaths, stale>>
        \/ /\ \E new \in Replacements(Nodes, q.copy, q.node) :
                onionPaths' = Written(q.index, Patched(q.copy[q.index], q.node, new))
           /\ Become(r, next) /\ stale' = (stale \/ onionPaths # q.copy)
    BY <1>3 DEF SeedAnswers, next
  <2>10. Replacements(Nodes, q.copy, q.node) \subseteq Nodes
    BY DEF Replacements
  <2> QED BY <2>7, <2>8, <2>9, <2>10
<1> QED BY <1>2, <1>3

\* Only those that wait for a build notice its end.
LEMMA BuildEnds ==
  ASSUME IInv, NEW left, EndAttempt(left), NEW s \in Requests
  PROVE  \/ req'[s] = req[s]
         \/ ~Busy(req'[s]) /\ ~Waits(req'[s]) /\ ~Waits(req[s])
<1>1. req[s] \in Good
  BY DEF IInv
<1> DEFINE on == [req[s] EXCEPT !.at = "path", !.tries = @ + 1]
<1>2. on.at = "path"
  BY <1>1 DEF Good, Request
<1> HIDE DEF on
<1>3. \/ req'[s] = req[s]
      \/ req[s].at \in {"waiting", "rebuilding"} /\ req'[s] \in {on, Idle}
  BY DEF EndAttempt, on
<1> QED BY <1>2, <1>3, IdleIsQuiet DEF Busy, Waits

LEMMA PoolGrows ==
  ASSUME IInv, JInv, NEW p, GetPool(p)
  PROVE  pool' = p /\ pool \subseteq pool' /\ pool' \subseteq poolDb'
BY DEF GetPool, Pools, IInv, Types, JInv

\* A build keeps the paths, or makes new ones of its guards and its pool.
LEMMA BuiltFrom ==
  ASSUME NEW gs, NEW p, BuildFrom(gs, p)
  PROVE  /\ \E left : EndAttempt(left)
         /\ \/ Cardinality(p) <= MinPool /\ UNCHANGED onionPaths
            \/ NodesIn(onionPaths') \subseteq gs \union p
<1>1. \E left : EndAttempt(left)
  BY DEF BuildFrom
<1>2. ASSUME NEW reps \in OnePerSubnet(p), NEW used \in SUBSET gs,
             onionPaths' \in PathsFrom(used, reps \ gs)
      PROVE  NodesIn(onionPaths') \subseteq gs \union p
  <2>1. reps \subseteq p
    BY DEF OnePerSubnet
  <2>2. \A k \in DOMAIN onionPaths' : onionPaths'[k] \in [1 .. Hops -> used \union (reps \ gs)]
    BY <1>2 DEF PathsFrom
  <2>3. \A k \in DOMAIN onionPaths' : Range(onionPaths'[k]) \subseteq gs \union p
    BY <2>1, <2>2 DEF Range
  <2> QED BY <2>3 DEF NodesIn
<1> QED BY <1>1, <1>2 DEF BuildFrom

LEMMA BuildMoves ==
  ASSUME IInv, JInv, Quiet, stale' = stale, pool \subseteq pool', pool' \subseteq poolDb',
         stranded \subseteq stranded',
         \A s \in Requests : \/ req'[s] = req[s]
                             \/ ~Busy(req'[s]) /\ ~Waits(req'[s]) /\ ~Waits(req[s]),
         \A n \in NodesIn(onionPaths') :
           \/ n \in pool' \union guards'
           \/ n \in NodesIn(onionPaths) /\ (n \in guards => n \in guards' \union stranded')
  PROVE  JInv'
<1>1. \A s \in Requests : ~Busy(req'[s])
  BY QuietIs
<1>2. OneBusy'
  <2>1. \A x, y \in Requests : Busy(req'[x]) /\ Busy(req'[y]) => x = y
    BY <1>1
  <2> QED BY <2>1 DEF OneBusy, Busy
<1>3. ASSUME NEW s \in Requests PROVE Guarded(req'[s], onionPaths', stale')
  <2>1. Guarded(req[s], onionPaths, stale) /\ ~Busy(req[s])
    BY QuietIs DEF JInv
  <2>2. CASE req'[s] = req[s]
    BY <2>1, <2>2 DEF Guarded
  <2>3. CASE ~Busy(req'[s]) /\ ~Waits(req'[s])
    BY <2>3 DEF Guarded
  <2> QED BY <2>2, <2>3
<1>4. ASSUME ~stale', NEW n \in NodesIn(onionPaths')
      PROVE  \/ n \in pool' \union guards' \union stranded'
             \/ \E s \in Requests : Waits(req'[s]) /\ req'[s].node = n
  <2>1. CASE n \in pool' \union guards'
    BY <2>1
  <2>2. CASE n \in NodesIn(onionPaths) /\ (n \in guards => n \in guards' \union stranded')
    <3>1. CASE n \in pool \union guards \union stranded
      BY <2>2, <3>1
    <3>2. ASSUME NEW s \in Requests, Waits(req[s]), req[s].node = n
          PROVE  \E x \in Requests : Waits(req'[x]) /\ req'[x].node = n
      BY <3>2
    <3> QED BY <1>4, <2>2, <3>1, <3>2 DEF JInv, Accounted
  <2> QED BY <2>1, <2>2
<1>5. Accounted'
  BY <1>4 DEF Accounted, Waits
<1> QED BY <1>2, <1>3, <1>5 DEF JInv, Guarded, Busy, Waits, Leads

LEMMA JBuildSteps ==
  ASSUME IInv, JInv, GetRandomSnode \/ BuildAttempt \/ SelectGuards \/ SelectFails
  PROVE  JInv'
<1>0. Quiet
  BY DEF GetRandomSnode, BuildAttempt, SelectGuards, SelectFails
<1>1. CASE GetRandomSnode
  <2>1. PICK p : GetPool(p)
    BY <1>1 DEF GetRandomSnode
  <2>2. UNCHANGED <<guards, onionPaths, req, stale, stranded>>
    BY <1>1 DEF GetRandomSnode, history
  <2> QED BY <1>0, <2>1, <2>2, PoolGrows, BuildMoves
<1>2. CASE BuildAttempt
  <2>1. PICK p \in Pools :
          LET gs == IF guards = {} THEN guardDb \intersect p ELSE guards
          IN  /\ GetPool(p)
              /\ \/ /\ EndAttempt(build - 1)
                    /\ UNCHANGED <<guards, onionPaths>>
                 \/ /\ guards' = gs
                    /\ UNCHANGED <<onionPaths, req>>
                 \/ /\ guards' = gs
                    /\ BuildFrom(gs, p)
    BY <1>2 DEF BuildAttempt
  <2>2. stale' = stale /\ stranded' = stranded
    BY <1>2 DEF BuildAttempt, history
  <2>3. pool' = p /\ pool \subseteq pool' /\ pool' \subseteq poolDb'
    BY <2>1, PoolGrows
  <2>4. guards \subseteq guards'
    BY <2>1
  <2>5. \A s \in Requests : \/ req'[s] = req[s]
                            \/ ~Busy(req'[s]) /\ ~Waits(req'[s]) /\ ~Waits(req[s])
    <3>1. UNCHANGED req \/ \E left : EndAttempt(left)
      BY <2>1, BuiltFrom
    <3> QED BY <3>1, BuildEnds
  <2>6. UNCHANGED onionPaths \/ NodesIn(onionPaths') \subseteq guards' \union p
    BY <2>1, BuiltFrom
  <2> QED BY <1>0, <2>2, <2>3, <2>4, <2>5, <2>6, BuildMoves
<1>3. CASE SelectGuards
  <2>1. PICK gs \in SUBSET candidates, p \in Pools :
          /\ guards' = gs /\ GetPool(p) /\ BuildFrom(gs, p)
          /\ stranded' = IF Cardinality(p) <= MinPool THEN stranded \union (guards \ gs) ELSE stranded
    BY <1>3 DEF SelectGuards
  <2>2. stale' = stale /\ stranded \subseteq stranded'
    BY <1>3, <2>1 DEF SelectGuards
  <2>3. pool' = p /\ pool \subseteq pool' /\ pool' \subseteq poolDb'
    BY <2>1, PoolGrows
  <2>4. \A s \in Requests : \/ req'[s] = req[s]
                            \/ ~Busy(req'[s]) /\ ~Waits(req'[s]) /\ ~Waits(req[s])
    <3>1. \E left : EndAttempt(left)
      BY <2>1, BuiltFrom
    <3> QED BY <3>1, BuildEnds
  <2>5. \/ Cardinality(p) <= MinPool /\ UNCHANGED onionPaths
        \/ NodesIn(onionPaths') \subseteq guards' \union p
    BY <2>1, BuiltFrom
  <2>6. CASE Cardinality(p) <= MinPool /\ UNCHANGED onionPaths
    <3>1. \A n \in guards : n \in guards' \union stranded'
      BY <2>1, <2>6
    <3> QED BY <1>0, <2>2, <2>3, <2>4, <2>6, <3>1, BuildMoves
  <2>7. CASE NodesIn(onionPaths') \subseteq guards' \union p
    BY <1>0, <2>2, <2>3, <2>4, <2>7, BuildMoves
  <2> QED BY <2>5, <2>6, <2>7
<1>4. CASE SelectFails
  <2>1. EndAttempt(build - 1) /\ UNCHANGED <<pool, guards, onionPaths, poolDb, stale, stranded>>
    BY <1>4 DEF SelectFails, memory, durable, history
  <2>2. \A s \in Requests : \/ req'[s] = req[s]
                            \/ ~Busy(req'[s]) /\ ~Waits(req'[s]) /\ ~Waits(req[s])
    BY <2>1, BuildEnds
  <2>3. pool' \subseteq poolDb'
    BY <2>1 DEF JInv
  <2> QED BY <1>0, <2>1, <2>2, <2>3, BuildMoves
<1> QED BY <1>1, <1>2, <1>3, <1>4

LEMMA JInit == Init => JInv
<1> SUFFICES ASSUME Init PROVE JInv
  OBVIOUS
<1>1. pool = {} /\ onionPaths = <<>> /\ req = [r \in Requests |-> Idle]
  BY DEF Init
<1>2. \A r \in Requests : req[r] = Idle
  BY <1>1
<1>3. OneBusy /\ \A r \in Requests : Guarded(req[r], onionPaths, stale)
  BY <1>2, IdleIsQuiet DEF OneBusy
<1>4. NodesIn(onionPaths) = {}
  <2>1. DOMAIN onionPaths = {}
    BY <1>1
  <2> QED BY <2>1 DEF NodesIn
<1> QED BY <1>1, <1>3, <1>4 DEF JInv, Accounted

LEMMA JStep == IInv /\ JInv /\ [Next]_vars => JInv'
<1> SUFFICES ASSUME IInv, JInv, [Next]_vars PROVE JInv'
  OBVIOUS
<1>1. CASE GetRandomSnode \/ BuildAttempt \/ SelectGuards \/ SelectFails
  BY <1>1, JBuildSteps
<1>2. ASSUME NEW r \in Requests,
             \/ Begin(r) \/ AwaitBuild(r) \/ GetOnionPath(r)
             \/ Succeed(r) \/ NodeNotFound(r) \/ TargetFails(r) \/ PathFails(r)
             \/ CountNode(r) \/ CountPath(r)
             \/ DropSnodeFromPath(r) \/ SeedAnswers(r) \/ SeedFails(r)
      PROVE  JInv'
  BY <1>2, JRequestSteps, JErrorSteps, JNotFoundStep, JCountNodeStep, JCountPathStep,
     JDropStep, JSeedSteps
<1>3. CASE UNCHANGED vars
  <2>1. UNCHANGED <<pool, guards, onionPaths, poolDb, req, stale, stranded>>
    BY <1>3 DEF vars, memory, durable, history
  <2> QED BY <2>1 DEF JInv, OneBusy, Accounted, Guarded, Busy, Waits, Leads, NodesIn
<1> QED BY <1>1, <1>2, <1>3 DEF Next

-----------------------------------------------------------------------------
(* The theorems *)

\* IInv holds in every state.
THEOREM Invariance == Spec => []IInv
<1>1. Init => IInv
  BY InvInit
<1>2. IInv /\ [Next]_vars => IInv'
  BY InvStep
<1> QED BY <1>1, <1>2, PTL DEF Spec

\* The pool, the guards, the paths and the builds have their types, and no failure
\* count reaches its threshold (incrementBadSnodeCountOrDrop, incrementBadPathCountOrDrop).
THEOREM TypeCorrect == Spec => []TypeOK
<1>1. IInv => TypeOK
  BY DEF IInv, Types, Paths, TypeOK
<1> QED BY <1>1, Invariance, PTL

\* A path always has all its hops and no node twice, whatever was replaced in it
\* (dropSnodeFromPath) and whenever that was written.
THEOREM PathsStayWhole == Spec => []PathsAreWhole
<1>1. IInv => PathsAreWhole
  BY DEF IInv, Paths
<1> QED BY <1>1, Invariance, PTL

\* No node is in two paths, unless a repair was written over paths that had changed
\* since it began (dropSnodeFromPath, buildNewOnionPathsWorker).
THEOREM PathsStayDisjoint == Spec => []PathsAreDisjoint
<1>1. IInv => PathsAreDisjoint
  BY DEF IInv, Paths
<1> QED BY <1>1, Invariance, PTL

\* A node that was dropped from the pool is in no path once its failure is handled,
\* unless a stale write brought it back, it guards a path, or its replacement threw
\* (dropSnodeFromSnodePool, dropSnodeFromPath, dropPathStartingWithGuardNode).
THEOREM DroppedLeave == Spec => []DroppedNodesLeave
<1>1. Init => JInv
  BY JInit
<1>2. IInv /\ JInv /\ [Next]_vars => JInv'
  BY JStep
<1>3. JInv => DroppedNodesLeave
  BY DEF JInv, Accounted, DroppedNodesLeave, Waits
<1> QED BY <1>1, <1>2, <1>3, Invariance, PTL DEF Spec

=============================================================================
