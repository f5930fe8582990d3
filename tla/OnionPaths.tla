----------------------------- MODULE OnionPaths -----------------------------
(***************************************************************************)
(* The onion paths (ts/session/onions/onionPath.ts), the snode pool they   *)
(* are built from (snodePool.ts), and the handling of the errors of onion  *)
(* requests (onions.ts), which counts failures, replaces nodes in paths    *)
(* and drops paths.                                                        *)
(*                                                                         *)
(* A failure is handled in microtasks, one action each, which come before  *)
(* every network answer.  Only when the pool has become too small does the *)
(* replacement of a node wait for a seed node; then other failures and a   *)
(* rebuild of the paths come in between, and the replacement is written at *)
(* the index, and over the path, that it remembers (a stale write).        *)
(***************************************************************************)
EXTENDS Integers, FiniteSets, SequencesExt, Filters

CONSTANTS
  Nodes,          \* service nodes: those a seed node lists
  Requests,       \* callers of lokiOnionFetch
  Hops,           \* ONION_REQUEST_HOPS
  DesiredGuards,  \* desiredGuardCount
  MinimumGuards,  \* minimumGuardCount
  MinPool,        \* minSnodePoolCount
  PathThreshold,  \* pathFailureThreshold
  SnodeThreshold, \* snodeFailureThreshold
  BuildTries,     \* attempts of buildNewOnionPathsWorker
  PathTries,      \* attempts of getOnionPath, the last of them in vain
  MaxTwins,       \* nodes whose /24 is that of another node of the pool
  MaxFailures     \* failed requests in a behaviour

ASSUME NodesAssumption == IsFiniteSet(Nodes)
ASSUME CountAssumption ==
  /\ Hops \in Nat \ {0, 1} /\ DesiredGuards \in Nat \ {0}
  /\ MinimumGuards \in 1 .. DesiredGuards /\ MinPool \in Nat \ {0}
  /\ PathThreshold \in Nat \ {0} /\ SnodeThreshold \in Nat \ {0}
  /\ BuildTries \in Nat \ {0} /\ PathTries \in Nat \ {0, 1}
ASSUME BoundAssumption == MaxTwins \in Nat /\ MaxFailures \in Nat

VARIABLES
  pool, poolDb,    \* randomSnodePool and its copy in the database
  guards, guardDb, \* guardNodes, likewise
  onionPaths,      \* a sequence of paths; an index nobody wrote is a Hole
  pathFailureCount, snodeFailureCount,
  build,           \* the attempts left of the build in progress, 0 when there is none
  candidates,      \* the pool whose nodes it tests as guards, {} when it does not
  req,             \* what each request does
  failures,        \* requests that may still fail
  stale,           \* history: a stale write happened
  stranded         \* history: nodes whose replacement threw, guards given up for nothing

memory == <<pool, guards, onionPaths, pathFailureCount, snodeFailureCount>>
durable == <<poolDb, guardDb>>
history == <<failures, stale, stranded>>
vars == <<memory, durable, build, candidates, req, history>>

-----------------------------------------------------------------------------
(* Helpers *)

Hole == <<>>
HasHole == \E i \in DOMAIN onionPaths : onionPaths[i] = Hole
NodesIn(paths) == UNION {Range(paths[i]) : i \in DOMAIN paths}
Flattened(paths) == FoldSeq(LAMBDA p, n : Len(p) + n, 0, paths)

\* findIndex of the first of some paths; it throws at a hole before it.
IndexOf(found) == IF found = {} THEN 0 ELSE Min(found)
MeetsHole(found) ==
  \E h \in DOMAIN onionPaths : onionPaths[h] = Hole /\ \A i \in found : h < i

With(n) == {i \in DOMAIN onionPaths : n \in Range(onionPaths[i])}
StartingWith(g) == {i \in DOMAIN onionPaths : onionPaths[i] # Hole /\ Head(onionPaths[i]) = g}

Zero == [n \in Nodes |-> 0]

\* at: "idle"; "path": in getOnionPath; "waiting": awaits the build there; "sent";
\* "failing": counts the nodes of todo, then the path of guard if count is not 0;
\* "dropping": before dropSnodeFromPath; "fetching": awaits the seed node in it;
\* "rebuilding": awaits the build that follows a dropped path.
Idle == [at |-> "idle", path |-> <<>>, tries |-> 0, todo |-> <<>>,
         guard |-> "none", count |-> 0, node |-> "none", index |-> 0, copy |-> <<>>]

Become(r, next) == req' = [req EXCEPT ![r] = next]

\* No failure is being handled in microtasks.
Quiet == \A r \in Requests : req[r].at \notin {"failing", "dropping"}

\* The paths after a write at an index, which may lie behind their end.
Written(index, path) ==
  [i \in 1 .. IF index > Len(onionPaths) THEN index ELSE Len(onionPaths) |->
     IF i = index THEN path ELSE IF i \in DOMAIN onionPaths THEN onionPaths[i] ELSE Hole]

\* dropSnodeFromSnodePool
DropFromPool(n) ==
  /\ pool' = pool \ {n}
  /\ poolDb' = IF n \in pool THEN pool \ {n} ELSE poolDb

-----------------------------------------------------------------------------
(* Requests *)

\* lokiOnionFetch.  The target, a node of a swarm or of the pool, is chosen where it
\* first matters.
Begin(r) ==
  /\ Quiet
  /\ req[r].at = "idle"
  /\ Become(r, [Idle EXCEPT !.at = "path"])
  /\ UNCHANGED <<memory, durable, build, candidates, history>>

\* getOnionPath, while there are too few paths; the build is one for all callers.
AwaitBuild(r) ==
  /\ Quiet
  /\ req[r].at = "path" /\ Len(onionPaths) < MinimumGuards
  /\ Become(r, [req[r] EXCEPT !.at = "waiting"])
  /\ build' = IF build = 0 THEN BuildTries ELSE build
  /\ UNCHANGED <<memory, durable, candidates, history>>

\* ... and its end: a path without the target, or none if the target is in them all.
GetOnionPath(r) ==
  /\ Quiet
  /\ req[r].at = "path" /\ Len(onionPaths) >= MinimumGuards
  /\ \/ \E p \in Range(onionPaths) \ {Hole} : Become(r, [Idle EXCEPT !.at = "sent", !.path = p])
     \/ /\ \E n \in Nodes : \A p \in Range(onionPaths) \ {Hole} : n \in Range(p)
        /\ Become(r, Idle)
  /\ UNCHANGED <<memory, durable, build, candidates, history>>

Targets(r) == Nodes \ Range(req[r].path)

\* An answer, or an error that changes nothing.
Succeed(r) ==
  /\ Quiet
  /\ req[r].at = "sent"
  /\ Become(r, Idle)
  /\ UNCHANGED <<memory, durable, build, candidates, history>>

\* handleNodeNotFound, for the next node of the path or the target.
NodeNotFound(r) ==
  /\ Quiet
  /\ req[r].at = "sent"
  /\ failures > 0 /\ failures' = failures - 1
  /\ \E n \in Range(Tail(req[r].path)) \union Targets(r) :
       /\ DropFromPool(n)
       /\ snodeFailureCount' = [snodeFailureCount EXCEPT ![n] = 0]
       /\ Become(r, [Idle EXCEPT !.at = "dropping", !.node = n])
  /\ UNCHANGED <<guards, guardDb, onionPaths, pathFailureCount, build, candidates, stale, stranded>>

\* processAnyOtherErrorAtDestination: the target is counted.
TargetFails(r) ==
  /\ Quiet
  /\ req[r].at = "sent"
  /\ failures > 0 /\ failures' = failures - 1
  /\ \E n \in Targets(r) : Become(r, [Idle EXCEPT !.at = "failing", !.todo = <<n>>])
  /\ UNCHANGED <<memory, durable, build, candidates, stale, stranded>>

\* incrementBadPathCountOrDrop, up to its loop.
PathFails(r) ==
  /\ Quiet
  /\ req[r].at = "sent"
  /\ failures > 0 /\ failures' = failures - 1
  /\ LET g == Head(req[r].path)
         i == IndexOf(With(g))
     IN  \/ MeetsHole(With(g)) /\ Become(r, Idle)
         \/ ~MeetsHole(With(g)) /\ i = 0 /\ Become(r, [Idle EXCEPT !.at = "failing", !.todo = <<g>>])
         \/ /\ ~MeetsHole(With(g)) /\ i # 0
            /\ LET first == Head(onionPaths[i])
               IN  Become(r, [Idle EXCEPT !.at = "failing", !.todo = Tail(onionPaths[i]),
                                         !.guard = first, !.count = pathFailureCount[first] + 1])
  /\ UNCHANGED <<memory, durable, build, candidates, stale, stranded>>

-----------------------------------------------------------------------------
(* Counting failures and replacing nodes *)

\* Mutant: a node may fail once more.
DroppedLater(n) == snodeFailureCount[n] >= SnodeThreshold

TooManyFailures(n) == snodeFailureCount[n] + 1 >= SnodeThreshold

\* Mutant: a node that is dropped from the pool stays in its path.
AfterDrop(n, rest) == rest

DropNext(n, rest) == [rest EXCEPT !.at = "dropping", !.node = n]

\* incrementBadSnodeCountOrDrop, for the next node.
CountNode(r) ==
  /\ req[r].at = "failing" /\ req[r].todo # <<>>
  /\ LET n == Head(req[r].todo)
         rest == [req[r] EXCEPT !.todo = Tail(@)]
     IN  \/ /\ ~TooManyFailures(n)
            /\ snodeFailureCount' = [snodeFailureCount EXCEPT ![n] = @ + 1]
            /\ Become(r, rest)
            /\ UNCHANGED <<pool, poolDb>>
         \/ /\ TooManyFailures(n)
            /\ DropFromPool(n)
            /\ snodeFailureCount' = [snodeFailureCount EXCEPT ![n] = 0]
            /\ Become(r, DropNext(n, rest))
  /\ UNCHANGED <<guards, guardDb, onionPaths, pathFailureCount, build, candidates, history>>

\* dropPathStartingWithGuardNode, or the count of the path.
CountPath(r) ==
  /\ req[r].at = "failing" /\ req[r].todo = <<>>
  /\ LET g == req[r].guard
         kept == Filter(onionPaths, LAMBDA p : p # Hole /\ Head(p) # g)
     IN  \/ /\ req[r].count = 0
            /\ Become(r, Idle)
            /\ UNCHANGED <<memory, durable, build>>
         \/ /\ req[r].count \in 1 .. PathThreshold - 1
            /\ pathFailureCount' = [pathFailureCount EXCEPT ![g] = req[r].count]
            /\ Become(r, Idle)
            /\ UNCHANGED <<pool, guards, onionPaths, snodeFailureCount, durable, build>>
         \/ /\ req[r].count >= PathThreshold /\ MeetsHole(StartingWith(g))
            /\ DropFromPool(g)
            /\ Become(r, Idle)
            /\ UNCHANGED <<guards, onionPaths, pathFailureCount, snodeFailureCount, guardDb, build>>
         \/ /\ req[r].count >= PathThreshold /\ ~MeetsHole(StartingWith(g))
            /\ DropFromPool(g)
            /\ onionPaths' = kept
            /\ guards' = guards \ {g} /\ guardDb' = guards \ {g}
            /\ pathFailureCount' = [pathFailureCount EXCEPT ![g] = 0]
            /\ build' = IF build = 0 THEN BuildTries ELSE build
            /\ Become(r, [Idle EXCEPT !.at = "rebuilding"])
            /\ UNCHANGED snodeFailureCount
  /\ UNCHANGED <<candidates, history>>

\* Mutant: the new node may be one of another path.
ReplacementsInOwnPath(ns, paths, n) ==
  ns \ UNION {Range(paths[i]) : i \in {j \in DOMAIN paths : n \in Range(paths[j])}}

\* getRandomSnode: any node of the pool that is in no path.
Replacements(ns, paths, n) == ns \ NodesIn(paths)

\* It wants more nodes than that in the pool.
PoolSuffices(ns, paths) == Cardinality(ns) >= MinPool + Flattened(paths)

\* Mutant: a path that lost its node gets no new one.
ShorterPath(path, n, new) == Filter(path, LAMBDA m : m # n)

\* The node leaves its path and the new one is appended.
Patched(path, n, new) == Append(Filter(path, LAMBDA m : m # n), new)

\* dropSnodeFromPath.  An error in it ends the handling of the failure.
DropSnodeFromPath(r) ==
  /\ req[r].at = "dropping"
  /\ LET n == req[r].node
         i == IndexOf(With(n))
         next == [req[r] EXCEPT !.at = "failing", !.node = "none"]
     IN  \/ /\ HasHole
            /\ Become(r, Idle) /\ stranded' = stranded \union {n}
            /\ UNCHANGED onionPaths
         \/ /\ ~HasHole /\ i = 0
            /\ Become(r, next)
            /\ UNCHANGED <<onionPaths, stranded>>
         \/ /\ ~HasHole /\ i # 0 /\ PoolSuffices(pool, onionPaths)
            /\ \E new \in Replacements(pool, onionPaths, n) :
                 onionPaths' = Written(i, Patched(onionPaths[i], n, new))
            /\ Become(r, next)
            /\ UNCHANGED stranded
         \/ /\ ~HasHole /\ i # 0 /\ ~PoolSuffices(pool, onionPaths)
            /\ Become(r, [req[r] EXCEPT !.at = "fetching", !.index = i, !.copy = onionPaths])
            /\ UNCHANGED <<onionPaths, stranded>>
  /\ UNCHANGED <<pool, guards, pathFailureCount, snodeFailureCount, durable, build, candidates, failures, stale>>

\* The seed node answers and dropSnodeFromPath goes on.  The answer resets the
\* failure counts.
SeedAnswers(r) ==
  /\ Quiet
  /\ req[r].at = "fetching"
  /\ pool' = Nodes /\ poolDb' = Nodes
  /\ pathFailureCount' = Zero /\ snodeFailureCount' = Zero
  /\ LET n == req[r].node
         copy == req[r].copy
     IN  \/ /\ PoolSuffices(Nodes, copy)
            /\ \E new \in Replacements(Nodes, copy, n) :
                 onionPaths' = Written(req[r].index, Patched(copy[req[r].index], n, new))
            /\ Become(r, [req[r] EXCEPT !.at = "failing", !.node = "none", !.index = 0, !.copy = <<>>])
            /\ stale' = (stale \/ onionPaths # copy)
            /\ UNCHANGED stranded
         \/ /\ ~PoolSuffices(Nodes, copy)
            /\ Become(r, Idle) /\ stranded' = stranded \union {n}
            /\ UNCHANGED <<onionPaths, stale>>
  /\ UNCHANGED <<guards, guardDb, build, candidates, failures>>

\* The seed nodes do not answer: getRandomSnode throws.
SeedFails(r) ==
  /\ Quiet
  /\ req[r].at = "fetching"
  /\ Become(r, Idle)
  /\ stranded' = stranded \union {req[r].node}
  /\ UNCHANGED <<memory, durable, build, candidates, failures, stale>>

-----------------------------------------------------------------------------
(* Building paths *)

\* The build ends, or its attempt does.  Those who wait for its end go on, except
\* that getOnionPath throws after its last attempt, whatever it built.
EndAttempt(left) ==
  /\ build' = left
  /\ req' = [r \in Requests |->
       CASE left = 0 /\ req[r].at = "waiting" /\ req[r].tries + 1 < PathTries ->
              [req[r] EXCEPT !.at = "path", !.tries = @ + 1]
         [] left = 0 /\ req[r].at = "waiting" /\ req[r].tries + 1 = PathTries -> Idle
         [] left = 0 /\ req[r].at = "rebuilding" -> Idle
         [] OTHER -> req[r]]

\* getSnodePoolFromDBOrFetchFromSeed: the pool, that of the database, or a new list.
Pools ==
  CASE Cardinality(pool) > MinPool -> {pool}
    [] Cardinality(pool) <= MinPool /\ Cardinality(poolDb) > MinPool -> {poolDb}
    [] OTHER -> {pool, Nodes}

GetPool(p) ==
  /\ p \in Pools
  /\ pool' = p
  /\ poolDb' = IF p \in {pool, poolDb} THEN poolDb ELSE p
  /\ IF p \in {pool, poolDb}
     THEN UNCHANGED <<pathFailureCount, snodeFailureCount>>
     ELSE pathFailureCount' = Zero /\ snodeFailureCount' = Zero

\* getRandomSnode for a request that needs no path yet.
GetRandomSnode ==
  /\ Quiet
  /\ Cardinality(pool) < MinPool
  /\ \E p \in Pools \ {pool} : GetPool(p)
  /\ UNCHANGED <<guards, guardDb, onionPaths, build, candidates, req, history>>

\* One node of each subnet.
OnePerSubnet(ns) == {s \in SUBSET ns : Cardinality(ns \ s) <= MaxTwins}

\* Disjoint paths, one for each of the guards, over other nodes.
PathsFrom(gs, others) ==
  {ps \in [1 .. Cardinality(gs) -> [1 .. Hops -> gs \union others]] :
     /\ \A i \in DOMAIN ps : ps[i][1] \in gs /\ \A k \in 2 .. Hops : ps[i][k] \in others
     /\ \A i, j \in DOMAIN ps, k, l \in 1 .. Hops : ps[i][k] = ps[j][l] => i = j /\ k = l}

\* The paths are built from nodes of different subnets.  Their number is computed
\* from a list in which a node stands as often as its subnet has nodes, and when the
\* choice runs out the attempt fails with the paths built so far.
BuildFrom(gs, p) ==
  \/ /\ Cardinality(p) <= MinPool
     /\ EndAttempt(build - 1)
     /\ UNCHANGED onionPaths
  \/ /\ Cardinality(p) > MinPool
     /\ \E reps \in OnePerSubnet(p), twins \in 0 .. MaxTwins :
          LET others == reps \ gs
              wanted == Min({Cardinality(gs), (Cardinality(others) + twins) \div (Hops - 1)})
              built == Min({wanted, Cardinality(others) \div (Hops - 1)})
          IN  /\ twins <= Cardinality(p \ reps)
              /\ \E used \in SUBSET gs :
                   /\ Cardinality(used) = built
                   /\ onionPaths' \in PathsFrom(used, others)
              /\ EndAttempt(IF built < wanted THEN build - 1 ELSE 0)

\* An attempt of buildNewOnionPathsWorker, up to the test of new guard nodes if some
\* are missing.
BuildAttempt ==
  /\ Quiet
  /\ build > 0 /\ candidates = {}
  /\ \E p \in Pools :
       LET gs == IF guards = {} THEN guardDb \intersect p ELSE guards
       IN  /\ GetPool(p)
           /\ \/ /\ Cardinality(p) <= MinPool
                 /\ EndAttempt(build - 1)
                 /\ UNCHANGED <<guards, onionPaths, candidates>>
              \/ /\ Cardinality(p) > MinPool
                 /\ guards' = gs
                 /\ \/ /\ Cardinality(gs) < DesiredGuards
                       /\ candidates' = p
                       /\ UNCHANGED <<onionPaths, build, req>>
                    \/ /\ Cardinality(gs) >= DesiredGuards
                       /\ BuildFrom(gs, p)
                       /\ UNCHANGED candidates
  /\ UNCHANGED <<guardDb, history>>

\* selectGuardNodes has found enough guards, and the attempt goes on.  When the pool
\* has become too small meanwhile, the paths of the former guards stay.
SelectGuards ==
  /\ Quiet
  /\ candidates # {}
  /\ candidates' = {}
  /\ \E gs \in SUBSET candidates, p \in Pools :
       /\ Cardinality(gs) = DesiredGuards
       /\ guards' = gs /\ guardDb' = gs
       /\ GetPool(p)
       /\ BuildFrom(gs, p)
       /\ stranded' = IF Cardinality(p) <= MinPool THEN stranded \union (guards \ gs) ELSE stranded
  /\ UNCHANGED <<failures, stale>>

\* Or has not.
SelectFails ==
  /\ Quiet
  /\ candidates # {}
  /\ candidates' = {}
  /\ EndAttempt(build - 1)
  /\ UNCHANGED <<memory, durable, history>>

-----------------------------------------------------------------------------
\* Any database an earlier process may have left.
Init ==
  /\ pool = {} /\ poolDb \in {{}, Nodes}
  /\ guards = {}
  /\ guardDb \in {{}} \union IF poolDb = {} THEN {} ELSE {g \in SUBSET Nodes : Cardinality(g) = DesiredGuards}
  /\ onionPaths = <<>>
  /\ pathFailureCount = Zero /\ snodeFailureCount = Zero
  /\ build = 0 /\ candidates = {}
  /\ req = [r \in Requests |-> Idle]
  /\ failures = MaxFailures /\ stale = FALSE /\ stranded = {}

Next ==
  \/ GetRandomSnode \/ BuildAttempt \/ SelectGuards \/ SelectFails
  \/ \E r \in Requests :
       \/ Begin(r) \/ AwaitBuild(r) \/ GetOnionPath(r)
       \/ Succeed(r) \/ NodeNotFound(r) \/ TargetFails(r) \/ PathFails(r)
       \/ CountNode(r) \/ CountPath(r)
       \/ DropSnodeFromPath(r) \/ SeedAnswers(r) \/ SeedFails(r)

Spec == Init /\ [][Next]_vars

-----------------------------------------------------------------------------
(* Properties *)

TypeOK ==
  /\ pool \subseteq Nodes /\ poolDb \subseteq Nodes
  /\ guards \subseteq Nodes /\ guardDb \subseteq Nodes
  /\ onionPaths \in Seq(Seq(Nodes))
  /\ pathFailureCount \in [Nodes -> 0 .. PathThreshold - 1]
  /\ snodeFailureCount \in [Nodes -> 0 .. SnodeThreshold - 1]
  /\ build \in 0 .. BuildTries /\ candidates \subseteq Nodes
  /\ failures \in 0 .. MaxFailures /\ stale \in BOOLEAN /\ stranded \subseteq Nodes

\* A path always has all its hops, and no node twice, whatever was replaced.
PathsAreWhole ==
  \A p \in Range(onionPaths) : p = Hole \/ (Len(p) = Hops /\ IsInjective(p))

\* No node is in two paths and no index is empty, unless a stale write happened.
PathsAreDisjoint ==
  ~stale => /\ ~HasHole
            /\ \A i, j \in DOMAIN onionPaths :
                 Range(onionPaths[i]) \intersect Range(onionPaths[j]) # {} => i = j

\* A node that was dropped from the pool is in no path once its failure is handled,
\* unless a stale write brought it back.  Excepted are guards, nodes whose replacement
\* threw, and guards given up by a build that failed afterwards.
DroppedNodesLeave ==
  ~stale /\ (\A r \in Requests : req[r].at \notin {"dropping", "fetching"}) =>
    \A n \in NodesIn(onionPaths) : n \in pool \union guards \union stranded

=============================================================================
