---------------------------- MODULE DurableJobs ----------------------------
(***************************************************************************)
(* What a PersistedJobRunner promises to those who add jobs to it: an      *)
(* accepted job stays accepted, whatever restarts happen, until it         *)
(* succeeds, fails for good or has used its attempts, and its failures are *)
(* counted one by one.                                                     *)
(***************************************************************************)
EXTENDS Integers

CONSTANTS Jobs, KindOf, MaxAttempts

VARIABLE retries   \* the accepted jobs, each with the failures it survived

Accepted == DOMAIN retries

SameKind(id) == {other \in Accepted : KindOf[other] = KindOf[id]}

Init == retries = [id \in {} |-> 0]

\* At most one job of the same kind may be waiting already.
Accept(id) ==
  /\ id \notin Accepted
  /\ \A a, b \in SameKind(id) : a = b
  /\ retries' = [other \in Accepted \cup {id} |-> IF other = id THEN 0 ELSE retries[other]]

Fail(id) ==
  /\ id \in Accepted /\ retries[id] < MaxAttempts - 1
  /\ retries' = [retries EXCEPT ![id] = @ + 1]

Leave(id) ==
  /\ id \in Accepted
  /\ retries' = [other \in Accepted \ {id} |-> retries[other]]

Next == \E id \in Jobs : Accept(id) \/ Fail(id) \/ Leave(id)

Spec == Init /\ [][Next]_retries
=============================================================================
