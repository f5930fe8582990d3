--------------------------- MODULE ReliableOutbox ---------------------------
(***************************************************************************)
(* What the outgoing queue promises, whatever happens to the process: an   *)
(* accepted message stays in the outbox until its own task has ended, and  *)
(* for each destination only the oldest accepted message is ever given to  *)
(* the swarm, so that messages arrive in order and at least once.          *)
(***************************************************************************)
EXTENDS SequencesExt, Filters

CONSTANTS Entries, Device(_)

VARIABLES
  outbox, \* the accepted messages, in order
  stored  \* the messages that reached their swarm

Oldest(e) ==
  \E i \in DOMAIN outbox :
    /\ outbox[i] = e
    /\ \A j \in 1 .. i - 1 : Device(outbox[j]) # Device(e)

Accept(e) ==
  /\ e \notin Range(outbox)
  /\ outbox' = Append(outbox, e)
  /\ UNCHANGED stored

Store(e) ==
  /\ Oldest(e)
  /\ stored' = stored \union {e}
  /\ UNCHANGED outbox

Release(e) ==
  /\ Oldest(e)
  /\ outbox' = Filter(outbox, LAMBDA other : other # e)
  /\ UNCHANGED stored

Init == outbox = <<>> /\ stored = {}

Next == \E e \in Entries : Accept(e) \/ Store(e) \/ Release(e)

Spec == Init /\ [][Next]_<<outbox, stored>>

=============================================================================
