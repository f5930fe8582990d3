---------------------------- MODULE DurableInbox ----------------------------
(***************************************************************************)
(* What the incoming pipeline promises: a message handed over is kept in   *)
(* the database until it is in the message table, and it is given to the   *)
(* bot before it is.  It is forgotten earlier only when it is not a        *)
(* message to store, or when it has been tried often enough.               *)
(***************************************************************************)
EXTENDS Integers

CONSTANTS Messages, Storable, MaxAttempts

VARIABLES
  fresh,  \* messages not handed over yet
  kept,   \* the kept messages and their attempts
  given,  \* messages the bot has been given
  stored  \* messages of the message table

vars == <<fresh, kept, given, stored>>

Accept(m) ==
  /\ m \in fresh
  /\ fresh' = fresh \ {m}
  /\ kept' = [k \in DOMAIN kept \union {m} |-> IF k = m THEN 1 ELSE kept[k]]
  /\ UNCHANGED <<given, stored>>

\* Some messages are tried again; those tried MaxAttempts times are let go.  One
\* message may have been handled at the same time.
Retry(S, handled) ==
  LET worn == {m \in S : kept[m] + 1 >= MaxAttempts}
  IN  /\ handled \subseteq stored \union (Messages \ Storable)
      /\ kept' = [m \in DOMAIN kept \ (worn \union handled) |->
                    IF m \in S THEN kept[m] + 1 ELSE kept[m]]
      /\ UNCHANGED <<fresh, given, stored>>

Give(m) ==
  /\ m \notin fresh
  /\ given' = given \union {m}
  /\ UNCHANGED <<fresh, kept, stored>>

Store(m) ==
  /\ m \in Storable \intersect given
  /\ stored' = stored \union {m}
  /\ UNCHANGED <<fresh, kept, given>>

Init == fresh = Messages /\ kept = [m \in {} |-> 0] /\ given = {} /\ stored = {}

Next ==
  \/ \E m \in Messages : Accept(m) \/ Give(m) \/ Store(m)
  \/ \E S \in SUBSET DOMAIN kept : Retry(S, {})
  \/ \E m \in DOMAIN kept : \E S \in SUBSET (DOMAIN kept \ {m}) : Retry(S, {m})

Spec == Init /\ [][Next]_vars

=============================================================================
