--------------------------- MODULE MCMessageQueue ---------------------------
(* Small instances of MessageQueue for TLC. *)
EXTENDS MessageQueue, TLC

CONSTANTS c1, g1, g2, k1, alice, group, us, none

\* A private message with its sync copy; a removal from a group, which its new
\* key pair must follow; and another update of the group.
AllMessages == {c1, g1, g2, k1}
AllDest == [m \in AllMessages |-> IF m = c1 THEN alice ELSE group]
AllRotation == [m \in AllMessages |-> IF m = g1 THEN k1 ELSE none]

OnlyAlice == {alice}

=============================================================================
