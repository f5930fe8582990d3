--------------------------- MODULE MCSwarmPolling ---------------------------
(* A small instance of SwarmPolling for TLC. *)
EXTENDS SwarmPolling, TLC

CONSTANTS us, group, c1, g1, g2, n1, n2, none

\* Two nodes for the group, one of them for us; a configuration for us.
MCKeyOf == [m \in Messages |-> IF m \in {g1, g2} THEN group ELSE us]
MCSwarm == us :> {n1} @@ group :> {n1, n2}

\* One node of the group misses a message, the other stores it before the common one.
MCStored ==
  [n \in Nodes |-> [b \in Box |->
     CASE b.config -> IF n = n1 THEN <<c1>> ELSE <<>>
       [] b.key = group -> IF n = n1 THEN <<g1>> ELSE <<g2, g1>>
       [] OTHER -> <<>>]]

=============================================================================
