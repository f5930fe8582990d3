---------------------------- MODULE MCClosedGroups ----------------------------
(* A group of us, its admin and two others, who are alike. *)
EXTENDS ClosedGroups, TLC

Others == Permutations(People \ {Us, Admin})
=============================================================================
