---------------------------- MODULE MCOnionPaths ----------------------------
(* A small instance of OnionPaths for TLC. *)
EXTENDS OnionPaths, TLC

Swaps == Permutations(Nodes) \union Permutations(Requests)
=============================================================================
