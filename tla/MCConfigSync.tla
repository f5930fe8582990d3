--------------------------- MODULE MCConfigSync ---------------------------
(* Small instances of ConfigSync for TLC. *)
EXTENDS ConfigSync

CONSTANTS g1, g2, c1, r1, r2

=============================================================================
