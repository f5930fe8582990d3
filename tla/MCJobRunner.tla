--------------------------- MODULE MCJobRunner ---------------------------
(***************************************************************************)
(* Instances of JobRunner for TLC.                                         *)
(***************************************************************************)
EXTENDS JobRunner

CONSTANTS j1, j2, j3, j4

\* A runner of avatar jobs: three for one conversation, one for another.
ThreeAndOne == [id \in {j1, j2, j3, j4} |-> IF id = j4 THEN "bob" ELSE "alice"]

=============================================================================
