------------------------------- MODULE Filters -------------------------------
(***************************************************************************)
(* The elements of a sequence that pass a test, in their order: the filter *)
(* of an array, and the rows of a table that a query returns.  It is what  *)
(* SelectSeq gives, by a recursive function, so that lemmas about it can   *)
(* be proved.                                                              *)
(***************************************************************************)
EXTENDS Integers, Sequences

\* The elements of s that are in S.
Only(s, S) ==
  LET kept[i \in 0 .. Len(s)] ==
        IF i = 0 THEN <<>>
        ELSE IF s[i] \in S THEN Append(kept[i - 1], s[i]) ELSE kept[i - 1]
  IN  kept[Len(s)]

\* The elements of s for which Test holds.
Filter(s, Test(_)) == Only(s, {s[i] : i \in {j \in DOMAIN s : Test(s[j])}})

=============================================================================
