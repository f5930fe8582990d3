----------------------------- MODULE MCReceiver -----------------------------
(* Instances of Receiver for TLC. *)
EXTENDS Receiver

CONSTANTS t1, t2, g1, g2, y, n, i1, j1, b, u, alice, grp, grp2, k0, k1, k2

\* What each message is, whatever subset of them a run takes.
KindOf == [m \in Messages |->
  CASE m \in {t1, t2} -> "text" [] m \in {g1, g2} -> "group" [] m = y -> "key"
    [] m = n -> "invite" [] m = i1 -> "ignored" [] m = j1 -> "junk"
    [] m = b -> "blocked" [] m = u -> "unapproved"]

ChatOf == [m \in Messages |-> CASE m = g1 -> grp [] m = g2 -> grp2 [] OTHER -> alice]

\* g1 waits for a new key of a group we are in, g2 for the invitation to grp2.
KeyOf == [m \in Messages |->
  CASE m \in {g1, y} -> k1 [] m \in {g2, n} -> k2 [] OTHER -> NoKey]

GroupOfKey == [k \in Keys |-> IF k = k2 THEN grp2 ELSE grp]

=============================================================================
