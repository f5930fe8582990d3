------------------------ MODULE MCAttachmentDownloads ------------------------
(* Small instances of AttachmentDownloads for TLC. *)
EXTENDS AttachmentDownloads

CONSTANTS m1, m2, a1, a2, b1

\* Two attachments of one message, and one of another.
ThreeAttachments == {a1, a2, b1}
TwoMessages == [a \in ThreeAttachments |-> IF a = b1 THEN m2 ELSE m1]

=============================================================================
