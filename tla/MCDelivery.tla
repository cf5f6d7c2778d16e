----------------------------- MODULE MCDelivery -----------------------------
(* Instances of Delivery for TLC. *)
EXTENDS Delivery, TLC

CONSTANTS m1, a1, a2, r1

DownloaderSymmetry == Permutations(Downloader)
AttachmentSymmetry == Permutations(Attachment)

OneMessage == (a1 :> m1)
OneMessageTwoAttachments == (a1 :> m1) @@ (a2 :> m1)

(* Rules: nothing set; a retention below the TTL; none at all, not even a default. *)
Unset == [ttl |-> 0, retention |-> 0, max |-> 0]
ShortRetention == [ttl |-> 2, retention |-> 1, max |-> 1]
NoRetention == [ttl |-> 2, retention |-> 0, max |-> 1]
OnlyNoRetention == {NoRetention}
OnlyShortRetention == {ShortRetention}
OnlyUnset == {Unset}
=============================================================================
