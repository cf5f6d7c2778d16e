----------------------------- MODULE MCBacklog -----------------------------
(* Instances of Backlog for TLC. *)
EXTENDS Backlog, TLC

CONSTANTS m1, a1, a2, a3

OneMessage == [a \in Attachment |-> m1]
OldestFirst == (a1 :> 1) @@ (a2 :> 2) @@ (a3 :> 3)
=============================================================================
