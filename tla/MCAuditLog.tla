---------------------------- MODULE MCAuditLog ----------------------------
(* Instances of AuditLog for TLC. *)
EXTENDS AuditLog, TLC

WriterSymmetry == Permutations(Writer)
=============================================================================
