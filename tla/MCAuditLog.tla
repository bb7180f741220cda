------------------------------ MODULE MCAuditLog ------------------------------
(***************************************************************************)
(* Instance of AuditLog for TLC.                                           *)
(***************************************************************************)
EXTENDS AuditLog, TLC

Symmetry == Permutations(Writers)

=============================================================================
