------------------------------ MODULE MCAuditLog ------------------------------
(***************************************************************************)
(* Two commands on the log of one session, with room for three events.     *)
(***************************************************************************)
EXTENDS AuditLog, TLC

Symmetry == Permutations(Writer)
===============================================================================
