---------------------------- MODULE MCSecretStore ----------------------------
(***************************************************************************)
(* Two items with two values each, and room for a question, its            *)
(* confirmation, a use and two more events.                                *)
(***************************************************************************)
EXTENDS SecretStore, TLC

Symmetry == Permutations(ChangeId) \cup Permutations(Fingerprint)
===============================================================================
