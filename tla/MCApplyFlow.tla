----------------------------- MODULE MCApplyFlow -----------------------------
(***************************************************************************)
(* Three runs on one session, two tokens, and a proposal file that its     *)
(* author may change once a preview has been shown.                        *)
(***************************************************************************)
EXTENDS ApplyFlow, TLC

Symmetry == Permutations(Run) \cup Permutations(Nonce) \cup Permutations(Proposed)
===============================================================================
