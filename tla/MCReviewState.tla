---------------------------- MODULE MCReviewState ----------------------------
(***************************************************************************)
(* A proposal of two items with an alternative content each, and room for  *)
(* two comments at a time.                                                 *)
(***************************************************************************)
EXTENDS ReviewState, TLC

Symmetry == Permutations(ChangeId)
===============================================================================
