---------------------------- MODULE MCAgentRevision ----------------------------
(***************************************************************************)
(* Two items, one request after or beside another, and the smallest        *)
(* integers of which two are one float.                                    *)
(***************************************************************************)
EXTENDS AgentRevision, TLC

Symmetry == Permutations(ChangeId)
===============================================================================
