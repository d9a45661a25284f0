----------------------------- MODULE MCProcessRun -----------------------------
(***************************************************************************)
(* An answer of two chunks fills the limit exactly; pipes hold two chunks, *)
(* so that the program waits for room and output outlives the process.     *)
(***************************************************************************)
EXTENDS ProcessRun
===============================================================================
