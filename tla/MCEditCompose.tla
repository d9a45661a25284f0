----------------------------- MODULE MCEditCompose -----------------------------
(***************************************************************************)
(* Containers of up to three members, and selections of up to four items   *)
(* that set a number or a string.                                          *)
(***************************************************************************)
EXTENDS EditCompose

MCNewValue == {Number(<<7>>), <<"string", <<8>>>>}
===============================================================================
