--------------------------- MODULE ConfirmedReplace ---------------------------
(***************************************************************************)
(* What the core promises its callers, without processes, files or clocks: *)
(* a grant shown in a preview can be redeemed once, and a redeemed grant   *)
(* writes the bytes that preview showed, once, or never.  Anyone may edit  *)
(* the source at any time.                                                 *)
(***************************************************************************)
CONSTANTS Nonce, Bytes, ForeignBytes, NoBytes

VARIABLES
  source,  \* the bytes of the configuration file
  status,  \* how far each grant has gone
  offer    \* the final bytes each grant was shown for

vars == <<source, status, offer>>

Init ==
  /\ source \in Bytes
  /\ status = [n \in Nonce |-> "none"]
  /\ offer = [n \in Nonce |-> NoBytes]

Show(n, bytes) ==
  /\ status[n] = "none"
  /\ status' = [status EXCEPT ![n] = "shown"]
  /\ offer' = [offer EXCEPT ![n] = bytes]
  /\ UNCHANGED source

Redeem(n) ==
  /\ status[n] = "shown"
  /\ status' = [status EXCEPT ![n] = "redeemed"]
  /\ UNCHANGED <<source, offer>>

Write(n) ==
  /\ status[n] = "redeemed"
  /\ source' = offer[n]
  /\ status' = [status EXCEPT ![n] = "written"]
  /\ UNCHANGED offer

ForeignWrite(bytes) ==
  /\ source' = bytes
  /\ UNCHANGED <<status, offer>>

Next ==
  \/ \E n \in Nonce, bytes \in Bytes : Show(n, bytes)
  \/ \E n \in Nonce : Redeem(n) \/ Write(n)
  \/ \E bytes \in ForeignBytes : ForeignWrite(bytes)

Spec == Init /\ [][Next]_vars
===============================================================================
