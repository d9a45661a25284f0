------------------------------ MODULE SecretStore ------------------------------
(***************************************************************************)
(* Permissions to show a sensitive value, or to share it with the agent    *)
(* (tui/internal/review/secrets.go, ui/sensitive.go).  The reviewer        *)
(* confirms; whoever is about to show or to send a value then asks the     *)
(* store, with the fingerprint of the value it holds.  Values change with  *)
(* revisions, time passes, and questions, confirmations, uses,             *)
(* concealments and the end of a session come in any order.                *)
(*                                                                         *)
(* The log is a history of what happened: the properties are about it, and *)
(* know nothing of how the store keeps its permissions.                    *)
(***************************************************************************)
EXTENDS Naturals, Sequences

CONSTANTS
  ChangeId,
  Fingerprint,  \* of the values an item may hold
  RevealFor,    \* five minutes in the code
  ShareFor,     \* one minute in the code
  MaxTime,      \* bound: the clock
  MaxLog,       \* bound: things that happen
  None

ASSUME SecretAssumption ==
  /\ RevealFor \in Nat /\ ShareFor \in Nat
  /\ MaxTime \in Nat /\ MaxLog \in Nat
  /\ None \notin ChangeId

SecretCapability == {"reveal", "share_once"}
SecretAuthorization == [fingerprint : Fingerprint, expires_at : Nat, consumed : BOOLEAN]
Entry ==
  [what : {"ask", "confirm", "use", "conceal", "reset"},
   capability : SecretCapability \cup {None}, change_id : ChangeId \cup {None},
   fingerprint : Fingerprint \cup {None}, at : Nat]

VARIABLES
  authorizations,  \* SecretStore.authorizations, by capability and item
  pendingShare,    \* SensitiveView.PendingShare
  now,             \* the clock of the caller
  log

vars == <<authorizations, pendingShare, now, log>>

Nothing == [capability \in SecretCapability |-> [c \in ChangeId |-> None]]

Init ==
  /\ authorizations = Nothing
  /\ pendingShare = None
  /\ now = 0
  /\ log = <<>>

Happens(what, capability, c, fingerprint) ==
  /\ Len(log) < MaxLog
  /\ log' = Append(log, [what |-> what, capability |-> capability, change_id |-> c,
                         fingerprint |-> fingerprint, at |-> now])

-------------------------------------------------------------------------------
\* SecretStore.Grant: a new permission replaces the one there was.
Grant(capability, c, fingerprint, duration) ==
  authorizations' = [authorizations EXCEPT ![capability][c] =
    [fingerprint |-> fingerprint, expires_at |-> now + duration, consumed |-> FALSE]]

ConfirmReveal(c, fingerprint) ==
  /\ Grant("reveal", c, fingerprint, RevealFor)
  /\ Happens("confirm", "reveal", c, fingerprint)
  /\ UNCHANGED <<pendingShare, now>>

PrepareShare(c) ==
  /\ pendingShare' = c
  /\ Happens("ask", "share_once", c, None)
  /\ UNCHANGED <<authorizations, now>>

ConfirmShareAgain(c, fingerprint) ==
  /\ pendingShare = c
  /\ Grant("share_once", c, fingerprint, ShareFor)
  /\ Happens("confirm", "share_once", c, fingerprint)
  /\ UNCHANGED <<pendingShare, now>>

\* The share must be the one the last question was about, and answers it.
ConfirmShare(c, fingerprint) ==
  /\ pendingShare = c
  /\ pendingShare' = None
  /\ Grant("share_once", c, fingerprint, ShareFor)
  /\ Happens("confirm", "share_once", c, fingerprint)
  /\ UNCHANGED now

Available(capability, c, fingerprint) ==
  /\ authorizations[capability][c] # None
  /\ ~authorizations[capability][c].consumed
  /\ now <= authorizations[capability][c].expires_at
  /\ authorizations[capability][c].fingerprint = fingerprint

AuthorizeRepeatedly(capability, c, fingerprint) ==
  /\ Available(capability, c, fingerprint)
  /\ Happens("use", capability, c, fingerprint)
  /\ UNCHANGED <<authorizations, pendingShare, now>>

AuthorizeOnce(capability, c, fingerprint) ==
  /\ Available(capability, c, fingerprint)
  /\ authorizations' = [authorizations EXCEPT ![capability][c].consumed = TRUE]
  /\ Happens("use", capability, c, fingerprint)
  /\ UNCHANGED <<pendingShare, now>>

\* Every other request is refused and changes nothing.
Authorize(capability, c, fingerprint) ==
  /\ Available(capability, c, fingerprint)
  /\ authorizations' = [authorizations EXCEPT ![capability][c].consumed =
                          capability = "share_once"]
  /\ Happens("use", capability, c, fingerprint)
  /\ UNCHANGED <<pendingShare, now>>

ConcealRevealed(c) ==
  /\ authorizations' = [authorizations EXCEPT !["reveal"][c] = None]
  /\ pendingShare' = IF pendingShare = c THEN None ELSE pendingShare
  /\ Happens("conceal", None, c, None)
  /\ UNCHANGED now

\* A question about the item is withdrawn with its permissions.
Conceal(c) ==
  /\ authorizations' = [authorizations EXCEPT !["reveal"][c] = None,
                                             !["share_once"][c] = None]
  /\ pendingShare' = IF pendingShare = c THEN None ELSE pendingShare
  /\ Happens("conceal", None, c, None)
  /\ UNCHANGED now

\* The end of a session; a question that was not answered stays.
Reset ==
  /\ authorizations' = Nothing
  /\ Happens("reset", None, None, None)
  /\ UNCHANGED <<pendingShare, now>>

Tick ==
  /\ now < MaxTime
  /\ now' = now + 1
  /\ UNCHANGED <<authorizations, pendingShare, log>>

Next ==
  \/ \E c \in ChangeId, fingerprint \in Fingerprint :
       \/ ConfirmReveal(c, fingerprint) \/ ConfirmShare(c, fingerprint)
       \/ \E capability \in SecretCapability : Authorize(capability, c, fingerprint)
  \/ \E c \in ChangeId : PrepareShare(c) \/ Conceal(c)
  \/ Reset \/ Tick

Spec == Init /\ [][Next]_vars

-------------------------------------------------------------------------------
\* What each variable holds; only a share can be used up.
TypeOK ==
  /\ authorizations \in
       [SecretCapability -> [ChangeId -> SecretAuthorization \cup {None}]]
  /\ \A c \in ChangeId : authorizations["reveal"][c] # None =>
       ~authorizations["reveal"][c].consumed
  /\ pendingShare \in ChangeId \cup {None}
  /\ now \in 0 .. MaxTime
  /\ log \in Seq(Entry) /\ Len(log) <= MaxLog

Is(i, what, capability, c) ==
  log[i].what = what /\ log[i].capability = capability /\ log[i].change_id = c

Withdrawn(i, c) ==
  log[i].what = "reset" \/ (log[i].what = "conceal" /\ log[i].change_id = c)

LastsFor(capability) == IF capability = "reveal" THEN RevealFor ELSE ShareFor

\* A value is shown or shared only after the reviewer confirmed just that, for
\* that item and that very value and not too long ago, and neither concealed the
\* item nor ended the session nor confirmed another value of it since
\* (spec.md FR-026a).
UseIsConfirmed ==
  \A i \in 1 .. Len(log) : log[i].what = "use" =>
    \E j \in 1 .. i - 1 :
      /\ Is(j, "confirm", log[i].capability, log[i].change_id)
      /\ log[j].fingerprint = log[i].fingerprint
      /\ log[i].at <= log[j].at + LastsFor(log[i].capability)
      /\ \A k \in j + 1 .. i - 1 :
           /\ ~Withdrawn(k, log[i].change_id)
           /\ ~Is(k, "confirm", log[i].capability, log[i].change_id)

\* A value is shared at most once for one confirmation, and a question is
\* confirmed at most once: between two shares of an item it was asked for and
\* confirmed again, whatever happened to other items or to its other permission.
SharedOnce ==
  \A c \in ChangeId, k, i \in 1 .. Len(log) : k < i =>
    /\ Is(k, "use", "share_once", c) /\ Is(i, "use", "share_once", c)
         => \E j \in k + 1 .. i - 1 : Is(j, "confirm", "share_once", c)
    /\ Is(k, "confirm", "share_once", c) /\ Is(i, "confirm", "share_once", c)
         => \E j \in k + 1 .. i - 1 : Is(j, "ask", "share_once", c)
===============================================================================
