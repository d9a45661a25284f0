------------------------------- MODULE AuditLog -------------------------------
(***************************************************************************)
(* The audit log of one session, .zconfig/audit/<session>.jsonl            *)
(* (tui/internal/session/audit.go).  Each command opens the log once,      *)
(* verifies all of it, and appends its events from the sequence number and *)
(* the digest it then keeps in memory.  Nothing locks the file: several    *)
(* commands may have the log of a session open.  An append is one O_APPEND *)
(* write followed by a sync; either may fail, the write may be cut short,  *)
(* the command may be killed, and the machine may lose power.  A failed    *)
(* append ends the command (main.go returns the error).                    *)
(*                                                                         *)
(* A digest covers every field of an event and the digest of the event     *)
(* before it, so it is represented by the identity of the event it is of.  *)
(***************************************************************************)
EXTENDS Naturals, Sequences, SequencesExt

CONSTANTS
  Writer,          \* commands that may have the log open at the same time
  maxAuditEvents,  \* 5000 in the code
  MaxIssued,       \* bound: events ever composed
  MaxDamage,       \* bound: how often the file is damaged from outside
  None,            \* no previous event
  Garbage          \* a line that does not decode to an event of the session

ASSUME AuditAssumption ==
  /\ maxAuditEvents \in Nat \ {0}
  /\ MaxIssued \in Nat /\ MaxDamage \in Nat
  /\ None \notin Nat

Event == [event_id : Nat, sequence : Nat, previous : Nat \cup {None}]

ASSUME GarbageIsNoEvent == Garbage \notin Event

VARIABLES
  lines,     \* complete lines of the file
  torn,      \* the file ends in bytes without a line feed
  synced,    \* how many of the lines are known to survive a power loss
  pc,        \* each command: "closed", "open", or "sync" after its write
  sequence,  \* last sequence number it knows (Audit.sequence)
  previous,  \* digest of the last event it knows (Audit.previous)
  pending,   \* the event it is appending
  issued,    \* how many events were composed so far
  damage,    \* how often the file was damaged from outside
  \* History variables.
  acked,     \* events whose Append returned without an error
  trusted,   \* the lines some command verified, and those appended since
  shared,    \* two commands have had the log open at the same time
  joined     \* somebody appended to a torn line

file == <<lines, torn, synced>>
memory == <<sequence, previous, pending>>
history == <<acked, trusted, shared, joined>>
vars == <<file, pc, memory, issued, damage, history>>

Init ==
  /\ lines = <<>> /\ torn = FALSE /\ synced = 0
  /\ pc = [w \in Writer |-> "closed"]
  /\ sequence = [w \in Writer |-> 0]
  /\ previous = [w \in Writer |-> None]
  /\ pending = [w \in Writer |-> None]
  /\ issued = 0 /\ damage = 0
  /\ acked = {} /\ trusted = <<>> /\ shared = FALSE /\ joined = FALSE

-------------------------------------------------------------------------------
VerifyIgnoringChain(log) ==
  /\ Len(log) <= maxAuditEvents
  /\ \A i \in 1 .. Len(log) : log[i] \in Event

\* verifyAuditIfExists: numbers run from 1 without a gap, and each event names
\* the digest of the one before it.
Verify(log) ==
  /\ Len(log) <= maxAuditEvents
  /\ \A i \in 1 .. Len(log) : log[i] \in Event
  /\ \A i \in 1 .. Len(log) :
       /\ log[i].sequence = i
       /\ log[i].previous = IF i = 1 THEN None ELSE log[i - 1].event_id

Close(w) ==
  /\ pc' = [pc EXCEPT ![w] = "closed"]
  /\ sequence' = [sequence EXCEPT ![w] = 0]
  /\ previous' = [previous EXCEPT ![w] = None]
  /\ pending' = [pending EXCEPT ![w] = None]

\* OpenAudit refuses a log whose last line is incomplete or that does not
\* verify; the command then ends before it does anything.
OpenAudit(w) ==
  /\ pc[w] = "closed"
  /\ ~torn
  /\ Verify(lines)
  /\ pc' = [pc EXCEPT ![w] = "open"]
  /\ sequence' = [sequence EXCEPT ![w] = Len(lines)]
  /\ previous' = [previous EXCEPT ![w] =
       IF lines = <<>> THEN None ELSE Last(lines).event_id]
  /\ trusted' = lines
  /\ shared' = (shared \/ \E v \in Writer : pc[v] # "closed")
  /\ UNCHANGED <<file, pending, issued, damage, acked, joined>>

NextEvent(w) ==
  [event_id |-> issued + 1, sequence |-> sequence[w] + 1, previous |-> previous[w]]

WithinOneMore(w) == sequence[w] + 1 <= maxAuditEvents + 1

\* validateAuditEvent: the number of the event is within the limit.
WithinLimit(w) == sequence[w] + 1 <= maxAuditEvents

\* Append writes the whole line.  After a torn line the two become one line that
\* nobody can decode.
WriteLine(w) ==
  /\ pc[w] = "open" /\ issued < MaxIssued
  /\ WithinLimit(w)
  /\ lines' = Append(lines, IF torn THEN Garbage ELSE NextEvent(w))
  /\ trusted' = Append(trusted, IF torn THEN Garbage ELSE NextEvent(w))
  /\ torn' = FALSE
  /\ joined' = (joined \/ torn)
  /\ pending' = [pending EXCEPT ![w] = NextEvent(w)]
  /\ issued' = issued + 1
  /\ pc' = [pc EXCEPT ![w] = "sync"]
  /\ UNCHANGED <<synced, sequence, previous, damage, acked, shared>>

\* The write is cut short: a full disk, or the command is killed in the middle.
WritePart(w) ==
  /\ pc[w] = "open"
  /\ WithinLimit(w)
  /\ torn' = TRUE
  /\ joined' = (joined \/ torn)
  /\ Close(w)
  /\ UNCHANGED <<lines, synced, issued, damage, acked, trusted, shared>>

Acknowledge(w) ==
  /\ acked' = acked \cup {pending[w]}
  /\ sequence' = [sequence EXCEPT ![w] = pending[w].sequence]
  /\ previous' = [previous EXCEPT ![w] = pending[w].event_id]
  /\ pending' = [pending EXCEPT ![w] = None]
  /\ pc' = [pc EXCEPT ![w] = "open"]

AcknowledgeUnsynced(w) ==
  /\ pc[w] = "sync"
  /\ Acknowledge(w)
  /\ UNCHANGED <<file, issued, damage, trusted, shared, joined>>

\* Sync makes everything written so far durable, and only then does Append
\* return and advance the number and the digest in memory.
SyncLine(w) ==
  /\ pc[w] = "sync"
  /\ Acknowledge(w)
  /\ synced' = Len(lines)
  /\ UNCHANGED <<lines, torn, issued, damage, trusted, shared, joined>>

\* The command ends: it is done, refused by the limit, killed, or its sync
\* failed, in which case its last line is in the file all the same.
End(w) ==
  /\ pc[w] # "closed"
  /\ Close(w)
  /\ UNCHANGED <<file, issued, damage, history>>

\* The machine stops: what was not synced may be gone, or half there.
PowerLoss ==
  /\ \E kept \in synced .. Len(lines) :
       /\ lines' = SubSeq(lines, 1, kept)
       /\ trusted' = IF trusted = lines THEN lines' ELSE trusted
       /\ torn' \in {half \in BOOLEAN : half => torn \/ kept < Len(lines)}
  /\ pc' = [w \in Writer |-> "closed"]
  /\ sequence' = [w \in Writer |-> 0]
  /\ previous' = [w \in Writer |-> None]
  /\ pending' = [w \in Writer |-> None]
  /\ UNCHANGED <<synced, issued, damage, acked, shared, joined>>

\* Somebody drops, repeats or garbles a line while no command runs.
DamageFile ==
  /\ damage < MaxDamage
  /\ \A w \in Writer : pc[w] = "closed"
  /\ \E i \in 1 .. Len(lines) :
       lines' \in {RemoveAt(lines, i), InsertAt(lines, i, lines[i]),
                   ReplaceAt(lines, i, Garbage)}
  /\ synced' = Len(lines')
  /\ damage' = damage + 1
  /\ UNCHANGED <<torn, pc, memory, issued, history>>

Next ==
  \/ \E w \in Writer :
       OpenAudit(w) \/ WriteLine(w) \/ WritePart(w) \/ SyncLine(w) \/ End(w)
  \/ PowerLoss
  \/ DamageFile

Spec == Init /\ [][Next]_vars

-------------------------------------------------------------------------------
\* What each variable holds; no command numbers an event past the limit.
TypeOK ==
  /\ lines \in Seq(Event \cup {Garbage}) /\ torn \in BOOLEAN
  /\ synced \in 0 .. Len(lines)
  /\ pc \in [Writer -> {"closed", "open", "sync"}]
  /\ sequence \in [Writer -> 0 .. maxAuditEvents]
  /\ previous \in [Writer -> Nat \cup {None}]
  /\ pending \in [Writer -> Event \cup {None}]
  /\ issued \in 0 .. MaxIssued /\ damage \in 0 .. MaxDamage
  /\ acked \subseteq Event
  /\ trusted \in Seq(Event \cup {Garbage})
  /\ shared \in BOOLEAN /\ joined \in BOOLEAN

\* An event whose Append succeeded is in the log for good: through power loss,
\* failed syncs and other writers, unless a writer hit another's torn line
\* (spec.md FR-026b, append-only during normal operation).
AcknowledgedIsKept ==
  damage = 0 /\ ~joined =>
    \A event \in acked : \E i \in 1 .. synced : lines[i] = event

\* As long as commands use the log one after the other, whatever was cut short
\* in between, the complete lines always verify: no sequence of failed writes,
\* failed syncs, kills and power losses breaks the chain or passes the limit, so
\* only a torn last line can shut a session out of its own log.
SoleWriterKeepsChain ==
  damage = 0 /\ ~shared => Verify(lines)

\* A command that opens a log commands used one after the other sees the lines an
\* earlier command trusted or their beginning: a line lost, repeated or garbled
\* anywhere but at the end is noticed (docs/security.md:33).  Two commands at a
\* time can write lines of which a loss makes a valid log again.
DamageIsNoticed ==
  [][\A w \in Writer :
       ~shared /\ pc[w] = "closed" /\ pc'[w] = "open" => IsPrefix(lines, trusted)]_vars
===============================================================================
