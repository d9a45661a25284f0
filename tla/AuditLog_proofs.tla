---------------------------- MODULE AuditLog_proofs ----------------------------
(***************************************************************************)
(* Proofs about AuditLog for any number of commands, any limit, any length *)
(* of the log and any amount of damage.  Kept is about what was            *)
(* acknowledged; Sole says what a command that has the log for itself      *)
(* knows of its end, and why a log that verifies is a beginning of the one *)
(* that was trusted.                                                       *)
(***************************************************************************)
EXTENDS AuditLog, SequenceTheorems, TLAPS

\* What a command between its write and its sync is about to acknowledge.
PendingInv ==
  \A w \in Writer : pc[w] = "sync" =>
    pending[w] \in Event /\ pending[w].sequence \in 0 .. maxAuditEvents

KeptInv ==
  damage = 0 /\ ~joined =>
    /\ \A event \in acked : \E i \in 1 .. synced : lines[i] = event
    /\ \A w \in Writer : pc[w] = "sync" => \E i \in 1 .. Len(lines) : lines[i] = pending[w]

\* A command that has the log open knows its end.
KnowsEnd(w) ==
  /\ ~torn /\ lines = trusted
  /\ pc[w] = "open" =>
       /\ sequence[w] = Len(lines)
       /\ previous[w] = IF lines = <<>> THEN None ELSE Last(lines).event_id
  /\ pc[w] = "sync" =>
       /\ lines # <<>> /\ Last(lines) = pending[w]
       /\ pending[w].sequence = Len(lines)

SoleInv ==
  ~shared =>
    /\ \A v, w \in Writer : pc[v] # "closed" /\ pc[w] # "closed" => v = w
    /\ \A w \in Writer : pc[w] # "closed" => KnowsEnd(w)
    /\ Verify(trusted)
    /\ damage = 0 => lines = trusted
    /\ \A i \in 1 .. Len(lines) :
         lines[i] = Garbage \/ \E j \in 1 .. Len(trusted) : lines[i] = trusted[j]

IInv == TypeOK /\ PendingInv /\ KeptInv /\ SoleInv

-------------------------------------------------------------------------------
Line == Event \cup {Garbage}

LEMMA NextEventIsTyped ==
  ASSUME TypeOK, NEW w \in Writer
  PROVE  NextEvent(w) \in Event
BY DEF TypeOK, NextEvent, Event

\* A prefix of a log that verifies does (audit.go verifyAuditIfExists).
LEMMA PrefixVerifies ==
  ASSUME NEW log \in Seq(Line), NEW n \in 0 .. Len(log)
  PROVE  /\ SubSeq(log, 1, n) \in Seq(Line)
         /\ Len(SubSeq(log, 1, n)) = n
         /\ \A i \in 1 .. n : SubSeq(log, 1, n)[i] = log[i]
         /\ Verify(log) => Verify(SubSeq(log, 1, n))
<1>1. n \in Int /\ 1 \in Int /\ Len(log) \in Nat /\ \A i \in 1 .. n : log[i] \in Line
  BY ElementOfSeq
<1>2. /\ SubSeq(log, 1, n) \in Seq(Line)
      /\ Len(SubSeq(log, 1, n)) = n
      /\ \A i \in 1 .. n : SubSeq(log, 1, n)[i] = log[i]
  BY <1>1, SubSeqProperties
<1>. QED
  BY <1>1, <1>2, AuditAssumption DEF Verify

\* An event that continues a log that verifies keeps it so (audit.go Append).
LEMMA NextVerifies ==
  ASSUME NEW log \in Seq(Line), Verify(log), NEW event \in Event,
         Len(log) + 1 <= maxAuditEvents,
         event.sequence = Len(log) + 1,
         event.previous = IF log = <<>> THEN None ELSE Last(log).event_id
  PROVE  Verify(Append(log, event))
BY AuditAssumption DEF Verify, Last

\* Every line of a log is one of another's.
LinesFrom(some, log) ==
  \A k \in 1 .. Len(some) : \E j \in 1 .. Len(log) : some[k] = log[j]

LEMMA ConcatFrom ==
  ASSUME NEW log \in Seq(Line), NEW s \in Seq(Line), NEW t \in Seq(Line),
         LinesFrom(s, log), LinesFrom(t, log)
  PROVE  s \o t \in Seq(Line) /\ LinesFrom(s \o t, log)
<1>1. /\ s \o t \in Seq(Line)
      /\ Len(s \o t) = Len(s) + Len(t)
      /\ \A k \in 1 .. Len(s) + Len(t) :
           (s \o t)[k] = IF k <= Len(s) THEN s[k] ELSE t[k - Len(s)]
  BY ConcatProperties
<1>. SUFFICES ASSUME NEW k \in 1 .. Len(s) + Len(t)
              PROVE  \E j \in 1 .. Len(log) : (s \o t)[k] = log[j]
  BY <1>1 DEF LinesFrom
<1>2. CASE k <= Len(s)
  <2>1. k \in 1 .. Len(s)
    BY <1>2
  <2>. QED
    BY <1>1, <1>2, <2>1 DEF LinesFrom
<1>3. CASE ~(k <= Len(s))
  <2>1. k - Len(s) \in 1 .. Len(t)
    BY <1>3
  <2>2. (s \o t)[k] = t[k - Len(s)]
    BY <1>1, <1>3
  <2>3. \E j \in 1 .. Len(log) : t[k - Len(s)] = log[j]
    BY <2>1, Zenon DEF LinesFrom
  <2>. QED
    BY <2>2, <2>3
<1>. QED
  BY <1>2, <1>3

LEMMA SubSeqFrom ==
  ASSUME NEW log \in Seq(Line), NEW m \in 1 .. Len(log) + 1, NEW n \in 0 .. Len(log)
  PROVE  SubSeq(log, m, n) \in Seq(Line) /\ LinesFrom(SubSeq(log, m, n), log)
<1>1. m \in Int /\ n \in Int /\ Len(log) \in Nat /\ \A i \in m .. n : log[i] \in Line
  BY ElementOfSeq
<1>2. /\ SubSeq(log, m, n) \in Seq(Line)
      /\ Len(SubSeq(log, m, n)) = IF m <= n THEN n - m + 1 ELSE 0
      /\ \A i \in 1 .. n - m + 1 : SubSeq(log, m, n)[i] = log[m + i - 1]
  BY <1>1, SubSeqProperties
<1>. QED
  BY <1>1, <1>2 DEF LinesFrom

\* What outside damage leaves of a log.
LEMMA DamageProperties ==
  ASSUME NEW log \in Seq(Line), NEW i \in 1 .. Len(log),
         NEW damaged \in {RemoveAt(log, i), InsertAt(log, i, log[i]), ReplaceAt(log, i, Garbage)}
  PROVE  /\ damaged \in Seq(Line)
         /\ \A k \in 1 .. Len(damaged) :
              damaged[k] = Garbage \/ \E j \in 1 .. Len(log) : damaged[k] = log[j]
<1>1. Len(log) \in Nat /\ i - 1 \in 0 .. Len(log) /\ i + 1 \in 1 .. Len(log) + 1
      /\ i \in 1 .. Len(log) + 1 /\ Len(log) \in 0 .. Len(log) /\ 1 \in 1 .. Len(log) + 1
  OBVIOUS
<1>2. SubSeq(log, 1, i - 1) \in Seq(Line) /\ LinesFrom(SubSeq(log, 1, i - 1), log)
  BY <1>1, SubSeqFrom
<1>3. SubSeq(log, i + 1, Len(log)) \in Seq(Line) /\ LinesFrom(SubSeq(log, i + 1, Len(log)), log)
  BY <1>1, SubSeqFrom
<1>4. SubSeq(log, i, Len(log)) \in Seq(Line) /\ LinesFrom(SubSeq(log, i, Len(log)), log)
  BY <1>1, SubSeqFrom
<1>5. <<log[i]>> \in Seq(Line) /\ LinesFrom(<<log[i]>>, log)
  BY ElementOfSeq DEF LinesFrom
<1>6. CASE damaged = RemoveAt(log, i)
  <2>1. damaged = SubSeq(log, 1, i - 1) \o SubSeq(log, i + 1, Len(log))
    BY <1>6 DEF RemoveAt
  <2>. QED
    <3>1. damaged \in Seq(Line) /\ LinesFrom(damaged, log)
      BY <1>2, <1>3, <2>1, ConcatFrom
    <3>. QED
      BY <3>1 DEF LinesFrom
<1>7. CASE damaged = InsertAt(log, i, log[i])
  <2>1. damaged = SubSeq(log, 1, i - 1) \o <<log[i]>> \o SubSeq(log, i, Len(log))
    BY <1>7 DEF InsertAt
  <2>2. SubSeq(log, 1, i - 1) \o <<log[i]>> \in Seq(Line)
        /\ LinesFrom(SubSeq(log, 1, i - 1) \o <<log[i]>>, log)
    BY <1>2, <1>5, ConcatFrom
  <2>. QED
    <3>1. damaged \in Seq(Line) /\ LinesFrom(damaged, log)
      BY <1>4, <2>1, <2>2, ConcatFrom
    <3>. QED
      BY <3>1 DEF LinesFrom
<1>8. CASE damaged = ReplaceAt(log, i, Garbage)
  BY <1>8, ExceptSeq DEF ReplaceAt, Line
<1>. QED
  BY <1>6, <1>7, <1>8

LEMMA IInvInit == Init => IInv
<1>. SUFFICES ASSUME Init PROVE IInv
  OBVIOUS
<1>1. <<>> \in Seq(Event \cup {Garbage}) /\ Len(<<>>) = 0
  OBVIOUS
<1>2. 0 \in 0 .. maxAuditEvents /\ 0 \in 0 .. MaxIssued /\ 0 \in 0 .. MaxDamage /\ 0 \in 0 .. 0
  BY AuditAssumption
<1>3. TypeOK
  BY <1>1, <1>2 DEF Init, TypeOK
<1>. QED
  BY <1>1, <1>3, AuditAssumption DEF Init, IInv, PendingInv, KeptInv, SoleInv, Verify

\* The log is opened and verified.
LEMMA OpenKeeps ==
  ASSUME IInv, NEW w \in Writer, OpenAudit(w)
  PROVE  IInv'
<1>. USE DEF IInv
<1>1. Len(lines) \in 0 .. maxAuditEvents
      /\ (lines # <<>> => Last(lines) \in Event)
  BY AuditAssumption DEF TypeOK, OpenAudit, Verify, Last
<1>2. TypeOK'
  BY <1>1 DEF TypeOK, OpenAudit, file, Event
<1>3. PendingInv' /\ KeptInv'
  BY DEF TypeOK, PendingInv, KeptInv, OpenAudit, file
<1>4. SoleInv'
  BY DEF TypeOK, SoleInv, KnowsEnd, OpenAudit, file
<1>. QED
  BY <1>2, <1>3, <1>4

\* A whole line is written.
LEMMA WriteKeeps ==
  ASSUME IInv, NEW w \in Writer, WriteLine(w)
  PROVE  IInv'
<1>. USE DEF IInv
<1>. DEFINE line == IF torn THEN Garbage ELSE NextEvent(w)
<1>1. NextEvent(w) \in Event /\ line \in Line /\ NextEvent(w).sequence = sequence[w] + 1
      /\ NextEvent(w).previous = previous[w]
  BY NextEventIsTyped DEF NextEvent, Line
<1>2. /\ lines' = Append(lines, line) /\ trusted' = Append(trusted, line)
      /\ lines' \in Seq(Line) /\ trusted' \in Seq(Line)
      /\ Len(lines') = Len(lines) + 1 /\ lines'[Len(lines')] = line
      /\ \A i \in 1 .. Len(lines) : lines'[i] = lines[i]
  BY <1>1 DEF TypeOK, WriteLine, Line
<1>3. TypeOK'
  <2>1. issued + 1 \in 0 .. MaxIssued /\ synced \in 0 .. Len(lines')
    BY <1>2, AuditAssumption DEF TypeOK, WriteLine
  <2>2. pc' \in [Writer -> {"closed", "open", "sync"}]
        /\ pending' \in [Writer -> Event \cup {None}]
    BY <1>1 DEF TypeOK, WriteLine
  <2>. QED
    BY <1>2, <2>1, <2>2 DEF TypeOK, WriteLine, Line
<1>4. PendingInv'
  BY <1>1, AuditAssumption DEF TypeOK, PendingInv, WriteLine, WithinLimit
<1>5. ASSUME damage = 0, ~joined, ~torn
      PROVE  /\ \A event \in acked : \E i \in 1 .. synced : lines'[i] = event
             /\ \A v \in Writer : pc'[v] = "sync" =>
                  \E i \in 1 .. Len(lines') : lines'[i] = pending'[v]
  <2>1. \A i \in 1 .. synced : i \in 1 .. Len(lines)
    BY DEF TypeOK
  <2>2. \A event \in acked : \E i \in 1 .. synced : lines'[i] = event
    BY <1>2, <1>5, <2>1 DEF KeptInv
  <2>3. ASSUME NEW v \in Writer, pc'[v] = "sync", v # w
        PROVE  \E i \in 1 .. Len(lines') : lines'[i] = pending'[v]
    <3>1. pc[v] = "sync" /\ pending'[v] = pending[v]
      BY <2>3 DEF TypeOK, WriteLine
    <3>2. PICK i \in 1 .. Len(lines) : lines[i] = pending[v]
      BY <1>5, <3>1 DEF KeptInv
    <3>3. i \in 1 .. Len(lines')
      BY <1>2
    <3>. QED
      BY <1>2, <3>1, <3>2, <3>3
  <2>4. pending'[w] = line /\ Len(lines') \in 1 .. Len(lines')
    BY <1>2, <1>5 DEF TypeOK, WriteLine
  <2>. QED
    BY <1>2, <2>2, <2>3, <2>4
<1>6. KeptInv'
  BY <1>5 DEF KeptInv, WriteLine
<1>7. ASSUME ~shared PROVE SoleInv'
  <2>1. /\ KnowsEnd(w) /\ pc[w] = "open" /\ lines = trusted /\ ~torn /\ line = NextEvent(w)
        /\ sequence[w] = Len(lines)
        /\ previous[w] = IF lines = <<>> THEN None ELSE Last(lines).event_id
    BY <1>7 DEF SoleInv, KnowsEnd, WriteLine
  <2>2. Verify(trusted')
    <3>1. trusted \in Seq(Line) /\ Verify(trusted)
      BY <1>7 DEF SoleInv, TypeOK, Line
    <3>2. Len(trusted) + 1 <= maxAuditEvents /\ line \in Event
          /\ line.sequence = Len(trusted) + 1
          /\ line.previous = IF trusted = <<>> THEN None ELSE Last(trusted).event_id
      BY <1>1, <2>1 DEF WriteLine, WithinLimit
    <3>. QED
      BY <1>2, <3>1, <3>2, NextVerifies
  <2>3. lines' = trusted'
    BY <1>2, <2>1
  <2>4. \A v \in Writer : pc'[v] # "closed" => v = w
    BY <1>7 DEF SoleInv, TypeOK, WriteLine
  <2>5. KnowsEnd(w)'
    BY <1>1, <1>2, <2>1, <2>3 DEF TypeOK, KnowsEnd, WriteLine, Last
  <2>. QED
    BY <2>2, <2>3, <2>4, <2>5 DEF SoleInv
<1>. QED
  BY <1>3, <1>4, <1>6, <1>7 DEF SoleInv, WriteLine

\* A write is cut short.
LEMMA PartKeeps ==
  ASSUME IInv, NEW w \in Writer, WritePart(w)
  PROVE  IInv'
<1>. USE DEF IInv
<1>1. TypeOK'
  BY AuditAssumption DEF TypeOK, WritePart, Close
<1>2. PendingInv' /\ KeptInv'
  BY DEF TypeOK, PendingInv, KeptInv, WritePart, Close
<1>3. ASSUME ~shared PROVE SoleInv'
  <2>1. \A v \in Writer : pc'[v] = "closed"
    BY <1>3 DEF SoleInv, TypeOK, WritePart, Close
  <2>. QED
    BY <1>3, <2>1 DEF SoleInv, WritePart
<1>. QED
  BY <1>1, <1>2, <1>3 DEF SoleInv, WritePart

\* A line is synced and acknowledged.
LEMMA SyncKeeps ==
  ASSUME IInv, NEW w \in Writer, SyncLine(w)
  PROVE  IInv'
<1>. USE DEF IInv
<1>1. pending[w] \in Event /\ pending[w].sequence \in 0 .. maxAuditEvents
  BY DEF PendingInv, SyncLine
<1>2. TypeOK'
  BY <1>1 DEF TypeOK, SyncLine, Acknowledge, Event
<1>3. PendingInv' /\ KeptInv'
  BY DEF TypeOK, PendingInv, KeptInv, SyncLine, Acknowledge
<1>4. SoleInv'
  BY <1>1 DEF TypeOK, SoleInv, KnowsEnd, SyncLine, Acknowledge
<1>. QED
  BY <1>2, <1>3, <1>4

\* A command ends.
LEMMA EndKeeps ==
  ASSUME IInv, NEW w \in Writer, End(w)
  PROVE  IInv'
<1>. USE DEF IInv
<1>1. TypeOK'
  BY AuditAssumption DEF TypeOK, End, Close, file, history
<1>2. PendingInv' /\ KeptInv'
  BY DEF TypeOK, PendingInv, KeptInv, End, Close, file, history
<1>3. SoleInv'
  BY DEF TypeOK, SoleInv, KnowsEnd, End, Close, file, history
<1>. QED
  BY <1>1, <1>2, <1>3

\* The machine stops: a prefix behind the last sync stays.
LEMMA LossKeeps ==
  ASSUME IInv, PowerLoss
  PROVE  IInv'
<1>. USE DEF IInv
<1>1. PICK kept \in synced .. Len(lines) :
        /\ lines' = SubSeq(lines, 1, kept)
        /\ trusted' = IF trusted = lines THEN lines' ELSE trusted
        /\ torn' \in {half \in BOOLEAN : half => torn \/ kept < Len(lines)}
  BY DEF PowerLoss
<1>2. lines \in Seq(Line) /\ kept \in 0 .. Len(lines) /\ synced \in 0 .. Len(lines)
  BY DEF TypeOK, Line
<1>3. /\ lines' \in Seq(Line) /\ Len(lines') = kept
      /\ \A i \in 1 .. kept : lines'[i] = lines[i]
      /\ Verify(lines) => Verify(lines')
  BY <1>1, <1>2, PrefixVerifies
<1>4. TypeOK'
  BY <1>1, <1>2, <1>3, AuditAssumption DEF TypeOK, PowerLoss, Line
<1>5. PendingInv' /\ KeptInv'
  BY <1>2, <1>3 DEF PendingInv, KeptInv, PowerLoss
<1>6. SoleInv'
  BY <1>1, <1>2, <1>3 DEF SoleInv, PowerLoss
<1>. QED
  BY <1>4, <1>5, <1>6

\* Somebody damages the file.
LEMMA DamageKeeps ==
  ASSUME IInv, DamageFile
  PROVE  IInv'
<1>. USE DEF IInv
<1>1. /\ lines' \in Seq(Line)
      /\ \A k \in 1 .. Len(lines') :
           lines'[k] = Garbage \/ \E j \in 1 .. Len(lines) : lines'[k] = lines[j]
  <2>1. lines \in Seq(Line)
    BY DEF TypeOK, Line
  <2>2. PICK i \in 1 .. Len(lines) :
          lines' \in {RemoveAt(lines, i), InsertAt(lines, i, lines[i]),
                     ReplaceAt(lines, i, Garbage)}
    BY DEF DamageFile
  <2>. QED
    BY <2>1, <2>2, DamageProperties
<1>2. Len(lines') \in Nat
  BY <1>1
<1>3. TypeOK'
  BY <1>1, <1>2, AuditAssumption DEF TypeOK, DamageFile, memory, history, Line
<1>4. PendingInv' /\ KeptInv'
  BY AuditAssumption DEF TypeOK, PendingInv, KeptInv, DamageFile, memory, history
<1>5. ASSUME ~shared PROVE SoleInv'
  <2>1. \A w \in Writer : pc'[w] = "closed"
    BY DEF DamageFile
  <2>2. trusted' = trusted /\ Verify(trusted') /\ damage' # 0
    BY <1>5 DEF TypeOK, SoleInv, DamageFile, history, Verify
  <2>3. \A i \in 1 .. Len(lines') :
          lines'[i] = Garbage \/ \E j \in 1 .. Len(trusted) : lines'[i] = trusted[j]
    BY <1>1, <1>5 DEF SoleInv
  <2>. QED
    BY <2>1, <2>2, <2>3 DEF SoleInv
<1>6. SoleInv'
  BY <1>5 DEF SoleInv, DamageFile, history
<1>. QED
  BY <1>3, <1>4, <1>6

LEMMA IInvNext == IInv /\ [Next]_vars => IInv'
<1>. SUFFICES ASSUME IInv, [Next]_vars PROVE IInv'
  OBVIOUS
<1>1. CASE UNCHANGED vars
  BY <1>1 DEF vars, file, memory, history, IInv, TypeOK, PendingInv, KeptInv, SoleInv, KnowsEnd
<1>. QED
  BY <1>1, OpenKeeps, WriteKeeps, PartKeeps, SyncKeeps, EndKeeps, LossKeeps, DamageKeeps
     DEF Next

\* The inductive invariant of the log, whatever commands and limits.
THEOREM LogInvariant == Spec => []IInv
BY IInvInit, IInvNext, PTL DEF Spec

\* The state of the log keeps its types and no event passes the limit (audit.go).
THEOREM LogTypeCorrect == Spec => []TypeOK
<1>1. IInv => TypeOK
  BY DEF IInv
<1>. QED
  BY <1>1, LogInvariant, PTL

\* An acknowledged event stays in the log (FR-026b).
THEOREM AcknowledgedIsKeptHolds == Spec => []AcknowledgedIsKept
<1>1. IInv => AcknowledgedIsKept
  BY DEF IInv, KeptInv, AcknowledgedIsKept
<1>. QED
  BY <1>1, LogInvariant, PTL

\* Commands that use the log one after the other leave one that verifies.
THEOREM SoleWriterKeepsChainHolds == Spec => []SoleWriterKeepsChain
<1>1. IInv => SoleWriterKeepsChain
  BY DEF IInv, SoleInv, SoleWriterKeepsChain
<1>. QED
  BY <1>1, LogInvariant, PTL

\* A log made of lines of a trusted one that verifies is a beginning of it: the
\* number of an event is its place (docs/security.md:33).
LEMMA VerifiedIsPrefix ==
  ASSUME IInv, ~shared, Verify(lines)
  PROVE  IsPrefix(lines, trusted)
<1>1. lines \in Seq(Line) /\ trusted \in Seq(Line) /\ Verify(trusted)
  BY DEF IInv, TypeOK, SoleInv, Line
<1>2. \A i \in 1 .. Len(lines) : i <= Len(trusted) /\ lines[i] = trusted[i]
  <2>. SUFFICES ASSUME NEW i \in 1 .. Len(lines)
                PROVE  i <= Len(trusted) /\ lines[i] = trusted[i]
    OBVIOUS
  <2>1. lines[i] \in Event /\ lines[i].sequence = i
    BY DEF Verify
  <2>2. PICK j \in 1 .. Len(trusted) : lines[i] = trusted[j]
    BY <2>1, GarbageIsNoEvent DEF IInv, SoleInv
  <2>3. trusted[j].sequence = j
    BY <1>1 DEF Verify
  <2>. QED
    BY <2>1, <2>2, <2>3
<1>3. Len(lines) <= Len(trusted)
  BY <1>1, <1>2
<1>4. SubSeq(lines, 1, Len(lines)) = SubSeq(trusted, 1, Len(lines))
  <2>1. Len(lines) \in 0 .. Len(lines) /\ Len(lines) \in 0 .. Len(trusted)
    BY <1>1, <1>3
  <2>. QED
    BY <1>1, <1>2, <2>1, PrefixVerifies, SeqEqual
<1>. QED
  BY <1>3, <1>4 DEF IsPrefix

\* Damage anywhere but at the end is noticed when the log is opened again.
THEOREM DamageIsNoticedHolds == Spec => DamageIsNoticed
<1>1. ASSUME IInv, Next, NEW w \in Writer, ~shared, pc[w] = "closed", pc'[w] = "open"
      PROVE  IsPrefix(lines, trusted)
  <2>1. OpenAudit(w)
    BY <1>1 DEF IInv, TypeOK, Next, OpenAudit, WriteLine, WritePart, SyncLine, Acknowledge,
       End, Close, PowerLoss, DamageFile
  <2>. QED
    BY <1>1, <2>1, VerifiedIsPrefix DEF OpenAudit
<1>2. IInv /\ [Next]_vars =>
        [\A w \in Writer :
           ~shared /\ pc[w] = "closed" /\ pc'[w] = "open" => IsPrefix(lines, trusted)]_vars
  BY <1>1
<1>. QED
  BY <1>2, LogInvariant, PTL DEF Spec, DamageIsNoticed
===============================================================================
