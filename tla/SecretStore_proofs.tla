--------------------------- MODULE SecretStore_proofs ---------------------------
(***************************************************************************)
(* Proofs about SecretStore for any items, values, durations and any       *)
(* length of the log.  The store keeps no history; GroundsInv finds for    *)
(* each permission it holds the confirmation in the log that gave it, and  *)
(* AskedInv the question an open share answers.                            *)
(***************************************************************************)
EXTENDS SecretStore, SequenceTheorems, TLAPS

\* Entry j of the log is the confirmation the permission stands for.
Grounds(capability, c, j) ==
  /\ Is(j, "confirm", capability, c)
  /\ log[j].fingerprint = authorizations[capability][c].fingerprint
  /\ authorizations[capability][c].expires_at = log[j].at + LastsFor(capability)
  /\ \A k \in j + 1 .. Len(log) :
       /\ ~Withdrawn(k, c) /\ ~Is(k, "confirm", capability, c)
       /\ capability = "share_once" /\ Is(k, "use", capability, c)
            => authorizations[capability][c].consumed

GroundsInv ==
  \A capability \in SecretCapability, c \in ChangeId :
    authorizations[capability][c] # None =>
      \E j \in 1 .. Len(log) : Grounds(capability, c, j)

AskedInv ==
  pendingShare # None =>
    \E j \in 1 .. Len(log) :
      /\ Is(j, "ask", "share_once", pendingShare)
      /\ \A k \in j + 1 .. Len(log) : ~Is(k, "confirm", "share_once", pendingShare)

IInv == TypeOK /\ GroundsInv /\ AskedInv /\ UseIsConfirmed /\ SharedOnce

-------------------------------------------------------------------------------
\* What the log gains is its last entry, and nothing else of it changes.
LEMMA LogGrows ==
  ASSUME TypeOK,
         NEW what \in {"ask", "confirm", "use", "conceal", "reset"},
         NEW capability \in SecretCapability \cup {None}, NEW c \in ChangeId \cup {None},
         NEW fingerprint \in Fingerprint \cup {None},
         Happens(what, capability, c, fingerprint)
  PROVE  /\ log' \in Seq(Entry) /\ Len(log') <= MaxLog
         /\ Len(log) \in Nat /\ Len(log') = Len(log) + 1
         /\ \A i \in 1 .. Len(log) : log'[i] = log[i]
         /\ log'[Len(log')] = [what |-> what, capability |-> capability, change_id |-> c,
                               fingerprint |-> fingerprint, at |-> now]
<1> DEFINE entry == [what |-> what, capability |-> capability, change_id |-> c,
                     fingerprint |-> fingerprint, at |-> now]
<1>1. entry \in Entry
  BY SecretAssumption DEF TypeOK, Entry
<1>2. log \in Seq(Entry) /\ Len(log) < MaxLog /\ log' = Append(log, entry)
  BY DEF TypeOK, Happens
<1> HIDE DEF entry
<1>3. /\ log' \in Seq(Entry) /\ Len(log) \in Nat /\ Len(log') = Len(log) + 1
      /\ \A i \in 1 .. Len(log) : log'[i] = log[i]
      /\ log'[Len(log')] = entry
  BY <1>1, <1>2
<1>4. Len(log') <= MaxLog
  BY <1>2, <1>3, SecretAssumption
<1> QED
  BY <1>3, <1>4 DEF entry

\* A permission keeps its grounds when what happens neither withdraws nor renews
\* it, and uses up a share.
LEMMA GroundsStay ==
  ASSUME NEW capability \in SecretCapability, NEW c \in ChangeId,
         NEW j \in 1 .. Len(log), Grounds(capability, c, j),
         NEW n \in Nat, Len(log) = n - 1, Len(log') = n,
         \A i \in 1 .. Len(log) : log'[i] = log[i],
         ~Withdrawn(n, c)', ~Is(n, "confirm", capability, c)',
         authorizations'[capability][c].fingerprint
           = authorizations[capability][c].fingerprint,
         authorizations'[capability][c].expires_at
           = authorizations[capability][c].expires_at,
         authorizations[capability][c].consumed
           => authorizations'[capability][c].consumed,
         capability = "share_once" /\ Is(n, "use", capability, c)'
           => authorizations'[capability][c].consumed
  PROVE  Grounds(capability, c, j)'
<1>1. j \in 1 .. Len(log') /\ log'[j] = log[j]
  OBVIOUS
<1>2. ASSUME NEW k \in j + 1 .. Len(log')
      PROVE  (/\ ~Withdrawn(k, c) /\ ~Is(k, "confirm", capability, c)
              /\ capability = "share_once" /\ Is(k, "use", capability, c)
                   => authorizations[capability][c].consumed)'
  <2>1. CASE k = n
    BY <2>1
  <2>2. CASE k \in j + 1 .. Len(log)
    <3>1. log'[k] = log[k]
      BY <2>2
    <3> QED
      BY <2>2, <3>1 DEF Grounds, Withdrawn, Is
  <2> QED
    BY <2>1, <2>2
<1> QED
  BY <1>1, <1>2 DEF Grounds, Is

\* A confirmation is the grounds of the permission it gives.
LEMMA GroundsGiven ==
  ASSUME NEW capability \in SecretCapability, NEW c \in ChangeId,
         NEW n \in Nat \ {0}, Len(log') = n,
         Is(n, "confirm", capability, c)',
         log'[n].fingerprint = authorizations'[capability][c].fingerprint,
         authorizations'[capability][c].expires_at
           = log'[n].at + LastsFor(capability)
  PROVE  \E j \in 1 .. Len(log') : Grounds(capability, c, j)'
<1>1. n \in 1 .. Len(log')
  OBVIOUS
<1>2. \A k \in n + 1 .. Len(log') : FALSE
  OBVIOUS
<1>3. Grounds(capability, c, n)'
  BY <1>2 DEF Grounds
<1> QED
  BY <1>1, <1>3

\* The properties are about the entries there were, and the one that is new.
LEMMA UseStays ==
  ASSUME UseIsConfirmed, NEW n \in Nat, Len(log) = n - 1, Len(log') = n,
         \A i \in 1 .. Len(log) : log'[i] = log[i],
         log'[n].what = "use" =>
           \E j \in 1 .. n - 1 :
             /\ Is(j, "confirm", log'[n].capability, log'[n].change_id)
             /\ log[j].fingerprint = log'[n].fingerprint
             /\ log'[n].at <= log[j].at + LastsFor(log'[n].capability)
             /\ \A k \in j + 1 .. n - 1 :
                  /\ ~Withdrawn(k, log'[n].change_id)
                  /\ ~Is(k, "confirm", log'[n].capability, log'[n].change_id)
  PROVE  UseIsConfirmed'
<1> SUFFICES ASSUME NEW i \in 1 .. n, log'[i].what = "use"
             PROVE  \E j \in 1 .. i - 1 :
                      /\ Is(j, "confirm", log[i].capability, log[i].change_id)'
                      /\ log'[j].fingerprint = log'[i].fingerprint
                      /\ log'[i].at <= log'[j].at + LastsFor(log'[i].capability)
                      /\ \A k \in j + 1 .. i - 1 :
                           /\ ~Withdrawn(k, log[i].change_id)'
                           /\ ~Is(k, "confirm", log[i].capability, log[i].change_id)'
  BY DEF UseIsConfirmed, LastsFor
<1>1. PICK j \in 1 .. i - 1 :
        /\ Is(j, "confirm", log'[i].capability, log'[i].change_id)
        /\ log[j].fingerprint = log'[i].fingerprint
        /\ log'[i].at <= log[j].at + LastsFor(log'[i].capability)
        /\ \A k \in j + 1 .. i - 1 :
             /\ ~Withdrawn(k, log'[i].change_id)
             /\ ~Is(k, "confirm", log'[i].capability, log'[i].change_id)
  <2>1. CASE i = n
    BY <2>1
  <2>2. CASE i \in 1 .. Len(log)
    BY <2>2 DEF UseIsConfirmed
  <2> QED
    BY <2>1, <2>2
<1>2. j \in 1 .. Len(log) /\ \A k \in j + 1 .. i - 1 : k \in 1 .. Len(log)
  OBVIOUS
<1>3. \A k \in j .. i - 1 : log'[k] = log[k]
  BY <1>2
<1> QED
  BY <1>1, <1>2, <1>3 DEF Is, Withdrawn

LEMMA SharedStays ==
  ASSUME SharedOnce, NEW n \in Nat, Len(log) = n - 1, Len(log') = n,
         \A i \in 1 .. Len(log) : log'[i] = log[i],
         \A c \in ChangeId, k \in 1 .. n - 1 :
           /\ Is(k, "use", "share_once", c) /\ Is(n, "use", "share_once", c)'
                => \E j \in k + 1 .. n - 1 : Is(j, "confirm", "share_once", c)
           /\ Is(k, "confirm", "share_once", c) /\ Is(n, "confirm", "share_once", c)'
                => \E j \in k + 1 .. n - 1 : Is(j, "ask", "share_once", c)
  PROVE  SharedOnce'
<1> SUFFICES
      ASSUME NEW c \in ChangeId, NEW k \in 1 .. n, NEW i \in 1 .. n, k < i
      PROVE  /\ Is(k, "use", "share_once", c)' /\ Is(i, "use", "share_once", c)'
                  => \E j \in k + 1 .. i - 1 : Is(j, "confirm", "share_once", c)'
             /\ Is(k, "confirm", "share_once", c)' /\ Is(i, "confirm", "share_once", c)'
                  => \E j \in k + 1 .. i - 1 : Is(j, "ask", "share_once", c)'
  BY DEF SharedOnce
<1>1. /\ k \in 1 .. n - 1 /\ \A j \in k + 1 .. i - 1 : j \in 1 .. Len(log)
      /\ k \in 1 .. Len(log)
  OBVIOUS
<1>2. \A j \in k .. i - 1 : log'[j] = log[j]
  BY <1>1
<1>3. CASE i = n
  BY <1>1, <1>2, <1>3 DEF Is
<1>4. CASE i \in 1 .. Len(log)
  <2>1. log'[i] = log[i]
    BY <1>4
  <2>2. /\ Is(k, "use", "share_once", c) /\ Is(i, "use", "share_once", c)
             => \E j \in k + 1 .. i - 1 : Is(j, "confirm", "share_once", c)
        /\ Is(k, "confirm", "share_once", c) /\ Is(i, "confirm", "share_once", c)
             => \E j \in k + 1 .. i - 1 : Is(j, "ask", "share_once", c)
    BY <1>1, <1>4 DEF SharedOnce
  <2> QED
    BY <1>1, <1>2, <2>1, <2>2 DEF Is
<1> QED
  BY <1>3, <1>4

LEMMA AskedStays ==
  ASSUME AskedInv, NEW n \in Nat, Len(log) = n - 1, Len(log') = n,
         \A i \in 1 .. Len(log) : log'[i] = log[i],
         pendingShare' = pendingShare,
         ~Is(n, "confirm", "share_once", pendingShare)'
  PROVE  AskedInv'
<1> SUFFICES ASSUME pendingShare # None
             PROVE  \E j \in 1 .. n :
                      /\ Is(j, "ask", "share_once", pendingShare)'
                      /\ \A k \in j + 1 .. n :
                           ~Is(k, "confirm", "share_once", pendingShare)'
  BY DEF AskedInv
<1>1. PICK j \in 1 .. Len(log) :
        /\ Is(j, "ask", "share_once", pendingShare)
        /\ \A k \in j + 1 .. Len(log) : ~Is(k, "confirm", "share_once", pendingShare)
  BY DEF AskedInv
<1>2. j \in 1 .. n /\ Is(j, "ask", "share_once", pendingShare)'
  BY <1>1 DEF Is
<1>3. ASSUME NEW k \in j + 1 .. n PROVE ~Is(k, "confirm", "share_once", pendingShare)'
  <2>1. CASE k = n
    BY <2>1
  <2>2. CASE k \in j + 1 .. Len(log)
    BY <1>1, <2>2 DEF Is
  <2> QED
    BY <2>1, <2>2
<1> QED
  BY <1>2, <1>3

-------------------------------------------------------------------------------
LEMMA InitInvariant == Init => IInv
<1> SUFFICES ASSUME Init PROVE IInv
  OBVIOUS
<1> USE DEF Init
<1>1. log \in Seq(Entry) /\ Len(log) = 0
  OBVIOUS
<1>2. TypeOK
  BY <1>1, SecretAssumption DEF TypeOK, Nothing, SecretCapability
<1>3. GroundsInv /\ AskedInv /\ UseIsConfirmed /\ SharedOnce
  BY <1>1 DEF GroundsInv, AskedInv, UseIsConfirmed, SharedOnce, Nothing, SecretCapability
<1> QED
  BY <1>2, <1>3 DEF IInv

\* ConfirmReveal and ConfirmShare, but for the question.
LEMMA ConfirmKeeps ==
  ASSUME IInv, NEW capability \in SecretCapability, NEW c \in ChangeId,
         NEW fingerprint \in Fingerprint, UNCHANGED now,
         Grant(capability, c, fingerprint, LastsFor(capability)),
         Happens("confirm", capability, c, fingerprint),
         \/ capability = "reveal" /\ UNCHANGED pendingShare
         \/ capability = "share_once" /\ pendingShare = c /\ pendingShare' = None
  PROVE  IInv'
<1>1. PICK n \in Nat \ {0} :
      /\ log' \in Seq(Entry) /\ Len(log') <= MaxLog
      /\ Len(log) = n - 1 /\ Len(log') = n
      /\ \A i \in 1 .. Len(log) : log'[i] = log[i]
      /\ log'[n] = [what |-> "confirm", capability |-> capability, change_id |-> c,
                    fingerprint |-> fingerprint, at |-> now]
  BY LogGrows DEF IInv
<1>2. now \in Nat /\ LastsFor(capability) \in Nat /\ now + LastsFor(capability) \in Nat
  BY SecretAssumption DEF IInv, TypeOK, LastsFor
<1>3. /\ authorizations' \in [SecretCapability -> [ChangeId -> SecretAuthorization \cup {None}]]
      /\ authorizations'[capability][c]
           = [fingerprint |-> fingerprint, expires_at |-> now + LastsFor(capability),
              consumed |-> FALSE]
      /\ \A other \in SecretCapability, d \in ChangeId :
           other # capability \/ d # c =>
             authorizations'[other][d] = authorizations[other][d]
  <2>1. [fingerprint |-> fingerprint, expires_at |-> now + LastsFor(capability),
         consumed |-> FALSE] \in SecretAuthorization
    BY <1>2 DEF SecretAuthorization
  <2> QED
    BY <2>1 DEF IInv, TypeOK, Grant
<1>4. TypeOK'
  <2>1. \A d \in ChangeId : authorizations'["reveal"][d] # None =>
          ~authorizations'["reveal"][d].consumed
    BY <1>3 DEF IInv, TypeOK, SecretCapability
  <2> QED
    BY <1>1, <1>3, <2>1 DEF IInv, TypeOK
<1>5. GroundsInv'
  <2> SUFFICES ASSUME NEW other \in SecretCapability, NEW d \in ChangeId,
                      authorizations'[other][d] # None
               PROVE  \E j \in 1 .. n : Grounds(other, d, j)'
    BY <1>1 DEF GroundsInv
  <2>1. CASE other = capability /\ d = c
    <3>1. Is(n, "confirm", capability, c)'
      BY <1>1 DEF Is
    <3>2. /\ log'[n].fingerprint = authorizations'[capability][c].fingerprint
          /\ authorizations'[capability][c].expires_at = log'[n].at + LastsFor(capability)
      BY <1>1, <1>3
    <3> QED
      BY <1>1, <2>1, <3>1, <3>2, GroundsGiven
  <2>2. CASE other # capability \/ d # c
    <3>1. authorizations'[other][d] = authorizations[other][d]
      BY <1>3, <2>2
    <3>2. PICK j \in 1 .. Len(log) : Grounds(other, d, j)
      BY <3>1 DEF IInv, GroundsInv
    <3>3. /\ ~Withdrawn(n, d)' /\ ~Is(n, "confirm", other, d)'
          /\ ~Is(n, "use", other, d)'
      BY <1>1, <2>2 DEF Withdrawn, Is
    <3>4. Grounds(other, d, j)'
      BY <1>1, <3>1, <3>2, <3>3, GroundsStay
    <3> QED
      BY <1>1, <3>4
  <2> QED
    BY <2>1, <2>2
<1>6. AskedInv'
  <2>1. CASE pendingShare' = None
    BY <2>1 DEF AskedInv
  <2>2. CASE capability = "reveal" /\ pendingShare' = pendingShare
    <3>1. ~Is(n, "confirm", "share_once", pendingShare)'
      BY <1>1, <2>2 DEF Is
    <3> QED
      BY <1>1, <2>2, <3>1, AskedStays DEF IInv
  <2> QED
    BY <2>1, <2>2
<1>7. UseIsConfirmed'
  <2>1. log'[n].what # "use"
    BY <1>1
  <2> QED
    BY <1>1, <2>1, UseStays DEF IInv
<1>8. SharedOnce'
  <2>1. ASSUME NEW d \in ChangeId, NEW k \in 1 .. n - 1
        PROVE  /\ Is(k, "use", "share_once", d) /\ Is(n, "use", "share_once", d)'
                    => \E j \in k + 1 .. n - 1 : Is(j, "confirm", "share_once", d)
               /\ Is(k, "confirm", "share_once", d) /\ Is(n, "confirm", "share_once", d)'
                    => \E j \in k + 1 .. n - 1 : Is(j, "ask", "share_once", d)
    <3>1. ~Is(n, "use", "share_once", d)'
      BY <1>1 DEF Is
    <3>2. ASSUME Is(k, "confirm", "share_once", d), Is(n, "confirm", "share_once", d)'
          PROVE  \E j \in k + 1 .. n - 1 : Is(j, "ask", "share_once", d)
      <4>1. pendingShare = d /\ pendingShare # None
        BY <1>1, <3>2, SecretAssumption DEF Is
      <4>2. PICK j \in 1 .. Len(log) :
              /\ Is(j, "ask", "share_once", d)
              /\ \A i \in j + 1 .. Len(log) : ~Is(i, "confirm", "share_once", d)
        BY <4>1 DEF IInv, AskedInv
      <4>3. j # k /\ ~(k \in j + 1 .. Len(log))
        BY <3>2, <4>2 DEF Is
      <4>4. j \in k + 1 .. n - 1
        BY <1>1, <4>3
      <4> QED
        BY <4>2, <4>4
    <3> QED
      BY <3>1, <3>2
  <2> QED
    BY <1>1, <2>1, SharedStays DEF IInv
<1> QED
  BY <1>4, <1>5, <1>6, <1>7, <1>8 DEF IInv

LEMMA AuthorizeKeeps ==
  ASSUME IInv, NEW capability \in SecretCapability, NEW c \in ChangeId,
         NEW fingerprint \in Fingerprint, Authorize(capability, c, fingerprint)
  PROVE  IInv'
<1>1. PICK n \in Nat \ {0} :
      /\ log' \in Seq(Entry) /\ Len(log') <= MaxLog
      /\ Len(log) = n - 1 /\ Len(log') = n
      /\ \A i \in 1 .. Len(log) : log'[i] = log[i]
      /\ log'[n] = [what |-> "use", capability |-> capability, change_id |-> c,
                    fingerprint |-> fingerprint, at |-> now]
  BY LogGrows DEF IInv, Authorize
<1>2. /\ authorizations[capability][c] \in SecretAuthorization
      /\ authorizations[capability][c] # None
      /\ ~authorizations[capability][c].consumed
      /\ now <= authorizations[capability][c].expires_at
      /\ authorizations[capability][c].fingerprint = fingerprint
  BY DEF IInv, TypeOK, Authorize, Available
<1>3. /\ authorizations' \in [SecretCapability -> [ChangeId -> SecretAuthorization \cup {None}]]
      /\ authorizations'[capability][c].fingerprint
           = authorizations[capability][c].fingerprint
      /\ authorizations'[capability][c].expires_at
           = authorizations[capability][c].expires_at
      /\ authorizations'[capability][c].consumed = (capability = "share_once")
      /\ \A other \in SecretCapability, d \in ChangeId :
           other # capability \/ d # c =>
             authorizations'[other][d] = authorizations[other][d]
  <2>1. [authorizations[capability][c] EXCEPT !.consumed = (capability = "share_once")]
          \in SecretAuthorization
    BY <1>2 DEF SecretAuthorization
  <2> QED
    BY <1>2, <2>1 DEF IInv, TypeOK, Authorize, SecretAuthorization
<1>4. TypeOK'
  <2>1. \A d \in ChangeId : authorizations'["reveal"][d] # None =>
          ~authorizations'["reveal"][d].consumed
    BY <1>3 DEF IInv, TypeOK, SecretCapability
  <2> QED
    BY <1>1, <1>3, <2>1 DEF IInv, TypeOK, Authorize
<1>5. GroundsInv'
  <2> SUFFICES ASSUME NEW other \in SecretCapability, NEW d \in ChangeId,
                      authorizations'[other][d] # None
               PROVE  \E j \in 1 .. n : Grounds(other, d, j)'
    BY <1>1 DEF GroundsInv
  <2>1. authorizations[other][d] # None
    BY <1>2, <1>3
  <2>2. PICK j \in 1 .. Len(log) : Grounds(other, d, j)
    BY <2>1 DEF IInv, GroundsInv
  <2>3. ~Withdrawn(n, d)' /\ ~Is(n, "confirm", other, d)'
    BY <1>1 DEF Withdrawn, Is
  <2>4. /\ authorizations'[other][d].fingerprint = authorizations[other][d].fingerprint
        /\ authorizations'[other][d].expires_at = authorizations[other][d].expires_at
        /\ authorizations[other][d].consumed => authorizations'[other][d].consumed
        /\ other = "share_once" /\ Is(n, "use", other, d)'
             => authorizations'[other][d].consumed
    <3>1. CASE other = capability /\ d = c
      <4>1. ~authorizations[other][d].consumed
        BY <1>2, <3>1
      <4> QED
        BY <1>3, <3>1, <4>1
    <3>2. CASE other # capability \/ d # c
      <4>1. ~Is(n, "use", other, d)'
        BY <1>1, <3>2 DEF Is
      <4> QED
        BY <1>3, <3>2, <4>1
    <3> QED
      BY <3>1, <3>2
  <2>5. Grounds(other, d, j)'
    BY <1>1, <2>2, <2>3, <2>4, GroundsStay
  <2> QED
    BY <1>1, <2>5
<1>6. AskedInv'
  <2>1. ~Is(n, "confirm", "share_once", pendingShare)'
    BY <1>1 DEF Is
  <2> QED
    BY <1>1, <2>1, AskedStays DEF IInv, Authorize
<1>7. PICK j \in 1 .. n - 1 : Grounds(capability, c, j)
  BY <1>1, <1>2 DEF IInv, GroundsInv
<1>8. UseIsConfirmed'
  <2>1. /\ Is(j, "confirm", capability, c)
        /\ log[j].fingerprint = fingerprint
        /\ now <= log[j].at + LastsFor(capability)
        /\ \A k \in j + 1 .. n - 1 :
             ~Withdrawn(k, c) /\ ~Is(k, "confirm", capability, c)
    BY <1>1, <1>2, <1>7 DEF Grounds
  <2>2. /\ log'[n].capability = capability /\ log'[n].change_id = c
        /\ log'[n].fingerprint = fingerprint /\ log'[n].at = now
    BY <1>1
  <2> QED
    BY <1>1, <2>1, <2>2, UseStays DEF IInv
<1>9. SharedOnce'
  <2>1. ASSUME NEW d \in ChangeId, NEW k \in 1 .. n - 1
        PROVE  /\ Is(k, "use", "share_once", d) /\ Is(n, "use", "share_once", d)'
                    => \E i \in k + 1 .. n - 1 : Is(i, "confirm", "share_once", d)
               /\ Is(k, "confirm", "share_once", d) /\ Is(n, "confirm", "share_once", d)'
                    => \E i \in k + 1 .. n - 1 : Is(i, "ask", "share_once", d)
    <3>1. ~Is(n, "confirm", "share_once", d)'
      BY <1>1 DEF Is
    <3>2. ASSUME Is(k, "use", "share_once", d), Is(n, "use", "share_once", d)'
          PROVE  \E i \in k + 1 .. n - 1 : Is(i, "confirm", "share_once", d)
      <4>1. capability = "share_once" /\ d = c
        BY <1>1, <3>2 DEF Is
      <4>2. ~(k \in j + 1 .. Len(log)) /\ k # j
        BY <1>2, <1>7, <3>2, <4>1 DEF Grounds, Is
      <4>3. j \in k + 1 .. n - 1
        BY <1>1, <4>2
      <4> QED
        BY <1>7, <4>1, <4>3 DEF Grounds
    <3> QED
      BY <3>1, <3>2
  <2> QED
    BY <1>1, <2>1, SharedStays DEF IInv
<1> QED
  BY <1>4, <1>5, <1>6, <1>8, <1>9 DEF IInv

\* The steps that neither give nor use a permission.
LEMMA QuietKeeps ==
  ASSUME IInv, NEW what \in {"ask", "conceal", "reset"},
         NEW capability \in SecretCapability \cup {None}, NEW c \in ChangeId \cup {None},
         Happens(what, capability, c, None), UNCHANGED now,
         authorizations' \in
           [SecretCapability -> [ChangeId -> SecretAuthorization \cup {None}]],
         \A other \in SecretCapability, d \in ChangeId :
           authorizations'[other][d] # None =>
             /\ authorizations'[other][d] = authorizations[other][d]
             /\ what # "reset" /\ (what = "conceal" => d # c),
         \/ pendingShare' = None \/ pendingShare' = pendingShare
         \/ what = "ask" /\ capability = "share_once" /\ pendingShare' = c /\ c \in ChangeId
  PROVE  IInv'
<1>a. /\ TypeOK /\ None \in Fingerprint \cup {None}
      /\ what \in {"ask", "confirm", "use", "conceal", "reset"}
  BY DEF IInv
<1>b. /\ log' \in Seq(Entry) /\ Len(log') <= MaxLog
      /\ Len(log) \in Nat /\ Len(log') = Len(log) + 1
      /\ \A i \in 1 .. Len(log) : log'[i] = log[i]
      /\ log'[Len(log')] = [what |-> what, capability |-> capability, change_id |-> c,
                            fingerprint |-> None, at |-> now]
  BY <1>a, LogGrows
<1>1. PICK n \in Nat \ {0} :
      /\ log' \in Seq(Entry) /\ Len(log') <= MaxLog
      /\ Len(log) = n - 1 /\ Len(log') = n
      /\ \A i \in 1 .. Len(log) : log'[i] = log[i]
      /\ log'[n] = [what |-> what, capability |-> capability, change_id |-> c,
                    fingerprint |-> None, at |-> now]
  BY <1>b
<1>2. log'[n].what \notin {"confirm", "use"}
  BY <1>1
<1>3. \A other \in SecretCapability, d \in ChangeId \cup {None} :
        ~Is(n, "confirm", other, d)' /\ ~Is(n, "use", other, d)'
  BY <1>2 DEF Is
<1>4. TypeOK'
  BY <1>1 DEF IInv, TypeOK, SecretCapability
<1>5. GroundsInv'
  <2> SUFFICES ASSUME NEW other \in SecretCapability, NEW d \in ChangeId,
                      authorizations'[other][d] # None
               PROVE  \E j \in 1 .. n : Grounds(other, d, j)'
    BY <1>1 DEF GroundsInv
  <2>1. /\ authorizations'[other][d] = authorizations[other][d]
        /\ ~Withdrawn(n, d)'
    BY <1>1 DEF Withdrawn
  <2>2. PICK j \in 1 .. Len(log) : Grounds(other, d, j)
    BY <2>1 DEF IInv, GroundsInv
  <2>3. Grounds(other, d, j)'
    BY <1>1, <1>3, <2>1, <2>2, GroundsStay
  <2> QED
    BY <1>1, <2>3
<1>6. AskedInv'
  <2>1. CASE pendingShare' = None
    BY <2>1 DEF AskedInv
  <2>2. CASE pendingShare' = pendingShare
    <3>1. ~Is(n, "confirm", "share_once", pendingShare)'
      BY <1>2 DEF Is
    <3> QED
      BY <1>1, <2>2, <3>1, AskedStays DEF IInv
  <2>3. CASE what = "ask" /\ capability = "share_once" /\ pendingShare' = c
    <3>1. n \in 1 .. n /\ Is(n, "ask", "share_once", pendingShare)'
      BY <1>1, <2>3 DEF Is
    <3>2. \A k \in n + 1 .. n : FALSE
      BY <1>1
    <3> QED
      BY <1>1, <3>1, <3>2 DEF AskedInv
  <2> QED
    BY <2>1, <2>2, <2>3
<1>7. UseIsConfirmed'
  BY <1>1, <1>2, UseStays DEF IInv
<1>8. SharedOnce'
  <2>1. \A d \in ChangeId : ~Is(n, "confirm", "share_once", d)' /\ ~Is(n, "use", "share_once", d)'
    BY <1>3 DEF SecretCapability
  <2> QED
    BY <1>1, <2>1, SharedStays DEF IInv
<1> QED
  BY <1>4, <1>5, <1>6, <1>7, <1>8 DEF IInv

LEMMA ConcealKeeps ==
  ASSUME IInv, NEW c \in ChangeId, Conceal(c)
  PROVE  IInv'
<1>1. authorizations' \in
        [SecretCapability -> [ChangeId -> SecretAuthorization \cup {None}]]
  BY DEF IInv, TypeOK, Conceal, SecretCapability
<1>2. \A other \in SecretCapability, d \in ChangeId :
        authorizations'[other][d] # None =>
          authorizations'[other][d] = authorizations[other][d] /\ d # c
  BY DEF IInv, TypeOK, Conceal, SecretCapability
<1>3. /\ Happens("conceal", None, c, None) /\ UNCHANGED now
      /\ pendingShare' = None \/ pendingShare' = pendingShare
  BY DEF Conceal
<1> QED
  BY <1>1, <1>2, <1>3, QuietKeeps

LEMMA NextInvariant == IInv /\ [Next]_vars => IInv'
<1> SUFFICES ASSUME IInv, [Next]_vars PROVE IInv'
  OBVIOUS
<1>1. CASE UNCHANGED vars
  BY <1>1 DEF vars, IInv, TypeOK, GroundsInv, Grounds, AskedInv, UseIsConfirmed, SharedOnce,
              Is, Withdrawn
<1>2. ASSUME NEW c \in ChangeId, NEW fingerprint \in Fingerprint,
             ConfirmReveal(c, fingerprint)
      PROVE  IInv'
  BY <1>2, ConfirmKeeps DEF ConfirmReveal, SecretCapability, LastsFor
<1>3. ASSUME NEW c \in ChangeId, NEW fingerprint \in Fingerprint,
             ConfirmShare(c, fingerprint)
      PROVE  IInv'
  BY <1>3, ConfirmKeeps DEF ConfirmShare, SecretCapability, LastsFor
<1>4. ASSUME NEW c \in ChangeId, NEW fingerprint \in Fingerprint,
             NEW capability \in SecretCapability, Authorize(capability, c, fingerprint)
      PROVE  IInv'
  BY <1>4, AuthorizeKeeps
<1>5. ASSUME NEW c \in ChangeId, PrepareShare(c)
      PROVE  IInv'
  <2>1. /\ Happens("ask", "share_once", c, None) /\ UNCHANGED now
        /\ pendingShare' = c /\ authorizations' = authorizations
        /\ "share_once" \in SecretCapability \cup {None}
    BY <1>5 DEF PrepareShare, SecretCapability
  <2>2. authorizations' \in
          [SecretCapability -> [ChangeId -> SecretAuthorization \cup {None}]]
    BY <2>1 DEF IInv, TypeOK
  <2> QED
    BY <2>1, <2>2, QuietKeeps
<1>6. ASSUME NEW c \in ChangeId, Conceal(c)
      PROVE  IInv'
  BY <1>6, ConcealKeeps
<1>7. CASE Reset
  <2>1. /\ Happens("reset", None, None, None) /\ UNCHANGED now
        /\ pendingShare' = pendingShare
    BY <1>7 DEF Reset
  <2>2. /\ authorizations' \in
             [SecretCapability -> [ChangeId -> SecretAuthorization \cup {None}]]
        /\ \A other \in SecretCapability, d \in ChangeId : authorizations'[other][d] = None
    BY <1>7 DEF Reset, Nothing
  <2> QED
    BY <2>1, <2>2, QuietKeeps
<1>8. CASE Tick
  <2>1. now' \in 0 .. MaxTime
    BY <1>8, SecretAssumption DEF IInv, TypeOK, Tick
  <2> QED
    BY <1>8, <2>1 DEF Tick, IInv, TypeOK, GroundsInv, Grounds, AskedInv, UseIsConfirmed,
                      SharedOnce, Is, Withdrawn
<1> QED
  BY <1>1, <1>2, <1>3, <1>4, <1>5, <1>6, <1>7, <1>8 DEF Next

-------------------------------------------------------------------------------
\* The inductive invariant of the store of permissions.
THEOREM StoreInvariant == Spec => []IInv
BY InitInvariant, NextInvariant, PTL DEF Spec

\* The store and the log keep their types.
THEOREM StoreTypeCorrect == Spec => []TypeOK
<1>1. IInv => TypeOK
  BY DEF IInv
<1> QED
  BY <1>1, StoreInvariant, PTL

\* Authorize lets a value through only on a confirmation that still stands.
THEOREM UseIsConfirmedHolds == Spec => []UseIsConfirmed
<1>1. IInv => UseIsConfirmed
  BY DEF IInv
<1> QED
  BY <1>1, StoreInvariant, PTL

\* One share for one confirmation, one confirmation for one question.
THEOREM SharedOnceHolds == Spec => []SharedOnce
<1>1. IInv => SharedOnce
  BY DEF IInv
<1> QED
  BY <1>1, StoreInvariant, PTL
===============================================================================
