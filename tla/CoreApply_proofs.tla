--------------------------- MODULE CoreApply_proofs ---------------------------
(***************************************************************************)
(* Proofs about CoreApply for any number of processes, nonces, payloads    *)
(* and documents.  The inductive invariant says who may hold which nonce:  *)
(* a capability file and an accepted nonce exclude each other, a process   *)
(* past the deletion is the only one there with its nonce, and what it     *)
(* composed is what the preview of that nonce showed.                      *)
(***************************************************************************)
EXTENDS CoreApply, TLAPS

Spending == {"delete", "reload", "recover", "fresh", "rename"}
Spent == Spending \ {"delete"}

\* What a running process holds in memory.
MemoryInv ==
  \A p \in Proc : pc[p] # "exited" =>
    /\ request[p] \in Request
    /\ candidate[p] \in Document
    /\ pc[p] = "issue" => request[p].op = "assemble"
    /\ pc[p] \in {"clock", "open"} \cup Spending =>
         /\ request[p].op = "apply"
         /\ request[p].nonce \in Nonce
         /\ shown[request[p].nonce] # None
    /\ pc[p] = "open" => now[p] \in Nat
    /\ pc[p] = "recover" =>
         /\ loaded[p] \in Bytes
         /\ Digest(loaded[p]) = request[p].payload.source_digest

\* A preview that has not been answered yet owns its capability file.
PendingPreviewInv ==
  \A p \in Proc : pc[p] = "reply" /\ request[p].op = "assemble" =>
    /\ request[p].nonce \in Nonce
    /\ shown[request[p].nonce] = None
    /\ runtime[request[p].nonce] # None
    /\ runtime[request[p].nonce].context_digest =
         ContextDigest(request[p].payload, candidate[p])
    /\ \A q \in Proc :
         pc[q] = "reply" /\ request[q].op = "assemble"
           /\ request[q].nonce = request[p].nonce => q = p

\* The ledger of each nonce.
LedgerInv ==
  \A n \in Nonce :
    /\ runtime[n] # None => accepted[n] = 0
    /\ shown[n] = None => accepted[n] = 0
    /\ accepted[n] \in {0, 1}
    /\ replaced[n] \in {0, 1}
    /\ replaced[n] <= accepted[n]
    /\ runtime[n] # None /\ shown[n] # None =>
         runtime[n].context_digest = ContextDigest(shown[n].payload, shown[n].final)

\* Processes that checked a capability, and those that spent it.
HolderInv ==
  \A p \in Proc :
    /\ pc[p] \in Spending =>
         shown[request[p].nonce] =
           [payload |-> request[p].payload, final |-> candidate[p]]
    /\ pc[p] \in Spent =>
         /\ accepted[request[p].nonce] = 1
         /\ replaced[request[p].nonce] = 0
         /\ \A q \in Proc :
              pc[q] \in Spent /\ request[q].nonce = request[p].nonce => q = p

IInv == TypeOK /\ MemoryInv /\ PendingPreviewInv /\ LedgerInv /\ HolderInv

-------------------------------------------------------------------------------
\* Composing edits the approved targets of a document and nothing else
\* (final_set.zig assemble, apply.zig compose).
LEMMA ComposeExact ==
  ASSUME NEW document \in Document, NEW payload,
         payload.proposal.items \subseteq Item
  PROVE  /\ Compose(document, payload) \in Document
         /\ \A path \in Path :
              (\A item \in Approved(payload) : item.path # path)
                => Compose(document, payload)[path] = document[path]
<1>1. ASSUME NEW path \in Path, \E item \in Approved(payload) : item.path = path
      PROVE  NewValue(CHOOSE item \in Approved(payload) : item.path = path)
               \in Value \cup {Absent}
  <2>1. (CHOOSE item \in Approved(payload) : item.path = path) \in Item
    BY <1>1 DEF Approved
  <2>2. QED
    BY <2>1 DEF NewValue, Item
<1>2. ASSUME NEW path \in Path
      PROVE  document[path] \in Value \cup {Absent}
  BY DEF Document
<1>3. Compose(document, payload) \in Document
  BY <1>1, <1>2 DEF Compose, Document
<1>4. QED
  BY <1>3 DEF Compose

\* Whatever is assembled is a document, composed from bytes whose digest the
\* payload names.
LEMMA AssembleExact ==
  ASSUME NEW bytes \in Bytes, NEW payload,
         payload.proposal.items \subseteq Item,
         Assemble(bytes, payload) # Rejected
  PROVE  /\ bytes \in Document
         /\ Digest(bytes) = payload.source_digest
         /\ Assemble(bytes, payload) = Compose(bytes, payload)
         /\ Assemble(bytes, payload) \in Document
<1>1. /\ bytes # Malformed
      /\ Digest(bytes) = payload.source_digest
      /\ Assemble(bytes, payload) = Compose(bytes, payload)
  BY DEF Assemble
<1>2. bytes \in Document
  BY <1>1 DEF Bytes
<1>3. QED
  BY <1>1, <1>2, ComposeExact

-------------------------------------------------------------------------------
LEMMA IInvInit == Init => IInv
<1> SUFFICES ASSUME Init PROVE IInv
  OBVIOUS
<1>1. TypeOK
  BY CoreAssumption DEF Init, TypeOK, PC, Bytes
<1>2. MemoryInv /\ PendingPreviewInv /\ LedgerInv /\ HolderInv
  BY DEF Init, MemoryInv, PendingPreviewInv, LedgerInv, HolderInv, Spending, Spent
<1>3. QED
  BY <1>1, <1>2 DEF IInv

\* A process that leaves, for whatever reason, takes no claim with it.
LEMMA ExitKeeps ==
  ASSUME IInv, NEW p \in Proc, Exit(p), UNCHANGED <<files, clock, history>>
  PROVE  IInv'
<1> USE DEF IInv, Exit, GoTo, files, history
<1>1. TypeOK'
  BY DEF TypeOK, PC
<1>2. \A q \in Proc : pc'[q] # "exited" =>
        /\ q # p
        /\ pc'[q] = pc[q] /\ request'[q] = request[q]
        /\ candidate'[q] = candidate[q] /\ loaded'[q] = loaded[q] /\ now'[q] = now[q]
  BY DEF TypeOK
<1>3. MemoryInv'
  BY <1>2 DEF MemoryInv
<1>4. PendingPreviewInv'
  BY <1>2 DEF PendingPreviewInv
<1>5. LedgerInv'
  BY DEF LedgerInv
<1>6. HolderInv'
  BY <1>2 DEF HolderInv, Spending, Spent
<1>7. QED
  BY <1>1, <1>3, <1>4, <1>5, <1>6

LEMMA BeginKeeps ==
  ASSUME IInv, NEW p \in Proc, NEW op \in {"assemble", "apply"},
         NEW payload \in Payload, NEW n \in Nonce \cup {None},
         NEW final \in FinalDigest \cup {None},
         op = "apply" => n \in Nonce /\ shown[n] # None,
         Begin(p, op, payload, n, final)
  PROVE  IInv'
<1> USE DEF IInv, Begin, GoTo, files, history
<1>1. Assemble(source, payload) \in Document
  BY AssembleExact, CoreAssumption DEF TypeOK
<1>2. [op |-> op, payload |-> payload, nonce |-> n, final |-> final] \in Request
  BY DEF Request
<1>3. TypeOK'
  BY <1>1, <1>2 DEF TypeOK, PC
<1>4. /\ pc'[p] = IF op = "assemble" THEN "issue" ELSE "clock"
      /\ request'[p] = [op |-> op, payload |-> payload, nonce |-> n, final |-> final]
      /\ candidate'[p] = Assemble(source, payload)
      /\ \A q \in Proc \ {p} :
           pc'[q] = pc[q] /\ request'[q] = request[q] /\ candidate'[q] = candidate[q]
  BY DEF TypeOK
<1>5. MemoryInv'
  BY <1>1, <1>2, <1>4 DEF MemoryInv, Spending
<1>6. PendingPreviewInv'
  BY <1>4 DEF PendingPreviewInv
<1>7. LedgerInv'
  BY DEF LedgerInv
<1>8. HolderInv'
  BY <1>4 DEF HolderInv, Spending, Spent
<1>9. QED
  BY <1>3, <1>5, <1>6, <1>7, <1>8

LEMMA IssueKeeps ==
  ASSUME IInv, NEW p \in Proc, IssueCapability(p)
  PROVE  IInv'
<1> USE DEF IInv, GoTo, history
<1>1. PICK n \in Nonce :
        /\ runtime[n] = None
        /\ shown[n] = None
        /\ runtime' = [runtime EXCEPT ![n] =
             Capability(request[p].payload, candidate[p], clock)]
        /\ request' = [request EXCEPT ![p].nonce = n]
  BY DEF IssueCapability
<1>2. /\ pc[p] = "issue"
      /\ pc' = [pc EXCEPT ![p] = "reply"]
      /\ UNCHANGED <<source, recovery, clock, candidate, loaded, now, raced,
                      shown, accepted, replaced, recoveryBy>>
  BY DEF IssueCapability
<1>3. /\ request[p] \in Request /\ request[p].op = "assemble"
      /\ candidate[p] \in Document
  BY <1>2 DEF MemoryInv
<1>4. /\ request'[p] \in Request
      /\ request'[p].op = "assemble"
      /\ request'[p].payload = request[p].payload
      /\ request'[p].nonce = n
  BY <1>1, <1>3 DEF TypeOK, Request
<1>5. \A q \in Proc \ {p} :
        pc'[q] = pc[q] /\ request'[q] = request[q] /\ candidate'[q] = candidate[q]
  BY <1>1, <1>2 DEF TypeOK
<1>6. Capability(request[p].payload, candidate[p], clock) \in CapabilityRecord
  <2>1. request[p].payload \in Payload /\ candidate[p] \in Bytes
    BY <1>3 DEF Request, Bytes
  <2>2. request[p].payload.source_digest \in Digests /\ Digest(candidate[p]) \in Digests
    BY <2>1, CoreAssumption DEF Digests
  <2>3. clock \in Nat /\ clock + Lifetime \in Nat
    BY CoreAssumption DEF TypeOK
  <2>4. QED
    BY <1>3, <2>1, <2>2, <2>3 DEF Capability, CapabilityRecord
<1>7. /\ runtime'[n] # None
      /\ runtime'[n].context_digest = ContextDigest(request[p].payload, candidate[p])
      /\ \A m \in Nonce \ {n} : runtime'[m] = runtime[m]
  BY <1>1, <1>6, CoreAssumption DEF TypeOK, Capability
<1>8. TypeOK'
  BY <1>1, <1>2, <1>4, <1>6 DEF TypeOK, PC
<1>9. MemoryInv'
  BY <1>2, <1>3, <1>4, <1>5 DEF MemoryInv, Spending
<1>10. LedgerInv'
  BY <1>1, <1>2 DEF LedgerInv, TypeOK
<1>11. HolderInv'
  BY <1>2, <1>5 DEF HolderInv, Spending, Spent
<1>12. PendingPreviewInv'
  <2> SUFFICES ASSUME NEW q \in Proc, pc'[q] = "reply", request'[q].op = "assemble"
               PROVE  PendingPreviewInv!(q)'
    BY DEF PendingPreviewInv
  <2>1. CASE q = p
    BY <2>1, <1>1, <1>2, <1>4, <1>5, <1>7 DEF PendingPreviewInv
  <2>2. CASE q # p
    BY <2>2, <1>1, <1>2, <1>4, <1>5, <1>7 DEF PendingPreviewInv
  <2>3. QED
    BY <2>1, <2>2
<1>13. QED
  BY <1>8, <1>9, <1>10, <1>11, <1>12

LEMMA ReadClockKeeps ==
  ASSUME IInv, NEW p \in Proc, ReadClock(p)
  PROVE  IInv'
<1> USE DEF IInv, GoTo, ReadClock, files, history
<1>1. TypeOK'
  BY DEF TypeOK, PC
<1>2. /\ pc'[p] = "open" /\ now'[p] \in Nat
      /\ \A q \in Proc \ {p} : pc'[q] = pc[q] /\ now'[q] = now[q]
  BY DEF TypeOK
<1>3. MemoryInv'
  BY <1>2 DEF MemoryInv, Spending
<1>4. PendingPreviewInv' /\ LedgerInv' /\ HolderInv'
  BY <1>2 DEF PendingPreviewInv, LedgerInv, HolderInv, Spending, Spent
<1>5. QED
  BY <1>1, <1>3, <1>4

\* A capability that passes authorize is one whose preview the user has seen, and
\* it shows exactly the payload and the bytes the process holds.
LEMMA OpenKeeps ==
  ASSUME IInv, NEW p \in Proc, OpenCapability(p)
  PROVE  IInv'
<1> DEFINE n == request[p].nonce
           valid == /\ runtime[n] # None
                    /\ Authorize(runtime[n], now[p], request[p].payload, candidate[p])
<1>1. CASE ~valid
  BY <1>1, ExitKeeps DEF OpenCapability, files, history
<1>2. CASE valid
  <2> USE DEF IInv
  <2>1. /\ pc[p] = "open"
        /\ pc' = [pc EXCEPT ![p] = "delete"]
        /\ now' = [now EXCEPT ![p] = None]
        /\ UNCHANGED <<files, clock, history, request, candidate, loaded, raced>>
    BY <1>2 DEF OpenCapability, GoTo, Exit
  <2>2. /\ request[p] \in Request /\ candidate[p] \in Document
        /\ n \in Nonce /\ shown[n] # None
    BY <2>1 DEF MemoryInv
  <2>3. shown[n] = [payload |-> request[p].payload, final |-> candidate[p]]
    <3>1. ContextDigest(shown[n].payload, shown[n].final)
            = ContextDigest(request[p].payload, candidate[p])
      BY <1>2, <2>2 DEF LedgerInv, Authorize
    <3>2. shown[n] \in ShownRecord
      BY <2>2 DEF TypeOK
    <3>3. QED
      BY <3>1, <3>2 DEF ContextDigest, ShownRecord
  <2>4. /\ pc'[p] = "delete"
        /\ \A q \in Proc \ {p} : pc'[q] = pc[q] /\ now'[q] = now[q]
    BY <2>1 DEF TypeOK
  <2>5. TypeOK'
    BY <2>1 DEF TypeOK, PC, files, history
  <2>6. MemoryInv'
    BY <2>1, <2>2, <2>4 DEF MemoryInv, Spending, history
  <2>7. PendingPreviewInv' /\ LedgerInv'
    BY <2>1, <2>4 DEF PendingPreviewInv, LedgerInv, files, history
  <2>8. HolderInv'
    BY <2>1, <2>3, <2>4 DEF HolderInv, Spending, Spent, history
  <2>9. QED
    BY <2>5, <2>6, <2>7, <2>8
<1>3. QED
  BY <1>1, <1>2

\* The one place a nonce is spent.  The file is still there, so nobody has spent
\* the nonce before; it is gone afterwards, so nobody will again.
LEMMA DeleteKeeps ==
  ASSUME IInv, NEW p \in Proc, DeleteCapability(p)
  PROVE  IInv'
<1> DEFINE n == request[p].nonce
<1>1. CASE runtime[n] = None
  BY <1>1, ExitKeeps DEF DeleteCapability, files, history
<1>2. CASE runtime[n] # None
  <2> USE DEF IInv
  <2>1. /\ pc[p] = "delete"
        /\ pc' = [pc EXCEPT ![p] = "reload"]
        /\ runtime' = [runtime EXCEPT ![n] = None]
        /\ accepted' = [accepted EXCEPT ![n] = @ + 1]
        /\ UNCHANGED <<source, recovery, clock, memory, shown, replaced, recoveryBy>>
    BY <1>2 DEF DeleteCapability, GoTo, Exit
  <2>2. n \in Nonce /\ shown[n] # None /\ accepted[n] = 0 /\ replaced[n] = 0
    BY <1>2, <2>1 DEF MemoryInv, LedgerInv, Spending, TypeOK
  <2>3. /\ pc'[p] = "reload" /\ runtime'[n] = None /\ accepted'[n] = 1
        /\ \A q \in Proc \ {p} : pc'[q] = pc[q]
        /\ \A m \in Nonce \ {n} : runtime'[m] = runtime[m] /\ accepted'[m] = accepted[m]
    BY <2>1, <2>2 DEF TypeOK
  <2>4. TypeOK'
    BY <2>1, <2>2 DEF TypeOK, PC, memory
  <2>5. MemoryInv'
    BY <2>1, <2>3 DEF MemoryInv, Spending, memory
  <2>6. PendingPreviewInv'
    BY <2>1, <2>2, <2>3 DEF PendingPreviewInv, memory
  <2>7. LedgerInv'
    BY <2>1, <2>2, <2>3 DEF LedgerInv, TypeOK
  <2>8. ASSUME NEW q \in Proc, pc[q] \in Spent
        PROVE  request[q].nonce # n
    <3>1. accepted[request[q].nonce] = 1
      BY <2>8 DEF HolderInv
    <3>2. QED
      BY <2>2, <3>1
  <2>9. \A q \in Proc : pc[q] \in Spending => request[q].nonce \in Nonce
    BY DEF MemoryInv, Spending
  <2>10. HolderInv'
    BY <2>1, <2>2, <2>3, <2>8, <2>9 DEF HolderInv, Spending, Spent, memory
  <2>11. QED
    BY <2>4, <2>5, <2>6, <2>7, <2>10
<1>3. QED
  BY <1>1, <1>2

\* Moving on after a successful check of the source.
LEMMA CheckKeeps ==
  ASSUME IInv, NEW p \in Proc, ReloadSource(p) \/ RecheckSource(p)
  PROVE  IInv'
<1>1. CASE Digest(source) # request[p].payload.source_digest
  BY <1>1, ExitKeeps DEF ReloadSource, RecheckSource
<1>2. CASE Digest(source) = request[p].payload.source_digest
  <2> USE DEF IInv
  <2>1. PICK label \in {"recover", "rename"} :
          /\ pc' = [pc EXCEPT ![p] = label]
          /\ label = "recover" => pc[p] = "reload"
                                   /\ loaded' = [loaded EXCEPT ![p] = source]
          /\ label = "rename" => pc[p] = "fresh" /\ loaded' = loaded
          /\ UNCHANGED <<files, clock, history, request, candidate, now, raced>>
    BY <1>2 DEF ReloadSource, RecheckSource, GoTo, Exit, memory
  <2>2. /\ pc'[p] = label
        /\ label = "recover" => loaded'[p] = source
        /\ \A q \in Proc \ {p} : pc'[q] = pc[q] /\ loaded'[q] = loaded[q]
    BY <2>1 DEF TypeOK
  <2>3. TypeOK'
    BY <2>1 DEF TypeOK, PC, files, history
  <2>4. MemoryInv'
    BY <1>2, <2>1, <2>2 DEF MemoryInv, Spending, TypeOK, history
  <2>5. PendingPreviewInv' /\ LedgerInv'
    BY <2>1, <2>2 DEF PendingPreviewInv, LedgerInv, files, history
  <2>6. HolderInv'
    BY <2>1, <2>2 DEF HolderInv, Spending, Spent, history
  <2>7. QED
    BY <2>3, <2>4, <2>5, <2>6
<1>3. QED
  BY <1>1, <1>2

LEMMA RecoveryKeeps ==
  ASSUME IInv, NEW p \in Proc, WriteRecovery(p)
  PROVE  IInv'
<1> USE DEF IInv, WriteRecovery, GoTo, memory
<1>1. /\ pc'[p] = "fresh"
      /\ \A q \in Proc \ {p} : pc'[q] = pc[q]
  BY DEF TypeOK
<1>2. TypeOK'
  BY DEF TypeOK, PC, MemoryInv
<1>3. MemoryInv'
  BY <1>1 DEF MemoryInv, Spending
<1>4. PendingPreviewInv' /\ LedgerInv' /\ HolderInv'
  BY <1>1 DEF PendingPreviewInv, LedgerInv, HolderInv, Spending, Spent
<1>5. QED
  BY <1>2, <1>3, <1>4

LEMMA ReplaceKeeps ==
  ASSUME IInv, NEW p \in Proc, ReplaceSource(p)
  PROVE  IInv'
<1> DEFINE n == request[p].nonce
<1> USE DEF IInv, ReplaceSource, GoTo
<1>1. /\ n \in Nonce /\ accepted[n] = 1 /\ replaced[n] = 0
      /\ candidate[p] \in Document /\ request[p].op = "apply"
  BY DEF MemoryInv, HolderInv, Spending, Spent
<1>2. /\ pc'[p] = "reply" /\ replaced'[n] = 1
      /\ \A q \in Proc \ {p} : pc'[q] = pc[q]
      /\ \A m \in Nonce \ {n} : replaced'[m] = replaced[m]
  BY <1>1 DEF TypeOK
<1>3. TypeOK'
  BY <1>1, <1>2 DEF TypeOK, PC, Bytes, Overtake
<1>4. MemoryInv'
  BY <1>1, <1>2 DEF MemoryInv, Spending
<1>5. PendingPreviewInv'
  BY <1>1, <1>2 DEF PendingPreviewInv
<1>6. LedgerInv'
  BY <1>1, <1>2 DEF LedgerInv, TypeOK
<1>7. HolderInv'
  BY <1>1, <1>2 DEF HolderInv, Spending, Spent
<1>8. QED
  BY <1>3, <1>4, <1>5, <1>6, <1>7

LEMMA ReplyKeeps ==
  ASSUME IInv, NEW p \in Proc, Reply(p)
  PROVE  IInv'
<1> DEFINE n == request[p].nonce
<1>1. CASE request[p].op # "assemble"
  BY <1>1, ExitKeeps DEF Reply, files, history
<1>2. CASE request[p].op = "assemble"
  <2> USE DEF IInv
  <2>1. /\ pc[p] = "reply" /\ Exit(p)
        /\ shown' = [shown EXCEPT ![n] =
                       [payload |-> request[p].payload, final |-> candidate[p]]]
        /\ UNCHANGED <<files, clock, accepted, replaced, recoveryBy>>
    BY <1>2 DEF Reply
  <2>2. /\ n \in Nonce /\ shown[n] = None
        /\ runtime[n].context_digest = ContextDigest(request[p].payload, candidate[p])
    BY <1>2, <2>1 DEF PendingPreviewInv
  <2>3. request[p].payload \in Payload /\ candidate[p] \in Document
    BY <2>1 DEF MemoryInv, Request
  <2>4. /\ shown'[n] = [payload |-> request[p].payload, final |-> candidate[p]]
        /\ shown'[n] # None
        /\ \A m \in Nonce \ {n} : shown'[m] = shown[m]
    BY <2>1, <2>2, <2>3, CoreAssumption DEF TypeOK, ShownRecord
  <2>5. \A q \in Proc : pc'[q] # "exited" =>
          /\ q # p
          /\ pc'[q] = pc[q] /\ request'[q] = request[q]
          /\ candidate'[q] = candidate[q] /\ loaded'[q] = loaded[q] /\ now'[q] = now[q]
    BY <2>1 DEF TypeOK, Exit, GoTo
  <2>6. TypeOK'
    BY <2>1, <2>2, <2>3 DEF TypeOK, PC, Exit, GoTo, ShownRecord, files
  <2>7. MemoryInv'
    BY <2>2, <2>4, <2>5 DEF MemoryInv
  <2>8. PendingPreviewInv'
    <3> SUFFICES ASSUME NEW q \in Proc, pc'[q] = "reply", request'[q].op = "assemble"
                 PROVE  PendingPreviewInv!(q)'
      BY DEF PendingPreviewInv
    <3>1. q # p /\ pc[q] = "reply" /\ request[q].op = "assemble"
      BY <2>5
    <3>2. request[q].nonce # n
      BY <1>2, <2>1, <3>1 DEF PendingPreviewInv
    <3>3. QED
      BY <2>1, <2>4, <2>5, <3>1, <3>2 DEF PendingPreviewInv, files
  <2>9. LedgerInv'
    BY <2>1, <2>2, <2>4 DEF LedgerInv, files
  <2>10. \A q \in Proc : pc[q] \in Spending => request[q].nonce # n
    BY <2>2 DEF MemoryInv, Spending
  <2>11. HolderInv'
    BY <2>1, <2>4, <2>5, <2>10 DEF HolderInv, Spending, Spent, MemoryInv
  <2>12. QED
    BY <2>6, <2>7, <2>8, <2>9, <2>11
<1>3. QED
  BY <1>1, <1>2

LEMMA EnvironmentKeeps ==
  ASSUME IInv, EditSource \/ SetClock
  PROVE  IInv'
<1> USE DEF IInv
<1>1. /\ source' \in Bytes /\ clock' \in 0 .. MaxClock /\ raced' \in [Proc -> BOOLEAN]
      /\ UNCHANGED <<recovery, runtime, pc, request, candidate, loaded, now, history>>
  BY CoreAssumption DEF EditSource, SetClock, Overtake, TypeOK, files, memory
<1>2. TypeOK'
  BY <1>1 DEF TypeOK, history
<1>3. MemoryInv' /\ PendingPreviewInv' /\ LedgerInv' /\ HolderInv'
  BY <1>1 DEF MemoryInv, PendingPreviewInv, LedgerInv, HolderInv, history
<1>4. QED
  BY <1>2, <1>3

LEMMA IInvNext == IInv /\ [Next]_vars => IInv'
<1> SUFFICES ASSUME IInv, [Next]_vars PROVE IInv'
  OBVIOUS
<1>1. ASSUME NEW p \in Proc, StartAssemble(p)
      PROVE  IInv'
  BY <1>1, BeginKeeps DEF StartAssemble
<1>2. ASSUME NEW p \in Proc, StartApply(p)
      PROVE  IInv'
  BY <1>2, BeginKeeps DEF StartApply
<1>3. ASSUME NEW p \in Proc, FailOrDie(p)
      PROVE  IInv'
  BY <1>3, ExitKeeps DEF FailOrDie
<1>4. ASSUME NEW p \in Proc, Step(p)
      PROVE  IInv'
  BY <1>1, <1>2, <1>3, <1>4, IssueKeeps, ReadClockKeeps, OpenKeeps, DeleteKeeps,
     CheckKeeps, RecoveryKeeps, ReplaceKeeps, ReplyKeeps DEF Step
<1>5. CASE UNCHANGED vars
  BY <1>5 DEF vars, files, memory, history, IInv, TypeOK, MemoryInv,
     PendingPreviewInv, LedgerInv, HolderInv
<1>6. QED
  BY <1>4, <1>5, EnvironmentKeeps DEF Next

-------------------------------------------------------------------------------
\* The inductive invariant holds in every reachable state.
THEOREM InductiveInvariant == Spec => []IInv
  BY IInvInit, IInvNext, PTL DEF Spec

\* Every variable of the core protocol keeps its type: a process that gets to the
\* rename of apply.zig has a complete document to write, never an error value.
THEOREM TypeCorrect == Spec => []TypeOK
<1>1. IInv => TypeOK
  BY DEF IInv
<1>2. QED
  BY <1>1, InductiveInvariant, PTL

\* A nonce is accepted once and replaces the source at most once, for any number
\* of processes presenting it (final_set.zig consumeCapability).
THEOREM OneUseHolds == Spec => []OneUse
<1>1. IInv => OneUse
  BY DEF IInv, LedgerInv, OneUse
<1>2. QED
  BY <1>1, InductiveInvariant, PTL

\* What a spent nonce writes is what its preview showed (confirmationContextDigest).
THEOREM SpentForWhatWasShownHolds == Spec => []SpentForWhatWasShown
<1>1. IInv => SpentForWhatWasShown
  BY DEF IInv, HolderInv, SpentForWhatWasShown, Spending
<1>2. QED
  BY <1>1, InductiveInvariant, PTL

-------------------------------------------------------------------------------
\* What a process knows of the bytes behind the digest its request names.
ExactInv ==
  \A p \in Proc : pc[p] # "exited" =>
    /\ \A bytes \in Bytes :
         Digest(bytes) = request[p].payload.source_digest =>
           /\ bytes \in Document
           /\ candidate[p] = Compose(bytes, request[p].payload)
    /\ pc[p] = "rename" /\ ~raced[p] =>
         Digest(source) = request[p].payload.source_digest
    /\ pc[p] \in {"fresh", "rename"} /\ recoveryBy = p =>
         /\ recovery \in Bytes
         /\ Digest(recovery) = request[p].payload.source_digest

LEMMA DigestInjective ==
  ASSUME NEW a, NEW b, Digest(a) = Digest(b)
  PROVE  a = b
  BY DEF Digest

LEMMA BeginExact ==
  ASSUME IInv, ExactInv, NEW p \in Proc, NEW op \in {"assemble", "apply"},
         NEW payload \in Payload, NEW n, NEW final, Begin(p, op, payload, n, final)
  PROVE  ExactInv'
<1> USE DEF IInv, TypeOK, Begin, GoTo, files, history
<1>1. /\ Digest(source) = payload.source_digest
      /\ source \in Document
      /\ Assemble(source, payload) = Compose(source, payload)
  BY AssembleExact, CoreAssumption
<1>2. \A bytes \in Bytes : Digest(bytes) = payload.source_digest => bytes = source
  BY <1>1, DigestInjective
<1>3. /\ pc'[p] \in {"issue", "clock"}
      /\ request'[p].payload = payload
      /\ candidate'[p] = Assemble(source, payload)
      /\ \A q \in Proc \ {p} :
           pc'[q] = pc[q] /\ request'[q] = request[q] /\ candidate'[q] = candidate[q]
  OBVIOUS
<1>4. QED
  BY <1>1, <1>2, <1>3 DEF ExactInv

\* The source changes under a process about to rename only with raced set.
LEMMA SourceWriteExact ==
  ASSUME IInv, ExactInv,
         EditSource \/ \E p \in Proc : ReplaceSource(p)
  PROVE  ExactInv'
<1> DEFINE Overtaken ==
      /\ \A q \in Proc : pc'[q] # "exited" => pc[q] # "exited"
      /\ \A q \in Proc : pc'[q] \in {"fresh", "rename"} => pc[q] = pc'[q]
      /\ \A q \in Proc : pc'[q] = "rename" => raced'[q]
      /\ UNCHANGED <<request, candidate, recovery, recoveryBy>>
<1>1. Overtaken
  <2>1. CASE EditSource
    BY <2>1 DEF EditSource, Overtake, IInv, TypeOK, history
  <2>2. ASSUME NEW p \in Proc, ReplaceSource(p)
        PROVE  Overtaken
    <3>1. /\ pc[p] = "rename" /\ pc'[p] = "reply"
          /\ \A q \in Proc \ {p} : pc'[q] = pc[q] /\ (pc[q] = "rename" => raced'[q])
      BY <2>2 DEF ReplaceSource, Overtake, GoTo, IInv, TypeOK
    <3>2. QED
      BY <2>2, <3>1 DEF ReplaceSource
  <2>3. QED
    BY <2>1, <2>2
<1>2. QED
  BY <1>1 DEF ExactInv

LEMMA StepExact ==
  ASSUME IInv, ExactInv, NEW p \in Proc, Step(p), ~ReplaceSource(p)
  PROVE  ExactInv'
<1> USE DEF IInv, TypeOK, GoTo, files, history, memory
<1>1. CASE StartAssemble(p) \/ StartApply(p)
  BY <1>1, BeginExact DEF StartAssemble, StartApply
<1>2. CASE Exit(p) /\ UNCHANGED <<source, recovery, recoveryBy>>
  BY <1>2 DEF Exit, ExactInv
<1>3. CASE IssueCapability(p)
  <2>1. /\ pc'[p] = "reply" /\ pc[p] = "issue"
        /\ \A q \in Proc \ {p} : pc'[q] = pc[q]
        /\ \A q \in Proc : pc'[q] # "exited" =>
             request'[q].payload = request[q].payload
        /\ UNCHANGED <<source, recovery, candidate, raced, recoveryBy>>
    BY <1>3 DEF IssueCapability, MemoryInv, Request
  <2>2. QED
    BY <2>1 DEF ExactInv
<1>4. CASE \/ ReadClock(p)
           \/ OpenCapability(p) /\ pc'[p] = "delete" /\ request' = request
           \/ DeleteCapability(p) /\ pc'[p] = "reload" /\ request' = request
           \/ ReloadSource(p) /\ pc'[p] = "recover" /\ request' = request
  <2>1. /\ pc[p] # "exited" /\ pc'[p] \notin {"fresh", "rename"}
        /\ \A q \in Proc \ {p} : pc'[q] = pc[q] /\ raced'[q] = raced[q]
                                  /\ candidate'[q] = candidate[q]
        /\ UNCHANGED <<source, recovery, request, recoveryBy>>
        /\ candidate'[p] = candidate[p]
    BY <1>4 DEF ReadClock, OpenCapability, DeleteCapability, ReloadSource, Exit
  <2>2. QED
    BY <2>1 DEF ExactInv
<1>5. CASE WriteRecovery(p)
  BY <1>5 DEF WriteRecovery, ExactInv, MemoryInv
<1>6. CASE RecheckSource(p) /\ pc'[p] = "rename" /\ request' = request
  <2>1. /\ pc[p] = "fresh"
        /\ Digest(source) = request[p].payload.source_digest
        /\ \A q \in Proc \ {p} : pc'[q] = pc[q] /\ raced'[q] = raced[q]
                                  /\ candidate'[q] = candidate[q]
        /\ UNCHANGED <<source, recovery, request, recoveryBy>>
        /\ candidate'[p] = candidate[p]
    BY <1>6 DEF RecheckSource, Exit
  <2>2. QED
    BY <2>1, <1>6 DEF ExactInv
<1>7. QED
  BY <1>1, <1>2, <1>3, <1>4, <1>5, <1>6
     DEF Step, OpenCapability, DeleteCapability, ReloadSource, RecheckSource,
         Reply, FailOrDie

LEMMA ExactInvNext == IInv /\ ExactInv /\ [Next]_vars => ExactInv'
<1> SUFFICES ASSUME IInv, ExactInv, [Next]_vars PROVE ExactInv'
  OBVIOUS
<1>1. CASE SetClock \/ UNCHANGED vars
  BY <1>1 DEF SetClock, vars, files, memory, history, ExactInv
<1>2. QED
  BY <1>1, SourceWriteExact, StepExact DEF Next

LEMMA ExactInvariant == Spec => []ExactInv
<1>1. Init => ExactInv
  BY DEF Init, ExactInv
<1>2. QED
  BY <1>1, ExactInvNext, InductiveInvariant, PTL DEF Spec

\* Only the rename itself takes a process from "rename" to "reply".
LEMMA OnlyRenameReplaces ==
  ASSUME IInv, [Next]_vars, NEW p \in Proc, pc[p] = "rename", pc'[p] = "reply"
  PROVE  ReplaceSource(p)
<1> USE DEF IInv, TypeOK
<1>1. PICK q \in Proc : Step(q)
  BY DEF Next, EditSource, SetClock, vars
<1>2. q = p
  <2> SUFFICES ASSUME q # p PROVE FALSE
    OBVIOUS
  <2>1. \/ \E label : pc' = [pc EXCEPT ![q] = label]
        \/ pc' = pc
    BY <1>1 DEF Step, StartAssemble, StartApply, Begin, IssueCapability, ReadClock,
       OpenCapability, DeleteCapability, ReloadSource, WriteRecovery, RecheckSource,
       ReplaceSource, Reply, FailOrDie, Exit, GoTo
  <2>2. QED
    BY <2>1
<1>3. QED
  BY <1>1, <1>2 DEF Step, StartAssemble, StartApply, Begin, IssueCapability, ReadClock,
     OpenCapability, DeleteCapability, ReloadSource, WriteRecovery, RecheckSource,
     Reply, FailOrDie, Exit, GoTo

\* With nobody writing between the last read and the rename, a replacement changes
\* the approved targets only and the recovery copy holds what it overwrote
\* (apply.zig replaceCandidateInDirWithFault).
THEOREM ReplacementIsExactHolds == Spec => ReplacementIsExact
<1> DEFINE Exact(p) ==
      pc[p] = "rename" /\ pc'[p] = "reply" /\ ~raced[p] =>
        /\ source \in Document
        /\ \A path \in Path :
             (\A item \in Approved(request[p].payload) : item.path # path)
               => source'[path] = source[path]
        /\ recoveryBy = p => recovery = source
<1>1. IInv /\ ExactInv /\ [Next]_vars => [\A p \in Proc : Exact(p)]_vars
  <2> SUFFICES ASSUME IInv, ExactInv, [Next]_vars, NEW p \in Proc,
                      pc[p] = "rename", pc'[p] = "reply", ~raced[p]
               PROVE  Exact(p)
    OBVIOUS
  <2>1. /\ source \in Bytes /\ Digest(source) = request[p].payload.source_digest
        /\ source \in Document
        /\ candidate[p] = Compose(source, request[p].payload)
    BY DEF ExactInv, IInv, TypeOK
  <2>2. source' = candidate[p]
    BY OnlyRenameReplaces DEF ReplaceSource
  <2>3. request[p].payload.proposal.items \subseteq Item
    BY CoreAssumption DEF IInv, MemoryInv, Request
  <2>4. recoveryBy = p => recovery = source
    BY <2>1, DigestInjective DEF ExactInv
  <2>5. QED
    BY <2>1, <2>2, <2>3, <2>4, ComposeExact
<1>2. QED
  BY <1>1, InductiveInvariant, ExactInvariant, PTL DEF Spec, ReplacementIsExact

-------------------------------------------------------------------------------
\* Every step of the core is one step of the promise, or none.
LEMMA StepImplements ==
  ASSUME IInv, [Next]_vars
  PROVE  [Promise!Next]_(Promise!vars)
<1> DEFINE status == [n \in Nonce |-> GrantStatus(n)]
           offer == [n \in Nonce |-> IF shown[n] = None THEN None ELSE shown[n].final]
<1> USE DEF IInv
<1>1. CASE UNCHANGED <<shown, accepted, replaced, source>>
  BY <1>1 DEF Promise!vars, GrantStatus
<1>2. CASE EditSource
  <2>1. source' \in EditorBytes /\ UNCHANGED <<shown, accepted, replaced>>
    BY <1>2 DEF EditSource, history
  <2>2. Promise!ForeignWrite(source')
    BY <2>1 DEF Promise!ForeignWrite, GrantStatus
  <2>3. QED
    BY <2>1, <2>2 DEF Promise!Next
<1>3. ASSUME NEW p \in Proc, Reply(p), request[p].op = "assemble"
      PROVE  Promise!Next
  <2> DEFINE n == request[p].nonce
  <2>1. /\ n \in Nonce /\ shown[n] = None /\ accepted[n] = 0 /\ replaced[n] = 0
        /\ candidate[p] \in Document /\ request[p].payload \in Payload
    BY <1>3 DEF Reply, PendingPreviewInv, LedgerInv, MemoryInv, Request
  <2>2. /\ shown'[n] = [payload |-> request[p].payload, final |-> candidate[p]]
        /\ shown'[n] # None /\ shown'[n].final = candidate[p]
        /\ \A m \in Nonce \ {n} : shown'[m] = shown[m]
        /\ UNCHANGED <<accepted, replaced, source>>
    BY <1>3, <2>1, CoreAssumption DEF Reply, TypeOK, ShownRecord, files
  <2>3. status' = [status EXCEPT ![n] = "shown"] /\ status[n] = "none"
    BY <2>1, <2>2 DEF GrantStatus
  <2>4. offer' = [offer EXCEPT ![n] = candidate[p]]
    BY <2>1, <2>2
  <2>5. candidate[p] \in Bytes
    BY <2>1 DEF Bytes
  <2>6. QED
    BY <2>1, <2>2, <2>3, <2>4, <2>5 DEF Promise!Next, Promise!Show
<1>4. ASSUME NEW p \in Proc, DeleteCapability(p), pc'[p] = "reload"
      PROVE  Promise!Next
  <2> DEFINE n == request[p].nonce
  <2>1. /\ n \in Nonce /\ shown[n] # None /\ accepted[n] = 0 /\ replaced[n] = 0
        /\ accepted' = [accepted EXCEPT ![n] = @ + 1]
        /\ UNCHANGED <<shown, replaced, source>>
    BY <1>4 DEF DeleteCapability, MemoryInv, LedgerInv, Spending, Exit, GoTo, TypeOK
  <2>2. accepted'[n] = 1 /\ \A m \in Nonce \ {n} : accepted'[m] = accepted[m]
    BY <2>1 DEF TypeOK
  <2>3. status' = [status EXCEPT ![n] = "redeemed"] /\ status[n] = "shown"
    BY <2>1, <2>2 DEF GrantStatus
  <2>4. Promise!Redeem(n)
    BY <2>1, <2>3 DEF Promise!Redeem
  <2>5. QED
    BY <2>1, <2>4 DEF Promise!Next
<1>5. ASSUME NEW p \in Proc, ReplaceSource(p)
      PROVE  Promise!Next
  <2> DEFINE n == request[p].nonce
  <2>1. /\ n \in Nonce /\ accepted[n] = 1 /\ replaced[n] = 0
        /\ shown[n] # None /\ shown[n].final = candidate[p]
    <3>1. pc[p] = "rename"
      BY <1>5 DEF ReplaceSource
    <3>2. n \in Nonce /\ shown[n] # None
      BY <3>1 DEF MemoryInv, Spending
    <3>3. accepted[n] = 1 /\ replaced[n] = 0
      BY <3>1 DEF HolderInv, Spent, Spending
    <3>4. shown[n] = [payload |-> request[p].payload, final |-> candidate[p]]
      BY <3>1 DEF HolderInv, Spending
    <3>5. QED
      BY <3>2, <3>3, <3>4
  <2>2. /\ replaced'[n] = 1 /\ \A m \in Nonce \ {n} : replaced'[m] = replaced[m]
        /\ source' = candidate[p] /\ UNCHANGED <<shown, accepted>>
    BY <1>5, <2>1 DEF ReplaceSource, TypeOK
  <2>3. status' = [status EXCEPT ![n] = "written"] /\ status[n] = "redeemed"
    BY <2>1, <2>2 DEF GrantStatus
  <2>4. source' = offer[n] /\ offer' = offer
    BY <2>1, <2>2
  <2>5. Promise!Write(n)
    BY <2>3, <2>4 DEF Promise!Write
  <2>6. QED
    BY <2>1, <2>5 DEF Promise!Next
<1>6. ASSUME NEW p \in Proc, Step(p)
      PROVE  \/ UNCHANGED <<shown, accepted, replaced, source>>
             \/ Reply(p) /\ request[p].op = "assemble"
             \/ DeleteCapability(p) /\ pc'[p] = "reload"
             \/ ReplaceSource(p)
  BY <1>6 DEF Step, StartAssemble, StartApply, Begin, IssueCapability, ReadClock,
     OpenCapability, DeleteCapability, ReloadSource, WriteRecovery, RecheckSource,
     Reply, FailOrDie, GoTo, files, memory, history, TypeOK
<1>7. SetClock \/ UNCHANGED vars => UNCHANGED <<shown, accepted, replaced, source>>
  BY DEF SetClock, vars, files, history
<1>8. QED
  BY <1>1, <1>2, <1>3, <1>4, <1>5, <1>6, <1>7 DEF Next

\* The processes, files and clock of the core implement the one-use grant of
\* ConfirmedReplace: whatever is written was shown under a nonce, once.
THEOREM CoreKeepsPromise == Spec => PromiseKept
<1>1. Init => Promise!Init
  BY CoreAssumption DEF Init, Promise!Init, GrantStatus
<1>2. QED
  BY <1>1, StepImplements, InductiveInvariant, PTL DEF Spec, PromiseKept, Promise!Spec
===============================================================================
