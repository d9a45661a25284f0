------------------------------ MODULE CoreApply ------------------------------
(***************************************************************************)
(* The Zig core between a final preview and the write it confirms.  Every  *)
(* request is served by a process of its own that exits after one reply    *)
(* (core/src/main.zig), so everything the processes share is on disk: the  *)
(* source, its recovery copy, and one capability file per confirmation     *)
(* nonce under .zconfig/runtime.  Up to Cardinality(Proc) core processes   *)
(* run at a time, interleaved at each file operation; any of them may be   *)
(* killed (the CLI's timeout, a crash) or hit an I/O error at any point,   *)
(* an editor may rewrite the source, and the wall clock may be adjusted.   *)
(***************************************************************************)
EXTENDS FinalSet, Integers

CONSTANTS
  Proc,           \* core processes that may run at the same time
  Nonce,          \* confirmation nonces the core may draw
  Payload,        \* assemble_final payloads the CLI sends
  FinalDigest,    \* final_change_digest values the CLI sends
  EditorBytes,    \* what another program may write to the source
  InitialBytes,   \* what the source holds at the start
  Lifetime,       \* validity of a capability, in ticks (5 minutes)
  MaxClock,       \* bound: the wall clock stays in 0 .. MaxClock
  None            \* no file, no value

Request == [op : {"assemble", "apply"}, payload : Payload,
            nonce : Nonce \cup {None}, final : FinalDigest \cup {None}]

CapabilityRecord ==
  [source_digest : Digests, final_digest : Digests,
   context_digest : {ContextDigest(payload, final) :
                       payload \in Payload, final \in Document},
   issued_at : Nat, expires_at : Nat]

\* What a preview displayed.
ShownRecord == [payload : Payload, final : Document]

ASSUME CoreAssumption ==
  /\ EditorBytes \subseteq Bytes
  /\ InitialBytes \subseteq Bytes
  /\ FinalDigest \subseteq Digests
  /\ \A payload \in Payload :
       payload.source_digest \in Digests /\ payload.proposal.items \subseteq Item
  /\ Lifetime \in Nat
  /\ MaxClock \in Nat
  /\ None \notin Bytes /\ None \notin Proc /\ None \notin Nonce
  /\ None \notin CapabilityRecord /\ None \notin ShownRecord

VARIABLES
  source,     \* bytes of the source file
  recovery,   \* bytes of <source>.zconfig-recovery
  runtime,    \* .zconfig/runtime: nonce -> capability record
  clock,      \* wall clock
  pc,         \* next file operation of each process
  request,    \* request each process is serving
  candidate,  \* bytes it composed
  loaded,     \* bytes replaceCandidate read first
  now,        \* wall clock it read before consuming
  \* History variables: no action of the code reads them.
  raced,      \* somebody wrote the source since the process last rechecked it
  shown,      \* nonce -> what its preview showed the user
  accepted,   \* how often each nonce was accepted
  replaced,   \* how often each nonce had the source replaced
  recoveryBy  \* the process that wrote the recovery copy last

files == <<source, recovery, runtime>>
memory == <<request, candidate, loaded, now, raced>>
history == <<shown, accepted, replaced, recoveryBy>>
vars == <<files, clock, pc, memory, history>>

PC == {"exited", "issue", "clock", "open", "delete",
       "reload", "recover", "fresh", "rename", "reply"}

\* The capability record of a confirmation (StoredCapability).
Capability(payload, final, time) ==
  [source_digest |-> payload.source_digest,
   final_digest |-> Digest(final),
   context_digest |-> ContextDigest(payload, final),
   issued_at |-> time,
   expires_at |-> time + Lifetime]

Init ==
  /\ source \in InitialBytes
  /\ recovery = None
  /\ runtime = [n \in Nonce |-> None]
  /\ clock = 0
  /\ pc = [p \in Proc |-> "exited"]
  /\ request = [p \in Proc |-> None]
  /\ candidate = [p \in Proc |-> None]
  /\ loaded = [p \in Proc |-> None]
  /\ now = [p \in Proc |-> None]
  /\ shown = [n \in Nonce |-> None]
  /\ accepted = [n \in Nonce |-> 0]
  /\ replaced = [n \in Nonce |-> 0]
  /\ raced = [p \in Proc |-> FALSE]
  /\ recoveryBy = None

-------------------------------------------------------------------------------
GoTo(p, label) == pc' = [pc EXCEPT ![p] = label]

\* The process is gone, with everything it held in memory.
Exit(p) ==
  /\ GoTo(p, "exited")
  /\ request' = [request EXCEPT ![p] = None]
  /\ candidate' = [candidate EXCEPT ![p] = None]
  /\ loaded' = [loaded EXCEPT ![p] = None]
  /\ now' = [now EXCEPT ![p] = None]
  /\ raced' = [raced EXCEPT ![p] = FALSE]

\* The source is being written by someone else than a process about to rename.
Overtake(writers) ==
  raced' = [q \in Proc |-> pc[q] = "rename" /\ q \notin writers]

\* A new process takes a request, loads the source and assembles the final set:
\* document.load and final_set.assemble.  Nothing is shared before the source is
\* read, so this is one step.  A request that is refused here changes nothing:
\* that is a stuttering step, and so is a schema file, read anew by each request,
\* that does not accept the candidate.
BeginUnchecked(p, op, payload, n, final) ==
  /\ pc[p] = "exited"
  /\ request' = [request EXCEPT ![p] =
       [op |-> op, payload |-> payload, nonce |-> n, final |-> final]]
  /\ candidate' = [candidate EXCEPT ![p] = Assemble(source, payload)]
  /\ GoTo(p, IF op = "assemble" THEN "issue" ELSE "clock")
  /\ UNCHANGED <<files, clock, loaded, now, raced, history>>

Begin(p, op, payload, n, final) ==
  /\ pc[p] = "exited"
  /\ Assemble(source, payload) # Rejected
  /\ request' = [request EXCEPT ![p] =
       [op |-> op, payload |-> payload, nonce |-> n, final |-> final]]
  /\ candidate' = [candidate EXCEPT ![p] = Assemble(source, payload)]
  /\ GoTo(p, IF op = "assemble" THEN "issue" ELSE "clock")
  /\ UNCHANGED <<files, clock, loaded, now, raced, history>>

StartAssemble(p) ==
  \E payload \in Payload : Begin(p, "assemble", payload, None, None)

\* An apply request carries a nonce some preview displayed, whatever payload the
\* caller has now, and the final digest it expects: the core's own must match.
StartApply(p) ==
  \E payload \in Payload, n \in Nonce, final \in FinalDigest :
    /\ shown[n] # None
    /\ final = Digest(Assemble(source, payload))
    /\ Begin(p, "apply", payload, n, final)

\* issueCapability: a random nonce never drawn before names a file created
\* exclusively (only a displayed nonce can lose its file again).
IssueCapability(p) ==
  /\ pc[p] = "issue"
  /\ \E n \in Nonce :
       /\ runtime[n] = None
       /\ shown[n] = None
       /\ runtime' = [runtime EXCEPT ![n] =
            Capability(request[p].payload, candidate[p], clock)]
       /\ request' = [request EXCEPT ![p].nonce = n]
  /\ GoTo(p, "reply")
  /\ UNCHANGED <<source, recovery, clock, candidate, loaded, now, raced, history>>

-------------------------------------------------------------------------------
\* The argument nowMs(io) of consumeCapability is evaluated before the file opens.
ReadClock(p) ==
  /\ pc[p] = "clock"
  /\ now' = [now EXCEPT ![p] = clock]
  /\ GoTo(p, "open")
  /\ UNCHANGED <<files, clock, request, candidate, loaded, raced, history>>

AuthorizeWithoutContext(capability, time, payload, final) ==
  /\ capability.issued_at <= time
  /\ time <= capability.expires_at
  /\ capability.source_digest = payload.source_digest
  /\ capability.final_digest = Digest(final)

\* Capability.authorize; both ends of the validity interval are inclusive.
Authorize(capability, time, payload, final) ==
  /\ capability.issued_at <= time
  /\ time <= capability.expires_at
  /\ capability.source_digest = payload.source_digest
  /\ capability.final_digest = Digest(final)
  /\ capability.context_digest = ContextDigest(payload, final)

OpenWithoutConsuming(p) ==
  /\ pc[p] = "open"
  /\ LET capability == runtime[request[p].nonce] IN
       /\ capability # None
       /\ Authorize(capability, now[p], request[p].payload, candidate[p])
  /\ GoTo(p, "reload")
  /\ UNCHANGED <<files, clock, memory, history>>

\* consumeCapability up to authorize: a copy of the file is checked.
OpenCapability(p) ==
  /\ pc[p] = "open"
  /\ LET capability == runtime[request[p].nonce]
         valid == capability # None
                  /\ Authorize(capability, now[p], request[p].payload, candidate[p])
     IN \/ /\ valid
           /\ GoTo(p, "delete")
           /\ now' = [now EXCEPT ![p] = None]
           /\ UNCHANGED <<request, candidate, loaded, raced>>
        \/ /\ ~valid
           /\ Exit(p)
  /\ UNCHANGED <<files, clock, history>>

DeleteIgnoringMissing(p) ==
  /\ pc[p] = "delete"
  /\ runtime' = [runtime EXCEPT ![request[p].nonce] = None]
  /\ accepted' = [accepted EXCEPT ![request[p].nonce] = @ + 1]
  /\ GoTo(p, "reload")
  /\ UNCHANGED <<source, recovery, clock, memory, shown, replaced, recoveryBy>>

\* Deleting the file is what spends the nonce: of two processes that read the
\* same capability, the second one fails here.
DeleteCapability(p) ==
  /\ pc[p] = "delete"
  /\ \/ /\ runtime[request[p].nonce] # None
        /\ runtime' = [runtime EXCEPT ![request[p].nonce] = None]
        /\ accepted' = [accepted EXCEPT ![request[p].nonce] = @ + 1]
        /\ GoTo(p, "reload")
        /\ UNCHANGED <<source, recovery, memory, shown, replaced, recoveryBy>>
     \/ /\ runtime[request[p].nonce] = None
        /\ Exit(p)
        /\ UNCHANGED <<files, history>>
  /\ UNCHANGED clock

-------------------------------------------------------------------------------
\* replaceCandidateInDir reads the source again and insists on its digest.
ReloadSource(p) ==
  /\ pc[p] = "reload"
  /\ \/ /\ Digest(source) = request[p].payload.source_digest
        /\ loaded' = [loaded EXCEPT ![p] = source]
        /\ GoTo(p, "recover")
        /\ UNCHANGED <<request, candidate, now, raced>>
     \/ /\ Digest(source) # request[p].payload.source_digest
        /\ Exit(p)
  /\ UNCHANGED <<files, clock, history>>

\* writeAtomic renames the complete recovery copy into place.
WriteRecovery(p) ==
  /\ pc[p] = "recover"
  /\ recovery' = loaded[p]
  /\ recoveryBy' = p
  /\ GoTo(p, "fresh")
  /\ UNCHANGED <<source, runtime, clock, memory, shown, accepted, replaced>>

RecheckFirstRead(p) ==
  /\ pc[p] = "fresh"
  /\ Digest(loaded[p]) = request[p].payload.source_digest
  /\ GoTo(p, "rename")
  /\ UNCHANGED <<files, clock, memory, history>>

\* The last look at the source before it is replaced.
RecheckSource(p) ==
  /\ pc[p] = "fresh"
  /\ \/ /\ Digest(source) = request[p].payload.source_digest
        /\ GoTo(p, "rename")
        /\ UNCHANGED memory
     \/ /\ Digest(source) # request[p].payload.source_digest
        /\ Exit(p)
  /\ UNCHANGED <<files, clock, history>>

\* writeAtomic: temporary file, sync, rename over the source.
ReplaceSource(p) ==
  /\ pc[p] = "rename"
  /\ source' = candidate[p]
  /\ replaced' = [replaced EXCEPT ![request[p].nonce] = @ + 1]
  /\ Overtake({p})
  /\ GoTo(p, "reply")
  /\ UNCHANGED <<recovery, runtime, clock, request, candidate, loaded, now, shown,
                 accepted, recoveryBy>>

-------------------------------------------------------------------------------
\* The reply to a preview is what makes its nonce known to the user.
Reply(p) ==
  /\ pc[p] = "reply"
  /\ shown' =
       IF request[p].op = "assemble"
         THEN [shown EXCEPT ![request[p].nonce] =
                 [payload |-> request[p].payload, final |-> candidate[p]]]
         ELSE shown
  /\ Exit(p)
  /\ UNCHANGED <<files, clock, accepted, replaced, recoveryBy>>

\* An I/O error is answered with a failure; a killed process answers nothing.
\* Either way only files already renamed, created or deleted remain: temporary
\* files are never read by name.
FailOrDie(p) ==
  /\ pc[p] # "exited"
  /\ Exit(p)
  /\ UNCHANGED <<files, clock, history>>

EditSource ==
  /\ source' \in EditorBytes \ {source}
  /\ Overtake({})
  /\ UNCHANGED <<recovery, runtime, clock, pc, request, candidate, loaded, now,
                 history>>

\* Time passes, or the wall clock is set, forwards or backwards.
SetClock ==
  /\ clock' \in (0 .. MaxClock) \ {clock}
  /\ UNCHANGED <<files, pc, memory, history>>

Step(p) ==
  \/ StartAssemble(p) \/ StartApply(p) \/ IssueCapability(p)
  \/ ReadClock(p) \/ OpenCapability(p) \/ DeleteCapability(p)
  \/ ReloadSource(p) \/ WriteRecovery(p) \/ RecheckSource(p) \/ ReplaceSource(p)
  \/ Reply(p) \/ FailOrDie(p)

Next == (\E p \in Proc : Step(p)) \/ EditSource \/ SetClock

Spec == Init /\ [][Next]_vars

-------------------------------------------------------------------------------
\* Every variable holds what the code may put there (the only type invariant).
TypeOK ==
  /\ source \in Bytes
  /\ recovery \in Bytes \cup {None}
  /\ runtime \in [Nonce -> CapabilityRecord \cup {None}]
  /\ clock \in 0 .. MaxClock
  /\ pc \in [Proc -> PC]
  /\ request \in [Proc -> Request \cup {None}]
  /\ candidate \in [Proc -> Document \cup {None}]
  /\ loaded \in [Proc -> Bytes \cup {None}]
  /\ now \in [Proc -> Nat \cup {None}]
  /\ shown \in [Nonce -> ShownRecord \cup {None}]
  /\ accepted \in [Nonce -> Nat]
  /\ replaced \in [Nonce -> Nat]
  /\ raced \in [Proc -> BOOLEAN]
  /\ recoveryBy \in Proc \cup {None}

\* A confirmation nonce is accepted at most once and leads to at most one
\* replacement, however many processes present it at the same time and
\* wherever they are interrupted (protocol.md:118, "accepted once only").
OneUse ==
  \A n \in Nonce : replaced[n] <= accepted[n] /\ accepted[n] <= 1

\* A process that has spent a nonce works on exactly the payload and the final
\* bytes that nonce's preview showed, although it composed them itself from a
\* source and a payload read later (final_set.zig: confirmationContextDigest).
SpentForWhatWasShown ==
  \A p \in Proc :
    pc[p] \in {"reload", "recover", "fresh", "rename"} =>
      shown[request[p].nonce] =
        [payload |-> request[p].payload, final |-> candidate[p]]

\* Unless somebody wrote the source between the process's last look at it and
\* its rename, replacing the source changes the approved targets and nothing
\* else (spec.md FR-022), and the recovery copy, unless another process wrote
\* it since, holds the very bytes being replaced (FR-023).
ReplacementIsExact ==
  [][\A p \in Proc :
       pc[p] = "rename" /\ pc'[p] = "reply" /\ ~raced[p] =>
         /\ source \in Document
         /\ \A path \in Path :
              (\A item \in Approved(request[p].payload) : item.path # path)
                => source'[path] = source[path]
         /\ recoveryBy = p => recovery = source]_vars

\* The core implements the promise of ConfirmedReplace: a nonce that was shown
\* is redeemed by deleting its capability and written by the rename.
GrantStatus(n) ==
  CASE replaced[n] > 0 -> "written"
    [] replaced[n] = 0 /\ accepted[n] > 0 -> "redeemed"
    [] accepted[n] = 0 /\ shown[n] # None -> "shown"
    [] OTHER -> "none"

Promise == INSTANCE ConfirmedReplace WITH
  status <- [n \in Nonce |-> GrantStatus(n)],
  offer <- [n \in Nonce |-> IF shown[n] = None THEN None ELSE shown[n].final],
  NoBytes <- None,
  ForeignBytes <- EditorBytes

PromiseKept == Promise!Spec
===============================================================================
