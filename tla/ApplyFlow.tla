------------------------------- MODULE ApplyFlow -------------------------------
(***************************************************************************)
(* `zconfig apply` (executeApply in tui/cmd/zconfig/main.go): a run loads  *)
(* the proposal and the review session, or creates the session from its    *)
(* flags, has the registered validators look at a candidate, has the core  *)
(* assemble the final set, and either shows a preview with a confirmation  *)
(* token or, given a token, has the core apply it.                         *)
(* Every authoritative step is recorded in the audit log first.  Runs on   *)
(* one session interleave; the audit log, the core, its timeout and the    *)
(* run itself may fail at any point, and people edit the source and the    *)
(* proposal in the meantime.                                               *)
(*                                                                         *)
(* A proposal of one item replaces Base by its own value; only the value   *)
(* of a proposal file can change, not its identity.  The core is taken at  *)
(* the granularity CoreApply justifies: it redeems, copies, looks at the   *)
(* source a last time and renames.                                         *)
(***************************************************************************)
EXTENDS Naturals, FiniteSets

CONSTANTS
  Run,       \* runs of the command
  Nonce,     \* confirmation tokens
  Base,      \* the bytes the proposal was made for
  Proposed,  \* what successive versions of the proposal file turn Base into
  Foreign,   \* bytes an editor writes
  None

Bytes == {Base, Foreign} \cup Proposed
Decision == {"approved", "rejected"}
Checks == {"none", "passed"}  \* without a validator, or accepted by one
Ending == {"applied", "restored", "no_answer", "stopped"}

ASSUME FlowAssumption ==
  /\ Base # Foreign /\ {Base, Foreign} \cap Proposed = {}
  /\ None \notin Nonce /\ None \notin Bytes /\ None \notin Decision /\ None \notin Ending

Context == [proposal : Proposed, decision : Decision, checks : Checks]
ASSUME NoneIsNoContext == None \notin Context

\* candidate: what the validators get; vetted is a history field.
Job == [token : Nonce \cup {None}, flag : Decision \cup {None},
        proposal : Proposed, decision : Decision \cup {None}, checks : Checks,
        candidate : Bytes \cup {None}, vetted : BOOLEAN]
Action == {"item.approved", "item.rejected", "final.previewed", "final.confirmed",
           "apply.started", "apply.succeeded", "apply.failed"}

VARIABLES
  source, recovery,
  proposalFile,  \* the version of the proposal on disk
  session,       \* the decision the saved review session holds
  capability,    \* nonce -> context its capability is bound to
  log,           \* <<action, run>> of the audit events in the log
  pc, job,       \* where each run is, and what it holds
  core,          \* progress of the core a run started to apply
  prior,         \* recovery bytes a run is about to put back
  \* History variables.
  shown,         \* nonce -> final bytes of the preview that displayed it
  wrote,         \* run -> the bytes its core replaced
  raced,         \* run -> the source was written between its core's last look
                 \* and rename
  ending         \* run -> how it ended

files == <<source, recovery, proposalFile, session, capability, log>>
vars == <<files, pc, job, core, prior, shown, wrote, raced, ending>>

PC == {"idle", "load", "record", "save", "candidate", "validate", "assemble",
       "preview", "confirm", "start", "apply", "restore", "rename", "ended"}

Init ==
  /\ source = Base /\ recovery = None
  /\ proposalFile \in Proposed
  /\ session = None
  /\ capability = [n \in Nonce |-> None]
  /\ log = {}
  /\ pc = [r \in Run |-> "idle"] /\ job = [r \in Run |-> None]
  /\ core = [r \in Run |-> "none"] /\ prior = [r \in Run |-> None]
  /\ shown = [n \in Nonce |-> None]
  /\ wrote = [r \in Run |-> None] /\ raced = [r \in Run |-> FALSE]
  /\ ending = [r \in Run |-> None]

\* The final bytes of a context: the approved value, or the source as it is.
Final(context) == IF context.decision = "approved" THEN context.proposal ELSE Base

ContextOf(r) == [proposal |-> job[r].proposal, decision |-> job[r].decision,
                 checks |-> job[r].checks]

GoTo(r, label) == pc' = [pc EXCEPT ![r] = label]

\* The run returns; what it held in memory is gone, except what it gave a core.
Finish(r, how) ==
  /\ GoTo(r, "ended")
  /\ ending' = [ending EXCEPT ![r] = how]
  /\ prior' = [prior EXCEPT ![r] = None]
  /\ job' = IF core[r] = "none" THEN [job EXCEPT ![r] = None] ELSE job

Stay == UNCHANGED <<ending, prior>>

-------------------------------------------------------------------------------
\* Proposal file and source are read; a source other than the one the proposal
\* names ends the run, and so does an audit log that does not open.
ReadProposal(r) ==
  /\ pc[r] = "idle" /\ source = Base
  /\ \E token \in {None} \cup {n \in Nonce : shown[n] # None},
        flag \in Decision \cup {None}, checks \in Checks :
       job' = [job EXCEPT ![r] =
         [token |-> token, flag |-> flag, proposal |-> proposalFile,
          decision |-> None, checks |-> checks, candidate |-> None,
          vetted |-> FALSE]]
  /\ GoTo(r, "load")
  /\ Stay /\ UNCHANGED <<files, core, shown, wrote, raced>>

\* Where a run goes once it has its decisions: validators are asked first.
Prepared(r) == IF job[r].checks = "none" THEN "assemble" ELSE "candidate"

LoadWithoutFlags(r) ==
  /\ pc[r] = "load"
  /\ \/ /\ session = None /\ job[r].token = None
        /\ job' = [job EXCEPT ![r].decision = job[r].flag, ![r].flag = None]
        /\ GoTo(r, "record") /\ Stay
     \/ /\ session # None /\ job[r].flag \in {None, session}
        /\ job' = [job EXCEPT ![r].decision = session, ![r].flag = None]
        /\ GoTo(r, Prepared(r)) /\ Stay
  /\ UNCHANGED <<files, core, shown, wrote, raced>>

\* loadOrCreateApplySession and sessionApplyState: a missing session is created
\* from the flags of a preview; an existing one decides, and flags must agree.
LoadSession(r) ==
  /\ pc[r] = "load"
  /\ \/ /\ session = None /\ job[r].token = None /\ job[r].flag # None
        /\ job' = [job EXCEPT ![r].decision = job[r].flag, ![r].flag = None]
        /\ GoTo(r, "record") /\ Stay
     \/ /\ session # None /\ job[r].flag \in {None, session}
        /\ job' = [job EXCEPT ![r].decision = session, ![r].flag = None]
        /\ GoTo(r, Prepared(r)) /\ Stay
     \/ /\ \/ session = None /\ (job[r].token # None \/ job[r].flag = None)
           \/ session # None /\ job[r].flag \notin {None, session}
        /\ Finish(r, "stopped")
  /\ UNCHANGED <<files, core, shown, wrote, raced>>

\* appendAudit succeeds and the run goes on, or it fails, with the event in the
\* log (a failed sync) or not, and the run ends.
RecordLeniently(r, action, label) ==
  /\ log' \in {log, log \cup {<<action, r>>}}
  /\ GoTo(r, label) /\ Stay /\ UNCHANGED job

Record(r, action, label) ==
  \/ /\ log' = log \cup {<<action, r>>}
     /\ GoTo(r, label) /\ Stay /\ UNCHANGED job
  \/ /\ log' \in {log, log \cup {<<action, r>>}}
     /\ Finish(r, "stopped")

RecordDecision(r) ==
  /\ pc[r] = "record"
  /\ Record(r, IF job[r].decision = "approved" THEN "item.approved" ELSE "item.rejected",
            "save")
  /\ UNCHANGED <<source, recovery, proposalFile, session, capability, core,
                 shown, wrote, raced>>

\* session.Save replaces the file as a whole, whatever is there by now.
SaveSession(r) ==
  /\ pc[r] = "save"
  /\ \/ /\ session' = job[r].decision
        /\ GoTo(r, Prepared(r)) /\ Stay /\ UNCHANGED job
     \/ /\ session' \in {session, job[r].decision}
        /\ Finish(r, "stopped")
  /\ UNCHANGED <<source, recovery, proposalFile, capability, log, core, shown,
                 wrote, raced>>

\* prepareValidatorCandidate copies the source and has the core apply the set to
\* the copy, without checks.  A copy of another source is refused, and the file or
\* one of the two core processes may fail.
PrepareCandidate(r) ==
  /\ pc[r] = "candidate"
  /\ \/ /\ source = Base
        /\ job' = [job EXCEPT ![r].candidate = Final(ContextOf(r))]
        /\ GoTo(r, "validate") /\ Stay
     \/ Finish(r, "stopped")
  /\ UNCHANGED <<files, core, shown, wrote, raced>>

\* What a validator may answer: about this candidate or another, and its verdict.
Report == [of_candidate : BOOLEAN, status : {"passed", "failed", "unverified"}]

ValidateAnyDigest(r) ==
  /\ pc[r] = "validate"
  /\ \E report \in Report :
       \/ /\ report.status = "passed"
          /\ job' = [job EXCEPT ![r].vetted = report.of_candidate]
          /\ GoTo(r, "assemble") /\ Stay
       \/ /\ report.status # "passed"
          /\ Finish(r, "stopped")
  /\ UNCHANGED <<files, core, shown, wrote, raced>>

\* Validator.Validate: only a report that names the digest of the candidate and
\* says "passed" lets the run go on; a validator that is not registered, fails or
\* does not answer in time ends it as any other report does.
Validate(r) ==
  /\ pc[r] = "validate"
  /\ \E report \in Report :
       \/ /\ report.of_candidate /\ report.status = "passed"
          /\ job' = [job EXCEPT ![r].vetted = TRUE]
          /\ GoTo(r, "assemble") /\ Stay
       \/ /\ ~report.of_candidate \/ report.status # "passed"
          /\ Finish(r, "stopped")
  /\ UNCHANGED <<files, core, shown, wrote, raced>>

\* assembleFinal: the core reads the source again and issues a capability.  The
\* one a confirming run gets is never displayed, so nobody can present it.
Assemble(r) ==
  /\ pc[r] = "assemble"
  /\ \/ /\ source = Base /\ job[r].token = None
        /\ \E n \in Nonce :
             /\ capability[n] = None /\ shown[n] = None
             /\ capability' = [capability EXCEPT ![n] = ContextOf(r)]
             /\ job' = [job EXCEPT ![r].token = n]
        /\ GoTo(r, "preview") /\ Stay
     \/ /\ source = Base /\ job[r].token # None
        /\ GoTo(r, "confirm") /\ Stay
        /\ UNCHANGED <<capability, job>>
     \/ /\ source # Base
        /\ Finish(r, "stopped")
        /\ UNCHANGED capability
  /\ UNCHANGED <<source, recovery, proposalFile, session, log, core, shown, wrote, raced>>

\* The token is displayed once the preview is on record.
Preview(r) ==
  /\ pc[r] = "preview"
  /\ \/ /\ log' = log \cup {<<"final.previewed", r>>}
        /\ shown' = [shown EXCEPT ![job[r].token] = Final(ContextOf(r))]
        /\ Finish(r, "stopped")
     \/ /\ log' \in {log, log \cup {<<"final.previewed", r>>}}
        /\ Finish(r, "stopped")
        /\ UNCHANGED shown
  /\ UNCHANGED <<source, recovery, proposalFile, session, capability, core,
                 wrote, raced>>

RecordConfirmation(r) ==
  /\ pc[r] = "confirm"
  /\ Record(r, "final.confirmed", "start")
  /\ UNCHANGED <<source, recovery, proposalFile, session, capability, core,
                 shown, wrote, raced>>

RecordStart(r) ==
  /\ pc[r] = "start"
  /\ Record(r, "apply.started", "apply")
  /\ core' = IF pc'[r] = "apply" THEN [core EXCEPT ![r] = "redeem"] ELSE core
  /\ UNCHANGED <<source, recovery, proposalFile, session, capability, shown,
                 wrote, raced>>

-------------------------------------------------------------------------------
\* The source is written while the cores of these runs are about to replace it.
Race(runs) == raced' = [r \in Run |-> raced[r] \/ (r \in runs /\ core[r] = "replace")]

CoreStays(r) == UNCHANGED <<proposalFile, session, log, pc, job, prior, shown, ending>>

RedeemWhatever(r) ==
  /\ core[r] = "redeem"
  /\ \/ /\ source = Base /\ capability[job[r].token] # None
        /\ capability' = [capability EXCEPT ![job[r].token] = None]
        /\ core' = [core EXCEPT ![r] = "copy"]
     \/ /\ source # Base \/ capability[job[r].token] = None
        /\ core' = [core EXCEPT ![r] = "rejected"]
        /\ UNCHANGED capability
  /\ UNCHANGED <<source, recovery, wrote, raced>> /\ CoreStays(r)

RedeemWithoutSpending(r) ==
  /\ core[r] = "redeem"
  /\ \/ /\ source = Base /\ capability[job[r].token] = ContextOf(r)
        /\ core' = [core EXCEPT ![r] = "copy"]
     \/ /\ source # Base \/ capability[job[r].token] # ContextOf(r)
        /\ core' = [core EXCEPT ![r] = "rejected"]
  /\ UNCHANGED <<source, recovery, capability, wrote, raced>> /\ CoreStays(r)

\* The core assembles the set again and spends the token bound to this context.
CoreRedeem(r) ==
  /\ core[r] = "redeem"
  /\ \/ /\ source = Base /\ capability[job[r].token] = ContextOf(r)
        /\ capability' = [capability EXCEPT ![job[r].token] = None]
        /\ core' = [core EXCEPT ![r] = "copy"]
     \/ /\ source # Base \/ capability[job[r].token] # ContextOf(r)
        /\ core' = [core EXCEPT ![r] = "rejected"]
        /\ UNCHANGED capability
  /\ UNCHANGED <<source, recovery, wrote, raced>> /\ CoreStays(r)

CopyTooLate(r) ==
  /\ core[r] = "copy" /\ source = Base
  /\ recovery' = Final(ContextOf(r))
  /\ core' = [core EXCEPT ![r] = "recheck"]
  /\ UNCHANGED <<source, capability, wrote, raced>> /\ CoreStays(r)

\* The recovery copy holds the bytes about to be replaced.
CoreCopy(r) ==
  /\ core[r] = "copy"
  /\ \/ /\ source = Base
        /\ recovery' = source
        /\ core' = [core EXCEPT ![r] = "recheck"]
     \/ /\ source # Base
        /\ core' = [core EXCEPT ![r] = "rejected"]
        /\ UNCHANGED recovery
  /\ UNCHANGED <<source, capability, wrote, raced>> /\ CoreStays(r)

\* The source is read once more ...
CoreRecheck(r) ==
  /\ core[r] = "recheck"
  /\ \/ source = Base /\ core' = [core EXCEPT ![r] = "replace"]
     \/ source # Base /\ core' = [core EXCEPT ![r] = "rejected"]
  /\ UNCHANGED <<source, recovery, capability, wrote, raced>> /\ CoreStays(r)

\* ... and replaced when a temporary file has been written and synced, whatever it
\* holds by then.
CoreReplace(r) ==
  /\ core[r] = "replace"
  /\ source' = Final(ContextOf(r))
  /\ wrote' = [wrote EXCEPT ![r] = source]
  /\ Race(Run \ {r})
  /\ core' = [core EXCEPT ![r] = "done"]
  /\ UNCHANGED <<recovery, capability>> /\ CoreStays(r)

\* An I/O error before the rename is answered; a crash is not.
CoreFails(r) ==
  /\ \/ /\ core[r] \in {"redeem", "copy", "recheck", "replace"}
        /\ core' = [core EXCEPT ![r] = "rejected"]
     \/ /\ core[r] \in {"redeem", "copy", "recheck", "replace", "done"}
        /\ core' = [core EXCEPT ![r] = "dead"]
  /\ UNCHANGED <<source, recovery, capability, wrote, raced>> /\ CoreStays(r)

-------------------------------------------------------------------------------
\* The core answered that it applied the set.  When that cannot be recorded, or
\* the answer not decoded, the run goes on to put the recovery copy back.
RecordSuccess(r) ==
  /\ pc[r] = "apply" /\ core[r] = "done"
  /\ \/ /\ log' = log \cup {<<"apply.succeeded", r>>}
        /\ Finish(r, "applied")
     \/ /\ log' \in {log, log \cup {<<"apply.succeeded", r>>}}
        /\ GoTo(r, "restore") /\ Stay /\ UNCHANGED job
  /\ UNCHANGED <<source, recovery, proposalFile, session, capability, core,
                 shown, wrote, raced>>

\* The core answered with a rejection; a failure to record it is ignored.
RecordFailure(r) ==
  /\ pc[r] = "apply" /\ core[r] = "rejected"
  /\ log' \in {log, log \cup {<<"apply.failed", r>>}}
  /\ Finish(r, "stopped")
  /\ UNCHANGED <<source, recovery, proposalFile, session, capability, core,
                 shown, wrote, raced>>

WaitForever(r) == pc[r] = "apply" /\ core[r] = "dead" /\ UNCHANGED vars

RecordTimeout(r) ==
  /\ pc[r] = "apply"
  /\ core' = [core EXCEPT ![r] = "dead"]
  /\ log' = log \cup {<<"apply.failed", r>>}
  /\ Finish(r, "no_answer")
  /\ UNCHANGED <<source, recovery, proposalFile, session, capability, shown,
                 wrote, raced>>

\* runner.Run kills a core that has not finished within its ten seconds, however
\* far it got, and reports a core that died: the run returns with neither an
\* audit event nor a rollback.
Timeout(r) ==
  /\ pc[r] = "apply"
  /\ core' = [core EXCEPT ![r] = "dead"]
  /\ Finish(r, "no_answer")
  /\ UNCHANGED <<files, shown, wrote, raced>>

\* restoreFromRecovery reads the recovery copy ...
ReadRecovery(r) ==
  /\ pc[r] = "restore"
  /\ prior' = [prior EXCEPT ![r] = recovery]
  /\ GoTo(r, "rename")
  /\ UNCHANGED <<files, job, core, shown, wrote, raced, ending>>

\* ... and renames a file with these bytes over the source, whatever it holds by
\* now; an I/O error leaves the source alone, or comes after the rename, when the
\* directory is synced.
RenameRecovery(r) ==
  /\ pc[r] = "rename"
  /\ \/ /\ source' = prior[r]
        /\ Race(Run)
        /\ \E how \in {"restored", "stopped"} : Finish(r, how)
     \/ /\ Finish(r, "stopped")
        /\ UNCHANGED <<source, raced>>
  /\ UNCHANGED <<recovery, proposalFile, session, capability, log, core, shown,
                 wrote>>

\* The run is killed; a core it started goes on by itself.
Kill(r) ==
  /\ pc[r] \notin {"idle", "ended"}
  /\ Finish(r, "stopped")
  /\ UNCHANGED <<files, core, shown, wrote, raced>>

EditSource ==
  /\ source' \in {Base, Foreign} \ {source}
  /\ Race(Run)
  /\ UNCHANGED <<recovery, proposalFile, session, capability, log, pc, job, core,
                 prior, shown, wrote, ending>>

EditProposal ==
  /\ proposalFile' \in Proposed \ {proposalFile}
  /\ UNCHANGED <<source, recovery, session, capability, log, pc, job, core, prior,
                 shown, wrote, raced, ending>>

\* Five minutes pass.
Expire(n) ==
  /\ capability[n] # None /\ shown[n] # None
  /\ capability' = [capability EXCEPT ![n] = None]
  /\ UNCHANGED <<source, recovery, proposalFile, session, log, pc, job, core, prior,
                 shown, wrote, raced, ending>>

\* What the command does by itself.
Command(r) ==
  \/ LoadSession(r) \/ RecordDecision(r) \/ SaveSession(r)
  \/ PrepareCandidate(r) \/ Validate(r) \/ Assemble(r)
  \/ Preview(r) \/ RecordConfirmation(r) \/ RecordStart(r)
  \/ RecordSuccess(r) \/ RecordFailure(r) \/ Timeout(r)
  \/ ReadRecovery(r) \/ RenameRecovery(r)

Core(r) == CoreRedeem(r) \/ CoreCopy(r) \/ CoreRecheck(r) \/ CoreReplace(r) \/ CoreFails(r)

Next ==
  \/ \E r \in Run : ReadProposal(r) \/ Command(r) \/ Core(r) \/ Kill(r)
  \/ EditSource \/ EditProposal
  \/ \E n \in Nonce : Expire(n)

Spec == Init /\ [][Next]_vars

\* A running command is scheduled; the core, the editors and the clock owe
\* nothing.  The timeout is a timer of the command's own (process.go).
FairSpec == Spec /\ \A r \in Run : WF_vars(Command(r))

-------------------------------------------------------------------------------
\* What each variable holds.
TypeOK ==
  /\ source \in Bytes /\ recovery \in Bytes \cup {None}
  /\ proposalFile \in Proposed /\ session \in Decision \cup {None}
  /\ capability \in [Nonce -> Context \cup {None}]
  /\ log \subseteq Action \X Run
  /\ pc \in [Run -> PC] /\ job \in [Run -> Job \cup {None}]
  /\ core \in [Run -> {"none", "redeem", "copy", "recheck", "replace", "done",
                      "rejected", "dead"}]
  /\ prior \in [Run -> Bytes \cup {None}]
  /\ shown \in [Nonce -> Bytes \cup {None}]
  /\ wrote \in [Run -> Bytes \cup {None}] /\ raced \in [Run -> BOOLEAN]
  /\ ending \in [Run -> Ending \cup {None}]

\* Whatever a core writes is what the preview of the token displayed, although
\* the proposal file, the session and the checks were all read anew by the run
\* that confirms (spec.md FR-019).
WrittenAsShown ==
  [][\A r \in Run : core[r] = "replace" /\ core'[r] = "done" =>
       shown[job[r].token] = source']_vars

\* A run that was to ask validators has the core replace the source only by bytes
\* they accepted (FR-020), although candidate and final set are composed from
\* different reads of the source.
ValidatedIsWritten ==
  [][\A r \in Run : core[r] = "replace" /\ core'[r] = "done" /\ job[r].checks = "passed" =>
       job[r].vetted /\ job[r].candidate = source']_vars

\* No decision counts and no source is written that the audit log does not
\* account for (FR-026b): the stored decision was recorded by some run, and a
\* run whose core wrote has its confirmation and its start on record.
AuthorityIsAudited ==
  /\ session # None =>
       \E r \in Run : <<IF session = "approved" THEN "item.approved" ELSE "item.rejected", r>>
                        \in log
  /\ \A r \in Run : wrote[r] # None =>
       <<"final.confirmed", r>> \in log /\ <<"apply.started", r>> \in log

\* A recorded failure is true: the core of that run wrote nothing, not even
\* later, and a run that reports success has its success on record.
OutcomesAreTrue ==
  \A r \in Run :
    /\ <<"apply.failed", r>> \in log => wrote[r] = None /\ core[r] \in {"rejected", "dead"}
    /\ ending[r] = "applied" => wrote[r] # None /\ <<"apply.succeeded", r>> \in log

\* A run that cannot record its success leaves the source with the bytes its
\* core replaced, whatever other cores did to source and recovery copy since.
\* Only bytes that somebody wrote after the core's last look at the source are in
\* no recovery copy: those it replaces and cannot put back (apply.zig:69).
RollbackIsExact ==
  [][\A r \in Run : pc[r] = "rename" /\ ending'[r] = "restored" /\ ~raced[r] =>
       source' = wrote[r]]_vars

\* Every run ends by itself, even if its core never answers (process.go).
RunsEnd == \A r \in Run : pc[r] # "idle" ~> pc[r] = "ended"

\* However its runs interleave, fail and roll back, the command keeps the promise
\* the core makes: a displayed token is redeemed once, or expires, and leads to
\* one replacement by what was displayed, or none.  A rollback is to the promise
\* what an editor is, somebody who writes the source.
Written(n) == \E r \in Run : wrote[r] # None /\ job[r].token = n

GrantStatus(n) ==
  IF Written(n) THEN "written"
  ELSE CASE shown[n] = None -> "none"
         [] shown[n] # None /\ capability[n] = None -> "redeemed"
         [] OTHER -> "shown"

Promise == INSTANCE ConfirmedReplace WITH
  status <- [n \in Nonce |-> GrantStatus(n)],
  offer <- shown,
  NoBytes <- None,
  ForeignBytes <- {Base, Foreign}

FlowKeepsPromise == Promise!Spec
===============================================================================
