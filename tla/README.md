# zconfig: a TLA+ model

zconfig is a terminal tool in which a human reviews the changes an agent proposes to a
JSON configuration file, and which then writes exactly the approved ones. This directory
holds TLA+ modules that model it, TLC configurations that check them on small instances,
and TLAPS proofs that hold for instances of any size. Everything is translated from the
source; the documents (`docs/`, `specs/001-review-config-changes/`) are the origin of the
promises that are checked.

Paths below are relative to `src/`.

## 1. Inventory

Two programs talk over stdin and stdout:

* the **core** (`core/src/*.zig`): one process per request, one JSON request in, one JSON
  response out, then it exits. It owns everything that decides whether and what is
  written. What its processes share is on disk: the source, `<source>.zconfig-recovery`,
  and the capability files under `.zconfig/runtime`;
* the **CLI and TUI** (`tui/`, Go): reads proposals, keeps the review session
  (`.zconfig/reviews/<id>.json`) and the audit log (`.zconfig/audit/<session>.jsonl`),
  runs agents, validators and the core. The program in `tui/cmd/zconfig` connects
  `review` (a read-only screen) and `apply`; much of `tui/internal/review` and
  `tui/internal/ui` (comments, revisions, approval view, reveal and share) is library code
  with tests that no command calls yet (`docs/workflow.md:46`).

| Component | State | Operations | Talks to | Hard behaviour | What makes it correct |
|---|---|---|---|---|---|
| Final set, confirmations (`final_set.zig`, `main.zig`, `apply.zig` `replaceCandidate`) | source, recovery copy, capability files | `assemble_final` (preview, issues a nonce), `apply_final` (reassembles, spends the nonce, copies, rechecks, renames) | CLI by one request each; other core processes by files | processes interleaved at each file operation, a kill anywhere, concurrent editors, a wall clock that moves | a nonce is spent once, for what was shown, and only approved targets change |
| Composition and diff (`apply.zig` `compose`, `source_index.zig`, `renderDiff`) | none | envelopes, patches, overlap check, reparse, diff | final set | neighbouring edits in one container | the candidate means exactly the approved items; the diff shows them |
| Proposal validation (`proposal.zig`, `pointer.zig`) | none | identity, targets, overlap, revision scope | final set | paths that are prefixes of each other | nothing outside the stated targets |
| Loading and inspection (`document.zig`, `main.zig`) | none | parse, digest, index | all requests | size limits, malformed bytes | the digest is of the bytes read |
| JSON Schema subset (`schema.zig`) | none | recursive check | final set, inspection | nesting | verdict |
| Redaction (`redact.zig`) | none | names and digests of sensitive values | diff, replies | | no value leaks into text |
| Wire protocol (`protocol.zig`, `contract.zig`, `tui/internal/protocol`) | none | strict decoding on both sides | both programs | two implementations of one contract | malformed is refused |
| `zconfig apply` (`main.go` `executeApply`) | a run's memory; session, log, source, recovery | preview and confirm runs | audit log, session store, core, validators | several runs of one session, failures and kills between any two steps, a core that outlives its run, rollback | audited before done, true outcomes, written as shown |
| `zconfig review`, navigation (`ui/review.go`) | cursor, filter, page | move, filter, page | core | terminal size | the selected item is the visible one |
| Review state (`review/*.go`, `ui/approval.go`, `ui/revision.go`) | items, comments, lifecycle, filter, bulk preview, saved session | decide, bulk, comment, claim, accept a revision, readiness | session store, agent | an agent working meanwhile, failing autosaves, crashes | decisions are about current content, ready means ready |
| Sensitive values (`review/secrets.go`, `ui/sensitive.go`) | authorizations with a time limit | reveal, conceal, share once | revision requests | expiry, reuse | one share per confirmation |
| Audit log (`session/audit.go`) | the file; number and digest in memory | open and verify, append and sync | `zconfig apply` | cut-short writes, failed syncs, kills, power loss, two commands at a time | append-only, chained, never unreadable by its own doing |
| Session store (`session/store.go`) | session file | save by rename, load | review state, apply | crash | old or new, never half |
| Runner, agent, validator (`tui/internal/runner`) | child process | run with a time limit and output limits | core, agents, validators | a child that hangs or dies | the caller gets its control back |
| Command registration (`config/commands.go`) | none | parse once | apply | | |

`PROJECT.json` lists these with their status, and the hazards (what a test hardly
reaches) at the line where each bites.

## 2. Modules

| Module | Models | Role |
|---|---|---|
| `FinalSet` | `final_set.zig` `assemble`, `proposal.zig` | operators: from source bytes and a payload to the candidate, or a refusal |
| `CoreApply` | `main.zig` requests, `final_set.zig` capabilities, `apply.zig` `replaceCandidate` | the core's processes, one action per file operation |
| `ConfirmedReplace` | | the abstract promise: a grant shown is redeemed once and writes what was shown, once or never |
| `ApplyFlow` | `main.go` `executeApply`, validators | runs of the command, with the core at the granularity `CoreApply` justifies |
| `ProcessRun` | `runner/process.go` `Run`, `RunProtocol` | one call of another program: core, agent or validator |
| `AuditLog` | `audit.go` | one log file, several commands |
| `ReviewState` | `review/*.go`, `ui/approval.go`, `ui/revision.go`, `store.go` | a reviewer, an agent under way, the final confirmation and the saved session |
| `AgentRevision` | `protocol/revision.go`, `proposal.zig` `validateRevision`, `comments.go` | both programs' checks of an agent's answer, number by number |
| `SecretStore` | `review/secrets.go`, `ui/sensitive.go` | permissions to reveal and to share a sensitive value |
| `ReviewScreen` | `review/reducer.go`, `ui/review.go` | cursor, filter, page and what is drawn |
| `EditCompose` | `apply.zig`, `source_index.zig`, `renderDiff` | the text level that `FinalSet` abstracts |
| `*_proofs` | | the proofs, one module per component |
| `MC*` | | instances for TLC |

How they fit:

* `CoreApply` EXTENDS `FinalSet`, and both `CoreApply` and `ApplyFlow` INSTANCE
  `ConfirmedReplace` with a refinement mapping: the core alone keeps the promise, and any
  number of runs of the command, with their sessions, rollbacks and kills, keep the same
  one. In `ApplyFlow` a rollback is to the promise what an editor is: a foreign write.
* `ApplyFlow` sees of the core only that it redeems, copies and writes: that grain is
  what `CoreApply` shows of it. It sees of a call only that it is answered, refused, or
  left behind: that is what `ProcessRun` shows of `RunProtocol`. `AuditLog` is what it
  uses as "the event is in the log, and the command may not know".
* `FinalSet` treats a document as a function from paths to values; `EditCompose` is what
  says how far that is true of the text (its refusals, its merges, its diff).
* `ReviewState` takes the content of an item as one value and an answer within scope as
  given; `AgentRevision` is about when two contents are the same and what "within scope"
  is on either side. `ReviewScreen` is about which item the decisions of `ReviewState`
  are made on.

### Correspondence

**CoreApply.** One process `p` is one run of the core executable. `Begin` stands for
`document.load` and `final_set.assemble`, which touch nothing shared but one read of the
source; everything after it is one action per file operation, in the order of the code:
`IssueCapability` (exclusive create, `final_set.zig:62`) and `Reply`; or `ReadClock`,
`OpenCapability` (read and authorize), `DeleteCapability` (what spends the nonce),
`ReloadSource`, `WriteRecovery`, `RecheckSource`, `ReplaceSource` (rename), `Reply`.
`FailOrDie` may follow any of them. A temporary file is not state: nobody reads one by
name. A digest is a tagged copy of what it digests, so two digests are equal only for
equal inputs. `raced`, `shown`, `accepted`, `replaced`, `recoveryBy` are history
variables that no guard of a process past its start reads; `shown` also stands for the
user, who can only present a token a preview displayed, and for the randomness of the
nonce, which is drawn fresh.

**ApplyFlow.** One run `r` is one `executeApply`. `ReadProposal`, `LoadSession`,
`RecordDecision`, `SaveSession`; with a validator `PrepareCandidate` (copies the source
and has the core apply the set to the copy) and `Validate`; `Assemble`, `Preview` or
`RecordConfirmation`, `RecordStart`, then a core (`CoreRedeem`, `CoreCopy`, `CoreRecheck`,
`CoreReplace`, `CoreFails`) while the run waits in `apply`, and `RecordSuccess`,
`RecordFailure`, `Timeout`, and after a success that could not be recorded `ReadRecovery`
and `RenameRecovery`. `Record` is an append that works, fails without a trace, or fails
with its line in the file. `Kill` leaves a core running by itself, as a killed parent
does. The core's last read of the source and its rename are two steps, as in `CoreApply`,
because a temporary file is written and synced between them (`apply.zig:71-76`): what
somebody writes there is replaced and is in no recovery copy. `raced` remembers for which
runs that happened. The candidate is read, checked and assembled in three steps, between
which the source may change: that is why a validator's verdict could be about something
else than what is written. Every run ends with `Finish`, which says how: applied,
restored, without an answer, or stopped before.

**ProcessRun.** One `RunProtocol`. The program writes chunks into pipes of bounded size,
exits, hangs, or leaves an heir that holds its output open. `Copy` is
`boundedBuffer.Write`, which keeps what fits and drops the rest of the stream. `Kill`,
`ObserveExit`, `DelayOver` and `Drained` are `exec.Cmd.Wait` with `WaitDelay`
(`process.go:86`), as the package documents it; `Verdict` is the order of the checks
behind `cmd.Run`: limit, cancellation, deadline, error, and then the decoder (`Decoded`),
for which an answer is its first and its last chunk and nothing else. What cannot be
decoded counts as cut off when it fills a limit that the caller set (`limited`,
`process.go:122`); the commands of `src/` leave the limit at its default, the tests of the
runner set it.

**AuditLog.** The file is a sequence of complete lines, perhaps followed by a torn one.
`OpenAudit` verifies everything, `WriteLine` and `SyncLine` are the two halves of an
append, `WritePart` a write cut short, `End` a command that is done or gave up,
`PowerLoss` keeps some prefix behind the last sync, `DamageFile` is somebody else.

**ReviewState.** One action per operation of `State` and `ApprovalView`. Each ends in
`StableTransition` where the code calls `OnStableTransition`: the save works or fails and
is shown; a save that fails may have renamed the new session into place before its
directory could be synced (`store.go:62-71`). A request is the set of items with a
submitted comment, which is what the scope of an answer is checked against; the comments
an answer claims may be any open ones, as in `ClaimResolved`. `ClaimFails`,
`AcceptRevision` and `DieInRevision` are the three ways `ApplyAcceptedRevision` goes,
which saves twice. `confirmation` is the final confirmation of the state with what it was
given for (`ConfirmFinal`); the operations that call `InvalidateFinalConfirmation` drop
it, in the order of the code. `judged` in an item is no field of the code: it remembers
what the reviewer decided on.

**AgentRevision.** `InScope` is `ValidateRevisionScope` of the terminal, `ValidItem` is
`validateRevision` of the core, for one item. Values are numbers in one of the two forms
JSON has, because that is where the two programs differ: `Float` is the nearest float64,
with a smallest integer of which that is not the integer itself. Requests are answered in
any order, by an agent that may answer anything. `judged` is a history variable.

**SecretStore.** `Grant`, `Authorize`, `Conceal` and `Reset` are the operations of the
store, `PrepareShare`, `ConfirmShare` and `ConfirmReveal` those of the view; a value is
asked for with the fingerprint of what the item holds by then. `log` is a history of what
happened, and both properties are about the log alone.

**ReviewScreen.** Positions count from 0 as in the code. `Move` is `State.Move`, which
pages by `Height - 4` items; `Drawn` and `Marked` are what `render`, `renderList`,
`renderPane` and `fit` make of it. The list allows for two lines per item (`Visible`), but
long paths, long values and line breaks make an item take more in a window (`Rows`, what
`wrapContent` makes of it, also by whether it is selected, since the codes that invert it
count), and the pane and the window cut off the rest.

**EditCompose.** The source is a token sequence of one object or array of scalars.
`EditEnvelope`, `AddEnvelope`, `MakePatch`, `PatchBefore`, `Compose` and `RenderDiff`
follow the functions of those names. `Patches` is the sort of `compose`: a patch is at the
place that the number of patches before it gives it, which is what sorting by a strict
order means. `Patched` is its loop, and `Overlap` the check in that loop. `ReadAt` says
that numbers which touch are one number, `IsDocument` and `Members` what the tokens mean:
they are the parser of the standard library, as `compose` uses it. `ValidItem` is what
`validateAgainstSource` lets through, which is more than `compose` can do: an added member
that exists, if its key is `-` (`DashKey`; `proposal.zig:32`), an array position that is
no number (`Malformed`; `validateAddParent`), and a value of null, which is read as none
(`None`). `NoPatch` names the items that `makePatch` then refuses. Nothing of this is
recursive, which is what makes it possible to prove about it.

## 3. Runs

| Run | Instance | Shows |
|---|---|---|
| `core_apply` | 2 processes, 2 nonces, 4 payloads, clock 0..1 with lifetime 0 | `OneUse`, `SpentForWhatWasShown`, `ReplacementIsExact`; `PromiseKept`: the core implements `ConfirmedReplace` |
| `audit_log` | 2 commands, room for 3 events, 5 composed, 1 damage | `AcknowledgedIsKept`, `SoleWriterKeepsChain`, `DamageIsNoticed` |
| `review_state` | 2 items with 2 contents, 2 comments at a time, 2 bodies, 1 failed save | `DecisionsAreCurrent`, `ReadyIsTrue`, `ConfirmationIsCurrent`, `EnteredIsSaved`, `BulkIsWhatWasShown`, `RevisionStaysInScope` |
| `review_ids` | the same, 3 bodies, without failing saves | a finding |
| `apply_flow` | 3 runs, 2 tokens, 2 versions of the proposal | `AuthorityIsAudited`, `OutcomesAreTrue`, `WrittenAsShown`, `ValidatedIsWritten`, `RollbackIsExact`; `FlowKeepsPromise`: the runs implement `ConfirmedReplace` |
| `apply_flow_ends` | 2 runs, 1 version | `RunsEnd`, under fairness |
| `process_run` | pipes of 2 chunks, limit of 2 | `AcceptedIsComplete`, `RefusalHasReason`; `RunReturns`, under fairness |
| `secret_store` | 2 items, 2 values, 5 events, clock 0..3 | `UseIsConfirmed`, `SharedOnce` |
| `agent_revision` | 2 items, integers 1..3 of which 3 is no float, 3 revisions | `ScopeChecksAgree`, `DecisionsSurviveRoundingOnly` |
| `review_screen` | 5 items of 2 to 4 rows, 4 heights, 2 widths | `MarkIsSelection`, `MoveSkipsNothing`, `SelectionIsStable` |
| `edit_compose` | containers of 0 to 3 members, up to 4 edits | `PreviewedIsExact`, `OnlyKnownRefusals` |
| `edit_compose_diff` | the same, up to 2 edits | a finding |

Why the bounds are enough:

* *core*: a race for a nonce needs two holders, a mix-up two nonces. The four payloads
  are: the same final bytes with different comments (only the context digest tells them
  apart), another decision (other final bytes), and one the core must refuse. The layout
  path, which no proposal names, makes an edit of nothing but white space a change. With
  lifetime 0 and two clock values a capability is valid, expired, and issued in the
  future.
* *audit*: three events let the limit be reached, with a predecessor and a successor for
  every line that can be lost, repeated or garbled; two more may be composed so that
  failed appends can be retried after a power loss.
* *review*: two items tell the commented one from the others; two comments are needed
  for an ID to be reused and for a claim to fail half way. `review_ids` allows a third
  body, because it takes add, add, withdraw, add.
* *apply*: preview, confirmation, and one more run that interferes with either; two
  tokens; two proposal versions so that what is confirmed can differ from what was shown.
* *process*: an answer of two chunks fills the limit exactly, a third one passes it; a
  full pipe makes the program wait, and output can outlive the process in the pipe.
* *secrets*: five events hold a question, its confirmation, a use, and two more that may
  come between or after them; a share lasts one tick and a reveal two, so that each can
  be in time, just in time and late.
* *revisions*: 2 and 3 are one float64 here as 2^53 and 2^53 + 1 are, and 1 is another;
  three revisions let a value wander twice.
* *screen*: the heights are those at which a page of `Move` holds one item (0), two (6),
  exactly all five (9) and more (16), while the view draws one to four of them; at first
  it draws all. One item wraps in every window, one in narrow ones, and one in those when
  it is selected (`MCRows`), so that pages fit and do not fit with the selected item at
  their end.
* *composition*: three members have a first, an inner and a last one; four edits can
  touch all of them and add one. Added values are numbers, which merge when they touch,
  and strings, which do not, and null. The key `-` is that of the second member, if there
  is one.

For every larger instance of all of these there are the proofs of section 4, except for
the two properties under fairness.

`CHECK_DEADLOCK FALSE` is set where the system may stop: `EditCompose` (approving ends
with the proposal), `ProcessRun` (a returned call), `ReviewScreen` (quit), and
`SecretStore` and `AgentRevision` (their bounds are reached). `AuditLog`, `CoreApply`,
`ReviewState` and `ApplyFlow` are checked for deadlock.

### Fairness

`RunsEnd` assumes weak fairness of `Command(r)`, the steps a run of the command takes by
itself. The operating system schedules a running process, and no step of the command
waits for anything but a called program. The core, the editors, expiry, kills and the
start of a run owe nothing: the property holds with a core that hangs for ever. That a
wait for the core ends (the fairness of `Timeout`) is not taken for granted but is
`RunReturns` of `ProcessRun`.

`RunReturns` assumes weak fairness of the call's own steps, that timers run out
(`Deadline`, `DelayOver`) and that a killed process dies (`Die`: a kill cannot be
ignored). The program owes nothing: it may hang, write without end, and leave an heir
that never exits. Without `WaitDelay` the property fails, because then only the end of
the output would end the call; this is the mutant of the run.

### Findings

1. `review_ids`: after a withdrawal the next comment repeats an existing ID.
2. `edit_compose_diff`: for `[1,2,3]` with `/0` removed and `/1` set to 7 the preview
   says that `/1` becomes 3; the candidate itself, `[7,3]`, is right. `PreviewedIsExact`
   shows that this is all: an object's items, and an array's without a removal in front of
   them, are quoted with their own values.

### Where the properties stop

The properties above are as strong as the code allows. Each of these known limits shows
in how one of them is worded:

* `apply.zig:69` says that the second read invalidates concurrent changes; between that
  read and the rename lie the write and the sync of a temporary file, and a change in
  this window is lost: the rename replaces bytes that are in no recovery copy, and the
  rollback of a success that could not be recorded puts older ones back. Both
  `ReplacementIsExact` and `RollbackIsExact` exclude it (`raced`).
* An approved addition at `/-` can never be previewed, since the diff looks `-` up in the
  index of the candidate, although `data-model.md:62` allows it. A value of null, an added
  key `-` that exists and a malformed array position pass the proposal check and have no
  patch. These are among the refusals in `CannotPreview`, which `OnlyKnownRefusals` shows
  to be exactly those the code makes for the items of one container. The first refusal
  also keeps another candidate from ever being previewed: two numbers added to an empty
  array (`/0` and `/-`) become one, as `12`. This is why `PreviewedIsExact` speaks of
  previews and not of `compose` alone.
* A revision that resolves a comment changed meanwhile is refused with earlier comments
  already marked as claimed, in memory only (`comments.go:49`; `data-model.md:43` calls
  acceptance atomic). `EnteredIsSaved` leaves the marks out, and `ReadyIsTrue` and
  `ConfirmationIsCurrent` show that nothing depends on them.
* A timeout or a crash of the core ends a run without `apply.failed` (`main.go:281`;
  `workflow.md:52` has every outcome recorded) and without a look at the source, which
  may have been replaced. `OutcomesAreTrue` is about the outcomes that are recorded.
* The terminal compares numbers as float64. A revision may turn one large integer into
  another that the same float64 stands for, and the decision on it stays, although FR-013
  sends changed items back to pending. `DecisionsSurviveRoundingOnly` shows that this is
  the only way and that it does not add up.
* A page of `Move` holds twice the items the view allows for, and items that wrap take
  more rows than that, so the selected item may be off the screen, cut off by the pane or
  by a low window. What is marked is then nothing, never another item; `MarkIsSelection`
  promises the mark only where the page of `Move` is drawn to its end.

## 4. Proofs

Everything below holds for any values of the constants that satisfy the named assumptions,
which TLC evaluates in the runs. In each module `IInv` (`RunInv` for `ProcessRun`) is the
inductive invariant; `Init => IInv` and `IInv /\ [Next]_vars => IInv'` are lemmas, with
one step or lemma per action, and the theorems follow from them.

| Module | Theorems |
|---|---|
| `CoreApply_proofs` | `InductiveInvariant`, `TypeCorrect`, `OneUseHolds`, `SpentForWhatWasShownHolds`, `ReplacementIsExactHolds`, `CoreKeepsPromise` |
| `ApplyFlow_proofs` | `FlowInvariant`, `FlowTypeCorrect`, `AuthorityIsAuditedHolds`, `OutcomesAreTrueHolds`, `WrittenAsShownHolds`, `ValidatedIsWrittenHolds`, `RollbackIsExactHolds`, `FlowPromiseHolds` |
| `AuditLog_proofs` | `LogInvariant`, `LogTypeCorrect`, `AcknowledgedIsKeptHolds`, `SoleWriterKeepsChainHolds`, `DamageIsNoticedHolds` |
| `ReviewState_proofs` | `ReviewInvariant`, `ReviewTypeCorrect`, `DecisionsAreCurrentHolds`, `ReadyIsTrueHolds`, `ConfirmationIsCurrentHolds`, `EnteredIsSavedHolds`, `BulkIsWhatWasShownHolds`, `RevisionStaysInScopeHolds` |
| `EditCompose_proofs` | `Invariant`, `PreviewsAreExact`, `RefusalsAreKnown` |
| `AgentRun_proofs` (of `AgentRevision`) | `RevisionInvariant`, `RevisionTypeCorrect`, `ScopeChecksAgreeHolds`, `DecisionsSurviveRoundingOnlyHolds` |
| `AgentRun_proofs` (of `ProcessRun`) | `RunInvariant`, `RunTypeCorrect`, `AcceptedIsCompleteHolds`, `RefusalHasReasonHolds` |
| `SecretStore_proofs` | `StoreInvariant`, `StoreTypeCorrect`, `UseIsConfirmedHolds`, `SharedOnceHolds` |
| `ReviewScreen_proofs` | `ScreenInvariant`, `ScreenTypeCorrect`, `MarkIsSelectionHolds`, `MoveSkipsNothingHolds`, `SelectionIsStableHolds` |

**The core.** *Assumptions*: `MarkersAreDistinct` (absence, malformed bytes and a refusal
are not documents) and `CoreAssumption` (the payloads and the bytes are of their types,
`None` is none of them). `OneUse` is not inductive: that a second process cannot spend a
nonce depends on where the first one is. `IInv` adds

* `MemoryInv`: what a running process holds at each label;
* `PendingPreviewInv`: a preview that has not been answered owns a capability file, and
  no other such preview owns the same;
* `LedgerInv`: a capability file and an accepted nonce exclude each other, and a shown
  nonce's file is bound to what was shown;
* `HolderInv`: a process past the authorization composed what the preview of its nonce
  showed; past the deletion its nonce is accepted, not yet replaced, and no other process
  is there with it.

The step from `OpenCapability` to `DeleteCapability` is the heart of it: the context
digest binds what the process composed to what the preview showed, and the deletion makes
the process the only holder. `ReplacementIsExact` needs a second invariant, `ExactInv`:
until somebody else writes, the source a process past its recheck is about to replace is
the one its candidate was composed from (digests are injective, `DigestInjective`), and
its recovery copy holds these bytes. `StepImplements` maps each step of the core to a step
of the promise or to a stutter.

**The command.** `FlowAssumption` and `NoneIsNoContext` keep the values apart. `RunHolds`
says what a run holds at each label, `CoreHolds` the same of a core, which may outlive its
run, `TokenInv` follows a token: a run about to display one owns its capability and no
other run waits to display it, a displayed one is bound to the final bytes that were
displayed. `HolderInv` makes a core past the redemption the only one with its token.
`RaceInv` says that until somebody writes in its window, a core about to rename still has
the source it read before it, and that this is what a finished core replaced; a recovery
copy holds the same bytes, and `RollbackIsExact` follows. The
refinement follows from these: a redemption is of a displayed grant and a write is of what
it displayed.

**The audit log.** Two arguments that need each other's types only. `KeptInv`: while
nobody damaged the file, what is acknowledged is behind the last sync, and what is about
to be acknowledged is in the file. `SoleInv`: a command that has had the log to itself
since it opened it knows its end, number and digest; what is in the file are lines of the
last log that was trusted or garbage. `DamageIsNoticed` rests on lemmas about sequences
with a line removed, repeated or replaced: such a sequence verifies only if it is a
beginning of the old one.

**The review.** `ClosedInv` says that nothing of a review is in memory while no program
has it loaded, `FitsInv` that the saved comments fit the bound. Readiness, confirmation
and what is saved depend on the comments only up to the marks of an agent's claims
(`SameReview`); `ClaimsAreMarks` shows that a claim leaves nothing but such marks, and
this is what makes a claim that fails half way, and the first of the two saves of an
accepted revision, harmless.

**A call.** `CountInv` accounts for every chunk that was written: it is in the pipe, in
the buffer, or its stream is known to have exceeded the limit. `WaitInv` says what an
error of the command stands for and why nothing is written any more once the output was
drained. Together: an empty pipe, no heir and no excess leave only the buffer.

**Sensitive values.** The store keeps no history, the properties are about history.
`GroundsInv` finds for each permission the store holds the confirmation in the log that
gave it, with nothing behind it that ends it; `AskedInv` the question that an open share
answers.

**Revisions.** Everything follows from one fact (`FloatFacts`): the terminal's comparison
is equality of the float64 values. It is transitive, so rounding does not add up
(`DecidedInv`), and it differs from the core's only for large integers
(`RoundingIsTheGap`, `ChecksAgree`).

**The screen.** `WindowInv` is what `Move` establishes and only a new filter can break.
`MoveSkipsNothing` rests on `ItemAtFacts`: the rank of an item among the visible ones is
an injection into the positions, and between finite sets of one size an injection is
onto, so each position has its item and the next position has the next item.

**The composition.** *Assumption*: `ComposeAssumption` (values are number or string
tokens, `None` is none of them, neither `"-"` nor a malformed position is a number or a
key, and new keys are not those of members). `IInv` is short, because everything is
computed anew from the edits on each approval: the edits are those the proposal check lets
through (`Proposed`), `candidate` is what `compose` makes of them, `previewed` its
verdict, and `diff` what `renderDiff` quotes of both. The work is in what `compose`, the
parser and the diff make of any such edits:

* *joining* (`JoinedNext`, `JoinedSplit`, `MappedJoined`, `EqualPieces`, `Regroup`,
  `QuoteJoin`): a text joined of pieces grows by its last piece, can be cut at any piece,
  and is read piece by piece; where all pieces have one length each token has its place.
  `FlattenSeq` is recursive, so these rest on `NatInduct`, which states induction over a
  set instead of an operator, from the well-foundedness of `<`;
* *order* (`PatchOrder`, `InPlaceIs`, `EveryPlace`): sorted, the patches of members come
  by position and those of additions behind them by proposal, none lost or repeated.
  `OverlapIs`: two overlap exactly when the last two members are removed;
* *the loop* (`SettledNext`, `SettledAddsNext`, `ComposedText`): what the loop has written
  by the time it passes a member is the text of every member before it, replaced, kept or
  gone with one separator. The boundary to which the source is used up is not the end of
  the patch: it waits for the next member, unless this is the last one kept;
* *reading* (`PushesPlain`, `ComposedReads`, `InnerIs`, `ResultRead`): but for two
  additions to an empty array no two numbers touch, so the result is read as it was
  written, and what is between the brackets is one row for each approved member;
* *patches*: edits that all have a patch (`Typed`) are what everything above is about.
  One without a patch makes `compose` fail, whatever the others are (`PatchedAreTyped`,
  `UnpatchedIsRefused`);
* *verdict*: `ResultIsExact` shows that a result whose edits have patches and that has
  none of the three defects of composition in `CannotPreview` is a document with exactly
  the approved members. The defects themselves are shown to be refused one by one:
  overlapping patches, the separator left in front of an addition to a sole removed member
  (`SoleMemberReplaced`), two entries without a separator in an object
  (`EmptyObjectFilled`), and in an array, where the two may parse as one number, the
  position that the diff cannot find then (`EmptyArrayFilled`);
* *quoting*: the diff looks a path up among the members of the result, whose rows are
  the members kept and then the additions. In an object the keys of all rows differ
  (`ResultValue`), so the row with the item's key is the item's. In an array with no
  removal in front of it an item's row is at its own position (`ResultInPlace`).
  `QuotesAreOwn` puts the two together.

`OnlyKnownRefusals` is an equivalence, so it also says that no harmless selection is ever
refused.

*Only model-checked*: the liveness properties `RunsEnd` and `RunReturns` (liveness under
fairness is out of the proof system's reach). `CommentIdsAreUnique` and
`DiffShowsApproved` do not hold (see the findings).

## 5. Not modelled, and why

* The schema subset is a pure recursive function without state; a refusal by it is a
  request that changes nothing.
* Redaction (name patterns, digests of strings) and command registration: text in, text
  out. Strict decoding of the contracts is a refusal wherever a model receives a message;
  what is modelled of it is what an accepted response, proposal or report must be.
* The inspection request, discovery of review files, path handling and the handshake of
  `zconfig apply` only read, before anything is shared.
* `ReconcileInterruptedApply` is called by tests only; the view's `ApplyArmed` flag and
  its cached diff are of the same kind.
* `Sanitize` of the runner is given no secrets by any caller.
* Labels of sensitive values, layout, colours, the help text.
* Nested containers, and pointer syntax beyond `-` and malformed array positions: edits in
  different containers have disjoint patches, so `EditCompose` looks at one. An item that
  names the whole document is alone in its proposal and is left out. So are members of the
  source whose value is null: an item that replaces or removes one has an `expected_old`
  of null, which is read as none, and `proposal.zig:28` unwraps it all the same.
* A clock that is set back is modelled for the core's capabilities, whose times are on
  disk, and not for `SecretStore`, which asks its caller for the time within one process.

## 6. Plan

Written, in this order: `FinalSet`, `CoreApply` with `ConfirmedReplace`, `AuditLog`,
`ReviewState`, `ApplyFlow`, `EditCompose`, then `SecretStore`, `ReviewScreen`,
`AgentRevision`, `ProcessRun`, and the proofs of all of them.

What could still be added:

1. `EditCompose` over two nested containers;
2. capabilities that outlive the session they were issued in (`final_set.zig:62`): an
   event for the end of a session in `ApplyFlow`, once the code removes them;
3. the reconciliation of an interrupted apply, once a command calls it.
