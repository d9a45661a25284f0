--------------------------- MODULE ApplyFlow_proofs ---------------------------
(***************************************************************************)
(* Proofs about ApplyFlow for any number of runs, tokens and versions of   *)
(* the proposal.  The inductive invariant follows a token: a run that is   *)
(* about to display one owns its capability, a displayed one can only be   *)
(* redeemed for the final bytes that were displayed, and a core past the   *)
(* redemption works on exactly these.                                      *)
(***************************************************************************)
EXTENDS ApplyFlow, TLAPS

Alone == {"idle", "load", "record", "save", "candidate", "validate", "assemble",
          "preview", "confirm", "start"}  \* before a run has a core

ItemAction(decision) == IF decision = "approved" THEN "item.approved" ELSE "item.rejected"

Vetted(r) ==
  job[r].checks = "passed" => job[r].vetted /\ job[r].candidate = Final(ContextOf(r))

\* What a run holds at each label.
RunHolds(r) ==
  /\ pc[r] # "ended" => ending[r] = None
  /\ pc[r] \in Alone => core[r] = "none"
  /\ pc[r] \notin {"idle", "ended"} => job[r] \in Job
  /\ pc[r] \notin {"idle", "load", "ended"} => job[r].decision \in Decision
  /\ pc[r] \in {"load", "record", "save", "candidate", "validate", "assemble"}
       /\ job[r].token # None => shown[job[r].token] # None
  /\ pc[r] = "save" => <<ItemAction(job[r].decision), r>> \in log
  /\ pc[r] = "validate" => job[r].candidate = Final(ContextOf(r))
  /\ pc[r] \in {"assemble", "preview", "confirm", "start"} => Vetted(r)
  /\ pc[r] = "preview" =>
       /\ job[r].token \in Nonce
       /\ shown[job[r].token] = None
       /\ capability[job[r].token] = ContextOf(r)
  /\ pc[r] \in {"confirm", "start"} =>
       job[r].token \in Nonce /\ shown[job[r].token] # None
  /\ pc[r] = "start" => <<"final.confirmed", r>> \in log
  /\ pc[r] \in {"apply", "restore", "rename"} => core[r] # "none"
  /\ pc[r] \in {"restore", "rename"} => wrote[r] # None
  /\ pc[r] = "rename" => prior[r] = Base

\* What its core works on, which outlives the run.
CoreHolds(r) ==
  /\ core[r] \in {"none", "redeem", "copy", "recheck", "replace", "rejected"} => wrote[r] = None
  /\ core[r] = "done" => wrote[r] # None
  /\ wrote[r] # None => recovery = Base
  /\ core[r] # "none" =>
       /\ job[r] \in Job
       /\ job[r].decision \in Decision
       /\ job[r].token \in Nonce
       /\ shown[job[r].token] # None
       /\ Vetted(r)
       /\ <<"final.confirmed", r>> \in log
       /\ <<"apply.started", r>> \in log
  /\ core[r] \in {"copy", "recheck", "replace"} => shown[job[r].token] = Final(ContextOf(r))
  /\ core[r] \in {"recheck", "replace"} => recovery = Base

\* Two runs never wait to display the same token, and a displayed one is bound to
\* what was displayed.
TokenInv ==
  /\ \A q, r \in Run :
       pc[q] = "preview" /\ pc[r] = "preview" /\ job[q].token = job[r].token => q = r
  /\ \A n \in Nonce :
       shown[n] # None /\ capability[n] # None => shown[n] = Final(capability[n])

SessionInv ==
  session # None => \E r \in Run : <<ItemAction(session), r>> \in log

IInv ==
  /\ TypeOK
  /\ \A r \in Run : RunHolds(r) /\ CoreHolds(r)
  /\ TokenInv
  /\ SessionInv
  /\ OutcomesAreTrue

-------------------------------------------------------------------------------
TrueOutcome(r) ==
  /\ <<"apply.failed", r>> \in log => wrote[r] = None /\ core[r] \in {"rejected", "dead"}
  /\ ending[r] = "applied" => wrote[r] # None /\ <<"apply.succeeded", r>> \in log

LEMMA FinalIsBytes ==
  ASSUME NEW context \in Context
  PROVE  Final(context) \in Bytes /\ Final(context) # None
BY FlowAssumption DEF Context, Final, Bytes

LEMMA ContextIsTyped ==
  ASSUME NEW r \in Run, job[r] \in Job, job[r].decision \in Decision
  PROVE  ContextOf(r) \in Context
BY DEF ContextOf, Context, Job

\* A run that takes no step is not disturbed by what the others do to the files.
LEMMA OtherRunKeeps ==
  ASSUME IInv, NEW r \in Run,
         pc'[r] = pc[r], job'[r] = job[r], core'[r] = core[r],
         prior'[r] = prior[r], wrote'[r] = wrote[r], ending'[r] = ending[r],
         log \subseteq log', recovery' \in {recovery, Base},
         \A n \in Nonce : shown[n] # None => shown'[n] = shown[n],
         pc[r] = "preview" =>
           /\ shown'[job[r].token] = None
           /\ capability'[job[r].token] = capability[job[r].token]
  PROVE  RunHolds(r)' /\ CoreHolds(r)'
<1>1. RunHolds(r) /\ CoreHolds(r) /\ ContextOf(r)' = ContextOf(r)
  BY DEF IInv, ContextOf
<1>2. job[r] \in Job /\ job[r].token # None => job[r].token \in Nonce
  BY DEF Job
<1>3. Vetted(r)' <=> Vetted(r)
  BY <1>1 DEF Vetted
<1>4. RunHolds(r)'
  BY <1>1, <1>2, <1>3 DEF RunHolds, PC
<1>5. CoreHolds(r)'
  BY <1>1, <1>2, <1>3 DEF CoreHolds
<1>. QED
  BY <1>4, <1>5

\* A run starts with flags and, perhaps, a displayed token.
LEMMA ReadKeeps ==
  ASSUME IInv, NEW r \in Run, ReadProposal(r)
  PROVE  IInv'
<1>1. RunHolds(r) /\ CoreHolds(r) /\ TypeOK
  BY DEF IInv
<1>2. TypeOK'
  BY <1>1 DEF TypeOK, RunHolds, CoreHolds, Job, PC, Action, Ending, ReadProposal,
     GoTo, Stay, files
<1>3. \A q \in Run : q # r => RunHolds(q)' /\ CoreHolds(q)'
  <2>. SUFFICES ASSUME NEW q \in Run, q # r PROVE RunHolds(q)' /\ CoreHolds(q)'
    OBVIOUS
  <2>. QED
    BY <1>1, OtherRunKeeps DEF IInv, TypeOK, RunHolds, ReadProposal, GoTo, Stay, files
<1>4. RunHolds(r)'
  BY <1>1 DEF TypeOK, RunHolds, CoreHolds, Alone, Job, PC, Vetted, ContextOf,
     ReadProposal, GoTo, Stay, files
<1>5. CoreHolds(r)'
  BY <1>1 DEF TypeOK, RunHolds, CoreHolds, Alone, Job, Vetted, ContextOf,
     ReadProposal, GoTo, Stay, files
<1>6. TokenInv'
  BY <1>1 DEF IInv, TypeOK, TokenInv, ReadProposal, GoTo, Stay, files
<1>7. SessionInv'
  BY <1>1 DEF IInv, SessionInv, ReadProposal, GoTo, Stay, files
<1>8. OutcomesAreTrue'
  <2>1. ASSUME NEW q \in Run, q # r PROVE TrueOutcome(q)'
    BY <1>1 DEF IInv, TypeOK, OutcomesAreTrue, TrueOutcome, ReadProposal, GoTo,
       Stay, files
  <2>2. TrueOutcome(r)'
    BY <1>1 DEF IInv, TypeOK, OutcomesAreTrue, TrueOutcome, RunHolds, CoreHolds,
       Alone, ReadProposal, GoTo, Stay, files
  <2>. QED
    BY <2>1, <2>2 DEF OutcomesAreTrue, TrueOutcome
<1>. QED
  BY <1>2, <1>3, <1>4, <1>5, <1>6, <1>7, <1>8 DEF IInv

\* It takes its decisions from the session or from its flags.
LEMMA LoadKeeps ==
  ASSUME IInv, NEW r \in Run, LoadSession(r)
  PROVE  IInv'
<1>1. RunHolds(r) /\ CoreHolds(r) /\ TypeOK
  BY DEF IInv
<1>2. TypeOK'
  <2>1. UNCHANGED <<files, core, shown, wrote, raced>>
    BY DEF LoadSession
  <2>2. pc' \in [Run -> PC] /\ ending' \in [Run -> Ending \cup {None}]
    BY <1>1 DEF TypeOK, PC, Ending, LoadSession, Prepared, Finish, GoTo, Stay
  <2>3. job' \in [Run -> Job \cup {None}] /\ prior' \in [Run -> Bytes \cup {None}]
    BY <1>1 DEF TypeOK, RunHolds, Job, LoadSession, Finish, GoTo, Stay
  <2> QED
    BY <1>1, <2>1, <2>2, <2>3 DEF TypeOK, files
<1>3. \A q \in Run : q # r => RunHolds(q)' /\ CoreHolds(q)'
  <2>. SUFFICES ASSUME NEW q \in Run, q # r PROVE RunHolds(q)' /\ CoreHolds(q)'
    OBVIOUS
  <2>. QED
    BY <1>1, OtherRunKeeps DEF IInv, TypeOK, RunHolds, LoadSession, Prepared,
       Finish, GoTo, Stay, files
<1>4. RunHolds(r)'
  BY <1>1 DEF TypeOK, RunHolds, CoreHolds, Alone, Job, PC, Vetted, ContextOf,
     LoadSession, Prepared, Finish, GoTo, Stay, files
<1>5. CoreHolds(r)'
  BY <1>1 DEF TypeOK, RunHolds, CoreHolds, Alone, Job, Vetted, ContextOf,
     LoadSession, Prepared, Finish, GoTo, Stay, files
<1>6. TokenInv'
  BY <1>1 DEF IInv, TypeOK, TokenInv, LoadSession, Prepared, Finish, GoTo, Stay, files
<1>7. SessionInv'
  BY <1>1 DEF IInv, SessionInv, LoadSession, Prepared, Finish, GoTo, Stay, files
<1>8. OutcomesAreTrue'
  <2>1. ASSUME NEW q \in Run, q # r PROVE TrueOutcome(q)'
    BY <1>1 DEF IInv, TypeOK, OutcomesAreTrue, TrueOutcome, LoadSession, Prepared,
       Finish, GoTo, Stay, files
  <2>2. TrueOutcome(r)'
    BY <1>1 DEF IInv, TypeOK, OutcomesAreTrue, TrueOutcome, RunHolds, CoreHolds,
       Alone, LoadSession, Prepared, Finish, GoTo, Stay, files
  <2>. QED
    BY <2>1, <2>2 DEF OutcomesAreTrue, TrueOutcome
<1>. QED
  BY <1>2, <1>3, <1>4, <1>5, <1>6, <1>7, <1>8 DEF IInv

\* The decisions are recorded before they are saved.
LEMMA DecisionKeeps ==
  ASSUME IInv, NEW r \in Run, RecordDecision(r)
  PROVE  IInv'
<1>1. RunHolds(r) /\ CoreHolds(r) /\ TypeOK
  BY DEF IInv
<1>2. TypeOK'
  BY <1>1 DEF TypeOK, RunHolds, CoreHolds, Job, PC, Action, Ending, RecordDecision,
     Record, Finish, GoTo, Stay
<1>3. \A q \in Run : q # r => RunHolds(q)' /\ CoreHolds(q)'
  <2>. SUFFICES ASSUME NEW q \in Run, q # r PROVE RunHolds(q)' /\ CoreHolds(q)'
    OBVIOUS
  <2>. QED
    BY <1>1, OtherRunKeeps DEF IInv, TypeOK, RunHolds, RecordDecision, Record,
       Finish, GoTo, Stay
<1>4. RunHolds(r)'
  BY <1>1 DEF TypeOK, RunHolds, CoreHolds, Alone, Job, PC, ItemAction,
    RecordDecision, Record, Finish, GoTo, Stay
<1>5. CoreHolds(r)'
  BY <1>1 DEF TypeOK, RunHolds, CoreHolds, Alone, Job, Vetted, ContextOf,
     RecordDecision, Record, Finish, GoTo, Stay
<1>6. TokenInv'
  BY <1>1 DEF IInv, TypeOK, TokenInv, RecordDecision, Record, Finish, GoTo, Stay
<1>7. SessionInv'
  BY <1>1 DEF IInv, SessionInv, RecordDecision, Record, Finish, GoTo, Stay
<1>8. OutcomesAreTrue'
  <2>1. ASSUME NEW q \in Run, q # r PROVE TrueOutcome(q)'
    BY <1>1 DEF IInv, TypeOK, OutcomesAreTrue, TrueOutcome, RecordDecision, Record,
       Finish, GoTo, Stay
  <2>2. TrueOutcome(r)'
    BY <1>1 DEF IInv, TypeOK, OutcomesAreTrue, TrueOutcome, RunHolds, CoreHolds,
       Alone, RecordDecision, Record, Finish, GoTo, Stay
  <2>. QED
    BY <2>1, <2>2 DEF OutcomesAreTrue, TrueOutcome
<1>. QED
  BY <1>2, <1>3, <1>4, <1>5, <1>6, <1>7, <1>8 DEF IInv

\* The session holds only recorded decisions.
LEMMA SaveKeeps ==
  ASSUME IInv, NEW r \in Run, SaveSession(r)
  PROVE  IInv'
<1>1. RunHolds(r) /\ CoreHolds(r) /\ TypeOK
  BY DEF IInv
<1>2. TypeOK'
  BY <1>1 DEF TypeOK, RunHolds, CoreHolds, Job, PC, Action, Ending, SaveSession,
     Prepared, Finish, GoTo, Stay
<1>3. \A q \in Run : q # r => RunHolds(q)' /\ CoreHolds(q)'
  <2>. SUFFICES ASSUME NEW q \in Run, q # r PROVE RunHolds(q)' /\ CoreHolds(q)'
    OBVIOUS
  <2>. QED
    BY <1>1, OtherRunKeeps DEF IInv, TypeOK, RunHolds, SaveSession, Prepared,
       Finish, GoTo, Stay
<1>4. RunHolds(r)'
  BY <1>1 DEF TypeOK, RunHolds, CoreHolds, Alone, Job, PC, Vetted, ContextOf,
     SaveSession, Prepared, Finish, GoTo, Stay
<1>5. CoreHolds(r)'
  BY <1>1 DEF TypeOK, RunHolds, CoreHolds, Alone, Job, Vetted, ContextOf,
     SaveSession, Prepared, Finish, GoTo, Stay
<1>6. TokenInv'
  BY <1>1 DEF IInv, TypeOK, TokenInv, SaveSession, Prepared, Finish, GoTo, Stay
<1>7. SessionInv'
  BY <1>1 DEF IInv, SessionInv, RunHolds, SaveSession, Finish, GoTo, Stay
<1>8. OutcomesAreTrue'
  <2>1. ASSUME NEW q \in Run, q # r PROVE TrueOutcome(q)'
    BY <1>1 DEF IInv, TypeOK, OutcomesAreTrue, TrueOutcome, SaveSession, Prepared,
       Finish, GoTo, Stay
  <2>2. TrueOutcome(r)'
    BY <1>1 DEF IInv, TypeOK, OutcomesAreTrue, TrueOutcome, RunHolds, CoreHolds,
       Alone, SaveSession, Prepared, Finish, GoTo, Stay
  <2>. QED
    BY <2>1, <2>2 DEF OutcomesAreTrue, TrueOutcome
<1>. QED
  BY <1>2, <1>3, <1>4, <1>5, <1>6, <1>7, <1>8 DEF IInv

\* The candidate is the final set of the decisions.
LEMMA CandidateKeeps ==
  ASSUME IInv, NEW r \in Run, PrepareCandidate(r)
  PROVE  IInv'
<1>1. RunHolds(r) /\ CoreHolds(r) /\ TypeOK
  BY DEF IInv
<1>2. TypeOK'
  <2>1. Final(ContextOf(r)) \in Bytes
    BY <1>1, FinalIsBytes, ContextIsTyped DEF PrepareCandidate, RunHolds
  <2>. QED
    BY <1>1, <2>1 DEF TypeOK, Ending, RunHolds, Job, PC, PrepareCandidate, Finish,
       GoTo, Stay, files
<1>3. \A q \in Run : q # r => RunHolds(q)' /\ CoreHolds(q)'
  <2>. SUFFICES ASSUME NEW q \in Run, q # r PROVE RunHolds(q)' /\ CoreHolds(q)'
    OBVIOUS
  <2>. QED
    BY <1>1, OtherRunKeeps DEF IInv, TypeOK, RunHolds, PrepareCandidate, Finish,
       GoTo, Stay, files
<1>4. RunHolds(r)'
  <2>1. CASE pc'[r] = "validate"
    <3>1. job'[r] = [job[r] EXCEPT !.candidate = Final(ContextOf(r))] /\ job[r] \in Job
      BY <1>1, <2>1 DEF TypeOK, RunHolds, PrepareCandidate, Finish, GoTo
    <3>2. ContextOf(r)' = ContextOf(r) /\ job'[r].candidate = Final(ContextOf(r))
      BY <3>1 DEF ContextOf, Job
    <3>3. job'[r] \in Job /\ job'[r].token = job[r].token /\ job'[r].decision = job[r].decision
      BY <1>1, <3>1, FinalIsBytes, ContextIsTyped DEF PrepareCandidate, RunHolds, Job
    <3>4. ending' = ending
      BY <1>1, <2>1 DEF TypeOK, PrepareCandidate, Finish, GoTo, Stay
    <3>. QED
      BY <1>1, <2>1, <3>2, <3>3, <3>4 DEF RunHolds, Alone, PrepareCandidate, files
  <2>2. CASE pc'[r] = "ended"
    BY <1>1, <2>2 DEF TypeOK, RunHolds, Alone, PrepareCandidate
  <2>. QED
    BY <1>1, <2>1, <2>2 DEF TypeOK, PrepareCandidate, Finish, GoTo
<1>5. CoreHolds(r)'
  BY <1>1 DEF TypeOK, RunHolds, CoreHolds, Alone, Job, Vetted, ContextOf,
     PrepareCandidate, Finish, GoTo, Stay, files
<1>6. TokenInv'
  BY <1>1 DEF IInv, TypeOK, TokenInv, PrepareCandidate, Finish, GoTo, Stay, files
<1>7. SessionInv'
  BY <1>1 DEF IInv, SessionInv, PrepareCandidate, Finish, GoTo, Stay, files
<1>8. OutcomesAreTrue'
  <2>1. ASSUME NEW q \in Run, q # r PROVE TrueOutcome(q)'
    BY <1>1 DEF IInv, TypeOK, OutcomesAreTrue, TrueOutcome, PrepareCandidate,
       Finish, GoTo, Stay, files
  <2>2. TrueOutcome(r)'
    BY <1>1 DEF IInv, TypeOK, OutcomesAreTrue, TrueOutcome, RunHolds, CoreHolds,
       Alone, PrepareCandidate, Finish, GoTo, Stay, files
  <2>. QED
    BY <2>1, <2>2 DEF OutcomesAreTrue, TrueOutcome
<1>. QED
  BY <1>2, <1>3, <1>4, <1>5, <1>6, <1>7, <1>8 DEF IInv

\* A validator accepts this candidate or ends the run.
LEMMA ValidateKeeps ==
  ASSUME IInv, NEW r \in Run, Validate(r)
  PROVE  IInv'
<1>1. RunHolds(r) /\ CoreHolds(r) /\ TypeOK
  BY DEF IInv
<1>2. TypeOK'
  <2>1. CASE pc'[r] = "assemble"
    <3>1. job' = [job EXCEPT ![r].vetted = TRUE] /\ job[r] \in Job
      BY <1>1, <2>1 DEF TypeOK, RunHolds, Validate, Finish, GoTo
    <3>2. job' \in [Run -> Job \cup {None}]
      BY <1>1, <3>1 DEF TypeOK, Job
    <3>. QED
      BY <1>1, <2>1, <3>2 DEF TypeOK, PC, Validate, Finish, GoTo, Stay, files
  <2>2. CASE pc'[r] = "ended"
    BY <1>1, <2>2 DEF TypeOK, Ending, RunHolds, Job, PC, Validate, Finish, GoTo,
       Stay, files
  <2>. QED
    BY <1>1, <2>1, <2>2 DEF TypeOK, Validate, Finish, GoTo
<1>3. \A q \in Run : q # r => RunHolds(q)' /\ CoreHolds(q)'
  <2>. SUFFICES ASSUME NEW q \in Run, q # r PROVE RunHolds(q)' /\ CoreHolds(q)'
    OBVIOUS
  <2>. QED
    BY <1>1, OtherRunKeeps DEF IInv, TypeOK, RunHolds, Validate, Finish, GoTo, Stay,
       files
<1>4. RunHolds(r)'
  <2>1. CASE pc'[r] = "assemble"
    <3>1. job'[r] = [job[r] EXCEPT !.vetted = TRUE] /\ job[r] \in Job
      BY <1>1, <2>1 DEF TypeOK, RunHolds, Validate, Finish, GoTo
    <3>2. Vetted(r)'
      BY <1>1, <3>1 DEF RunHolds, Validate, Vetted, ContextOf, Job, Final
    <3>3. ending' = ending
      BY <1>1, <2>1 DEF TypeOK, Validate, Finish, GoTo, Stay
    <3>. QED
      BY <1>1, <1>2, <2>1, <3>1, <3>2, <3>3 DEF TypeOK, RunHolds, Alone, Job,
         Validate, files
  <2>2. CASE pc'[r] = "ended"
    BY <1>1, <2>2 DEF TypeOK, RunHolds, Alone, Validate
  <2>. QED
    BY <1>1, <2>1, <2>2 DEF TypeOK, Validate, Finish, GoTo
<1>5. CoreHolds(r)'
  BY <1>1 DEF TypeOK, RunHolds, CoreHolds, Alone, Job, Vetted, ContextOf, Validate,
     Finish, GoTo, Stay, files
<1>6. TokenInv'
  BY <1>1 DEF IInv, TypeOK, TokenInv, Validate, Finish, GoTo, Stay, files
<1>7. SessionInv'
  BY <1>1 DEF IInv, SessionInv, Validate, Finish, GoTo, Stay, files
<1>8. OutcomesAreTrue'
  <2>1. ASSUME NEW q \in Run, q # r PROVE TrueOutcome(q)'
    BY <1>1 DEF IInv, TypeOK, OutcomesAreTrue, TrueOutcome, Validate, Finish, GoTo,
       Stay, files
  <2>2. TrueOutcome(r)'
    BY <1>1 DEF IInv, TypeOK, OutcomesAreTrue, TrueOutcome, RunHolds, CoreHolds,
       Alone, Validate, Finish, GoTo, Stay, files
  <2>. QED
    BY <2>1, <2>2 DEF OutcomesAreTrue, TrueOutcome
<1>. QED
  BY <1>2, <1>3, <1>4, <1>5, <1>6, <1>7, <1>8 DEF IInv

\* The capability of a preview has a token nobody waits to display.
LEMMA AssembleKeeps ==
  ASSUME IInv, NEW r \in Run, Assemble(r)
  PROVE  IInv'
<1>1. RunHolds(r) /\ CoreHolds(r) /\ TypeOK
  BY DEF IInv
<1>2. TypeOK'
  <2>1. ContextOf(r) \in Context
    BY <1>1, ContextIsTyped DEF Assemble, RunHolds
  <2>. QED
    <3>1. UNCHANGED <<source, recovery, proposalFile, session, log, core, shown, wrote, raced>>
      BY DEF Assemble
    <3>2. pc' \in [Run -> PC] /\ ending' \in [Run -> Ending \cup {None}]
      BY <1>1 DEF TypeOK, PC, Ending, Assemble, Finish, GoTo, Stay
    <3>3. job' \in [Run -> Job \cup {None}] /\ prior' \in [Run -> Bytes \cup {None}]
      BY <1>1 DEF TypeOK, RunHolds, Job, Assemble, Finish, GoTo, Stay
    <3>4. capability' \in [Nonce -> Context \cup {None}]
      BY <1>1, <2>1 DEF TypeOK, Assemble
    <3>. QED
      BY <1>1, <3>1, <3>2, <3>3, <3>4 DEF TypeOK
<1>3. \A q \in Run : q # r => RunHolds(q)' /\ CoreHolds(q)'
  <2>. SUFFICES ASSUME NEW q \in Run, q # r PROVE RunHolds(q)' /\ CoreHolds(q)'
    OBVIOUS
  <2>1. RunHolds(q)
    BY DEF IInv
  <2>2. ASSUME pc[q] = "preview"
        PROVE  shown'[job[q].token] = None
               /\ capability'[job[q].token] = capability[job[q].token]
    <3>1. /\ capability[job[q].token] # None /\ shown[job[q].token] = None
          /\ job[q].token \in Nonce
      BY <2>1, <2>2, ContextIsTyped, NoneIsNoContext DEF RunHolds
    <3>. QED
      BY <1>1, <3>1 DEF TypeOK, Assemble
  <2>. QED
    BY <1>1, <2>2, OtherRunKeeps DEF TypeOK, Assemble, Finish, GoTo, Stay
<1>4. RunHolds(r)'
  BY <1>1 DEF TypeOK, RunHolds, CoreHolds, Alone, Job, PC, Vetted, ContextOf,
     Assemble, Finish, GoTo, Stay
<1>5. CoreHolds(r)'
  BY <1>1 DEF TypeOK, RunHolds, CoreHolds, Alone, Job, Vetted, ContextOf, Assemble,
     Finish, GoTo, Stay
<1>6. TokenInv'
  <2>1. \A n \in Nonce : (shown[n] # None /\ capability[n] # None => shown[n] = Final(capability[n]))'
    BY <1>1 DEF IInv, TypeOK, TokenInv, Assemble
  <2>2. ASSUME NEW p \in Run, NEW q \in Run, p # q,
               pc'[p] = "preview", pc'[q] = "preview", p # r
        PROVE  job'[p].token # job'[q].token
    <3>1. pc[p] = "preview" /\ RunHolds(p) /\ job'[p] = job[p]
      BY <1>1, <2>2 DEF IInv, TypeOK, Assemble, Finish, GoTo
    <3>2. capability[job[p].token] # None
      BY <3>1, ContextIsTyped, NoneIsNoContext DEF RunHolds
    <3>3. CASE q # r
      BY <1>1, <2>2, <3>1, <3>3 DEF IInv, TypeOK, TokenInv, Assemble, Finish, GoTo
    <3>4. CASE q = r
      <4>1. job[r] \in Job /\ job'[r].token \in Nonce /\ capability[job'[r].token] = None
        BY <1>1, <2>2, <3>4 DEF TypeOK, RunHolds, Assemble, Finish, GoTo, Job
      <4>. QED
        BY <3>1, <3>2, <3>4, <4>1
    <3>. QED
      BY <3>3, <3>4
  <2>. QED
    BY <2>1, <2>2 DEF TokenInv
<1>7. SessionInv'
  BY <1>1 DEF IInv, SessionInv, Assemble, Finish, GoTo, Stay
<1>8. OutcomesAreTrue'
  <2>1. ASSUME NEW q \in Run, q # r PROVE TrueOutcome(q)'
    BY <1>1 DEF IInv, TypeOK, OutcomesAreTrue, TrueOutcome, Assemble, Finish, GoTo, Stay
  <2>2. TrueOutcome(r)'
    BY <1>1 DEF IInv, TypeOK, OutcomesAreTrue, TrueOutcome, RunHolds, CoreHolds,
       Alone, Assemble, Finish, GoTo, Stay
  <2>. QED
    BY <2>1, <2>2 DEF OutcomesAreTrue, TrueOutcome
<1>. QED
  BY <1>2, <1>3, <1>4, <1>5, <1>6, <1>7, <1>8 DEF IInv

\* The token is displayed with the bytes its capability is bound to.
LEMMA PreviewKeeps ==
  ASSUME IInv, NEW r \in Run, Preview(r)
  PROVE  IInv'
<1>1. RunHolds(r) /\ CoreHolds(r) /\ TypeOK
  BY DEF IInv
<1>2. TypeOK'
  <2>1. Final(ContextOf(r)) \in Bytes
    BY <1>1, FinalIsBytes, ContextIsTyped DEF Preview, RunHolds
  <2>. QED
    BY <1>1, <2>1 DEF TypeOK, Ending, RunHolds, Job, PC, Action, Preview, Finish,
       GoTo, Stay
<1>3. \A q \in Run : q # r => RunHolds(q)' /\ CoreHolds(q)'
  <2>. SUFFICES ASSUME NEW q \in Run, q # r PROVE RunHolds(q)' /\ CoreHolds(q)'
    OBVIOUS
  <2>1. pc[q] = "preview" => job[q].token # job[r].token
    BY <1>1 DEF IInv, TokenInv, Preview
  <2>. QED
    BY <1>1, <2>1, OtherRunKeeps DEF IInv, TypeOK, RunHolds, Preview, Finish, GoTo, Stay
<1>4. RunHolds(r)'
  BY <1>1 DEF TypeOK, RunHolds, CoreHolds, Alone, Job, PC, Vetted, ContextOf,
     Preview, Finish, GoTo, Stay
<1>5. CoreHolds(r)'
  BY <1>1 DEF TypeOK, RunHolds, CoreHolds, Alone, Job, Vetted, ContextOf, Preview,
     Finish, GoTo, Stay
<1>6. TokenInv'
  <2>1. \A n \in Nonce : (shown[n] # None /\ capability[n] # None => shown[n] = Final(capability[n]))'
    BY <1>1 DEF IInv, TypeOK, TokenInv, RunHolds, Preview
  <2>2. \A q \in Run : pc'[q] = "preview" => q # r /\ pc[q] = "preview" /\ job'[q] = job[q]
    BY <1>1 DEF TypeOK, Preview, Finish, GoTo
  <2>. QED
    BY <2>1, <2>2 DEF IInv, TokenInv
<1>7. SessionInv'
  BY <1>1 DEF IInv, SessionInv, Preview, Finish, GoTo, Stay
<1>8. OutcomesAreTrue'
  <2>1. ASSUME NEW q \in Run, q # r PROVE TrueOutcome(q)'
    BY <1>1 DEF IInv, TypeOK, OutcomesAreTrue, TrueOutcome, Preview, Finish, GoTo, Stay
  <2>2. TrueOutcome(r)'
    BY <1>1 DEF IInv, TypeOK, OutcomesAreTrue, TrueOutcome, RunHolds, CoreHolds,
       Alone, Preview, Finish, GoTo, Stay
  <2>. QED
    BY <2>1, <2>2 DEF OutcomesAreTrue, TrueOutcome
<1>. QED
  BY <1>2, <1>3, <1>4, <1>5, <1>6, <1>7, <1>8 DEF IInv

\* The confirmation is recorded.
LEMMA ConfirmationKeeps ==
  ASSUME IInv, NEW r \in Run, RecordConfirmation(r)
  PROVE  IInv'
<1>1. RunHolds(r) /\ CoreHolds(r) /\ TypeOK
  BY DEF IInv
<1>2. TypeOK'
  BY <1>1 DEF TypeOK, RunHolds, CoreHolds, Job, PC, Action, Ending,
     RecordConfirmation, Record, Finish, GoTo, Stay
<1>3. \A q \in Run : q # r => RunHolds(q)' /\ CoreHolds(q)'
  <2>. SUFFICES ASSUME NEW q \in Run, q # r PROVE RunHolds(q)' /\ CoreHolds(q)'
    OBVIOUS
  <2>. QED
    BY <1>1, OtherRunKeeps DEF IInv, TypeOK, RunHolds, RecordConfirmation, Record,
       Finish, GoTo, Stay
<1>4. RunHolds(r)'
  BY <1>1 DEF TypeOK, RunHolds, CoreHolds, Alone, Job, PC, Vetted, ContextOf,
     RecordConfirmation, Record, Finish, GoTo, Stay
<1>5. CoreHolds(r)'
  BY <1>1 DEF TypeOK, RunHolds, CoreHolds, Alone, Job, Vetted, ContextOf,
     RecordConfirmation, Record, Finish, GoTo, Stay
<1>6. TokenInv'
  BY <1>1 DEF IInv, TypeOK, TokenInv, RecordConfirmation, Record, Finish, GoTo, Stay
<1>7. SessionInv'
  BY <1>1 DEF IInv, SessionInv, RecordConfirmation, Record, Finish, GoTo, Stay
<1>8. OutcomesAreTrue'
  <2>1. ASSUME NEW q \in Run, q # r PROVE TrueOutcome(q)'
    BY <1>1 DEF IInv, TypeOK, OutcomesAreTrue, TrueOutcome, RecordConfirmation,
       Record, Finish, GoTo, Stay
  <2>2. TrueOutcome(r)'
    BY <1>1 DEF IInv, TypeOK, OutcomesAreTrue, TrueOutcome, RunHolds, CoreHolds,
       Alone, RecordConfirmation, Record, Finish, GoTo, Stay
  <2>. QED
    BY <2>1, <2>2 DEF OutcomesAreTrue, TrueOutcome
<1>. QED
  BY <1>2, <1>3, <1>4, <1>5, <1>6, <1>7, <1>8 DEF IInv

\* A core is started once the start is on record.
LEMMA StartKeeps ==
  ASSUME IInv, NEW r \in Run, RecordStart(r)
  PROVE  IInv'
<1>1. RunHolds(r) /\ CoreHolds(r) /\ TypeOK
  BY DEF IInv
<1>2. TypeOK'
  BY <1>1 DEF TypeOK, RunHolds, CoreHolds, Job, PC, Action, Ending, RecordStart,
     Record, Finish, GoTo, Stay
<1>3. \A q \in Run : q # r => RunHolds(q)' /\ CoreHolds(q)'
  <2>. SUFFICES ASSUME NEW q \in Run, q # r PROVE RunHolds(q)' /\ CoreHolds(q)'
    OBVIOUS
  <2>. QED
    BY <1>1, OtherRunKeeps DEF IInv, TypeOK, RunHolds, RecordStart, Record, Finish,
       GoTo, Stay
<1>4. RunHolds(r)'
  BY <1>1 DEF TypeOK, RunHolds, CoreHolds, Alone, Job, PC, Vetted, ContextOf,
     RecordStart, Record, Finish, GoTo, Stay
<1>5. CoreHolds(r)'
  BY <1>1 DEF TypeOK, RunHolds, CoreHolds, Alone, Job, Vetted, ContextOf,
     RecordStart, Record, Finish, GoTo, Stay
<1>6. TokenInv'
  BY <1>1 DEF IInv, TypeOK, TokenInv, RecordStart, Record, Finish, GoTo, Stay
<1>7. SessionInv'
  BY <1>1 DEF IInv, SessionInv, RecordStart, Record, Finish, GoTo, Stay
<1>8. OutcomesAreTrue'
  <2>1. ASSUME NEW q \in Run, q # r PROVE TrueOutcome(q)'
    <3>1. TrueOutcome(q)
      BY DEF IInv, OutcomesAreTrue, TrueOutcome
    <3>2. core'[q] = core[q] /\ wrote'[q] = wrote[q] /\ ending'[q] = ending[q]
      BY <1>1, <2>1 DEF TypeOK, RecordStart, Record, Finish, GoTo, Stay
    <3>3. \A action : <<action, q>> \in log' <=> <<action, q>> \in log
      BY <2>1 DEF RecordStart, Record, Finish, GoTo, Stay
    <3>. QED
      BY <3>1, <3>2, <3>3 DEF TrueOutcome
  <2>2. TrueOutcome(r)'
    BY <1>1 DEF IInv, TypeOK, OutcomesAreTrue, TrueOutcome, RunHolds, CoreHolds,
       Alone, RecordStart, Record, Finish, GoTo, Stay
  <2>. QED
    BY <2>1, <2>2 DEF OutcomesAreTrue, TrueOutcome
<1>. QED
  BY <1>2, <1>3, <1>4, <1>5, <1>6, <1>7, <1>8 DEF IInv

\* The capability the core redeems is bound to what was displayed.
LEMMA RedeemKeeps ==
  ASSUME IInv, NEW r \in Run, CoreRedeem(r)
  PROVE  IInv'
<1>1. RunHolds(r) /\ CoreHolds(r) /\ TypeOK
  BY DEF IInv
<1>2. TypeOK'
  BY <1>1 DEF TypeOK, RunHolds, CoreHolds, Job, PC, Action, Ending, CoreRedeem,
     CoreStays, Race
<1>3. \A q \in Run : q # r => RunHolds(q)' /\ CoreHolds(q)'
  BY <1>1, OtherRunKeeps DEF IInv, TypeOK, RunHolds, CoreHolds, CoreRedeem, CoreStays
<1>4. RunHolds(r)'
  BY <1>1 DEF TypeOK, RunHolds, CoreHolds, Alone, Job, PC, Vetted, ContextOf,
     CoreRedeem, CoreStays, Race
<1>5. CoreHolds(r)'
  <2>1. ContextOf(r)' = ContextOf(r) /\ Vetted(r)' = Vetted(r)
    BY DEF CoreRedeem, CoreStays, ContextOf, Vetted
  <2>2. core'[r] = "copy" => shown[job[r].token] = Final(ContextOf(r))
    <3>. SUFFICES ASSUME core'[r] = "copy" PROVE shown[job[r].token] = Final(ContextOf(r))
      OBVIOUS
    <3>1. capability[job[r].token] = ContextOf(r)
      BY <1>1 DEF TypeOK, CoreRedeem
    <3>2. ContextOf(r) # None /\ job[r].token \in Nonce /\ shown[job[r].token] # None
      BY <1>1, ContextIsTyped, NoneIsNoContext DEF CoreHolds, CoreRedeem
    <3>. QED
      BY <3>1, <3>2 DEF IInv, TokenInv
  <2>. QED
    BY <1>1, <2>1, <2>2 DEF TypeOK, CoreHolds, CoreRedeem, CoreStays
<1>6. TokenInv'
  BY <1>1 DEF IInv, TypeOK, TokenInv, CoreRedeem, CoreStays, Race
<1>7. SessionInv'
  BY <1>1 DEF IInv, SessionInv, CoreRedeem, CoreStays, Race
<1>8. OutcomesAreTrue'
  <2>1. ASSUME NEW q \in Run, q # r PROVE TrueOutcome(q)'
    BY <1>1 DEF IInv, TypeOK, OutcomesAreTrue, TrueOutcome, CoreRedeem, CoreStays,
       Race
  <2>2. TrueOutcome(r)'
    BY <1>1 DEF IInv, TypeOK, OutcomesAreTrue, TrueOutcome, RunHolds, CoreHolds,
       Alone, CoreRedeem, CoreStays, Race
  <2>. QED
    BY <2>1, <2>2 DEF OutcomesAreTrue, TrueOutcome
<1>. QED
  BY <1>2, <1>3, <1>4, <1>5, <1>6, <1>7, <1>8 DEF IInv

\* The recovery copy holds the base.
LEMMA CopyKeeps ==
  ASSUME IInv, NEW r \in Run, CoreCopy(r)
  PROVE  IInv'
<1>1. RunHolds(r) /\ CoreHolds(r) /\ TypeOK
  BY DEF IInv
<1>2. TypeOK'
  <2>1. raced' \in [Run -> BOOLEAN]
    BY <1>1 DEF TypeOK, CoreCopy, Race
  <2>. QED
    BY <1>1, <2>1 DEF TypeOK, CoreCopy, CoreStays
<1>3. \A q \in Run : q # r => RunHolds(q)' /\ CoreHolds(q)'
  <2>. SUFFICES ASSUME NEW q \in Run, q # r PROVE RunHolds(q)' /\ CoreHolds(q)'
    OBVIOUS
  <2>. QED
    BY <1>1, OtherRunKeeps DEF IInv, TypeOK, RunHolds, CoreCopy, CoreStays, Race
<1>4. RunHolds(r)'
  BY <1>1 DEF TypeOK, RunHolds, CoreHolds, Alone, Job, PC, Vetted, ContextOf,
     CoreCopy, CoreStays, Race
<1>5. CoreHolds(r)'
  BY <1>1 DEF TypeOK, RunHolds, CoreHolds, Alone, Job, Vetted, ContextOf, CoreCopy,
     CoreStays, Race
<1>6. TokenInv'
  BY <1>1 DEF IInv, TypeOK, TokenInv, CoreCopy, CoreStays, Race
<1>7. SessionInv'
  BY <1>1 DEF IInv, SessionInv, CoreCopy, CoreStays, Race
<1>8. OutcomesAreTrue'
  <2>1. ASSUME NEW q \in Run, q # r PROVE TrueOutcome(q)'
    BY <1>1 DEF IInv, TypeOK, OutcomesAreTrue, TrueOutcome, CoreCopy, CoreStays,
       Race
  <2>2. TrueOutcome(r)'
    BY <1>1 DEF IInv, TypeOK, OutcomesAreTrue, TrueOutcome, RunHolds, CoreHolds,
       Alone, CoreCopy, CoreStays, Race
  <2>. QED
    BY <2>1, <2>2 DEF OutcomesAreTrue, TrueOutcome
<1>. QED
  BY <1>2, <1>3, <1>4, <1>5, <1>6, <1>7, <1>8 DEF IInv

\* The last look at the source changes none of the files.
LEMMA RecheckKeeps ==
  ASSUME IInv, NEW r \in Run, CoreRecheck(r)
  PROVE  IInv'
<1>1. RunHolds(r) /\ CoreHolds(r) /\ TypeOK
  BY DEF IInv
<1>2. TypeOK'
  <2>1. raced' \in [Run -> BOOLEAN]
    BY <1>1 DEF TypeOK, CoreRecheck, Race
  <2>. QED
    BY <1>1, <2>1 DEF TypeOK, CoreRecheck, CoreStays
<1>3. \A q \in Run : q # r => RunHolds(q)' /\ CoreHolds(q)'
  <2>. SUFFICES ASSUME NEW q \in Run, q # r PROVE RunHolds(q)' /\ CoreHolds(q)'
    OBVIOUS
  <2>. QED
    BY <1>1, OtherRunKeeps DEF IInv, TypeOK, RunHolds, CoreRecheck, CoreStays, Race
<1>4. RunHolds(r)'
  BY <1>1 DEF TypeOK, RunHolds, CoreHolds, Alone, Job, PC, Vetted, ContextOf,
     CoreRecheck, CoreStays, Race
<1>5. CoreHolds(r)'
  BY <1>1 DEF TypeOK, RunHolds, CoreHolds, Alone, Job, Vetted, ContextOf, CoreRecheck,
     CoreStays, Race
<1>6. TokenInv'
  BY <1>1 DEF IInv, TypeOK, TokenInv, CoreRecheck, CoreStays, Race
<1>7. SessionInv'
  BY <1>1 DEF IInv, SessionInv, CoreRecheck, CoreStays, Race
<1>8. OutcomesAreTrue'
  <2>1. ASSUME NEW q \in Run, q # r PROVE TrueOutcome(q)'
    BY <1>1 DEF IInv, TypeOK, OutcomesAreTrue, TrueOutcome, CoreRecheck, CoreStays,
       Race
  <2>2. TrueOutcome(r)'
    BY <1>1 DEF IInv, TypeOK, OutcomesAreTrue, TrueOutcome, RunHolds, CoreHolds,
       Alone, CoreRecheck, CoreStays, Race
  <2>. QED
    BY <2>1, <2>2 DEF OutcomesAreTrue, TrueOutcome
<1>. QED
  BY <1>2, <1>3, <1>4, <1>5, <1>6, <1>7, <1>8 DEF IInv

\* The core replaces the source, whatever it holds.
LEMMA ReplaceKeeps ==
  ASSUME IInv, NEW r \in Run, CoreReplace(r)
  PROVE  IInv'
<1>1. RunHolds(r) /\ CoreHolds(r) /\ TypeOK
  BY DEF IInv
<1>2. TypeOK'
  <2>1. raced' \in [Run -> BOOLEAN]
    BY <1>1 DEF TypeOK, CoreReplace, Race
  <2>2. Final(ContextOf(r)) \in Bytes
    BY <1>1, FinalIsBytes, ContextIsTyped DEF CoreReplace, CoreHolds
  <2>. QED
    BY <1>1, <2>1, <2>2 DEF TypeOK, CoreReplace, CoreStays
<1>3. \A q \in Run : q # r => RunHolds(q)' /\ CoreHolds(q)'
  <2>. SUFFICES ASSUME NEW q \in Run, q # r PROVE RunHolds(q)' /\ CoreHolds(q)'
    OBVIOUS
  <2>. QED
    BY <1>1, OtherRunKeeps DEF IInv, TypeOK, RunHolds, CoreReplace, CoreStays, Race
<1>4. RunHolds(r)'
  BY <1>1 DEF TypeOK, RunHolds, CoreHolds, Alone, Job, PC, Vetted, ContextOf,
     CoreReplace, CoreStays, Race
<1>5. CoreHolds(r)'
  <2>1. ContextOf(r)' = ContextOf(r) /\ Vetted(r)' = Vetted(r)
    BY DEF CoreReplace, CoreStays, ContextOf, Vetted
  <2>2. source # None
    BY <1>1, FlowAssumption DEF TypeOK
  <2>. QED
    BY <1>1, <2>1, <2>2 DEF TypeOK, CoreHolds, CoreReplace, CoreStays
<1>6. TokenInv'
  BY <1>1 DEF IInv, TypeOK, TokenInv, CoreReplace, CoreStays, Race
<1>7. SessionInv'
  BY <1>1 DEF IInv, SessionInv, CoreReplace, CoreStays, Race
<1>8. OutcomesAreTrue'
  <2>1. ASSUME NEW q \in Run, q # r PROVE TrueOutcome(q)'
    <3>1. TrueOutcome(q)
      BY DEF IInv, OutcomesAreTrue, TrueOutcome
    <3>2. core'[q] = core[q] /\ wrote'[q] = wrote[q] /\ ending'[q] = ending[q]
      BY <1>1, <2>1 DEF TypeOK, CoreReplace, CoreStays
    <3>3. \A action : <<action, q>> \in log' <=> <<action, q>> \in log
      BY <2>1 DEF CoreReplace, CoreStays
    <3>. QED
      BY <3>1, <3>2, <3>3 DEF TrueOutcome
  <2>2. TrueOutcome(r)'
    BY <1>1, FlowAssumption DEF IInv, TypeOK, OutcomesAreTrue, TrueOutcome,
       CoreReplace, CoreStays
  <2>. QED
    BY <2>1, <2>2 DEF OutcomesAreTrue, TrueOutcome
<1>. QED
  BY <1>2, <1>3, <1>4, <1>5, <1>6, <1>7, <1>8 DEF IInv

\* A core that fails or dies before the rename wrote nothing.
LEMMA FailKeeps ==
  ASSUME IInv, NEW r \in Run, CoreFails(r)
  PROVE  IInv'
<1>1. RunHolds(r) /\ CoreHolds(r) /\ TypeOK
  BY DEF IInv
<1>2. TypeOK'
  BY <1>1 DEF TypeOK, RunHolds, CoreHolds, Job, PC, Action, Ending, CoreFails,
     CoreStays, Race
<1>3. \A q \in Run : q # r => RunHolds(q)' /\ CoreHolds(q)'
  <2>. SUFFICES ASSUME NEW q \in Run, q # r PROVE RunHolds(q)' /\ CoreHolds(q)'
    OBVIOUS
  <2>. QED
    BY <1>1, OtherRunKeeps DEF IInv, TypeOK, RunHolds, CoreFails, CoreStays, Race
<1>4. RunHolds(r)'
  BY <1>1 DEF TypeOK, RunHolds, CoreHolds, Alone, Job, PC, Vetted, ContextOf,
     CoreFails, CoreStays, Race
<1>5. CoreHolds(r)'
  BY <1>1 DEF TypeOK, RunHolds, CoreHolds, Alone, Job, Vetted, ContextOf, CoreFails,
     CoreStays, Race
<1>6. TokenInv'
  BY <1>1 DEF IInv, TypeOK, TokenInv, CoreFails, CoreStays, Race
<1>7. SessionInv'
  BY <1>1 DEF IInv, SessionInv, CoreFails, CoreStays, Race
<1>8. OutcomesAreTrue'
  <2>1. ASSUME NEW q \in Run, q # r PROVE TrueOutcome(q)'
    BY <1>1 DEF IInv, TypeOK, OutcomesAreTrue, TrueOutcome, CoreFails, CoreStays,
       Race
  <2>2. TrueOutcome(r)'
    BY <1>1 DEF IInv, TypeOK, OutcomesAreTrue, TrueOutcome, RunHolds, CoreHolds,
       Alone, CoreFails, CoreStays, Race
  <2>. QED
    BY <2>1, <2>2 DEF OutcomesAreTrue, TrueOutcome
<1>. QED
  BY <1>2, <1>3, <1>4, <1>5, <1>6, <1>7, <1>8 DEF IInv

\* Only a core that wrote is recorded as successful.
LEMMA SuccessKeeps ==
  ASSUME IInv, NEW r \in Run, RecordSuccess(r)
  PROVE  IInv'
<1>1. RunHolds(r) /\ CoreHolds(r) /\ TypeOK
  BY DEF IInv
<1>2. TypeOK'
  BY <1>1 DEF TypeOK, RunHolds, CoreHolds, Job, PC, Action, Ending, RecordSuccess,
     Finish, GoTo, Stay
<1>3. \A q \in Run : q # r => RunHolds(q)' /\ CoreHolds(q)'
  <2>. SUFFICES ASSUME NEW q \in Run, q # r PROVE RunHolds(q)' /\ CoreHolds(q)'
    OBVIOUS
  <2>. QED
    BY <1>1, OtherRunKeeps DEF IInv, TypeOK, RunHolds, RecordSuccess, Finish, GoTo, Stay
<1>4. RunHolds(r)'
  BY <1>1 DEF TypeOK, RunHolds, CoreHolds, Alone, Job, PC, Vetted, ContextOf,
     RecordSuccess, Finish, GoTo, Stay
<1>5. CoreHolds(r)'
  BY <1>1 DEF TypeOK, RunHolds, CoreHolds, Alone, Job, Vetted, ContextOf,
     RecordSuccess, Finish, GoTo, Stay
<1>6. TokenInv'
  BY <1>1 DEF IInv, TypeOK, TokenInv, RecordSuccess, Finish, GoTo, Stay
<1>7. SessionInv'
  BY <1>1 DEF IInv, SessionInv, RecordSuccess, Finish, GoTo, Stay
<1>8. OutcomesAreTrue'
  <2>1. ASSUME NEW q \in Run, q # r PROVE TrueOutcome(q)'
    <3>1. TrueOutcome(q)
      BY DEF IInv, OutcomesAreTrue, TrueOutcome
    <3>2. core'[q] = core[q] /\ wrote'[q] = wrote[q] /\ ending'[q] = ending[q]
      BY <1>1, <2>1 DEF TypeOK, RecordSuccess, Finish, GoTo, Stay
    <3>3. \A action : <<action, q>> \in log' <=> <<action, q>> \in log
      BY <2>1 DEF RecordSuccess, Finish, GoTo, Stay
    <3>. QED
      BY <3>1, <3>2, <3>3 DEF TrueOutcome
  <2>2. TrueOutcome(r)'
    BY <1>1 DEF IInv, TypeOK, OutcomesAreTrue, TrueOutcome, RunHolds, CoreHolds,
       Alone, RecordSuccess, Finish, GoTo, Stay
  <2>. QED
    BY <2>1, <2>2 DEF OutcomesAreTrue, TrueOutcome
<1>. QED
  BY <1>2, <1>3, <1>4, <1>5, <1>6, <1>7, <1>8 DEF IInv

\* Only a core that wrote nothing is recorded as failed.
LEMMA FailureKeeps ==
  ASSUME IInv, NEW r \in Run, RecordFailure(r)
  PROVE  IInv'
<1>1. RunHolds(r) /\ CoreHolds(r) /\ TypeOK
  BY DEF IInv
<1>2. TypeOK'
  BY <1>1 DEF TypeOK, RunHolds, CoreHolds, Job, PC, Action, Ending, RecordFailure,
     Finish, GoTo, Stay
<1>3. \A q \in Run : q # r => RunHolds(q)' /\ CoreHolds(q)'
  <2>. SUFFICES ASSUME NEW q \in Run, q # r PROVE RunHolds(q)' /\ CoreHolds(q)'
    OBVIOUS
  <2>. QED
    BY <1>1, OtherRunKeeps DEF IInv, TypeOK, RunHolds, RecordFailure, Finish, GoTo, Stay
<1>4. RunHolds(r)'
  BY <1>1 DEF TypeOK, RunHolds, CoreHolds, Alone, Job, PC, Vetted, ContextOf,
     RecordFailure, Finish, GoTo, Stay
<1>5. CoreHolds(r)'
  BY <1>1 DEF TypeOK, RunHolds, CoreHolds, Alone, Job, Vetted, ContextOf,
     RecordFailure, Finish, GoTo, Stay
<1>6. TokenInv'
  BY <1>1 DEF IInv, TypeOK, TokenInv, RecordFailure, Finish, GoTo, Stay
<1>7. SessionInv'
  BY <1>1 DEF IInv, SessionInv, RecordFailure, Finish, GoTo, Stay
<1>8. OutcomesAreTrue'
  <2>1. ASSUME NEW q \in Run, q # r PROVE TrueOutcome(q)'
    <3>1. TrueOutcome(q)
      BY DEF IInv, OutcomesAreTrue, TrueOutcome
    <3>2. core'[q] = core[q] /\ wrote'[q] = wrote[q] /\ ending'[q] = ending[q]
      BY <1>1, <2>1 DEF TypeOK, RecordFailure, Finish, GoTo, Stay
    <3>3. \A action : <<action, q>> \in log' <=> <<action, q>> \in log
      BY <2>1 DEF RecordFailure, Finish, GoTo, Stay
    <3>. QED
      BY <3>1, <3>2, <3>3 DEF TrueOutcome
  <2>2. TrueOutcome(r)'
    BY <1>1 DEF IInv, TypeOK, OutcomesAreTrue, TrueOutcome, RunHolds, CoreHolds,
       Alone, RecordFailure, Finish, GoTo, Stay
  <2>. QED
    BY <2>1, <2>2 DEF OutcomesAreTrue, TrueOutcome
<1>. QED
  BY <1>2, <1>3, <1>4, <1>5, <1>6, <1>7, <1>8 DEF IInv

\* A killed core leaves no outcome.
LEMMA TimeoutKeeps ==
  ASSUME IInv, NEW r \in Run, Timeout(r)
  PROVE  IInv'
<1>1. RunHolds(r) /\ CoreHolds(r) /\ TypeOK
  BY DEF IInv
<1>2. TypeOK'
  BY <1>1 DEF TypeOK, RunHolds, CoreHolds, Job, PC, Action, Ending, Timeout, Finish,
     GoTo, Stay, files
<1>3. \A q \in Run : q # r => RunHolds(q)' /\ CoreHolds(q)'
  <2>. SUFFICES ASSUME NEW q \in Run, q # r PROVE RunHolds(q)' /\ CoreHolds(q)'
    OBVIOUS
  <2>. QED
    BY <1>1, OtherRunKeeps DEF IInv, TypeOK, RunHolds, Timeout, Finish, GoTo, Stay,
       files
<1>4. RunHolds(r)'
  BY <1>1 DEF TypeOK, RunHolds, CoreHolds, Alone, Job, PC, Vetted, ContextOf,
     Timeout, Finish, GoTo, Stay, files
<1>5. CoreHolds(r)'
  BY <1>1 DEF TypeOK, RunHolds, CoreHolds, Alone, Job, Vetted, ContextOf, Timeout,
     Finish, GoTo, Stay, files
<1>6. TokenInv'
  BY <1>1 DEF IInv, TypeOK, TokenInv, Timeout, Finish, GoTo, Stay, files
<1>7. SessionInv'
  BY <1>1 DEF IInv, SessionInv, Timeout, Finish, GoTo, Stay, files
<1>8. OutcomesAreTrue'
  <2>1. ASSUME NEW q \in Run, q # r PROVE TrueOutcome(q)'
    BY <1>1 DEF IInv, TypeOK, OutcomesAreTrue, TrueOutcome, Timeout, Finish, GoTo,
       Stay, files
  <2>2. TrueOutcome(r)'
    BY <1>1 DEF IInv, TypeOK, OutcomesAreTrue, TrueOutcome, RunHolds, CoreHolds,
       Alone, Timeout, Finish, GoTo, Stay, files
  <2>. QED
    BY <2>1, <2>2 DEF OutcomesAreTrue, TrueOutcome
<1>. QED
  BY <1>2, <1>3, <1>4, <1>5, <1>6, <1>7, <1>8 DEF IInv

\* A rollback reads the base.
LEMMA ReadRecoveryKeeps ==
  ASSUME IInv, NEW r \in Run, ReadRecovery(r)
  PROVE  IInv'
<1>1. RunHolds(r) /\ CoreHolds(r) /\ TypeOK
  BY DEF IInv
<1>2. TypeOK'
  BY <1>1 DEF TypeOK, RunHolds, CoreHolds, Job, PC, Action, Ending, ReadRecovery,
     GoTo, files
<1>3. \A q \in Run : q # r => RunHolds(q)' /\ CoreHolds(q)'
  <2>. SUFFICES ASSUME NEW q \in Run, q # r PROVE RunHolds(q)' /\ CoreHolds(q)'
    OBVIOUS
  <2>. QED
    BY <1>1, OtherRunKeeps DEF IInv, TypeOK, RunHolds, ReadRecovery, GoTo, files
<1>4. RunHolds(r)'
  BY <1>1 DEF TypeOK, RunHolds, CoreHolds, Alone, Job, PC, Vetted, ContextOf,
     ReadRecovery, GoTo, files
<1>5. CoreHolds(r)'
  BY <1>1 DEF TypeOK, RunHolds, CoreHolds, Alone, Job, Vetted, ContextOf,
     ReadRecovery, GoTo, files
<1>6. TokenInv'
  BY <1>1 DEF IInv, TypeOK, TokenInv, ReadRecovery, GoTo, files
<1>7. SessionInv'
  BY <1>1 DEF IInv, SessionInv, ReadRecovery, GoTo, files
<1>8. OutcomesAreTrue'
  <2>1. ASSUME NEW q \in Run, q # r PROVE TrueOutcome(q)'
    BY <1>1 DEF IInv, TypeOK, OutcomesAreTrue, TrueOutcome, ReadRecovery, GoTo, files
  <2>2. TrueOutcome(r)'
    BY <1>1 DEF IInv, TypeOK, OutcomesAreTrue, TrueOutcome, RunHolds, CoreHolds,
       Alone, ReadRecovery, GoTo, files
  <2>. QED
    BY <2>1, <2>2 DEF OutcomesAreTrue, TrueOutcome
<1>. QED
  BY <1>2, <1>3, <1>4, <1>5, <1>6, <1>7, <1>8 DEF IInv

\* A rollback ends the run.
LEMMA RenameRecoveryKeeps ==
  ASSUME IInv, NEW r \in Run, RenameRecovery(r)
  PROVE  IInv'
<1>1. RunHolds(r) /\ CoreHolds(r) /\ TypeOK
  BY DEF IInv
<1>2. TypeOK'
  <2>1. raced' \in [Run -> BOOLEAN]
    BY <1>1 DEF TypeOK, RenameRecovery, Race
  <2>2. pc' \in [Run -> PC] /\ prior' \in [Run -> Bytes \cup {None}] /\ source' \in Bytes
    BY <1>1, FlowAssumption DEF TypeOK, RunHolds, RenameRecovery, Finish, GoTo, PC,
       Bytes
  <2>3. job' \in [Run -> Job \cup {None}]
    BY <1>1 DEF TypeOK, RenameRecovery, Finish
  <2>. QED
    BY <1>1, <2>1, <2>2, <2>3 DEF TypeOK, Ending, RenameRecovery, Finish
<1>3. \A q \in Run : q # r => RunHolds(q)' /\ CoreHolds(q)'
  <2>. SUFFICES ASSUME NEW q \in Run, q # r PROVE RunHolds(q)' /\ CoreHolds(q)'
    OBVIOUS
  <2>. QED
    BY <1>1, OtherRunKeeps DEF IInv, TypeOK, RunHolds, RenameRecovery, Race,
       Finish, GoTo
<1>4. RunHolds(r)'
  BY <1>1 DEF TypeOK, RunHolds, CoreHolds, Alone, Job, PC, Vetted, ContextOf,
     RenameRecovery, Race, Finish, GoTo
<1>5. CoreHolds(r)'
  BY <1>1 DEF TypeOK, RunHolds, CoreHolds, Alone, Job, Vetted, ContextOf,
     RenameRecovery, Race, Finish, GoTo
<1>6. TokenInv'
  BY <1>1 DEF IInv, TypeOK, TokenInv, RenameRecovery, Race, Finish, GoTo
<1>7. SessionInv'
  BY <1>1 DEF IInv, SessionInv, RenameRecovery, Race, Finish, GoTo
<1>8. OutcomesAreTrue'
  <2>1. ASSUME NEW q \in Run, q # r PROVE TrueOutcome(q)'
    BY <1>1 DEF IInv, TypeOK, OutcomesAreTrue, TrueOutcome, RenameRecovery,
       Race, Finish, GoTo
  <2>2. TrueOutcome(r)'
    BY <1>1 DEF IInv, TypeOK, OutcomesAreTrue, TrueOutcome, RunHolds, CoreHolds,
       Alone, RenameRecovery, Race, Finish, GoTo
  <2>. QED
    BY <2>1, <2>2 DEF OutcomesAreTrue, TrueOutcome
<1>. QED
  BY <1>2, <1>3, <1>4, <1>5, <1>6, <1>7, <1>8 DEF IInv

\* A killed run leaves its core behind.
LEMMA KillKeeps ==
  ASSUME IInv, NEW r \in Run, Kill(r)
  PROVE  IInv'
<1>1. RunHolds(r) /\ CoreHolds(r) /\ TypeOK
  BY DEF IInv
<1>2. TypeOK'
  BY <1>1 DEF TypeOK, RunHolds, CoreHolds, Job, PC, Action, Ending, Kill, Finish,
     GoTo, Stay, files
<1>3. \A q \in Run : q # r => RunHolds(q)' /\ CoreHolds(q)'
  <2>. SUFFICES ASSUME NEW q \in Run, q # r PROVE RunHolds(q)' /\ CoreHolds(q)'
    OBVIOUS
  <2>. QED
    BY <1>1, OtherRunKeeps DEF IInv, TypeOK, RunHolds, Kill, Finish, GoTo, Stay, files
<1>4. RunHolds(r)'
  BY <1>1 DEF TypeOK, RunHolds, CoreHolds, Alone, Job, PC, Vetted, ContextOf, Kill,
     Finish, GoTo, Stay, files
<1>5. CoreHolds(r)'
  BY <1>1 DEF TypeOK, RunHolds, CoreHolds, Alone, Job, Vetted, ContextOf, Kill,
     Finish, GoTo, Stay, files
<1>6. TokenInv'
  BY <1>1 DEF IInv, TypeOK, TokenInv, Kill, Finish, GoTo, Stay, files
<1>7. SessionInv'
  BY <1>1 DEF IInv, SessionInv, Kill, Finish, GoTo, Stay, files
<1>8. OutcomesAreTrue'
  <2>1. ASSUME NEW q \in Run, q # r PROVE TrueOutcome(q)'
    BY <1>1 DEF IInv, TypeOK, OutcomesAreTrue, TrueOutcome, Kill, Finish, GoTo,
       Stay, files
  <2>2. TrueOutcome(r)'
    BY <1>1 DEF IInv, TypeOK, OutcomesAreTrue, TrueOutcome, RunHolds, CoreHolds,
       Alone, Kill, Finish, GoTo, Stay, files
  <2>. QED
    BY <2>1, <2>2 DEF OutcomesAreTrue, TrueOutcome
<1>. QED
  BY <1>2, <1>3, <1>4, <1>5, <1>6, <1>7, <1>8 DEF IInv

-------------------------------------------------------------------------------
\* The world: editors touch neither runs nor tokens, and an expired capability
\* cannot be redeemed.
LEMMA WorldKeeps ==
  ASSUME IInv, EditSource \/ EditProposal \/ \E n \in Nonce : Expire(n)
  PROVE  IInv'
<1>1. TypeOK'
  <2>1. CASE EditSource
    BY <2>1 DEF IInv, TypeOK, EditSource, Race, Bytes
  <2>2. CASE EditProposal \/ \E n \in Nonce : Expire(n)
    BY <2>2 DEF IInv, TypeOK, EditProposal, Expire
  <2>. QED
    BY <2>1, <2>2
<1>2. \A r \in Run : RunHolds(r)' /\ CoreHolds(r)'
  <2>1. CASE EditSource \/ EditProposal
    <3>1. UNCHANGED <<recovery, capability, log, pc, job, core, prior, shown, wrote, ending>>
      BY <2>1 DEF EditSource, EditProposal
    <3> QED
      BY <3>1, OtherRunKeeps DEF IInv, RunHolds
  <2>2. CASE \E n \in Nonce : Expire(n)
    <3>1. PICK n \in Nonce : Expire(n)
      BY <2>2
    <3>2. UNCHANGED <<recovery, log, pc, job, core, prior, shown, wrote, ending>>
      BY <3>1 DEF Expire
    <3>3. \A m \in Nonce : shown[m] = None => capability'[m] = capability[m]
      BY <3>1 DEF Expire, IInv, TypeOK
    <3>4. \A r \in Run : pc[r] = "preview" =>
            job[r].token \in Nonce /\ shown[job[r].token] = None
      BY DEF IInv, RunHolds
    <3> QED
      BY <3>2, <3>3, <3>4, OtherRunKeeps
  <2> QED
    BY <2>1, <2>2
<1>3. TokenInv'
  BY DEF IInv, TypeOK, TokenInv, EditSource, EditProposal, Expire
<1>4. SessionInv' /\ OutcomesAreTrue'
  BY DEF IInv, SessionInv, OutcomesAreTrue, EditSource, EditProposal, Expire
<1>. QED
  BY <1>1, <1>2, <1>3, <1>4 DEF IInv

LEMMA IInvInit == Init => IInv
<1>. SUFFICES ASSUME Init PROVE IInv
  OBVIOUS
<1>1. TypeOK
  BY DEF Init, TypeOK, Bytes, PC, Ending
<1>2. \A r \in Run : RunHolds(r) /\ CoreHolds(r)
  BY DEF Init, RunHolds, CoreHolds, Alone
<1>. QED
  BY <1>1, <1>2, FlowAssumption DEF Init, IInv, TokenInv, SessionInv,
     OutcomesAreTrue, Ending

LEMMA IInvNext == IInv /\ [Next]_vars => IInv'
<1>. SUFFICES ASSUME IInv, [Next]_vars PROVE IInv'
  OBVIOUS
<1>1. ASSUME NEW r \in Run, Command(r) PROVE IInv'
  BY <1>1, LoadKeeps, DecisionKeeps, SaveKeeps, CandidateKeeps, ValidateKeeps,
     AssembleKeeps, PreviewKeeps, ConfirmationKeeps, StartKeeps, SuccessKeeps,
     FailureKeeps, TimeoutKeeps, ReadRecoveryKeeps, RenameRecoveryKeeps DEF Command
<1>2. ASSUME NEW r \in Run, Core(r) PROVE IInv'
  BY <1>2, RedeemKeeps, CopyKeeps, RecheckKeeps, ReplaceKeeps, FailKeeps DEF Core
<1>3. ASSUME NEW r \in Run, ReadProposal(r) \/ Kill(r) PROVE IInv'
  BY <1>3, ReadKeeps, KillKeeps
<1>4. CASE EditSource \/ EditProposal \/ \E n \in Nonce : Expire(n)
  BY <1>4, WorldKeeps
<1>5. CASE UNCHANGED vars
  <2>1. TypeOK'
    BY <1>5 DEF vars, files, IInv, TypeOK
  <2>2. \A r \in Run : RunHolds(r)' /\ CoreHolds(r)'
    BY <1>5, OtherRunKeeps DEF vars, files, IInv, RunHolds
  <2>3. TokenInv' /\ SessionInv' /\ OutcomesAreTrue'
    BY <1>5 DEF vars, files, IInv, TokenInv, SessionInv, OutcomesAreTrue
  <2>. QED
    BY <2>1, <2>2, <2>3 DEF IInv
<1>. QED
  BY <1>1, <1>2, <1>3, <1>4, <1>5 DEF Next

\* The inductive invariant of the command, for any number of runs and tokens.
THEOREM FlowInvariant == Spec => []IInv
BY IInvInit, IInvNext, PTL DEF Spec

\* The state of the command keeps its types (main.go executeApply).
THEOREM FlowTypeCorrect == Spec => []TypeOK
<1>1. IInv => TypeOK
  BY DEF IInv
<1>. QED
  BY <1>1, FlowInvariant, PTL

\* No stored decision and no replacement is missing from the audit log (FR-026b).
THEOREM AuthorityIsAuditedHolds == Spec => []AuthorityIsAudited
<1>1. IInv => AuthorityIsAudited
  <2>. SUFFICES ASSUME IInv PROVE AuthorityIsAudited
    OBVIOUS
  <2>1. \A r \in Run : wrote[r] # None => core[r] # "none"
    BY DEF IInv, CoreHolds
  <2>. QED
    BY <2>1 DEF IInv, SessionInv, ItemAction, CoreHolds, AuthorityIsAudited
<1>. QED
  BY <1>1, FlowInvariant, PTL

\* Recorded outcomes are true and reported successes recorded.
THEOREM OutcomesAreTrueHolds == Spec => []OutcomesAreTrue
<1>1. IInv => OutcomesAreTrue
  BY DEF IInv
<1>. QED
  BY <1>1, FlowInvariant, PTL

\* Only the core of a run takes the step that its replacement is.
LEMMA OnlyReplaceWrites ==
  ASSUME IInv, [Next]_vars, NEW r \in Run, core[r] = "replace", core'[r] = "done"
  PROVE  CoreReplace(r) /\ source' = Final(ContextOf(r))
<1>1. CoreHolds(r) /\ RunHolds(r) /\ TypeOK
  BY DEF IInv
<1>2. ASSUME NEW q \in Run, Core(q) PROVE CoreReplace(r)
  BY <1>1, <1>2 DEF TypeOK, Core, CoreRedeem, CoreCopy, CoreRecheck, CoreReplace, CoreFails
<1>3. ASSUME NEW q \in Run, ReadProposal(q) \/ Command(q) \/ Kill(q) PROVE FALSE
  BY <1>1, <1>3 DEF TypeOK, RunHolds, Alone, Command, ReadProposal, Kill, LoadSession,
     RecordDecision, SaveSession, PrepareCandidate, Validate, Assemble, Preview,
     RecordConfirmation, RecordStart, RecordSuccess, RecordFailure, Timeout, ReadRecovery,
     RenameRecovery
<1>4. CASE EditSource \/ EditProposal \/ (\E n \in Nonce : Expire(n)) \/ UNCHANGED vars
  BY <1>4 DEF EditSource, EditProposal, Expire, vars
<1>5. CoreReplace(r)
  BY <1>2, <1>3, <1>4 DEF Next
<1>. QED
  BY <1>1, <1>5 DEF TypeOK, CoreReplace

\* What a core writes is what the preview of its token displayed (FR-019).
THEOREM WrittenAsShownHolds == Spec => WrittenAsShown
<1>1. IInv /\ [Next]_vars =>
        [\A r \in Run : core[r] = "replace" /\ core'[r] = "done" =>
           shown[job[r].token] = source']_vars
  BY OnlyReplaceWrites DEF IInv, CoreHolds
<1>. QED
  BY <1>1, FlowInvariant, PTL DEF Spec, WrittenAsShown

\* A run that asks validators writes only what they accepted (FR-020).
THEOREM ValidatedIsWrittenHolds == Spec => ValidatedIsWritten
<1>1. IInv /\ [Next]_vars =>
        [\A r \in Run :
           core[r] = "replace" /\ core'[r] = "done" /\ job[r].checks = "passed" =>
             job[r].vetted /\ job[r].candidate = source']_vars
  BY OnlyReplaceWrites DEF IInv, CoreHolds, Vetted
<1>. QED
  BY <1>1, FlowInvariant, PTL DEF Spec, ValidatedIsWritten

\* What a core that was not raced replaces are the bytes of its recovery copy.
RaceInv ==
  \A r \in Run : ~raced[r] =>
    /\ core[r] = "replace" => source = Base
    /\ wrote[r] # None => wrote[r] = Base

\* A step that writes the source marks every other core that is about to.
LEMMA RaceNext ==
  ASSUME IInv, RaceInv, [Next]_vars
  PROVE  RaceInv'
<1>1. TypeOK /\ \A r \in Run : CoreHolds(r)
  BY DEF IInv
<1>2. ASSUME NEW q \in Run, ReadProposal(q) \/ Command(q) \/ Kill(q), ~RenameRecovery(q)
      PROVE  RaceInv'
  <2>1. UNCHANGED <<source, wrote, raced>>
    BY <1>2 DEF Command, ReadProposal, Kill, LoadSession, RecordDecision, SaveSession,
       PrepareCandidate, Validate, Assemble, Preview, RecordConfirmation, RecordStart,
       RecordSuccess, RecordFailure, Timeout, ReadRecovery, files
  <2>2. core' = core \/ core' = [core EXCEPT ![q] = "redeem"] \/ core' = [core EXCEPT ![q] = "dead"]
    BY <1>2 DEF Command, ReadProposal, Kill, LoadSession, RecordDecision, SaveSession,
       PrepareCandidate, Validate, Assemble, Preview, RecordConfirmation, RecordStart,
       RecordSuccess, RecordFailure, Timeout, ReadRecovery
  <2>. QED
    BY <1>1, <2>1, <2>2 DEF TypeOK, RaceInv
<1>3. ASSUME NEW q \in Run, RenameRecovery(q) PROVE RaceInv'
  <2>1. UNCHANGED <<core, wrote>>
    BY <1>3 DEF RenameRecovery
  <2>2. Race(Run) \/ UNCHANGED <<source, raced>>
    BY <1>3 DEF RenameRecovery
  <2>. QED
    BY <1>1, <2>1, <2>2 DEF RaceInv, Race
<1>4. ASSUME NEW q \in Run, CoreReplace(q) PROVE RaceInv'
  <2>1. /\ core[q] = "replace" /\ wrote' = [wrote EXCEPT ![q] = source]
        /\ core' = [core EXCEPT ![q] = "done"] /\ Race(Run \ {q})
    BY <1>4 DEF CoreReplace
  <2>2. ASSUME NEW r \in Run, r # q, ~raced'[r]
        PROVE  ~raced[r] /\ core'[r] # "replace" /\ wrote'[r] = wrote[r]
    BY <1>1, <2>1, <2>2 DEF TypeOK, Race
  <2>3. raced'[q] = raced[q] /\ core'[q] = "done" /\ wrote'[q] = source
    BY <1>1, <2>1 DEF TypeOK, Race
  <2>. QED
    BY <2>1, <2>2, <2>3 DEF RaceInv
<1>5. ASSUME NEW q \in Run, CoreRedeem(q) \/ CoreCopy(q) \/ CoreRecheck(q) \/ CoreFails(q)
      PROVE  RaceInv'
  <2>1. UNCHANGED <<source, wrote, raced>>
    BY <1>5 DEF CoreRedeem, CoreCopy, CoreRecheck, CoreFails
  <2>2. \A r \in Run : core'[r] = "replace" => core[r] = "replace" \/ source = Base
    BY <1>1, <1>5 DEF TypeOK, CoreRedeem, CoreCopy, CoreRecheck, CoreFails
  <2>. QED
    BY <2>1, <2>2 DEF RaceInv
<1>6. CASE EditSource
  <2>1. UNCHANGED <<core, wrote>> /\ Race(Run)
    BY <1>6 DEF EditSource
  <2>. QED
    BY <1>1, <2>1 DEF RaceInv, Race
<1>7. CASE EditProposal \/ (\E n \in Nonce : Expire(n)) \/ UNCHANGED vars
  <2>1. UNCHANGED <<source, core, wrote, raced>>
    BY <1>7 DEF EditProposal, Expire, vars, files
  <2>. QED
    BY <2>1 DEF RaceInv
<1>. QED
  BY <1>2, <1>3, <1>4, <1>5, <1>6, <1>7 DEF Next, Core

THEOREM RaceInvariant == Spec => []RaceInv
<1>1. Init => RaceInv
  BY DEF Init, RaceInv
<1>. QED
  BY <1>1, RaceNext, FlowInvariant, PTL DEF Spec

\* A rollback puts back the bytes the core of the run replaced, unless somebody
\* wrote the source after the core's last look at it.
THEOREM RollbackIsExactHolds == Spec => RollbackIsExact
<1>1. ASSUME IInv, RaceInv, Next, NEW r \in Run,
             pc[r] = "rename", ending'[r] = "restored", ~raced[r]
      PROVE  source' = wrote[r]
  <2>1. RunHolds(r) /\ CoreHolds(r) /\ TypeOK
    BY <1>1 DEF IInv
  <2>2. prior[r] = wrote[r]
    BY <1>1, <2>1 DEF RunHolds, RaceInv
  <2>3. ending[r] # "restored"
    BY <1>1, <2>1, FlowAssumption DEF RunHolds, Ending
  <2>4. ASSUME NEW q \in Run, ReadProposal(q) \/ Command(q) \/ Kill(q), ~RenameRecovery(q)
        PROVE  FALSE
    <3>1. ending' = ending \/ \E how \in {"applied", "no_answer", "stopped"} :
                                ending' = [ending EXCEPT ![q] = how]
      BY <2>4 DEF Command, ReadProposal, Kill, LoadSession, RecordDecision, SaveSession,
         PrepareCandidate, Validate, Assemble, Preview, RecordConfirmation, RecordStart,
         Record, RecordSuccess, RecordFailure, Timeout, ReadRecovery, Finish, Stay
    <3>. QED
      BY <1>1, <2>1, <2>3, <3>1 DEF TypeOK
  <2>5. ASSUME NEW q \in Run, Core(q) PROVE FALSE
    BY <1>1, <2>3, <2>5 DEF Core, CoreRedeem, CoreCopy, CoreRecheck, CoreReplace, CoreFails, CoreStays
  <2>6. ~(EditSource \/ EditProposal \/ \E n \in Nonce : Expire(n))
    BY <1>1, <2>3 DEF EditSource, EditProposal, Expire
  <2>7. PICK q \in Run : RenameRecovery(q)
    BY <1>1, <2>4, <2>5, <2>6 DEF Next
  <2>8. q = r
    BY <1>1, <2>1, <2>3, <2>7 DEF TypeOK, RenameRecovery, Finish
  <2>9. source' = prior[r] \/ ending' = [ending EXCEPT ![r] = "stopped"]
    BY <2>7, <2>8 DEF RenameRecovery, Finish
  <2>. QED
    BY <1>1, <2>1, <2>2, <2>9 DEF TypeOK
<1>2. IInv /\ RaceInv /\ [Next]_vars =>
        [\A r \in Run : pc[r] = "rename" /\ ending'[r] = "restored" /\ ~raced[r] =>
           source' = wrote[r]]_vars
  BY <1>1
<1>. QED
  BY <1>2, FlowInvariant, RaceInvariant, PTL DEF Spec, RollbackIsExact

-------------------------------------------------------------------------------
\* A core that redeemed a token, or wrote with it, is the only one to do so.
Holding(r) == core[r] \in {"copy", "recheck", "replace"} \/ wrote[r] # None

HolderInv ==
  \A r \in Run : Holding(r) =>
    /\ capability[job[r].token] = None
    /\ \A q \in Run : Holding(q) /\ job[q].token = job[r].token => q = r

\* The steps of runs and of the world make no holders, leave the token of a holder
\* alone and bring no capability of a displayed token back.
LEMMA OthersMakeNoHolder ==
  ASSUME IInv, NEW q \in Run, ReadProposal(q) \/ Command(q) \/ Kill(q)
  PROVE  /\ wrote' = wrote
         /\ \A r \in Run : Holding(r)' => Holding(r)
         /\ \A r \in Run : core[r] # "none" => job'[r] = job[r]
         /\ \A n \in Nonce : shown[n] # None => capability'[n] = capability[n]
<1>1. TypeOK /\ \A r \in Run : RunHolds(r) /\ CoreHolds(r)
  BY DEF IInv
<1>2. wrote' = wrote
  BY DEF ReadProposal, Command, Kill, LoadSession, RecordDecision, SaveSession,
     PrepareCandidate, Validate, Assemble, Preview, RecordConfirmation, RecordStart,
     RecordSuccess, RecordFailure, Timeout, ReadRecovery, RenameRecovery
<1>3. core' = core \/ core' = [core EXCEPT ![q] = "redeem"] \/ core' = [core EXCEPT ![q] = "dead"]
  BY DEF ReadProposal, Command, Kill, LoadSession, RecordDecision, SaveSession,
     PrepareCandidate, Validate, Assemble, Preview, RecordConfirmation, RecordStart,
     RecordSuccess, RecordFailure, Timeout, ReadRecovery, RenameRecovery
<1>4. \A r \in Run : Holding(r)' => Holding(r)
  BY <1>1, <1>2, <1>3 DEF TypeOK, Holding
<1>5. ASSUME core[q] # "none" PROVE job' = job
  BY <1>1, <1>5 DEF RunHolds, Alone, Command, ReadProposal, Kill, LoadSession, RecordDecision,
     SaveSession, PrepareCandidate, Validate, Assemble, Preview, RecordConfirmation,
     RecordStart, RecordSuccess, RecordFailure, Timeout, ReadRecovery, RenameRecovery,
     Finish, PC, TypeOK
<1>6. \A r \in Run : r # q => job'[r] = job[r]
  BY <1>1 DEF TypeOK, Command, ReadProposal, Kill, LoadSession, RecordDecision, SaveSession,
     PrepareCandidate, Validate, Assemble, Preview, RecordConfirmation, RecordStart, Record,
     RecordSuccess, RecordFailure, Timeout, ReadRecovery, RenameRecovery, Finish
<1>7. \A n \in Nonce : shown[n] # None => capability'[n] = capability[n]
  BY <1>1 DEF TypeOK, Command, ReadProposal, Kill, LoadSession, RecordDecision, SaveSession,
     PrepareCandidate, Validate, Assemble, Preview, RecordConfirmation, RecordStart, Record,
     RecordSuccess, RecordFailure, Timeout, ReadRecovery, RenameRecovery, Finish, files
<1>. QED
  BY <1>2, <1>4, <1>5, <1>6, <1>7

LEMMA HolderNext ==
  ASSUME IInv, HolderInv, [Next]_vars
  PROVE  HolderInv'
<1>1. TypeOK /\ TokenInv /\ \A r \in Run : RunHolds(r) /\ CoreHolds(r)
  BY DEF IInv
<1>2. \A r \in Run : Holding(r) =>
        core[r] # "none" /\ job[r].token \in Nonce /\ shown[job[r].token] # None
  BY <1>1 DEF Holding, CoreHolds
<1>3. ASSUME NEW q \in Run, ReadProposal(q) \/ Command(q) \/ Kill(q) PROVE HolderInv'
  BY <1>2, <1>3, OthersMakeNoHolder DEF HolderInv, Holding
<1>4. ASSUME NEW q \in Run, CoreRedeem(q) PROVE HolderInv'
  <2>1. CASE core'[q] = "copy"
    <3>1. capability[job[q].token] # None /\ job[q].token \in Nonce /\ job' = job
      <4>1. ContextOf(q) # None /\ job[q].token \in Nonce
        BY <1>1, <1>4, ContextIsTyped, NoneIsNoContext DEF CoreHolds, CoreRedeem
      <4>. QED
        BY <1>1, <1>4, <2>1, <4>1 DEF TypeOK, CoreRedeem, CoreStays
    <3>2. \A r \in Run : Holding(r) => job[r].token # job[q].token
      BY <3>1 DEF HolderInv
    <3>3. \A r \in Run : Holding(r)' => Holding(r) \/ r = q
      BY <1>1, <1>4 DEF TypeOK, CoreRedeem, Holding
    <3>4. capability' = [capability EXCEPT ![job[q].token] = None]
      BY <1>1, <1>4, <2>1 DEF TypeOK, CoreRedeem
    <3>5. \A r \in Run : Holding(r)' => job'[r] = job[r] /\ job[r].token \in Nonce
      BY <1>2, <3>1, <3>3
    <3>6. \A r \in Run : Holding(r)' => capability'[job'[r].token] = None
      BY <1>1, <3>1, <3>3, <3>4, <3>5 DEF HolderInv, TypeOK
    <3>7. ASSUME NEW r \in Run, NEW s \in Run, Holding(r)', Holding(s)',
                 job'[s].token = job'[r].token
          PROVE  s = r
      BY <3>2, <3>3, <3>5, <3>7 DEF HolderInv
    <3>. QED
      BY <3>6, <3>7 DEF HolderInv
  <2>2. CASE core'[q] # "copy"
    BY <1>1, <1>4, <2>2 DEF TypeOK, CoreRedeem, CoreStays, HolderInv, Holding
  <2>. QED
    BY <2>1, <2>2
<1>5. ASSUME NEW q \in Run, CoreCopy(q) \/ CoreRecheck(q) \/ CoreReplace(q) \/ CoreFails(q)
      PROVE  HolderInv'
  <2>1. job' = job /\ capability' = capability
    BY <1>5 DEF CoreCopy, CoreRecheck, CoreReplace, CoreFails, CoreStays
  <2>2. \A r \in Run : Holding(r)' => Holding(r)
    BY <1>1, <1>5 DEF TypeOK, CoreCopy, CoreRecheck, CoreReplace, CoreFails, Holding
  <2>. QED
    BY <2>1, <2>2 DEF HolderInv
<1>6. CASE EditSource \/ EditProposal \/ (\E n \in Nonce : Expire(n)) \/ UNCHANGED vars
  BY <1>1, <1>2, <1>6 DEF EditSource, EditProposal, Expire, vars, files, HolderInv, Holding, TypeOK
<1>. QED
  BY <1>3, <1>4, <1>5, <1>6 DEF Next, Core

\* A step that leaves displayed tokens, their capabilities, what was written and
\* the source alone is a stutter of the promise.
LEMMA QuietStep ==
  ASSUME IInv, UNCHANGED <<wrote, shown, source>>,
         \A r \in Run : core[r] # "none" => job'[r] = job[r],
         \A n \in Nonce : shown[n] # None => capability'[n] = capability[n]
  PROVE  UNCHANGED Promise!vars
<1>1. \A r \in Run : wrote[r] # None => job'[r] = job[r]
  BY DEF IInv, CoreHolds
<1>2. ASSUME NEW n \in Nonce PROVE Written(n)' <=> Written(n)
  BY <1>1 DEF Written
<1>3. ASSUME NEW n \in Nonce PROVE GrantStatus(n)' = GrantStatus(n)
  BY <1>2 DEF GrantStatus
<1>. QED
  BY <1>3 DEF Promise!vars

\* Each step of the command is one of the promise or a stutter.
LEMMA FlowStepImplements ==
  ASSUME IInv, HolderInv, [Next]_vars
  PROVE  [Promise!Next]_(Promise!vars)
<1> DEFINE status == [n \in Nonce |-> GrantStatus(n)]
<1>1. TypeOK /\ TokenInv /\ \A r \in Run : RunHolds(r) /\ CoreHolds(r)
  BY DEF IInv
<1>2. ASSUME NEW q \in Run, ReadProposal(q) \/ Command(q) \/ Kill(q),
             ~Preview(q), ~RenameRecovery(q)
      PROVE  UNCHANGED Promise!vars
  <2>1. UNCHANGED <<shown, source>>
    BY <1>2 DEF Command, ReadProposal, Kill, LoadSession, RecordDecision, SaveSession,
       PrepareCandidate, Validate, Assemble, RecordConfirmation, RecordStart,
       RecordSuccess, RecordFailure, Timeout, ReadRecovery, files
  <2>. QED
    BY <1>2, <2>1, OthersMakeNoHolder, QuietStep
<1>3. ASSUME NEW q \in Run, Preview(q) PROVE [Promise!Next]_(Promise!vars)
  <2> DEFINE n == job[q].token
  <2>1. /\ wrote' = wrote /\ source' = source /\ capability' = capability
        /\ \A r \in Run : core[r] # "none" => job'[r] = job[r]
    BY <1>3, OthersMakeNoHolder DEF Preview, Command
  <2>2. CASE shown' = shown
    BY <2>1, <2>2, QuietStep
  <2>3. CASE shown' # shown
    <3>1. /\ n \in Nonce /\ shown[n] = None /\ capability[n] = ContextOf(q)
          /\ ContextOf(q) \in Context /\ ContextOf(q) # None
      BY <1>1, <1>3, ContextIsTyped, NoneIsNoContext DEF RunHolds, Preview
    <3>2. /\ shown' = [shown EXCEPT ![n] = Final(ContextOf(q))]
          /\ Final(ContextOf(q)) \in Bytes /\ Final(ContextOf(q)) # None
      BY <1>3, <2>3, <3>1, FinalIsBytes DEF Preview
    <3>3. \A m \in Nonce : Written(m)' <=> Written(m)
      BY <1>1, <2>1 DEF Written, CoreHolds
    <3>4. ~Written(n)
      BY <1>1, <3>1 DEF Written, CoreHolds
    <3>5. status[n] = "none" /\ status' = [status EXCEPT ![n] = "shown"]
      BY <1>1, <2>1, <3>1, <3>2, <3>3, <3>4 DEF GrantStatus, TypeOK
    <3>. QED
      BY <2>1, <3>1, <3>2, <3>5 DEF Promise!Next, Promise!Show
  <2>. QED
    BY <2>2, <2>3
<1>4. ASSUME NEW q \in Run, RenameRecovery(q) PROVE [Promise!Next]_(Promise!vars)
  <2>1. UNCHANGED <<wrote, shown, capability>>
    BY <1>4 DEF RenameRecovery
  <2>2. \A r \in Run : core[r] # "none" => job'[r] = job[r]
    BY <1>4, OthersMakeNoHolder DEF Command
  <2>3. ASSUME NEW n \in Nonce PROVE GrantStatus(n)' = GrantStatus(n)
    BY <1>1, <2>1, <2>2 DEF GrantStatus, Written, CoreHolds
  <2>4. CASE source' = Base
    BY <2>1, <2>3, <2>4 DEF Promise!Next, Promise!ForeignWrite
  <2>5. CASE source' = source
    BY <2>1, <2>3, <2>5 DEF Promise!vars
  <2>6. source' = Base \/ source' = source
    BY <1>1, <1>4 DEF RunHolds, RenameRecovery
  <2>. QED
    BY <2>4, <2>5, <2>6
<1>5. ASSUME NEW q \in Run, CoreRedeem(q) PROVE [Promise!Next]_(Promise!vars)
  <2> DEFINE n == job[q].token
  <2>1. UNCHANGED <<wrote, shown, source, job>>
    BY <1>5 DEF CoreRedeem, CoreStays
  <2>2. CASE capability' = capability
    BY <2>1, <2>2, QuietStep
  <2>3. CASE capability' # capability
    <3>1. /\ capability[n] = ContextOf(q) /\ capability' = [capability EXCEPT ![n] = None]
          /\ core[q] = "redeem"
      BY <1>5, <2>3 DEF CoreRedeem
    <3>2. n \in Nonce /\ shown[n] # None /\ ContextOf(q) # None
      BY <1>1, <3>1, ContextIsTyped, NoneIsNoContext DEF CoreHolds
    <3>3. ~Written(n)
      BY <3>1, <3>2 DEF HolderInv, Holding, Written
    <3>4. \A m \in Nonce : Written(m)' <=> Written(m)
      BY <2>1 DEF Written
    <3>5. status[n] = "shown" /\ status' = [status EXCEPT ![n] = "redeemed"]
      BY <1>1, <2>1, <3>1, <3>2, <3>3, <3>4 DEF GrantStatus, TypeOK
    <3>. QED
      BY <2>1, <3>2, <3>5 DEF Promise!Next, Promise!Redeem
  <2>. QED
    BY <2>2, <2>3
<1>6. ASSUME NEW q \in Run, CoreReplace(q) PROVE [Promise!Next]_(Promise!vars)
  <2> DEFINE n == job[q].token
  <2>1. UNCHANGED <<shown, capability, job>>
    BY <1>6 DEF CoreReplace, CoreStays
  <2>2. CASE wrote' = wrote /\ source' = source
    BY <2>1, <2>2, QuietStep
  <2>3. CASE ~(wrote' = wrote /\ source' = source)
    <3>1. /\ core[q] = "replace" /\ source' = Final(ContextOf(q))
          /\ wrote' = [wrote EXCEPT ![q] = source]
      BY <1>6 DEF CoreReplace
    <3>2. /\ n \in Nonce /\ shown[n] # None /\ source' = shown[n]
          /\ capability[n] = None
      BY <1>1, <3>1 DEF CoreHolds, HolderInv, Holding
    <3>3. ~Written(n)
      <4>. SUFFICES ASSUME NEW r \in Run, wrote[r] # None, job[r].token = n PROVE FALSE
        BY DEF Written
      <4>1. r = q
        BY <3>1 DEF HolderInv, Holding
      <4>. QED
        BY <1>1, <3>1, <4>1 DEF CoreHolds
    <3>4. source # None
      BY <1>1, FlowAssumption DEF TypeOK
    <3>5. Written(n)' /\ \A m \in Nonce : m # n => (Written(m)' <=> Written(m))
      BY <1>1, <2>1, <3>1, <3>4 DEF Written, TypeOK
    <3>6. status[n] = "redeemed" /\ status' = [status EXCEPT ![n] = "written"]
      BY <2>1, <3>2, <3>3, <3>5 DEF GrantStatus
    <3>. QED
      BY <2>1, <3>2, <3>6 DEF Promise!Next, Promise!Write
  <2>. QED
    BY <2>2, <2>3
<1>7. ASSUME NEW q \in Run, CoreCopy(q) \/ CoreRecheck(q) \/ CoreFails(q)
      PROVE  UNCHANGED Promise!vars
  <2>1. UNCHANGED <<wrote, shown, source, job, capability>>
    BY <1>7 DEF CoreCopy, CoreRecheck, CoreFails, CoreStays
  <2>. QED
    BY <2>1, QuietStep
<1>8. ASSUME EditSource PROVE [Promise!Next]_(Promise!vars)
  <2>1. source' \in {Base, Foreign} /\ UNCHANGED <<wrote, shown, job, capability>>
    BY <1>8 DEF EditSource
  <2>2. status' = status
    BY <2>1 DEF GrantStatus, Written
  <2>. QED
    BY <2>1, <2>2 DEF Promise!Next, Promise!ForeignWrite
<1>9. ASSUME NEW n \in Nonce, Expire(n) PROVE [Promise!Next]_(Promise!vars)
  <2>1. /\ UNCHANGED <<wrote, shown, source, job>>
        /\ capability[n] # None /\ shown[n] # None
        /\ capability' = [capability EXCEPT ![n] = None]
    BY <1>9 DEF Expire
  <2>2. \A m \in Nonce : Written(m)' <=> Written(m)
    BY <2>1 DEF Written
  <2>3. ~Written(n)
    BY <2>1 DEF Written, HolderInv, Holding
  <2>4. status[n] = "shown" /\ status' = [status EXCEPT ![n] = "redeemed"]
    BY <1>1, <2>1, <2>2, <2>3 DEF GrantStatus, TypeOK
  <2>. QED
    BY <2>1, <2>4 DEF Promise!Next, Promise!Redeem
<1>10. CASE EditProposal \/ UNCHANGED vars
  <2>1. UNCHANGED <<wrote, shown, source, job, capability>>
    BY <1>10 DEF EditProposal, vars, files
  <2>. QED
    BY <2>1, QuietStep
<1>. QED
  BY <1>2, <1>3, <1>4, <1>5, <1>6, <1>7, <1>8, <1>9, <1>10 DEF Next, Core

\* Runs of the command that interleave, fail, time out and roll back implement the
\* abstract promise: a displayed token leads to one replacement by what was
\* displayed, or to none.
THEOREM FlowPromiseHolds == Spec => FlowKeepsPromise
<1>1. Init => Promise!Init
  BY FlowAssumption DEF Init, Promise!Init, GrantStatus, Written, Bytes
<1>2. Init => HolderInv
  BY DEF Init, HolderInv, Holding
<1>3. QED
  BY <1>1, <1>2, HolderNext, FlowStepImplements, FlowInvariant, PTL
     DEF Spec, FlowKeepsPromise, Promise!Spec
===============================================================================
