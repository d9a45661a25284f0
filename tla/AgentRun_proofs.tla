--------------------------- MODULE AgentRun_proofs ---------------------------
(***************************************************************************)
(* Proofs about what is taken as the answer of a program and what of it a  *)
(* revision may change.                                                    *)
(*                                                                         *)
(* AgentRevision, for any items, integers, floats and number of revisions. *)
(* Everything follows from one fact: the terminal's comparison is equality *)
(* of what the values are as float64, so it is transitive, and agrees with *)
(* the core's but for large integers.                                      *)
(*                                                                         *)
(* ProcessRun, for any limit and any pipe.  CountInv accounts for every    *)
(* chunk that was written; WaitInv says what an error of the command       *)
(* stands for and why nothing is written once it was drained.              *)
(***************************************************************************)
EXTENDS AgentRevision, ProcessRun, SequenceTheorems, TLAPS

Value == Number \cup {Absent}

\* The item is, as float64, the one the decision was made on.
DecidedInv ==
  \A c \in ChangeId : decision[c] # "pending" =>
    /\ active[c].explanation = judged[c].explanation
    /\ RawEqual(active[c].proposed_value, judged[c].proposed_value)

IInv == TypeOK /\ DecidedInv

LEMMA FloatFacts ==
  ASSUME NEW n \in Nat
  PROVE  Float(n) \in Nat /\ Float(Float(n)) = Float(n) /\ (n <= Exact => Float(n) = n)
<1>1. Exact \in Nat
  BY AgentAssumption
<1>2. CASE n <= Exact
  BY <1>1, <1>2 DEF Float
<1>3. CASE n > Exact
  <2>1. PICK k \in Nat : k = n \div 2
    OBVIOUS
  <2>2. (2 * k) \div 2 = k /\ 2 * k \in Nat
    OBVIOUS
  <2>3. Float(n) = 2 * k
    BY <1>1, <1>3, <2>1 DEF Float
  <2> QED
    BY <1>1, <1>3, <2>2, <2>3 DEF Float
<1> QED
  BY <1>1, <1>2, <1>3

LEMMA ValueFacts ==
  ASSUME NEW v \in Value
  PROVE  \/ v = Absent
         \/ v # Absent /\ v.form = "integer" /\ v.n \in Nat /\ v = [form |-> "integer", n |-> v.n]
         \/ /\ v # Absent /\ v.form = "float" /\ v.n \in Nat /\ Float(v.n) = v.n
            /\ v = [form |-> "float", n |-> v.n]
<1>1. CASE v = Absent
  BY <1>1
<1>2. CASE v \in Whole(Integer)
  BY <1>2, AgentAssumption DEF Whole, Absent
<1>3. CASE v \in [form : {"float"}, n : Written]
  <2>1. v.n \in Written /\ v.form = "float" /\ v # Absent /\ v = [form |-> "float", n |-> v.n]
    BY <1>3 DEF Absent
  <2>2. PICK n \in Integer : v.n = Float(n)
    BY <2>1, WrittenAreFloats
  <2> QED
    BY <2>1, <2>2, AgentAssumption, FloatFacts
<1> QED
  BY <1>1, <1>2, <1>3 DEF Value, Number

\* protocol.rawEqual is an equivalence.
LEMMA RawEqualIsTransitive ==
  ASSUME NEW a \in Value, NEW b \in Value, NEW c \in Value, RawEqual(a, b), RawEqual(b, c)
  PROVE  RawEqual(a, c)
BY DEF RawEqual

\* What the core takes for equal the terminal does.
LEMMA CoreIsStricter ==
  ASSUME NEW a \in Value, NEW b \in Value, ValueEqual(a, b)
  PROVE  RawEqual(a, b)
BY DEF ValueEqual, RawEqual

\* What the terminal takes for equal the core does, but for large integers.
LEMMA RoundingIsTheGap ==
  ASSUME NEW a \in Value, NEW b \in Value, RawEqual(a, b)
  PROVE  ValueEqual(a, b) \/ SameButForRounding(a, b)
<1>1. CASE Absent \in {a, b}
  BY <1>1 DEF RawEqual, ValueEqual
<1>2. CASE Absent \notin {a, b}
  <2>1. Float(a.n) = Float(b.n)
    BY <1>2 DEF RawEqual
  <2>2. CASE a.form # b.form
    BY <1>2, <2>1, <2>2 DEF ValueEqual
  <2>3. CASE a.form = "float" /\ b.form = "float"
    <3>1. a.n = b.n
      BY <1>2, <2>1, <2>3, ValueFacts
    <3> QED
      BY <1>2, <2>3, <3>1, ValueFacts DEF ValueEqual
  <2>4. CASE a.form = "integer" /\ b.form = "integer"
    <3>1. /\ a.n \in Nat /\ b.n \in Nat /\ a = [form |-> "integer", n |-> a.n]
          /\ b = [form |-> "integer", n |-> b.n]
      BY <1>2, <2>4, ValueFacts
    <3>2. CASE a.n = b.n
      BY <3>1, <3>2 DEF ValueEqual
    <3>3. CASE a.n # b.n
      <4>1. a.n > Exact \/ b.n > Exact
        BY <2>1, <3>1, <3>3, AgentAssumption, FloatFacts
      <4> QED
        BY <2>1, <2>4, <3>3, <4>1 DEF SameButForRounding
    <3> QED
      BY <3>2, <3>3
  <2> QED
    BY <1>2, <2>2, <2>3, <2>4, ValueFacts
<1> QED
  BY <1>1, <1>2

-------------------------------------------------------------------------------
LEMMA ItemFacts ==
  ASSUME NEW item \in AgentChangeItem
  PROVE  item.expected_old \in Value /\ item.proposed_value \in Value
BY AgentAssumption DEF AgentChangeItem, Value, Number, Whole

LEMMA InitInvariant == Init => IInv
<1> SUFFICES ASSUME Init PROVE IInv
  OBVIOUS
<1>1. active \in Items
  BY DEF Init, Items, AgentChangeItem
<1>2. TypeOK
  BY <1>1, AgentAssumption DEF Init, TypeOK
<1>3. DecidedInv
  BY DEF Init, DecidedInv
<1> QED
  BY <1>2, <1>3 DEF IInv

LEMMA SetDecisionKeeps ==
  ASSUME IInv, NEW c \in ChangeId, NEW d \in {"approved", "rejected"}, SetDecision(c, d)
  PROVE  IInv'
<1>1. TypeOK'
  BY DEF IInv, TypeOK, SetDecision, Items
<1>2. RawEqual(active[c].proposed_value, active[c].proposed_value)
  BY DEF RawEqual
<1>3. DecidedInv'
  BY <1>2 DEF IInv, TypeOK, DecidedInv, SetDecision, Items
<1> QED
  BY <1>1, <1>3 DEF IInv

LEMMA AcceptKeeps ==
  ASSUME IInv, NEW allowed \in requests, ApplyAcceptedRevision(allowed)
  PROVE  IInv'
<1>1. PICK items \in Items :
        /\ active' = items
        /\ decision' = [c \in ChangeId |->
                          DecisionAfter(c, {d \in ChangeId : Changed(d, items[d])})]
        /\ judged' = [c \in ChangeId |->
                        IF decision'[c] = "pending" THEN items[c] ELSE judged[c]]
  BY DEF ApplyAcceptedRevision
<1>2. \A c \in ChangeId :
        /\ active[c] \in AgentChangeItem /\ judged[c] \in AgentChangeItem
        /\ items[c] \in AgentChangeItem
        /\ decision[c] \in {"pending", "approved", "rejected"}
  BY DEF IInv, TypeOK, Items
<1>3. \A c \in ChangeId :
        decision'[c] = IF Changed(c, items[c]) THEN "pending" ELSE decision[c]
  BY <1>1 DEF DecisionAfter
<1>4. TypeOK'
  <2>1. judged' \in Items
    BY <1>1, <1>2 DEF Items
  <2>2. decision' \in [ChangeId -> {"pending", "approved", "rejected"}]
    BY <1>1, <1>2 DEF DecisionAfter
  <2>3. revision' \in 1 .. MaxRevision /\ requests' \subseteq SUBSET ChangeId
    BY AgentAssumption DEF IInv, TypeOK, ApplyAcceptedRevision
  <2> QED
    BY <1>1, <2>1, <2>2, <2>3 DEF TypeOK
<1>5. DecidedInv'
  <2> SUFFICES ASSUME NEW c \in ChangeId, decision'[c] # "pending"
               PROVE  /\ active'[c].explanation = judged'[c].explanation
                      /\ RawEqual(active'[c].proposed_value, judged'[c].proposed_value)
    BY DEF DecidedInv
  <2>1. ~Changed(c, items[c]) /\ decision[c] # "pending"
    BY <1>3
  <2>2. /\ RawEqual(items[c].proposed_value, active[c].proposed_value)
        /\ active[c].explanation = items[c].explanation
    BY <2>1 DEF Changed, RawEqual
  <2>3. /\ active[c].explanation = judged[c].explanation
        /\ RawEqual(active[c].proposed_value, judged[c].proposed_value)
    BY <2>1 DEF IInv, DecidedInv
  <2>4. RawEqual(items[c].proposed_value, judged[c].proposed_value)
    BY <1>2, <2>2, <2>3, ItemFacts, RawEqualIsTransitive
  <2>5. active'[c] = items[c] /\ judged'[c] = judged[c]
    BY <1>1
  <2> QED
    BY <2>2, <2>3, <2>4, <2>5
<1> QED
  BY <1>4, <1>5 DEF IInv

LEMMA NextInvariant == IInv /\ [Next]_vars => IInv'
<1> SUFFICES ASSUME IInv, [Next]_vars PROVE IInv'
  OBVIOUS
<1>1. CASE UNCHANGED vars
  BY <1>1 DEF vars, IInv, TypeOK, DecidedInv
<1>2. ASSUME NEW c \in ChangeId, SetDecision(c, "approved") \/ SetDecision(c, "rejected")
      PROVE  IInv'
  BY <1>2, SetDecisionKeeps
<1>3. ASSUME NEW allowed \in (SUBSET ChangeId) \ {{}}, BuildRevisionRequest(allowed)
      PROVE  IInv'
  BY <1>3 DEF BuildRevisionRequest, IInv, TypeOK, DecidedInv
<1>4. ASSUME NEW allowed \in requests, RevisionFails(allowed)
      PROVE  IInv'
  BY <1>4 DEF RevisionFails, IInv, TypeOK, DecidedInv
<1>5. ASSUME NEW allowed \in requests, ApplyAcceptedRevision(allowed)
      PROVE  IInv'
  BY <1>5, AcceptKeeps
<1> QED
  BY <1>1, <1>2, <1>3, <1>4, <1>5 DEF Next

LEMMA ChecksAgree ==
  ASSUME TypeOK, NEW allowed \in requests, NEW c \in ChangeId, NEW item \in AgentChangeItem
  PROVE  /\ ValidItem(c, item, allowed) => InScope(c, item, allowed)
         /\ InScope(c, item, allowed) =>
              \/ ValidItem(c, item, allowed)
              \/ item.explanation \in LongExplanation
              \/ SameButForRounding(active[c].expected_old, item.expected_old)
              \/ SameButForRounding(active[c].proposed_value, item.proposed_value)
<1>1. /\ active[c].expected_old \in Value /\ active[c].proposed_value \in Value
      /\ item.expected_old \in Value /\ item.proposed_value \in Value
  BY ItemFacts DEF TypeOK, Items
<1>2. ASSUME ValidItem(c, item, allowed) PROVE InScope(c, item, allowed)
  BY <1>1, <1>2, CoreIsStricter DEF ValidItem, InScope, Changed
<1>3. ASSUME InScope(c, item, allowed), item.explanation \notin LongExplanation,
             ~SameButForRounding(active[c].expected_old, item.expected_old),
             ~SameButForRounding(active[c].proposed_value, item.proposed_value)
      PROVE  ValidItem(c, item, allowed)
  BY <1>1, <1>3, RoundingIsTheGap DEF ValidItem, InScope, Changed
<1> QED
  BY <1>2, <1>3

-------------------------------------------------------------------------------
\* The inductive invariant of revisions.
THEOREM RevisionInvariant == Spec => []IInv
BY InitInvariant, NextInvariant, PTL DEF Spec

\* Proposal, decisions and requests keep their types.
THEOREM RevisionTypeCorrect == Spec => []TypeOK
<1>1. IInv => TypeOK
  BY DEF IInv
<1> QED
  BY <1>1, RevisionInvariant, PTL

\* ValidateRevisionScope and validateRevision differ on long explanations and
\* large integers only.
THEOREM ScopeChecksAgreeHolds == Spec => []ScopeChecksAgree
<1>1. TypeOK => ScopeChecksAgree
  BY ChecksAgree DEF ScopeChecksAgree
<1> QED
  BY <1>1, RevisionTypeCorrect, PTL

\* However many revisions follow, a decision is about the item it was made on, up
\* to one rounding to float64.
THEOREM DecisionsSurviveRoundingOnlyHolds == Spec => []DecisionsSurviveRoundingOnly
<1>1. IInv => DecisionsSurviveRoundingOnly
  BY ItemFacts, RoundingIsTheGap
     DEF IInv, TypeOK, Items, DecidedInv, DecisionsSurviveRoundingOnly
<1> QED
  BY <1>1, RevisionInvariant, PTL

-------------------------------------------------------------------------------
Bytes == {"first", "last", "other"}

ShapeInv ==
  pipe \in [Stream -> Seq(Bytes)] /\ kept \in [Stream -> Seq(Bytes)]

\* What was written is in the pipe or in the buffer, unless something was dropped.
Counted(w, k, p) ==
  /\ k + p <= Limit => w = k + p
  /\ k + p > Limit => w = Limit + 1

CountInv ==
  \A s \in Stream :
    /\ s \in exceeded => written[s] = Limit + 1
    /\ s \notin exceeded => Counted(written[s], Len(kept[s]), Len(pipe[s]))

WaitInv ==
  /\ pc = "start" => child \in {"running", "bad"} /\ ~waitError
  /\ pc \in {"drain", "verdict"} => child # "running"
  /\ pc \in {"drain", "verdict"} /\ ~waitError => child = "ok" /\ ~killed
  /\ pc = "wait" /\ waitError => closed
  /\ pc \in {"drain", "verdict"} /\ waitError => child = "bad" \/ killed \/ closed
  /\ killed => expired \/ canceled
  /\ closed => waitError
  /\ pc = "verdict" /\ ~closed => EndOfOutput
  /\ pc # "returned" <=> result = None

RunInv == RunTypeOK /\ ShapeInv /\ CountInv /\ WaitInv /\ AcceptedIsComplete /\ RefusalHasReason

LEMMA AppendFacts ==
  ASSUME NEW S, NEW q \in Seq(S), NEW c \in S
  PROVE  Append(q, c) \in Seq(S) /\ Len(Append(q, c)) = Len(q) + 1 /\ Len(q) \in Nat
OBVIOUS

LEMMA TailFacts ==
  ASSUME NEW S, NEW q \in Seq(S), q # <<>>
  PROVE  /\ Head(q) \in S /\ Tail(q) \in Seq(S)
         /\ Len(Tail(q)) = Len(q) - 1 /\ Len(q) \in Nat \ {0}
BY HeadTailProperties, EmptySeq

\* The account of a stream, k chunks kept and p in the pipe.
LEMMA CountStep ==
  ASSUME NEW w \in Nat, NEW k \in Nat, NEW p \in Nat, Counted(w, k, p)
  PROVE  /\ Counted(IF w > Limit THEN w ELSE w + 1, k, p + 1)
         /\ p > 0 => Counted(w, k + 1, p - 1)
         /\ p > 0 /\ k + 1 > Limit => w = Limit + 1
         /\ p = 0 /\ k <= Limit => w = k
BY RunAssumption DEF Counted

LEMMA ChunkIsBytes == \A s \in Stream : Chunk[s] \subseteq Bytes
BY DEF Stream, Chunk, Bytes

LEMMA RunInvInit == RunInit => RunInv
<1> SUFFICES ASSUME RunInit PROVE RunInv
  OBVIOUS
<1> USE DEF RunInit
<1>1. <<>> \in Seq(Bytes) /\ Len(<<>>) = 0
  BY EmptySeq
<1>2. ShapeInv
  BY <1>1 DEF ShapeInv, Stream
<1>3. RunTypeOK
  <2>1. \A s \in Stream : pipe[s] = <<>> /\ kept[s] = <<>> /\ <<>> \in Seq(Chunk[s])
    BY EmptySeq
  <2>2. written \in [Stream -> 0 .. Limit + 1]
    BY RunAssumption
  <2>3. \A s \in Stream : Len(pipe[s]) <= Capacity /\ Len(kept[s]) <= Limit
    BY <1>1, <2>1, RunAssumption
  <2> QED
    BY <2>1, <2>2, <2>3 DEF RunTypeOK
<1>4. CountInv
  BY <1>1, RunAssumption DEF CountInv, Counted
<1>5. WaitInv /\ AcceptedIsComplete /\ RefusalHasReason
  BY DEF WaitInv, AcceptedIsComplete, RefusalHasReason, None
<1> QED
  BY <1>2, <1>3, <1>4, <1>5 DEF RunInv

\* The steps that move output.
LEMMA WriteKeeps ==
  ASSUME RunInv, NEW s \in Stream, Write(s)
  PROVE  RunInv'
<1> USE DEF context, waiting
<1>1. PICK chunk \in Chunk[s] : pipe' = [pipe EXCEPT ![s] = Append(@, chunk)]
  BY DEF Write
<1>2. /\ pipe'[s] = Append(pipe[s], chunk) /\ \A t \in Stream \ {s} : pipe'[t] = pipe[t]
      /\ pipe[s] \in Seq(Bytes) /\ chunk \in Bytes
      /\ pipe[s] \in Seq(Chunk[s]) /\ kept[s] \in Seq(Bytes)
  BY <1>1, ChunkIsBytes DEF RunInv, ShapeInv, RunTypeOK
<1>3. Len(pipe'[s]) = Len(pipe[s]) + 1 /\ Len(pipe[s]) \in Nat /\ Len(kept[s]) \in Nat
  BY <1>2, AppendFacts
<1>4. pipe'[s] \in Seq(Chunk[s]) /\ pipe'[s] \in Seq(Bytes)
  BY <1>2, AppendFacts
<1>5. ShapeInv'
  BY <1>1, <1>2, <1>4 DEF RunInv, ShapeInv, Write
<1>6. /\ written'[s] = (IF written[s] > Limit THEN written[s] ELSE written[s] + 1)
      /\ \A t \in Stream \ {s} : written'[t] = written[t]
      /\ written[s] \in 0 .. Limit + 1
  BY DEF RunInv, RunTypeOK, Write
<1>7. written' \in [Stream -> 0 .. Limit + 1]
  BY <1>6, RunAssumption DEF RunInv, RunTypeOK, Write
<1>8. RunTypeOK'
  <2>1. \A t \in Stream : pipe'[t] \in Seq(Chunk[t]) /\ Len(pipe'[t]) <= Capacity
    BY <1>2, <1>3, <1>4, RunAssumption DEF RunInv, RunTypeOK, Write
  <2> QED
    BY <1>7, <2>1 DEF RunInv, RunTypeOK, Write
<1>9. CountInv'
  <2>1. kept' = kept /\ exceeded' = exceeded
    BY DEF Write
  <2>2. ASSUME s \in exceeded PROVE written'[s] = Limit + 1
    BY <1>6, <2>2, RunAssumption DEF RunInv, CountInv
  <2>3. ASSUME s \notin exceeded PROVE Counted(written'[s], Len(kept[s]), Len(pipe'[s]))
    <3>1. Counted(written[s], Len(kept[s]), Len(pipe[s])) /\ written[s] \in Nat
      BY <1>6, <2>3, RunAssumption DEF RunInv, CountInv
    <3> QED
      BY <1>3, <1>6, <3>1, CountStep
  <2> QED
    BY <1>2, <1>6, <2>1, <2>2, <2>3 DEF RunInv, CountInv
<1>10. pc # "returned" /\ ~(pc = "verdict" /\ ~closed)
  BY DEF RunInv, WaitInv, Started, EndOfOutput, Write
<1>11. WaitInv' /\ AcceptedIsComplete' /\ RefusalHasReason'
  BY <1>10 DEF RunInv, WaitInv, AcceptedIsComplete, RefusalHasReason, Started, None, Write
<1> QED
  BY <1>5, <1>8, <1>9, <1>11 DEF RunInv

LEMMA CopyKeeps ==
  ASSUME RunInv, NEW s \in Stream, Copy(s)
  PROVE  RunInv'
<1> USE DEF context, waiting
<1>1. /\ pipe[s] \in Seq(Bytes) /\ kept[s] \in Seq(Bytes) /\ pipe[s] # <<>>
      /\ pipe[s] \in Seq(Chunk[s]) /\ kept[s] \in Seq(Chunk[s])
      /\ Len(pipe[s]) <= Capacity /\ Len(kept[s]) <= Limit
  BY DEF RunInv, ShapeInv, RunTypeOK, Copy
<1>2. /\ pipe'[s] = Tail(pipe[s]) /\ \A t \in Stream \ {s} : pipe'[t] = pipe[t]
      /\ written' = written
  BY DEF RunInv, ShapeInv, Copy
<1>3. /\ Tail(pipe[s]) \in Seq(Bytes) /\ Head(pipe[s]) \in Bytes
      /\ Len(Tail(pipe[s])) = Len(pipe[s]) - 1 /\ Len(pipe[s]) \in Nat \ {0}
      /\ Len(kept[s]) \in Nat
  BY <1>1, TailFacts
<1>4. Tail(pipe[s]) \in Seq(Chunk[s]) /\ Head(pipe[s]) \in Chunk[s]
  BY <1>1, TailFacts
<1>5. pipe' \in [Stream -> Seq(Bytes)]
  BY <1>2, <1>3 DEF RunInv, ShapeInv, Copy
<1>6. \A t \in Stream : pipe'[t] \in Seq(Chunk[t]) /\ Len(pipe'[t]) <= Capacity
  <2>1. pipe'[s] \in Seq(Chunk[s]) /\ Len(pipe'[s]) <= Capacity
    BY <1>1, <1>2, <1>3, <1>4, RunAssumption
  <2> QED
    BY <1>2, <2>1 DEF RunInv, RunTypeOK
<1>7. WaitInv' /\ AcceptedIsComplete' /\ RefusalHasReason'
  <2>1. pc # "verdict" /\ pc # "returned" /\ result = None
    BY DEF RunInv, WaitInv, Copy
  <2> QED
    BY <2>1 DEF RunInv, WaitInv, AcceptedIsComplete, RefusalHasReason, None, Copy
<1>8. /\ s \in exceeded => written[s] = Limit + 1
      /\ s \notin exceeded => Counted(written[s], Len(kept[s]), Len(pipe[s]))
      /\ written[s] \in Nat
  BY RunAssumption DEF RunInv, CountInv, RunTypeOK
<1>9. CASE Fits(s)
  <2>1. /\ kept'[s] = Append(kept[s], Head(pipe[s]))
        /\ \A t \in Stream \ {s} : kept'[t] = kept[t]
        /\ exceeded' = exceeded
    BY <1>9 DEF RunInv, ShapeInv, Copy
  <2>2. Len(kept'[s]) = Len(kept[s]) + 1 /\ kept'[s] \in Seq(Bytes)
    BY <1>1, <1>3, <2>1, AppendFacts
  <2>3. kept'[s] \in Seq(Chunk[s])
    BY <1>1, <1>4, <2>1, AppendFacts
  <2>4. ShapeInv'
    BY <1>5, <1>9, <2>1, <2>2 DEF RunInv, ShapeInv, Copy
  <2>5. RunTypeOK'
    <3>1. \A t \in Stream : kept'[t] \in Seq(Chunk[t]) /\ Len(kept'[t]) <= Limit
      BY <1>1, <1>3, <1>9, <2>1, <2>2, <2>3, RunAssumption DEF RunInv, RunTypeOK, Fits
    <3> QED
      BY <1>6, <2>1, <3>1 DEF RunInv, RunTypeOK, Copy
  <2>6. s \notin exceeded => Counted(written'[s], Len(kept'[s]), Len(pipe'[s]))
    BY <1>2, <1>3, <1>8, <2>2, CountStep
  <2>7. CountInv'
    BY <1>2, <1>8, <2>1, <2>6 DEF RunInv, CountInv
  <2> QED
    BY <1>7, <2>4, <2>5, <2>7 DEF RunInv
<1>10. CASE ~Fits(s)
  <2>1. kept' = kept /\ exceeded' = exceeded \cup {s}
    BY <1>10 DEF Copy
  <2>2. ShapeInv'
    BY <1>5, <2>1 DEF RunInv, ShapeInv
  <2>3. RunTypeOK'
    BY <1>6, <2>1 DEF RunInv, RunTypeOK, Copy
  <2>4. Len(kept[s]) + 1 > Limit
    BY <1>3, <1>10, RunAssumption DEF Fits
  <2>5. written'[s] = Limit + 1
    BY <1>2, <1>3, <1>8, <2>4, CountStep
  <2>6. CountInv'
    BY <1>2, <2>1, <2>5 DEF RunInv, CountInv
  <2> QED
    BY <1>7, <2>2, <2>3, <2>6 DEF RunInv
<1> QED
  BY <1>9, <1>10

\* The steps that leave the output alone.
LEMMA OtherKeeps ==
  ASSUME RunInv, UNCHANGED buffers,
         \/ LeaveHeir \/ HeirExits \/ Exit \/ Die \/ Start \/ Deadline \/ Cancel
         \/ Kill \/ ObserveExit \/ DelayOver \/ Drained
  PROVE  RunInv'
<1> USE DEF buffers, context, waiting
<1>1. ShapeInv' /\ CountInv'
  BY DEF RunInv, ShapeInv, CountInv
<1>2. RunTypeOK'
  BY DEF RunInv, RunTypeOK, LeaveHeir, HeirExits, Exit, Die, Start, Deadline, Cancel, Kill,
         ObserveExit, DelayOver, Drained, Verdicts
<1>3. WaitInv'
  <2>1. CASE LeaveHeir \/ HeirExits \/ Exit \/ Die
    BY <2>1 DEF RunInv, WaitInv, RunTypeOK, EndOfOutput, LeaveHeir, HeirExits, Exit, Die, Started
  <2>2. CASE Start
    <3>1. /\ pc = "start" /\ result = None /\ ~closed /\ ~waitError
          /\ child \in {"running", "bad"}
      BY <2>2 DEF RunInv, WaitInv, Start
    <3> QED
      BY <2>2, <3>1 DEF RunInv, WaitInv, EndOfOutput, Start, None
  <2>6. CASE Deadline \/ Cancel \/ Kill
    BY <2>6 DEF RunInv, WaitInv, RunTypeOK, EndOfOutput, Deadline, Cancel, Kill
  <2>3. CASE ObserveExit
    BY <2>3 DEF RunInv, WaitInv, RunTypeOK, EndOfOutput, ObserveExit
  <2>4. CASE DelayOver
    BY <2>4 DEF RunInv, WaitInv, RunTypeOK, EndOfOutput, DelayOver
  <2>5. CASE Drained
    BY <2>5 DEF RunInv, WaitInv, RunTypeOK, EndOfOutput, Drained
  <2> QED
    BY <2>1, <2>2, <2>3, <2>4, <2>5, <2>6
<1>4. AcceptedIsComplete' /\ RefusalHasReason'
  BY DEF RunInv, WaitInv, AcceptedIsComplete, RefusalHasReason, LeaveHeir, HeirExits, Exit,
         Die, Start, Deadline, Cancel, Kill, ObserveExit, DelayOver, Drained, Started, None
<1> QED
  BY <1>1, <1>2, <1>3, <1>4 DEF RunInv

LEMMA VerdictKeeps ==
  ASSUME RunInv, Verdict
  PROVE  RunInv'
<1> USE DEF Verdict, buffers, context, waiting
<1>1. ShapeInv' /\ CountInv'
  BY DEF RunInv, ShapeInv, CountInv
<1>2. result' \in Verdicts /\ result' # None
  BY DEF Verdicts, None, Decoded
<1>3. RunTypeOK' /\ WaitInv'
  BY <1>2 DEF RunInv, RunTypeOK, WaitInv
<1>4. ASSUME exceeded = {}, ~waitError
      PROVE  /\ child = "ok" /\ ~killed /\ ~closed /\ ~heir
             /\ \A s \in Stream : written[s] = Len(kept[s])
  <2>1. ~closed /\ child = "ok" /\ ~killed /\ EndOfOutput
    BY <1>4 DEF RunInv, WaitInv
  <2>2. \A s \in Stream : Len(pipe[s]) = 0 /\ Len(kept[s]) \in Nat /\ Len(kept[s]) <= Limit
    BY <2>1, AppendFacts DEF EndOfOutput, RunInv, RunTypeOK, ShapeInv
  <2>3. \A s \in Stream : written[s] = Len(kept[s])
    <3> SUFFICES ASSUME NEW s \in Stream PROVE written[s] = Len(kept[s])
      OBVIOUS
    <3>1. Counted(written[s], Len(kept[s]), Len(pipe[s])) /\ written[s] \in Nat
      BY <1>4, RunAssumption DEF RunInv, CountInv, RunTypeOK
    <3> QED
      BY <2>2, <3>1, CountStep
  <2> QED
    BY <2>1, <2>3 DEF EndOfOutput
<1>5. AcceptedIsComplete'
  BY <1>4 DEF AcceptedIsComplete, Decoded
<1>6. exceeded # {} => \E s \in Stream : written[s] > Limit
  <2> SUFFICES ASSUME NEW s \in exceeded PROVE s \in Stream /\ written[s] > Limit
    OBVIOUS
  <2>1. s \in Stream /\ written[s] = Limit + 1
    BY DEF RunInv, RunTypeOK, CountInv, Counted
  <2> QED
    BY <2>1, RunAssumption
<1>7. exceeded = {} /\ result' = "limit" =>
        limited /\ written["stdout"] = Limit /\ ~IsAnswer(kept["stdout"])
  <2> SUFFICES ASSUME exceeded = {}, result' = "limit"
               PROVE  limited /\ written["stdout"] = Limit /\ ~IsAnswer(kept["stdout"])
    OBVIOUS
  <2>1. ~waitError /\ limited /\ Len(kept["stdout"]) >= Limit /\ ~IsAnswer(kept["stdout"])
    BY DEF Decoded
  <2>2. Len(kept["stdout"]) \in Nat /\ Len(kept["stdout"]) <= Limit
    BY AppendFacts DEF RunInv, RunTypeOK, ShapeInv, Stream
  <2>3. written["stdout"] = Len(kept["stdout"])
    BY <1>4, <2>1 DEF Stream
  <2> QED
    BY <2>1, <2>2, <2>3, RunAssumption
<1>8. result' = "invalid" =>
        /\ exceeded = {} /\ ~waitError /\ ~IsAnswer(kept["stdout"])
        /\ limited => written["stdout"] < Limit
  <2> SUFFICES ASSUME result' = "invalid"
               PROVE  /\ exceeded = {} /\ ~waitError /\ ~IsAnswer(kept["stdout"])
                      /\ limited => written["stdout"] < Limit
    OBVIOUS
  <2>1. /\ exceeded = {} /\ ~waitError /\ ~IsAnswer(kept["stdout"])
        /\ limited => ~(Len(kept["stdout"]) >= Limit)
    BY DEF Decoded
  <2>2. written["stdout"] = Len(kept["stdout"]) /\ Len(kept["stdout"]) \in Nat
    BY <1>4, <2>1, AppendFacts DEF RunInv, ShapeInv, Stream
  <2> QED
    BY <2>1, <2>2, RunAssumption
<1>9. RefusalHasReason'
  <2>1. result' = "failed" => child \in {"running", "bad"} \/ closed
    BY DEF Decoded, RunInv, WaitInv
  <2>2. (result' = "canceled" => canceled) /\ (result' = "timeout" => expired)
    BY DEF Decoded
  <2> QED
    BY <1>4, <1>6, <1>7, <1>8, <2>1, <2>2 DEF RefusalHasReason
<1> QED
  BY <1>1, <1>3, <1>5, <1>9 DEF RunInv

LEMMA RunInvNext == RunInv /\ [RunNext]_runVars => RunInv'
<1> SUFFICES ASSUME RunInv, [RunNext]_runVars PROVE RunInv'
  OBVIOUS
<1>1. CASE UNCHANGED runVars
  BY <1>1 DEF runVars, buffers, context, waiting, RunInv, RunTypeOK, ShapeInv, CountInv, WaitInv,
              EndOfOutput, AcceptedIsComplete, RefusalHasReason
<1>2. ASSUME NEW s \in Stream, Write(s) PROVE RunInv'
  BY <1>2, WriteKeeps
<1>3. ASSUME NEW s \in Stream, Copy(s) PROVE RunInv'
  BY <1>3, CopyKeeps
<1>4. CASE Verdict
  BY <1>4, VerdictKeeps
<1>5. CASE \/ LeaveHeir \/ HeirExits \/ Exit \/ Die \/ Start \/ Deadline \/ Cancel
           \/ Kill \/ ObserveExit \/ DelayOver \/ Drained
  <2>1. UNCHANGED buffers
    BY <1>5 DEF LeaveHeir, HeirExits, Exit, Die, Start, Deadline, Cancel, Kill,
                ObserveExit, DelayOver, Drained
  <2> QED
    BY <1>5, <2>1, OtherKeeps
<1> QED
  BY <1>1, <1>2, <1>3, <1>4, <1>5 DEF RunNext, Program, Wait

-------------------------------------------------------------------------------
\* The inductive invariant of one call of RunProtocol.
THEOREM RunInvariant == RunSpec => []RunInv
BY RunInvInit, RunInvNext, PTL DEF RunSpec

\* The variables of a call keep their types, and no buffer passes its limit.
THEOREM RunTypeCorrect == RunSpec => []RunTypeOK
<1>1. RunInv => RunTypeOK
  BY DEF RunInv
<1> QED
  BY <1>1, RunInvariant, PTL

\* What RunProtocol returns as the answer is all the program and its heirs wrote.
THEOREM AcceptedIsCompleteHolds == RunSpec => []AcceptedIsComplete
<1>1. RunInv => AcceptedIsComplete
  BY DEF RunInv
<1> QED
  BY <1>1, RunInvariant, PTL

\* RunProtocol refuses a complete answer only for one of the reasons it names.
THEOREM RefusalHasReasonHolds == RunSpec => []RefusalHasReason
<1>1. RunInv => RefusalHasReason
  BY DEF RunInv
<1> QED
  BY <1>1, RunInvariant, PTL
===============================================================================
