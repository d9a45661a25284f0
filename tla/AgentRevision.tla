----------------------------- MODULE AgentRevision -----------------------------
(***************************************************************************)
(* Whether an agent's answer stays within the comments it was asked about: *)
(* the check of the terminal (tui/internal/protocol/revision.go) beside    *)
(* the one of the core (core/src/proposal.zig), and what follows from the  *)
(* terminal's for the decisions of the reviewer                            *)
(* (tui/internal/review/comments.go).  Several requests may be under way,  *)
(* answers come in any order, and an agent may answer anything.            *)
(*                                                                         *)
(* Values are JSON numbers, written as integers or as floats.  The core    *)
(* compares two integers exactly, the terminal decodes both as float64.    *)
(* An absent value is one more value: both sides read null as absent.      *)
(***************************************************************************)
EXTENDS Naturals, FiniteSets

CONSTANTS
  ChangeId,
  Exact,            \* integers up to this one are floats: 2^53 in the code
  Integer,          \* integers a proposal may write
  Expected,         \* integers it may find in the source
  Written,          \* floats the proposals may hold
  Explanation,
  LongExplanation,  \* those of more than 8192 bytes
  MaxRevision,      \* bound: revisions of the proposal
  MaxRequests       \* bound: requests under way

ASSUME AgentAssumption ==
  /\ Exact \in Nat /\ Integer \subseteq Nat /\ Expected \subseteq Integer
  /\ LongExplanation \subseteq Explanation
  /\ MaxRevision \in Nat \ {0} /\ MaxRequests \in Nat

\* The float64 nearest to an integer; past Exact only every other integer is one.
Float(n) == IF n <= Exact THEN n ELSE 2 * (n \div 2)

ASSUME WrittenAreFloats == Written \subseteq {Float(n) : n \in Integer}

Whole(ns) == [form : {"integer"}, n : ns]
Number == Whole(Integer) \cup [form : {"float"}, n : Written]
Absent == [form |-> "absent"]
AgentChangeItem ==
  [expected_old : Whole(Expected) \cup {Absent}, proposed_value : Number \cup {Absent},
   explanation : Explanation]
Items == [ChangeId -> AgentChangeItem]

VARIABLES
  revision,  \* of the active proposal
  active,    \* its items
  decision,  \* of the reviewer, by item
  judged,    \* history: the item the decision was made on
  requests   \* the change items each request under way allows

vars == <<revision, active, decision, judged, requests>>

-------------------------------------------------------------------------------
\* rawEqual: both numbers go through float64.
RawEqual(a, b) ==
  IF Absent \in {a, b} THEN a = b ELSE Float(a.n) = Float(b.n)

\* valueEqual: numbers of one form are compared as they are.
ValueEqual(a, b) ==
  \/ a = b
  \/ Absent \notin {a, b} /\ a.form # b.form /\ Float(a.n) = Float(b.n)

ChangedValue(c, item) ==
  ~RawEqual(active[c].proposed_value, item.proposed_value)

Changed(c, item) ==
  \/ ~RawEqual(active[c].proposed_value, item.proposed_value)
  \/ active[c].explanation # item.explanation

\* ValidateRevisionScope of the terminal and validateRevision of the core, for one
\* item; identity, path and operation are compared alike by both.
InScope(c, item, allowed) ==
  /\ RawEqual(active[c].expected_old, item.expected_old)
  /\ Changed(c, item) => c \in allowed

ValidItemByValue(c, item, allowed) ==
  /\ item.explanation \notin LongExplanation
  /\ ValueEqual(active[c].expected_old, item.expected_old)
  /\ c \notin allowed => ValueEqual(active[c].proposed_value, item.proposed_value)

ValidItem(c, item, allowed) ==
  /\ item.explanation \notin LongExplanation
  /\ ValueEqual(active[c].expected_old, item.expected_old)
  /\ c \notin allowed =>
       /\ ValueEqual(active[c].proposed_value, item.proposed_value)
       /\ active[c].explanation = item.explanation

\* A proposal under review has passed both loaders.
Init ==
  /\ revision = 1
  /\ active \in [ChangeId -> [expected_old : Whole(Expected), proposed_value : Number,
                              explanation : Explanation \ LongExplanation]]
  /\ decision = [c \in ChangeId |-> "pending"]
  /\ judged = active
  /\ requests = {}

\* SetDecision
SetDecision(c, d) ==
  /\ decision' = [decision EXCEPT ![c] = d]
  /\ judged' = [judged EXCEPT ![c] = active[c]]
  /\ UNCHANGED <<revision, active, requests>>

\* BuildRevisionRequest allows the items of the submitted comments.
BuildRevisionRequest(allowed) ==
  /\ Cardinality(requests) < MaxRequests
  /\ requests' = requests \cup {allowed}
  /\ UNCHANGED <<revision, active, decision, judged>>

\* Agent.Revise fails, or the answer is refused: nothing else changes.
RevisionFails(allowed) ==
  /\ requests' = requests \ {allowed}
  /\ UNCHANGED <<revision, active, decision, judged>>

DecisionAsReceived(c, changed) == IF c \in changed THEN "none" ELSE decision[c]

\* A proposal carries no decisions: changed items are pending, others keep theirs.
DecisionAfter(c, changed) == IF c \in changed THEN "pending" ELSE decision[c]

\* ApplyAcceptedRevision of an answer that names the active proposal and the next
\* revision and stays in scope.
ApplyAcceptedRevision(allowed) ==
  /\ revision < MaxRevision
  /\ \E items \in Items :
       LET changed == {c \in ChangeId : Changed(c, items[c])} IN
       /\ \A c \in ChangeId : InScope(c, items[c], allowed)
       /\ active' = items
       /\ decision' = [c \in ChangeId |-> DecisionAfter(c, changed)]
       /\ judged' = [c \in ChangeId |->
                       IF decision'[c] = "pending" THEN items[c] ELSE judged[c]]
  /\ revision' = revision + 1
  /\ requests' = requests \ {allowed}

Next ==
  \/ \E c \in ChangeId : SetDecision(c, "approved") \/ SetDecision(c, "rejected")
  \/ \E allowed \in (SUBSET ChangeId) \ {{}} : BuildRevisionRequest(allowed)
  \/ \E allowed \in requests : RevisionFails(allowed) \/ ApplyAcceptedRevision(allowed)

Spec == Init /\ [][Next]_vars

-------------------------------------------------------------------------------
\* What each variable holds.
TypeOK ==
  /\ revision \in 1 .. MaxRevision
  /\ active \in Items /\ judged \in Items
  /\ decision \in [ChangeId -> {"pending", "approved", "rejected"}]
  /\ requests \subseteq SUBSET ChangeId

SameButForRounding(a, b) ==
  /\ a # b /\ a.form = "integer" /\ b.form = "integer"
  /\ a.n > Exact \/ b.n > Exact
  /\ Float(a.n) = Float(b.n)

\* The two implementations of one contract: what the core accepts of an answer the
\* terminal accepts, and what the terminal accepts the core refuses only for an
\* explanation that is too long, or because two large integers that one float64
\* stands for are different after all (protocol.md:132, FR-013a).
ScopeChecksAgree ==
  \A allowed \in requests, c \in ChangeId, item \in AgentChangeItem :
    /\ ValidItem(c, item, allowed) => InScope(c, item, allowed)
    /\ InScope(c, item, allowed) =>
         \/ ValidItem(c, item, allowed)
         \/ item.explanation \in LongExplanation
         \/ SameButForRounding(active[c].expected_old, item.expected_old)
         \/ SameButForRounding(active[c].proposed_value, item.proposed_value)

\* A decision stays on an item through any number of revisions only while the item
\* is the one the reviewer decided on: its explanation and its value, apart from
\* another spelling of the number and from an integer that the same float64 stands
\* for, and rounding never adds up over several revisions (FR-013).
DecisionsSurviveRoundingOnly ==
  \A c \in ChangeId : decision[c] # "pending" =>
    /\ active[c].explanation = judged[c].explanation
    /\ \/ ValueEqual(active[c].proposed_value, judged[c].proposed_value)
       \/ SameButForRounding(active[c].proposed_value, judged[c].proposed_value)
===============================================================================
