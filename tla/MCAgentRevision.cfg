SPECIFICATION Spec
CONSTANTS
  ChangeId = {a, b}
  Exact = 2
  Integer = {1, 2, 3}
  Expected = {2, 3}
  Written = {2}
  Explanation = {"short", "long"}
  LongExplanation = {"long"}
  MaxRevision = 3
  MaxRequests = 1
SYMMETRY Symmetry
INVARIANT TypeOK
 
INVARIANT DecisionsSurviveRoundingOnly
CHECK_DEADLOCK FALSE
