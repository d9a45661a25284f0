SPECIFICATION FairSpec
CONSTANTS
  Capacity = 2
  Limit = 2
INVARIANT RunTypeOK
INVARIANT AcceptedIsComplete
INVARIANT RefusalHasReason
PROPERTY RunReturns
CHECK_DEADLOCK FALSE
