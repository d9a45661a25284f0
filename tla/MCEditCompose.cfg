SPECIFICATION Spec
CONSTANTS
  MaxMembers = 3
  MaxEdits = 4
  NewKey = {4, 5}
  NewValue <- MCNewValue
  DashKey = 2
  AtEnd = AtEnd
  Malformed = Malformed
  None = None
INVARIANT PreviewedIsExact
INVARIANT OnlyKnownRefusals
CHECK_DEADLOCK FALSE
