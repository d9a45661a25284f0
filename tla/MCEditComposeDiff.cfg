SPECIFICATION Spec
CONSTANTS
  MaxMembers = 3
  MaxEdits = 2
  NewKey = {4, 5}
  NewValue <- MCNewValue
  DashKey = 2
  AtEnd = AtEnd
  Malformed = Malformed
  None = None
INVARIANT DiffShowsApproved
CHECK_DEADLOCK FALSE
