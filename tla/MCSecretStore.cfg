SPECIFICATION Spec
CONSTANTS
  ChangeId = {a, b}
  Fingerprint = {p, q}
  RevealFor = 2
  ShareFor = 1
  MaxTime = 3
  MaxLog = 5
  None = None
SYMMETRY Symmetry
INVARIANT TypeOK
INVARIANT UseIsConfirmed
INVARIANT SharedOnce
CHECK_DEADLOCK FALSE
