SPECIFICATION Spec
CONSTANTS
  Path = {"level", "port", "layout"}
  Value = {1, 2}
  ChangeId = {"level", "port"}
  Absent = Absent
  Malformed = Malformed
  Rejected = Rejected
  None = None
  Proc = {p1, p2}
  Nonce = {n1, n2}
  Payload <- MCPayload
  FinalDigest <- MCFinalDigest
  EditorBytes <- MCEditorBytes
  InitialBytes <- MCInitialBytes
  Lifetime = 0
  MaxClock = 1
SYMMETRY Symmetry
INVARIANT TypeOK
INVARIANT OneUse
INVARIANT SpentForWhatWasShown
PROPERTY ReplacementIsExact
PROPERTY PromiseKept
CHECK_DEADLOCK TRUE
