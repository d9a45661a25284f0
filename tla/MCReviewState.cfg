SPECIFICATION Spec
CONSTANTS
  ChangeId = {a, b}
  Content = {"first", "second"}
  FirstContent = "first"
  FailingContent = {"second"}
  MaxComments = 2
  MaxTexts = 2
  MaxFailures = 1
  None = None
SYMMETRY Symmetry
INVARIANT TypeOK
INVARIANT DecisionsAreCurrent
INVARIANT ReadyIsTrue
INVARIANT EnteredIsSaved
INVARIANT ConfirmationIsCurrent
PROPERTY BulkIsWhatWasShown
PROPERTY RevisionStaysInScope
