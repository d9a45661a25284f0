SPECIFICATION Spec
CONSTANTS
  ChangeId = {a, b}
  Content = {"first", "second"}
  FirstContent = "first"
  FailingContent = {"second"}
  MaxComments = 2
  MaxTexts = 3
  MaxFailures = 0
  None = None
INVARIANT CommentIdsAreUnique
