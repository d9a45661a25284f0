SPECIFICATION Spec
CONSTANTS
  Run = {r1, r2, r3}
  Nonce = {n1, n2}
  Base = Base
  Proposed = {v1, v2}
  Foreign = Foreign
  None = None
SYMMETRY Symmetry
INVARIANT TypeOK
INVARIANT AuthorityIsAudited
INVARIANT OutcomesAreTrue
PROPERTY WrittenAsShown
PROPERTY ValidatedIsWritten
PROPERTY RollbackIsExact
PROPERTY FlowKeepsPromise
