SPECIFICATION FairSpec
CONSTANTS
  Run = {r1, r2}
  Nonce = {n1, n2}
  Base = Base
  Proposed = {v1}
  Foreign = Foreign
  None = None
PROPERTY RunsEnd
