SPECIFICATION Spec
CONSTANTS
  Writer = {w1, w2}
  maxAuditEvents = 3
  MaxIssued = 5
  MaxDamage = 1
  None = None
  Garbage = Garbage
SYMMETRY Symmetry
INVARIANT TypeOK
INVARIANT AcknowledgedIsKept
INVARIANT SoleWriterKeepsChain
PROPERTY DamageIsNoticed
