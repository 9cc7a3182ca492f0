SPECIFICATION Spec
CONSTANTS
  p1 = p1
  p2 = p2
  d1 = d1
  d2 = d2
  k1 = k1
  k2 = k2
  Process <- Callers
  Digest <- Digests
  Key <- Keys
  NoProcess = NoProcess
  NoAnchor = NoAnchor
  MaxRevision = 3
PROPERTIES
  ImplementsHighWaterMark
  ConfirmOnlyConfirms
  RetryIsAccepted
SYMMETRY Interchangeable
