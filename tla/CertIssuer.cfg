SPECIFICATION Spec
CONSTANTS
  Conns = {c1, c2}
  CAKeys = {k1, k2}
  NoKey = NoKey
  TTLs <- AskedTTLs
  Offsets <- ClockOffsets
  Sec = 2
  MaxTTL = 3
  Skew = 1
  SignTimeout = 1
  DialTimeout = 1
  Start = 2
  MaxTime = 6
  MaxBoots = 2
SYMMETRY Symmetry
CHECK_DEADLOCK FALSE
INVARIANTS
  IndInv
  NeverOutlives
  RefusalHasACause
  SerialNeedsItsProcess
