SPECIFICATION Spec
CONSTANTS
  Attempts = {a1, a2}
  Subjects = {s1, s2}
  Nobody = Nobody
  JIT = TRUE
  TTL = 2
  Skews <- AnySkew
  MaxTime = 3
SYMMETRY Symmetry
CHECK_DEADLOCK FALSE
INVARIANTS
  IndInv
  GrantNeedsApproval
PROPERTIES
  ImplementsApproval
  JITOnlyCreates
