SPECIFICATION Spec
CONSTANTS
  Admins = {a1}
  Sessions = {k1}
  Requests = {r1, r2}
  Null = Null
  Idle = 1
  Absolute = 3
  Skews <- AnySkew
  MaxTime = 4
SYMMETRY Symmetry
CHECK_DEADLOCK FALSE
INVARIANTS
  IndInv
  LateIsRefused
  EventsMatch
PROPERTIES
  RowsOnlyTighten
