SPECIFICATION Spec
CONSTANTS
  Conns = {c1, c2}
  Accounts = {a1}
  Null = Null
  MaxKilled = 2
SYMMETRY Symmetry
INVARIANTS
  IndInv
  RegistryIsExact
  KilledIsCutOff
  DoneIsAccounted
  OrphanNeedsFault
PROPERTIES
  ImplementsLedger
