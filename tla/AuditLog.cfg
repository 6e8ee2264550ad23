SPECIFICATION FairSpec
CONSTANTS
  Writers = {w1, w2, w3}
  Contents = {c1, c2}
  Nobody = Nobody
  MaxSeq = 5
CHECK_DEADLOCK FALSE
INVARIANTS
  IndInv
  ChainIsWhole
  TamperEvident
PROPERTIES
  ImplementsChain
  AppendFinishes
