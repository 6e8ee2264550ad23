SPECIFICATION Spec
CONSTANTS
  Users = {u1, u2}
  SAs = {s1}
  Group = Group
  Keys = {k1, k2}
  GrantIds = {g1, g2}
  Conns = {c1}
  None = None
SYMMETRY Symmetry
INVARIANTS
  IndInv
PROPERTIES
  SignerIsTheSubject
  DeletedIsShutOut
