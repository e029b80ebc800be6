SPECIFICATION Spec
CONSTANTS
  Requests = {r1, r2}
  Objects = {o1, o2}
  Pids = {p1}
  None = None
  MaxOps = 1
SYMMETRY Symmetry
INVARIANTS
  TypeOK
  CountsMatchHolders
  NoUseAfterFree
  AttachedOnlyVerified
  NothingHeldAfterReturn
PROPERTIES
  ImplementsAccessGrant
