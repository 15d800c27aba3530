CONSTANTS
  o1 = o1
  o2 = o2
  NoOwner = NoOwner
  Owner = {o1, o2}
  MaxAcquire = 2
  MaxEvents = 3
SPECIFICATION Spec
SYMMETRY OwnerSymmetry
CHECK_DEADLOCK FALSE
INVARIANTS
  WritersTakeTurns
  CursorsNewUnlessRaced
PROPERTIES
  AppendsUnderLease
