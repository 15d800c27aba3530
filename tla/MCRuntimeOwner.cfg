CONSTANTS
  o1 = o1
  o2 = o2
  NoOwner = NoOwner
  Owner = {o1, o2}
  MaxAcquire = 2
  MaxRenewals = 1
  MaxFailures = 1
SPECIFICATION Spec
SYMMETRY OwnerSymmetry
CHECK_DEADLOCK FALSE
INVARIANTS
  OneListener
PROPERTIES
  AuthorityClosedBeforeRelease
