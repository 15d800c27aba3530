CONSTANTS
  o1 = o1
  NoOwner = NoOwner
  Owner = {o1}
  MaxAcquire = 1
  MaxRenewals = 2
  MaxFailures = 2
SPECIFICATION FairSpec
CHECK_DEADLOCK FALSE
PROPERTIES
  StopCompletes
  StartSettles
