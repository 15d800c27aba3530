CONSTANTS
  o1 = o1
  o2 = o2
  o3 = o3
  NoOwner = NoOwner
  Owner = {o1, o2, o3}
  MaxAcquire = 4
SPECIFICATION LeaseSpec
SYMMETRY OwnerSymmetry
CHECK_DEADLOCK FALSE
INVARIANTS
  HolderIsOnDisk
PROPERTIES
  LeaseLostOnlyByRelease
  LiveRecordKept
  ImplementsSingleHolder
