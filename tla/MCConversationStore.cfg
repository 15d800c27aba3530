SPECIFICATION StoreSpec
CONSTANTS
  Proc = {p1, p2, p3}
  Gone = {p3}
  NoProc = NoProc
  p1 = p1
  p2 = p2
  p3 = p3
  MaxOps = 3
  MaxFaults = 2
INVARIANTS
  HolderOwnsLock
  
PROPERTIES
  WaiterProceeds
CHECK_DEADLOCK FALSE
