CONSTANTS
  p1 = p1
  p2 = p2
  r1 = r1
  r2 = r2
  r3 = r3
  r4 = r4
  Nobody = Nobody
  Procs = {p1, p2}
  Receipts = {r1, r2, r3, r4}
  MaxFailures = 3
SPECIFICATION Spec
SYMMETRY StoreSymmetry
CHECK_DEADLOCK FALSE
INVARIANTS
  CursorsIncrease
  SpoolFollowsIndex
  SpooledOnce
  LossIsOnePerTear
