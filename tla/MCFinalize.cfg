SPECIFICATION FinalizeSpec
CONSTANTS
  Calls = {c1, c2}
  Commits = {k1, k2}
  NoCommit = NoCommit
  MaxCommands = 2
  MaxMoves = 1
  Requests <- MCRequests
CONSTRAINT OverlapOrDepth
SYMMETRY Interchangeable
CHECK_DEADLOCK FALSE
INVARIANTS
  CompletedIsEvidenced
  UncertainStops
  
  IngestAgrees

  
