SPECIFICATION Spec
CONSTANTS
  Client = {c1, c2}
  Called = {"validate", "operate", "finalize", "submit", "observe", "recover", "retire", "classify"}
  MaxCalls = 2
  MaxFrames = 1
  MaxOwners = 1
INVARIANTS
  BlockedHasReason
PROPERTIES
  RetirementJoinsHandlers
  LockedWritersKeepTerminal
SYMMETRY ClientSymmetry
CHECK_DEADLOCK FALSE
