SPECIFICATION Spec
CONSTANTS
  w1 = w1
  Poller = {w1}
  MaxJobs = 2
  MaxAttempts = 2
INVARIANTS
  OneGenerationPerId
  CancelledIsQuiet
PROPERTIES
  ToldIsNotInjected
  EveryResultSurfaces
CHECK_DEADLOCK FALSE
