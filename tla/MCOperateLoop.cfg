SPECIFICATION OperateSpec
CONSTANTS
  MaxIterations = 3
  InitialBudget <- MCBudget
  Observable <- MCObservable
  Trees <- MCTrees
INVARIANTS
  RetriesWithinBudget
  NoCleanRestartOverWork
PROPERTIES
  RestartNeedsReceipt
CHECK_DEADLOCK FALSE
