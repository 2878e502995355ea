SPECIFICATION MainSpec
CONSTANTS
  NumProcs = 3
  ParallelismFactor = 1
  Offsets = 1
  MaxFailures = 1
INVARIANT EveryThreadCompleted
