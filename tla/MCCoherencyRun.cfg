SPECIFICATION FairMainSpec
CONSTANTS
  NumProcs = 6
  ParallelismFactor = 2
  Offsets = 2
  MaxFailures = 1
INVARIANTS
  MainTypeOK
  DisjointPairs
  RoundIsMaximal
  MeasuredOnce
  ZeroMeansFailed
PROPERTIES
  RunEnds
