SPECIFICATION FairSpec
CONSTANTS
  BwThreads = 2
  Modes = {"private", "shared", "bwonly"}
  Iterations = 3
  MaxPasses = 3
INVARIANTS
  TypeOK
  ReadsFilledArray
  LoadOutlastsChase
  CountsComplete
PROPERTIES
  RunReturns
