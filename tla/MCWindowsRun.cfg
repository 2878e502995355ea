SPECIFICATION FairMainSpec
CONSTANTS
  Iterations = 3
  numProcs = 3
  offsets = 2
  MaxFailures = 1
INVARIANTS
  MainTypeOK
  OneStoreInFlight
PROPERTIES
  EveryTestIsAnExchange
  MatrixPrinted
