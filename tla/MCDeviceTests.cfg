SPECIFICATION FairMainSpec
CONSTANTS
  Tests = {"svm_atomics", "svm_buffer", "global_atomic", "local_atomic", "c2c_atomic"}
  FailingTests = {"svm_buffer", "global_atomic", "local_atomic", "c2c_atomic"}
  CuCount = 3
  MaxIterations = 4
  MaxFailures = 1
  Launches <- SafeLaunches
  ListSizes = {1, 4, 6, 7}
  MaxLoads = 4
  MaxItems = 4
INVARIANTS
  MainTypeOK
  StrictExchange
  BufferOutlivesWorkers
  WaveSharesItem
  OwnSection
PROPERTY Returns
