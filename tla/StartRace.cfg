SPECIFICATION MainSpec
CONSTANTS
  Tests = {}
  FailingTests = {}
  CuCount = 2
  MaxIterations = 2
  MaxFailures = 0
  Launches <- VectorLaunches
  ListSizes = {4}
  MaxLoads = 1
  MaxItems = 4
INVARIANTS
  WaveSharesItem
