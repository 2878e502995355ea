SPECIFICATION FairMainSpec
CONSTANTS
  Sizes <- SmallOddLarge
  MaxThreads = 2
  Gigabytes = {16, 31, 48}
  SmallSize = 4
  Mega = 4
  IntSpan = 256
  LongSpan = 65536
  Events = {1, 2}
  MaxFailures = 1
INVARIANTS
  MainTypeOK
  ReportedIsMoved
  RowsOwnCounters
PROPERTY RunEnds
