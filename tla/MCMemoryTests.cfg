SPECIFICATION MainSpec
CONSTANTS
  ElementCount = 6
  Tests = {"FillPatternArr", "FillPageByPage", "RunTlbTest", "RunMlpTest", "RunAopTest", "longpattern"}
  PageLines = 4
  ListSizes = {3, 7, 12, 16}
  ElementCounts = {1, 2, 6}
  MlpLines = 5
  MaxParallelism = 5
  LineCount = 4
  Words = 3
INVARIANTS
  MainTypeOK
  OneCycle
  LapIsWhole
  LoadsIndependent
PROPERTIES
  PageLocality
