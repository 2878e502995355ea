SPECIFICATION FairSpec
CONSTANTS
  Functions = {"InstructionRate", "measureFunction", "Measure2TBw"}
  TestFuncs <- SoundFunctions
  threadCount = 3
  Costs = {1, 3, 5, 100}
  Iterations = {8, 60, 120, 401}
  MinTime = 2000
  TargetTime = 3000
  ShortTime = 50
  Overhead = 2
INVARIANTS
  TypeOK
  ResultIsRate
PROPERTY MeasureEnds
