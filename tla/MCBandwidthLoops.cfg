SPECIFICATION FairSpec
CONSTANTS
  Loops <- SoundLoops
  Lengths = {16, 32}
  Iterations = {2, 8}
  MaxPasses = 34
INVARIANTS
  TypeOK
  EvenSweep
  ExactWork
PROPERTY LoopEnds
