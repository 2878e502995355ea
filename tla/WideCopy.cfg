SPECIFICATION Spec
CONSTANTS
  Loops <- WideCopy
  Lengths = {32}
  Iterations = {2}
  MaxPasses = 1
INVARIANT ExactWork
