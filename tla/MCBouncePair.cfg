SPECIFICATION FairSpec
CONSTANT Iterations = 20
INVARIANT NoLostUpdate
PROPERTIES
  BothJoin
  ImplementsPingPong
