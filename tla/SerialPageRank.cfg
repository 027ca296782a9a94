SPECIFICATION FairSpec
CONSTANTS
  A = 1
  B = 2
  T = 64
  MaxEdges = 5
  MaxVertex = 2
  Files <- MCFiles
INVARIANTS ReturnsStationary
PROPERTIES ImplementsPowerIteration
