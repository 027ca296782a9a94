SPECIFICATION FairSpec
CONSTANTS
  A = 1
  B = 2
  T = 16
  Size = 3
  Owner <- MCOwner
  MaxValues = 99
  MaxEdges = 3
  MaxVertex = 2
  Files <- MCFiles
  NaN = NaN
  Hole = Hole
INVARIANTS EachVertexOnce LeaveTogether OutputIsPageRank
PROPERTIES ImplementsPowerIteration
