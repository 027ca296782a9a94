SPECIFICATION Spec
CONSTANTS
  A = 1
  B = 2
  T = 16
  Sizes = {2}
  MaxEdges = 3
  MaxVertex = 2
  Files <- MCFiles
  Hole = Hole
INVARIANTS OutputIsPageRank
