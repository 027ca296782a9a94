SPECIFICATION Spec
CONSTANTS
  A = 1
  B = 2
  T = 16
  Size = 2
  Owner <- MCOwner
  MaxValues = 2
  MaxEdges = 3
  MaxVertex = 2
  Files <- MCFiles
  NaN = NaN
  Hole = Hole
INVARIANTS FactorIsNumber
