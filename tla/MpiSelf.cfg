SPECIFICATION FairSpec
CONSTANTS
  A = 1
  B = 2
  T = 16
  Sizes = {1, 2}
  MaxEdges = 4
  MaxVertex = 2
  Files <- MCFiles
  Hole = Hole
INVARIANTS WorkDivided CrashNeedsTooManyRanks
PROPERTIES ImplementsSerial
