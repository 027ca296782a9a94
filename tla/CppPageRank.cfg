SPECIFICATION FairSpec
CONSTANTS
  A = 1
  B = 2
  T = 16
  C = 2
  MaxFaults = 1
  MaxEdges = 4
  MaxVertex = 2
  Files <- MCFiles
INVARIANTS CleanIteration
PROPERTIES ImplementsSerial Terminates
