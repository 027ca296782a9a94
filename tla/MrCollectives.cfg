CONSTANTS
  N = 3
  Shares <- MCShares
  Task <- MCTask
  CollapseKeys = {1}
  IntMaxes = {6, 100}
  PageSize = 9
  PairHead = 3
  MultiHead = 0
  ValueHead = 1
  MaxPage = 0
  MaxUnique = 2
  MinSpool = 3
  HashBits = 2
  HashOf <- MCHashOf
  FreePages = {TRUE, FALSE}
  OutOfCores <- MCOutOfCores
  WideBroadcast = FALSE
  MaxCalls = 1
SPECIFICATION Spec
INVARIANTS NothingLeft
PROPERTIES ImplementsPairs Returns
