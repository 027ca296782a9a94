CONSTANTS
  Mrs = {a, b}
  Keys = {1, 2, 3}
  Numbers = {1, 2}
  Batches <- MCBatches
  PageSize = 4
  PairHead = 1
  MultiHead = 0
  ValueHead = 1
  MaxPage = 0
  MaxUnique = 2
  MinSpool = 2
  HashBits = 2
  HashOf <- MCHashOf
  FreePages = {TRUE, FALSE}
  OutOfCores <- MCOutOfCores
  Settings = {0, 1}
  Strides = {2}
  MaxPairs = 6
  MaxCalls = 4
SPECIFICATION Spec
SYMMETRY MCSymmetry
INVARIANTS ContentsKept GroupsKept NothingLost PagesAccounted DiskAccounted
PROPERTIES WholeStore
CHECK_DEADLOCK FALSE
