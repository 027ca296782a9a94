SPECIFICATION Spec
CONSTANTS
  Segment = 2
  MapPage = 5
  NoFile = NoFile
  Directory = Directory
  Directories <- MCDirectories
  Words = {1, 2}
  P = 2
  Part <- MCPart
  Cpus = {1, 3}
  OpenLimits = {12, 22}
  TasksThrow = TRUE
INVARIANTS SegmentsDivide MergesAll AbortsOnlyIf NoFilesLeft
PROPERTIES ImplementsContract Terminates
