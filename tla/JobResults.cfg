SPECIFICATION JobSpec
CONSTANTS
  N = 2
  C = 2
  P = 4
  RKeys <- MCKeys
  Part <- MCPart
  Emit <- MCEmit
  Faults = {"new_key", "map", "merge", "map_times", "reduce", "reduce_times"}
  NoThread = NoThread
  Absent = Absent
  End = End
  Unspecified = Unspecified
INVARIANTS ClaimedOnce ExactlyOnce ReducedOnce CountersAccount AllRead
PROPERTIES NoLateStep ImplementsContract EndsOrLeaks
CHECK_DEADLOCK FALSE
