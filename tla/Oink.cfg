SPECIFICATION Spec
CONSTANTS
    Procs = 2
    Disk <- MCDisk
    Blank = Blank
    Bad = Bad
    None = None
    SepLength = 2
    Names = {"a", "b"}
    Texts = {"a", "f", "g"}
    Strings <- MCStrings
    Variables = {"v_x", "v_y"}
    Settings <- MCSettings
    Prepends = {None}
    Substitutes = {0, 2}
    MapLines <- MCMapLines
    MaxLines = 3
INVARIANTS NamesKept CrashesOnlyIf ChunksDivide
PROPERTIES LeftoverHalved MapEnds
CHECK_DEADLOCK FALSE
