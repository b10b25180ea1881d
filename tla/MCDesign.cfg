SPECIFICATION Spec
CONSTANTS
    Files <- MCFiles
    HostPart <- MCHostPart
    Parses <- MCParses
    Compiles <- MCCompiles
    Renders <- MCCompiles
    Clashes <- MCClashes
    Sharing = {"shared"}
    Unwritable = {"n/1"}
    Null = Null
    Nil = Nil
    Other = Other
    Bad = Bad
INVARIANTS
    LoadedAsWritten
PROPERTIES
    RefusedEarly
CHECK_DEADLOCK FALSE
