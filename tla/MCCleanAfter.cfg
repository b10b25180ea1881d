SPECIFICATION Spec
CONSTANTS
    Nodes = {"n0"}
    Capacity = 1
    StopJoins = {FALSE}
    MaxFaults = 0
CHECK_DEADLOCK FALSE
INVARIANTS
    CleanedAfterExit
