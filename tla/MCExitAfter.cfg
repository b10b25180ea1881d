SPECIFICATION FairSpec
CONSTANTS
    Nodes = {"n0"}
    Capacity = 2
    StopJoins = {FALSE}
    MaxFaults = 0
CHECK_DEADLOCK FALSE
PROPERTIES
    ExitAfterExits
