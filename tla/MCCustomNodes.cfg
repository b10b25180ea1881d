SPECIFICATION Spec
CONSTANTS
    Nodes = {"n0"}
    Capacity  = 1
    MaxCalls  = 3
    MaxFaults = 0
INVARIANTS
    CustomNodesRunTheirCommands
