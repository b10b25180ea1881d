SPECIFICATION Spec
CONSTANTS
    Hosts     = {"h0", "h1"}
    Nodes     = {"n0", "n1"}
    MaxCalls  = 3
    MaxFaults = 1
INVARIANTS
    PortsAreOwn
    PeersAreReachable
    CommonIsCommon
