SPECIFICATION FairSpec
CONSTANTS
    Nodes = {"n0", "n1"}
    Capacity  = 1
    MaxCalls  = 2
    MaxFaults = 1
INVARIANTS
    OneRunningContainer
    ReportsFollowEnds
PROPERTIES
    EndsAreReported
    ReturnsUnlessBlocked
