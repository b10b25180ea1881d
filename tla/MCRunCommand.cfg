SPECIFICATION FairSpec
CONSTANTS
    Nodes = {"n0", "n1"}
    Capacity = 2
    StopJoins = {TRUE, FALSE}
    MaxFaults = 1
CHECK_DEADLOCK FALSE
INVARIANTS
    NoLeftovers
    ClosedHostsStayQuiet
    DatabaseOutlivesUsers
    GreenMeansFinished
PROPERTIES
    StartupEnds
    ClosesUnlessBlocked
