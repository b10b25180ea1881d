SPECIFICATION FairSpec
CONSTANTS
    MaxNodes  = 9
    MaxHosts  = 4
    MaxWeight = 3
INVARIANTS
    EveryNodeOnOneHost
    FairShares
PROPERTIES
    SpreadEnds
