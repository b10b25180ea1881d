SPECIFICATION FairSpec
CONSTANTS
    Stamp <- MCStamp
    MaxFaults = 3
    MaxCuts   = 1
INVARIANTS
    NothingSkipped
    NoRewind
PROPERTIES
    DeliveredEventually
