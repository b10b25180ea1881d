SPECIFICATION FairSpec
CONSTANTS
    Entries   <- MCEntries
    Names     <- MCNames
    Contest   = "contest"
    NameOf    <- MCNameOf
    Errors    <- MCErrors
    Malformed <- OneMalformed
    Capacity  = 2
    ExitOnError = TRUE
    MaxFaults = 2
INVARIANTS
    SaverInv
    NothingLost
    StoredInArrivalOrder
    DuplicatesOnlyByFaults
    EarliestErrorReported
    FlushedAtStop
    NothingStoredAfterMalformed
PROPERTIES
    ImplementsLogStore
    StoredEventually
    StopTerminates
