SPECIFICATION FairSpec
CONSTANTS
    N = 4
    Storages  <- MCStorages
    Kinds     <- MCKinds
    Registers <- MCRegisters
    LastMatch = "last_match"
    Nothing   = "none"
    StorageOf <- MCStorageOf
    KindOf    <- MCKindOf
    AfterReg  <- MCAfterReg
    ToReg     <- MCToReg
    WithAction <- MCWithAction
    StopJoins <- EitherJoins
    MaxLog    = 3
    MaxBatch  = 2
    MaxFaults = 1
CHECK_DEADLOCK FALSE
INVARIANTS
    FreshQuery
    MatchesAfterRegister
PROPERTIES
    NothingAfterCancel
    ImplementsScenario
    MatchAdvances
    StopReturns
