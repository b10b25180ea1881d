SPECIFICATION FairSpec
CONSTANTS
    Nodes      <- MCNodes
    Contest    = "contest"
    LineKind   <- MCLineKind
    ReadyKind  = "event"
    Kinds      <- MCKinds
    N          = 3
    Registers  <- MCRegisters
    LastMatch  = "last_match"
    Nothing    = "none"
    KindOf     <- MCKindOf
    AfterReg   <- MCAfterReg
    ToReg      <- MCToReg
    ActionNode <- MCActionNode
    StopJoins  <- NeverJoins
    Capacity   = 1
    MaxFaults  = 1
    MaxLog     = 14
    MaxBatch   = 2
INVARIANTS
    MatchIsLater
PROPERTIES
    KeepsWatcher
    LineMovesScenario
