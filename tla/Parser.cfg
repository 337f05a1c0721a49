SPECIFICATION FairSpec
CONSTANTS
    Tx <- MCTx
    Pair <- MCPair
    NoPair = "none"
    MaxHeight = 3
    Height <- MCHeight
    Position <- MCPosition
    Creates <- MCCreates
    Uses <- MCUses
    MaxBuild = 2
    Outcome <- MCOutcome
    Registrable <- MCRegistrable
    RetryMode <- StartupNext
    SameHeightTolerance = 1
    ErrTolerance = 1
    SnapshotInterval = 2
    MaxFaults = 2
INVARIANTS
    TypeOK
    ExactPrefix
    RowsHaveTheirPair
    EarlierPairsAreFound
    PairMapIsFresh
PROPERTIES
    ResolvedIsFinal
    NoNewHeightHidesNothing
    ImplementsLedger
    CatchesUp
    QuarantineDrains
