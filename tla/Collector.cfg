SPECIFICATION FairSpec
CONSTANTS
    Collectors = {"follow", "backfill"}
    MaxHeight = 4
    StartHeight = 2
    UntilHeight <- MCUntil
    PoolSnapshotInterval = 2
    MaxFaults = 2
INVARIANTS
    TypeOK
    NoHoles
PROPERTIES
    SyncedMovesByOne
    RangeIsCollected
