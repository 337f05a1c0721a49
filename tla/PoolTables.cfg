\* Two pairs, three blocks, one quarantined block and one failure.
SPECIFICATION Spec
CONSTANTS
    Pair = {P, Q}
    MaxHeight = 3
    Limit = 2
    Deltas <- MCDeltas
    MaxHeld = 1
    MaxFaults = 1
INVARIANTS
    TypeOK
    PoolsAddUp
    LpHistoryIsExact
PROPERTIES
    CheckpointSettles
    CursorMovesForward
