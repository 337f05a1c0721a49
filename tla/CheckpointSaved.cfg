\* Two pairs, three blocks, nothing quarantined and no failure.
SPECIFICATION Spec
CONSTANTS
    Pair = {P, Q}
    MaxHeight = 3
    Limit = 2
    Deltas <- MCDeltas
    MaxHeld = 0
    MaxFaults = 0
INVARIANTS
    CheckpointIsSaved
