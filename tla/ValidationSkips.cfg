SPECIFICATION Spec
CONSTANTS
    Pair <- MCPair
    Token <- MCToken
    TokenOf <- MCTokenOf
    CreatedAt <- Created1
    MaxHeight = 4
    Interval = 2
    Modulus = 100
    SameHeightTolerance = 1
    TaxedAt <- Nowhere
    HeldAt <- Nowhere
    MaxFaults = 1
INVARIANT
    NoBoundaryIsSkipped
