SPECIFICATION FairSpec
CONSTANTS
    Pair <- MCPair
    Token <- MCToken
    TokenOf <- MCTokenOf
    CreatedAt <- Created5
    MaxHeight = 8
    Interval = 3
    Modulus = 9
    SameHeightTolerance = 0
    TaxedAt <- Taxed2
    HeldAt <- Held5
    MaxFaults = 1
INVARIANTS
    TypeOK
    NoLostWakeup
    
PROPERTIES
    CursorFollowsValidation
    EveryBoundaryIsValidated
    FailedValidationIsRetried
