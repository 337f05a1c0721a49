SPECIFICATION FairSpec
CONSTANTS
    Pair <- MCPair
    Token <- MCToken
    TokenOf <- MCTokenOf
    CreatedAt <- Created1
    MaxHeight = 2
    Interval = 2
    Modulus = 100
    SameHeightTolerance = 1
    TaxedAt <- Taxed1
    HeldAt <- Nowhere
    MaxFaults = 1
PROPERTY
    RestartContinuesValidation
