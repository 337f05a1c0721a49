SPECIFICATION Spec
CONSTANTS
    WindowTask = {"pairStats"}
    MaxHeight = 3
    Activity <- MCActivity
    PriceRows <- MCPriceRows
    PriceFrom = 1
    Window = 1
    Range = 1
    StartTs = 2
    CleanDups = TRUE
    MaxFaults = 2
INVARIANTS
    LiquidityBeforePrice
    WindowsOnce
PROPERTIES
    StatsArePriced
