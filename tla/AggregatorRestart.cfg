SPECIFICATION FairSpec
CONSTANTS
    WindowTask = {"pairStats"}
    MaxHeight = 2
    Activity <- MCShortActivity
    PriceRows <- MCShortPriceRows
    PriceFrom = 1
    Window = 1
    Range = 1
    StartTs = 0
    CleanDups = FALSE
    MaxFaults = 1
INVARIANTS
    TypeOK
    PricesAreComplete
    LiquidityBeforePrice
    RecentExact
    WindowsOnce
PROPERTIES
    OneStopsAll
    EveryWindowIsDone
