SPECIFICATION Spec
CONSTANTS
    None = None
    Factory = Factory
    Token = Token
    Coin1 = Coin1
    Coin2 = Coin2
    Foreign = Foreign
    ForeignToken = ForeignToken
    P1 = P1
    P2 = P2
    Lp1 = Lp1
    Lp2 = Lp2
    User = User
    Friend = Friend
    Collector = Collector
    Cw20 = {Token, ForeignToken}
    LongDenoms = {}
    TokenGift = 11
    MaxOps = 2
INVARIANTS
    TypeOK
    RowsAddUp
    PartialKeepsTheRest
    OnlyForeignAssetsBlock
    LogOrderDoesNotMatter
CHECK_DEADLOCK FALSE
