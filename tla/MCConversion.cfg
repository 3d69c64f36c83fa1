SPECIFICATION RecordsSpec
CONSTANTS
    a = a
    b = b
    c = c
    None = None
    Holder = {a, b, c}
    Edge <- MCEdge
    Source <- MCSource
    Target <- MCTarget
    StartMoney <- MCMoney
    StartInventory = {0}
    RestockThreshold = 2
    InventoryWidth = 8
    BuyIn = 1
    Debug = TRUE
    Rank <- MCRank
INVARIANTS
    TypeOK
    NoConversionFails
    AbortsOnlyOnRivals
    RecordsAreHonoured
    ListIsFaithful
PROPERTIES
    ImplementsRecruitment
CHECK_DEADLOCK FALSE
