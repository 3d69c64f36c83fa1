SPECIFICATION Spec
CONSTANTS
    a = a
    b = b
    c = c
    None = None
    Holder = {a, b, c}
    Edge <- MCEdge
    Source <- MCSource
    Target <- MCTarget
    StartMoney <- MCMoney
    StartInventory <- MCInventory
    RestockThreshold = 2
    InventoryWidth = 8
    Price = 2
INVARIANTS
    TypeOK
    RestockSetNeverStale
    UndefinedHasACause
PROPERTIES
    NothingMovesUnrecorded
    ImplementsLedger
CHECK_DEADLOCK FALSE
