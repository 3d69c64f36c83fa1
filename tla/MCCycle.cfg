SPECIFICATION Spec
CONSTANTS
    a = a
    b = b
    c = c
    None = None
    Holder = {a, b, c}
    Edge <- MCEdge
    Source <- MCSource
    Target <- MCTarget
    StartMoney <- MCMoney
    StartInventory <- MCInventory
    RestockThreshold = 2
    InventoryWidth = 8
    Price = 2
    WholesaleCost = 1
    One = 1
    Commission = 1
    BenefitFormula = "CompanyCommission"
    BuyIn = 1
    BuildType = "Release"
    MaxTicks = 2
INVARIANTS
    SalesStartAsAssumed
    NobodyIsPaid
    ExceptionsMoveNothing
PROPERTIES
    BackendsSeeNothingMove
CHECK_DEADLOCK FALSE
