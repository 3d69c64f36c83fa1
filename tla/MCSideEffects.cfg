SPECIFICATION FairSpec
CONSTANTS
    p = p
    q = q
    r = r
    c = c
    None = None
    Holder = {p, q, r, c}
    Sale <- MCSale
    Seller <- MCSeller
    Buyer <- MCBuyer
    StartMoney <- MCMoney
    Price = 4
    WholesaleCost = 2
    One = 1
    Commission = 2
INVARIANTS
    TypeOK
    ChainIsALine
    MoneyAccounted
    ExceptionBeforePayment
PROPERTIES
    TopRecruiterNeverPaid
    EffectsEnd
CHECK_DEADLOCK FALSE
