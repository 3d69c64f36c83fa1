SPECIFICATION Spec
CONSTANTS
    p = p
    q = q
    r = r
    c = c
    None = None
    Holder = {p, q, r, c}
    Sale <- MCSale
    Seller <- MCSeller
    Buyer <- MCBuyer
    StartMoney <- MCMoney
    Price = 4
    WholesaleCost = 2
    One = 1
    Commission = 2
INVARIANTS
    LastWasRecruitedByCompany
CHECK_DEADLOCK FALSE
