SPECIFICATION FairSpec
CONSTANTS
    MaxTicks = 3
    NullTicks = {1}
    MaxQuits = 2
    NoThread = NoThread
INVARIANTS
    DequeExclusive
CHECK_DEADLOCK FALSE
