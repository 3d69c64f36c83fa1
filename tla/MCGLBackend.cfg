SPECIFICATION FairSpec
CONSTANTS
    MaxTicks = 3
    NullTicks = {1}
    MaxQuits = 2
    NoThread = NoThread
INVARIANTS
    TypeOK
    OneTaskAfterInterrupt
    QuitsConserved
    OrderlyEndMeansNoWindow
PROPERTIES
    ImplementsChannel
    InterruptEnds
    WorkTakenUp
CHECK_DEADLOCK FALSE
