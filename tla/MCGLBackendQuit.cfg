SPECIFICATION FairSpec
CONSTANTS
    MaxTicks = 3
    NullTicks = {1}
    MaxQuits = 2
    NoThread = NoThread
PROPERTIES
    UserCanExit
CHECK_DEADLOCK FALSE
