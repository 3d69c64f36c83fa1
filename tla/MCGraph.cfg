SPECIFICATION LoggingSpec
CONSTANTS
    Unique = {1, 2, 3}
    GraphSizes = {1, 2, 3}
    LinkChances <- MCLinkChances
    EdgeLimits = {1, 2}
    MaxTicks = 2
INVARIANTS
    LoggingTypeOK
    SimpleGraph
    LinksFollowTheDraws
    VisitsSeeTheirWrites
    LogIsAPrefix
    AtMostOneLateLine
PROPERTIES
    BuildEnds
CHECK_DEADLOCK FALSE
