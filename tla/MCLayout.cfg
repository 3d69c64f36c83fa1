SPECIFICATION Spec
CONSTANTS
    N = 3
    Springs <- MCSprings
    Placements <- MCPlacements
    Thresholds <- MCThresholds
    TickLimits = {0, 1, 2, 3}
    NoMaximum = NoMaximum
    Repulsion = 5
    Stiffness = 4
    MaxSpeed = 4
    DampingNumerator = 1
    DampingDenominator = 2
    MaxCalls = 2
    TickBound = 4
INVARIANTS
    TypeOK
    ForcesCancel
    OneTickIsNone
    StoppedIsFinal
PROPERTIES
    LayoutEnds
CHECK_DEADLOCK FALSE
