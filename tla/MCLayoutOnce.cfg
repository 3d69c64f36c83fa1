SPECIFICATION Spec
CONSTANTS
    N = 3
    Springs <- MCSprings
    Placements <- MCPlacements
    Thresholds <- MCThresholds
    TickLimits = {3}
    NoMaximum = NoMaximum
    Repulsion = 5
    Stiffness = 4
    MaxSpeed = 4
    DampingNumerator = 1
    DampingDenominator = 2
    MaxCalls = 2
    TickBound = 4
INVARIANT CalculatedOnce
CHECK_DEADLOCK FALSE
