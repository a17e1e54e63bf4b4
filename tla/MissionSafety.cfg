SPECIFICATION Spec
CONSTANTS
    Maps = {m0, m1}
    FirstMap = m0
    NoMap = NoMap
    Unplanned = Unplanned
    MaxPath = 1
    MaxReinits = 1
    MaxDups = 1
INVARIANTS
    FlagMeansOutstanding
    NoWaypointsLeftOver
PROPERTIES
    OnlySearchRevives
CHECK_DEADLOCK FALSE
