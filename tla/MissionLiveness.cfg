SPECIFICATION FairSpec
CONSTANTS
    Maps = {m0, m1}
    FirstMap = m0
    NoMap = NoMap
    Unplanned = Unplanned
    MaxPath = 1
    MaxReinits = 1
    MaxDups = 0
PROPERTIES
    NbvFlagClears
    HopEnds
CHECK_DEADLOCK FALSE
