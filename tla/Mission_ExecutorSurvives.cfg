SPECIFICATION Spec
CONSTANTS
    Maps = {m0, m1}
    FirstMap = m0
    NoMap = NoMap
    Unplanned = Unplanned
    MaxPath = 1
    MaxReinits = 1
    MaxDups = 0
INVARIANT ExecutorSurvives
CHECK_DEADLOCK FALSE
