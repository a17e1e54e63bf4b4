SPECIFICATION FairSpec
CONSTANTS
    a = a
    b = b
    c = c
    NoPlace = NoPlace
    NoTree = NoTree
    Places <- MCPlaces
    Octrees <- MCOctrees
    AnyGain = FALSE
    InitIterations = 2
    CutoffIterations = 2
    MaxTries = 1
    MaxTrail = 3
INVARIANTS
    PlanStartsAtDrone
PROPERTIES
    WayBackRetraces
    PlansAreFree
    PlannerAnswers
