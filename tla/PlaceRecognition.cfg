SPECIFICATION FairSpec
CONSTANTS
    LastId = 3
    Threads = {mapper, closer}
    mapper = mapper
    closer = closer
    NULL = NULL
    Searches = {"loop", "merge"}
    Enough = 2
    SmallMap = 2
INVARIANTS
    NoCycle
    LostPoseResolves
    ParentKnows
    ProtectedIsInUse
PROPERTIES
    DeferredErasureHappens
    KeyFramesPassOn
CHECK_DEADLOCK FALSE
