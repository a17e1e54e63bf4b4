SPECIFICATION FairSpec
CONSTANTS
    Maps = {m0, m1}
    MapZero = m0
    GroundMap = m0
    NoMap = NoMap
    MaxSwitches = 3
    MaxJobs = 1
INVARIANTS
    OneVerdict
PROPERTIES
    ImplementsRegistry
    TransitionsDecided
    ConsumersCatchUp
CHECK_DEADLOCK FALSE
