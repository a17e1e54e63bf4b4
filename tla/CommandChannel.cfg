SPECIFICATION FairSpec
CONSTANT MaxSlips = 0
PROPERTIES
    StaleVelocityReplaced
    PilotWins
    WatchdogFed
    QuitDisconnects
CHECK_DEADLOCK FALSE
