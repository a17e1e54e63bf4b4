SPECIFICATION FairSpec
CONSTANTS
    Maps = {m1}
    Scales = {130, 140}
    TofScales = {100}
    NoScale = NoScale
    NoEntry = NoEntry
    NoJob = NoJob
    ConfirmationsRequired = 2
    MaxPrunes = 1
INVARIANTS
    DroppedMapsForgotten
    DepthJumpsConfirmed
PROPERTY ReliableTofWins
CHECK_DEADLOCK FALSE
