SPECIFICATION FairSpec
CONSTANTS
    MaxTaken = 3
    Gbas = {g1, g2}
    Nobody = Nobody
PROPERTIES CorrectionIsHeard ResetReturns
INVARIANTS
    CorrectionIsExclusive
    MergeDeletesNoKeyFrame
    ResetLeavesNoKeyFrame
    NoThreadDetachedTwice
CHECK_DEADLOCK FALSE
CONSTRAINT Tight
