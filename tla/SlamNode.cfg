SPECIFICATION FairSpec
CONSTANTS
    MaxMaps = 3
    MaxKFs = 4
    Frames = {f0, f1, f2, f3}
    NoFrame = NoFrame
    LostKFs = 2
    MergeKFs = 3
INVARIANTS
    CurrentMapIsGood
    IdsUnique
    FramesMixOnlyWhenOvertaken
    PoseInItsMap
PROPERTIES
    TopologyAnnounced
CHECK_DEADLOCK FALSE
