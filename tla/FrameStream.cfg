SPECIFICATION FairStreamSpec
CONSTANTS
    MaxFrames = 4
    MaxStarts = 2
INVARIANT CrashOnlyAfterRestart
PROPERTIES
    OwnTimeUnlessOvertaken
    HandshakeCompletes
CHECK_DEADLOCK FALSE
