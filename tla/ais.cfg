CONSTANTS
    Vessels = {"roamer", "liner"}
    Frames <- MCFrames
    Capacity = 2
    Ttl = 1
    PruneEvery = 1
    Initial = 2
    MaxWait = 3
    ResetAfter = 1
    Width = 2
    Grace = 1
    OtherDrains = 1
SPECIFICATION AisSpec
INVARIANT TableIsCurrent
PROPERTIES
    CountsTheRecent
    SilenceEndsPublishing
    Reconnects
CHECK_DEADLOCK FALSE
