CONSTANTS
    MTIME_TOLERANCE = 2
    c1 = c1
    c2 = c2
    c3 = c3
    t1 = t1
    t2 = t2
    Trees <- SyncTrees
    MaxEdits = 2
    MaxRounds = 2
    MaxFaults = 2
    Now = 99
    FreshMode = 0
SPECIFICATION SyncSpec
INVARIANTS
    TargetFollows
    CleanRoundHeals
    DriftBounded
CHECK_DEADLOCK FALSE
