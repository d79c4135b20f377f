CONSTANTS
    MTIME_TOLERANCE = 2
    Now = 9
    FreshMode = 3
    Temp = 99
    c1 = c1
    c2 = c2
    c3 = c3
    t1 = t1
    t2 = t2
    Trees <- ApplyTrees
    MaxRuns = 2
SPECIFICATION ApplySpec
INVARIANTS
    AppliedMatches
    VerifiedThenApplied
    ParentTimesPreserved
    ForeignKept
    OldOrNew
    RerunRepairs
PROPERTY
    RunEnds
CHECK_DEADLOCK FALSE
