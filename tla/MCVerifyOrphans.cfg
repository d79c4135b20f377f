CONSTANTS
    MTIME_TOLERANCE = 2
    c1 = c1
    c2 = c2
    c3 = c3
    t1 = t1
    t2 = t2
    Trees <- VerifyTrees
SPECIFICATION VerifySpec
INVARIANT
    CompleteMeansMatch
CHECK_DEADLOCK FALSE
