CONSTANTS
    Inputs <- MCTwoRemovals
    Limits <- MCRoomy
    HeaderSizes <- MCHeaderSizes
    RECORD_HEADER_SIZE <- MCRecordHeader
    Drift <- Stable
SPECIFICATION Spec
CHECK_DEADLOCK FALSE
INVARIANTS
    ChunksWithinLimit
