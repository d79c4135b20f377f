CONSTANTS
    Inputs <- MCOneFile
    Limits <- MCTiny
    HeaderSizes <- MCHeaderSizes
    RECORD_HEADER_SIZE <- MCRecordHeader
    Drift <- Stable
SPECIFICATION Spec
CHECK_DEADLOCK FALSE
INVARIANTS
    EveryChunkProgresses
