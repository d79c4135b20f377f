CONSTANTS
    Inputs <- MCDriftInputs
    Limits <- MCDriftLimits
    HeaderSizes <- MCHeaderSizes
    RECORD_HEADER_SIZE <- MCRecordHeader
    Drift <- Drifting
SPECIFICATION TransferSpec
CHECK_DEADLOCK FALSE
INVARIANTS
    NothingButWholeFiles
