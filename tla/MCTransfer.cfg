CONSTANTS
    Inputs <- MCInputs
    Limits <- MCLimits
    HeaderSizes <- MCHeaderSizes
    RECORD_HEADER_SIZE <- MCRecordHeader
    Drift <- Stable
SPECIFICATION TransferSpec
CHECK_DEADLOCK FALSE
INVARIANTS
    TypeOK
    MetadataBeforeContent
    ContentFollowsItsChange
    StreamOrdered
    FragmentsConnect
    NothingLost
    BoundedOvershoot
    RoomyChunksProgress
    NothingButWholeFiles
    DamageIsDetected
    ContentMeansComplete
PROPERTIES
    Termination
    DeliveryRefined
    ApplyEnds
