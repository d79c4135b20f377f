CONSTANTS
    FileBlocks <- MCFileBlocks
    Workers = {w1, w2}
    CHUNK_DEPTH = 1
    ReadErrors = TRUE
SPECIFICATION Spec
INVARIANTS
    TypeOK
    MemoryBounded
    JoinFindsAllRead
PROPERTIES
    ReadsInOrder
    ConsumerEnds
    WorkersEnd
CHECK_DEADLOCK FALSE
