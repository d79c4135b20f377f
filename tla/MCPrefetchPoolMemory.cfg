CONSTANTS
    FileBlocks <- MCOneFile
    Workers = {w1, w2}
    CHUNK_DEPTH = 1
    ReadErrors = FALSE
SPECIFICATION Spec
INVARIANTS
    StreamMemoryCapped
CHECK_DEADLOCK FALSE
