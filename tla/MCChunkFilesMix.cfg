CONSTANTS
    Diffs <- SomeDiffs
    MaxChunks = 3
    MaxRounds = 3
SPECIFICATION FilesSpec
INVARIANT
    OwnContent
CHECK_DEADLOCK FALSE
