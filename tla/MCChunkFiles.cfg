CONSTANTS
    Diffs <- SomeDiffs
    MaxChunks = 3
    MaxRounds = 3
SPECIFICATION FilesSpec
INVARIANTS
    NewestStored
    StaleLast
CHECK_DEADLOCK FALSE
