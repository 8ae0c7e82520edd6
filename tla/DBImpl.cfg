CONSTANTS
    Key = {1, 2}
    kNumLevels = 3
    kMaxMemCompactLevel = 1
    MaxSeq = 3
    Writes <- MCTwoWrites
    MaxFile = 9
    MaxSnapshots = 1
    MaxReaders = 1
    MaxErrors = 1
    Stops = {TRUE, FALSE}
    None = None
SPECIFICATION Spec
INVARIANTS FilesPresent LevelsDisjoint NumbersFresh ReadsHistory
PROPERTY ImplementsKVStore
CHECK_DEADLOCK FALSE
