CONSTANTS
    Key = {1, 2}
    kNumLevels = 4
    kMaxMemCompactLevel = 2
    MaxSeq = 4
    Writes <- MCWrites
    MaxFile = 11
    MaxSnapshots = 1
    MaxReaders = 0
    MaxErrors = 0
    Stops = {}
    None = None
SPECIFICATION Spec
INVARIANTS DeletesHold
CHECK_DEADLOCK FALSE
