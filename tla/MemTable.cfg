CONSTANTS
    UserKey = {1, 2}
    MaxSeq = 3
    kMaxHeight = 2
    Reader = {r1}
    Size <- MCSize
    kBlockSize = 16
    kAlign = 2
    kLink = 2
    Nil = Nil
    Garbage = Garbage
SPECIFICATION Spec
INVARIANTS LoadsValid ChunksApart
PROPERTIES SearchesRight GetsAsOf
CHECK_DEADLOCK FALSE
