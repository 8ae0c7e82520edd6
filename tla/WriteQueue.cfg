CONSTANTS
    c1 = c1
    c2 = c2
    c3 = c3
    Client <- MCClient
    Requests <- MCRequests
    kBlockSize = 6
    kHeaderSize = 2
    MaxGroup = 6
    SmallBatch = 3
    WriteBuffer = 3
    L0Compact = 1
    L0Slowdown = 1
    L0Stop = 2
    MaxErrors = 1
    None = None
SPECIFICATION Spec
INVARIANTS StatusIsOwn AcknowledgedSurvive RecordsWhole
PROPERTIES WritesReturn CloseReturns
CHECK_DEADLOCK FALSE
