CONSTANTS
    MaxByte = 3
    block_restart_interval = 2
    kBlockTrailerSize = 1
    NoHandle = NoHandle
    NoFilter = NoFilter
    Value <- MCValue
    kFilterBase = 4
    User <- MCUser
    Histories <- MCHistories
    MaxOps = 3
    MaxInserts = 1
    MaxDamaged = 2
    None = None
SPECIFICATION Spec
INVARIANT GetFinds
PROPERTY ImplementsCursor
