SPECIFICATION FormatsSpec
CONSTANTS
    GroupBits = 4
    Size32 = 2
    Size64 = 3
    Types <- MCTypes
    Sources <- MCSources
    Updates <- MCUpdates
    Frames <- MCFrames
    Handlers <- MCHandlers
    Extensions <- MCExtensions
    Trailer <- MCTrailer
    Damage = {0, 31}
    MaxWire = 100
    MaxBudget = 7
    ChunkSizes = {1, 2, 19, 39}
    Seeds = {0, 101}
    MaxChunks = 2
    PlainBytes = {0, 3, 77, 255}
    TextChars = {0, 1, 16, 63, 64, 65, 66}
    MaxBytes = 5
    MaxChars = 5
INVARIANTS
    ChecksumOfStream
    TextIsCanonical
    ReadAsWritten
    MemoryIsOwned
CHECK_DEADLOCK FALSE
