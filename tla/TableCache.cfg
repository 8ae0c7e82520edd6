CONSTANTS
    Thread = {t1, t2}
    File = {1, 2, 3}
    Hash <- MCHash
    Charge <- MCCharge
    capacity_ = 2
    kMinLength = 1
    MaxMmaps = 1
    MaxFds = 1
    MaxErrors = 1
    None = None
SPECIFICATION Spec
INVARIANTS Accounted InUseIsOpen LimitersExact DeletedNotOpen
CHECK_DEADLOCK FALSE
SYMMETRY ThreadSymmetry
