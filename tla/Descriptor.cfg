SPECIFICATION Spec
CONSTANTS
    p1 = p1
    p2 = p2
    Proc = {p1, p2}
    kNumLevels = 2
    VarintBase = 8
    kMaxVarint = 3
    Torn = Torn
    Bad = Bad
    Budgets <- MCBudgets
SYMMETRY Symmetric
INVARIANTS OneOwner PromisedSurvive RepairKeeps
CHECK_DEADLOCK FALSE
