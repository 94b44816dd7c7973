SPECIFICATION Spec
CONSTANTS
    Companies = {a, b}
    Turns = {t1, t2}
    FreeLimit = 0
    PaidLimits = {1, 2}
    MaxWindow = 2
    MaxMoves = 1
    MaxTurns = 3
    MaxCalls = 2
    MaxFaults = 1
SYMMETRY Symmetry
CHECK_DEADLOCK FALSE
INVARIANTS
    PaidWindowsCapped
    OwnSlotStands
    SlotsAreEarned
