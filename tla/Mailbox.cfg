SPECIFICATION Spec
CONSTANTS
    Users = {u1}
    Web = {t1}
    Worker = w
    NoRow = NoRow
    Rotates = TRUE
    PageSize = 1
    MaxMessages = 3
    MaxTokens = 3
    MaxRuns = 3
    MaxCrashes = 1
SYMMETRY Symmetric
CHECK_DEADLOCK FALSE
INVARIANTS
    NothingSkipped
    ConnectedIsUsable
