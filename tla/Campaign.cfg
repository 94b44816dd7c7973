SPECIFICATION Spec
CONSTANTS
    Campaigns = {c1}
    Prospects = {p1, p2}
    Addresses = {a1, a2}
    Threads = {t1, t2}
    NoAddress = NoAddress
    NoRow = NoRow
    MaxClaims = 2
    MaxRequests = 4
SYMMETRY Symmetric
CHECK_DEADLOCK FALSE
INVARIANTS
    OneSequence
    NoOrphan
    CancelledIsSilent
    ShownIsSent
