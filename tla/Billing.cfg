SPECIFICATION Spec
CONSTANTS
    Users = {u1, u2}
    Customers = {c1}
    Subs = {s1, s2}
    Plans = {pro, max}
    NoUser = NoUser
    NoCustomer = NoCustomer
    NoRow = NoRow
    MaxPeriod = 2
    MaxEvents = 5
    MaxPending = 2
    MaxFaults = 1
SYMMETRY Symmetric
CHECK_DEADLOCK FALSE
INVARIANTS
    LedgeredMeansApplied
    DeferredStaysOut
    WindowIsPaidFor
    RowBelongsToBuyer
