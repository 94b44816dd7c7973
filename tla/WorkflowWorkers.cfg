\* Two workers that tick, crash, recover and outlive their leases.
\* A workflow that has ended leaves the workers nothing to do: no deadlock check.
SPECIFICATION Spec
CONSTANTS
    Workflows = {wf1}
    NumSteps = 2
    Workers = {k1, k2}
    Handlers = {}
    Controls = {}
    Replies = {m1}
    MaxRetries = 2
    Batch = 1
    MaxSends = 2
    Crashable = {k1, k2}
    LeaseMayEnd = TRUE
    Nobody = Nobody
SYMMETRY WorkerSymmetry
INVARIANTS NoUnexplainedResend LockedCopyIsFresh TicksExclude RowIsTruthful
CHECK_DEADLOCK FALSE
