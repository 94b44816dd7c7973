\* A worker crashes between the provider's acceptance and the save.
SPECIFICATION Spec
CONSTANTS
    Workflows = {wf1}
    NumSteps = 2
    Workers = {k1}
    Handlers = {h1}
    Controls = {}
    Replies = {m1}
    MaxRetries = 1
    Batch = 1
    MaxSends = 2
    Crashable = {k1}
    LeaseMayEnd = FALSE
    Nobody = Nobody
INVARIANTS SentOnce
CHECK_DEADLOCK FALSE
