\* A worker that may crash and a request that runs the workflow.
\* A workflow that has ended leaves nothing to do: no deadlock check.
SPECIFICATION FairSpec
CONSTANTS
    Workflows = {wf1}
    NumSteps = 2
    Workers = {k1}
    Handlers = {h1}
    Controls = {"run"}
    Replies = {m1}
    MaxRetries = 2
    Batch = 1
    MaxSends = 0
    Crashable = {k1}
    LeaseMayEnd = FALSE
    Nobody = Nobody
PROPERTIES NeverStuckInQueue
CHECK_DEADLOCK FALSE
