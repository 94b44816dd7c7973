\* One worker and one thread that serves requests, every control, no lease ends early.
\* A workflow that has ended leaves nothing to do: no deadlock check.
SPECIFICATION Spec
CONSTANTS
    Workflows = {wf1}
    NumSteps = 2
    Workers = {k1}
    Handlers = {h1}
    Controls = {"run", "cancel", "pause", "resume", "force_retry", "force_complete", "reply"}
    Replies = {m1}
    MaxRetries = 1
    Batch = 1
    MaxSends = 2
    Crashable = {h1}
    LeaseMayEnd = FALSE
    Nobody = Nobody
INVARIANTS SequenceOrder ClaimedReplyStops
PROPERTIES TerminalLeftOnlyByLostUpdate
CHECK_DEADLOCK FALSE
