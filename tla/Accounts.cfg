SPECIFICATION Spec
CHECK_DEADLOCK FALSE
CONSTANTS
    Unheld = Unheld
    Ceiling = 3
    People = {ann, bob}
    Nobody = Nobody
    Visits = {v1, v2}
    Runs = {b1, b2}
    EmailLimit = 1
    MaxVisits = 4
    MaxRuns = 2
    MaxSlips = 1
    Browsers = {home, work}
    Tabs = {t1, t2}
    Requests = {r1, r2}
    Turns = 1
    Budget = 2
    GlobalRuns = 2
    EmailDaily = 2
    NetworkDaily = 2
    MaxIds = 2
    MaxMoves = 4
    MaxLapses = 1
    Calls = {c1, c2}
    Providers = {anthropic, search}
    Model = anthropic
    CallCap = 2
    UsdCap = 3
    SpikeFloor = 2
    SpikeMultiple = 2
    SpikeCeiling = 3
    Baselines = {0, 1}
    Retries = 1
    Operators = {o1}
    MaxCalls = 3
    MaxCommands = 2
    MaxMisses = 1
    Addresses <- MCAddresses
    Owner <- MCOwner
    Unaddressed = Unaddressed
    Templates = {intro}
    CopyPoints = {0, 60}
    Shares = {0, 80}
    RateFloor = 2
    MaxPriors = 2
    MaxMails = 2
    Members = {ula, max}
    NoMember = NoMember
    Listed = {max}
    Asks = {a1, a2}
    Deciders = {d1, d2}
    MaxAsks = 3
    MaxDecisions = 3
    MaxFailures = 1
INVARIANTS
    OneRunPerNetwork
    OvershootBounded
    SpikeCaught
    DecisionStands
    GuardHolds
PROPERTIES
    OptOutStands
    TurnsAreAllowance
