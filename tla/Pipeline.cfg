SPECIFICATION PSpec
CONSTANTS
    Domains = {d1, d2}
    Prospects = {d1, d2}
    Followed = d1
    None = none
    Limit = 1
    MinGain = 1
    MaxAsks = 2
    MaxOutages = 1
    Linked = {"about", "team", "blog", "customers", "product"}
    Unlinked = {"pricing"}
    People = {"about", "team"}
    Stories = {"customers"}
    Readings <- MCReadings
    Setups = {{"firecrawl", "tavily"}, {"x"}}
    PageBudget = 4
    BatchSize = 2
    MaxActions = 3
    MaxPerProvider = 2
    Workers = 1
    MaxRepairs = 1
    Subpages = {"team", "post", "note"}
    TeamPages = {"team"}
    SectionOf <- MCSections
    MaxPerSection = 1
    MaxExtra = 3
    MaxDocs = 3
    MaxTries = 1
    MaxHops = 1
    FetchBatch = 2
    MaxText = 3
    RichFrom = 2
    NoText = NoText
    ListMax = 2
    DisplayMax = 1
INVARIANTS PageIsEarned FetchedInFull NeverPaysTwice SendableIsClean NothingOversold
PROPERTIES PeopleReadFirst Grounded VisitorsAreAnswered
CHECK_DEADLOCK FALSE
