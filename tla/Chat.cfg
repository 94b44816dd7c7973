SPECIFICATION FairSpec
CONSTANTS
    a = a
    b = b
    c = c
    Companies = {a, b, c}
    Alike <- TwoAlike
    Mistaken <- OneMistaken
    Turns = {t1, t2}
    None = None
    MaxHops = 2
    MaxCalls = 1
    MaxTurns = 2
    MaxFaults = 1
CHECK_DEADLOCK FALSE
INVARIANTS
    SwitchIsClean
    EndedIsSaved
PROPERTIES
    DraftIsForCompany
    TurnEnds
