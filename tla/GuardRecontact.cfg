SPECIFICATION GuardSpec
CONSTANTS
    Addresses <- MCAddresses
    Owner <- MCOwner
    Unaddressed = Unaddressed
    Templates = {intro}
    CopyPoints = {0, 60}
    Shares = {0, 80}
    RateFloor = 2
    MaxPriors = 2
    MaxMails = 2
INVARIANT RepliersLeftAlone
CHECK_DEADLOCK FALSE
