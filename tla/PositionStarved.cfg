SPECIFICATION FairSpec
CONSTANTS
    Setups <- MCLongLive
    MaxPrice = 5
    EntryPrice = 3
    Opened = 3
    Part = 2
    MaxEdit = 1
    MaxCrash = 0
PROPERTIES
    ExitsAreAutomatic
