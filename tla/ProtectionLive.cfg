CONSTANTS
    Size = 1
    Levels = 2
    MaxExits = 1
    MaxAmends = 1
    MaxFaults = 1
SPECIFICATION FairSpec
CHECK_DEADLOCK FALSE
PROPERTY GapIsRepaired
