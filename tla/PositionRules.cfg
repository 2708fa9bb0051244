SPECIFICATION FairSpec
CONSTANTS
    Setups <- MCSetups
    MaxPrice = 5
    EntryPrice = 3
    Opened = 4
    Part = 2
    MaxEdit = 1
    MaxCrash = 1
INVARIANTS
    TypeOK
    StageOnce
    BreakEvenHolds
PROPERTIES
    WaterKeeps
    TrailingTightens
    
