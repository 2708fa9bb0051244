CONSTANTS
    Entry = e
    Exits = {x1}
    NoOrder = none
    EntrySize = 1
    MaxFills = 2
    MaxCrash = 0
    ApiExit = TRUE
SPECIFICATION Spec
CHECK_DEADLOCK FALSE
INVARIANT LedgerConserved
