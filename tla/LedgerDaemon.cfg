CONSTANTS
    Entry = e
    Exits = {x1, x2}
    NoOrder = none
    EntrySize = 3
    MaxFills = 4
    MaxCrash = 1
    ApiExit = FALSE
SPECIFICATION Spec
SYMMETRY ExitSymmetry
CHECK_DEADLOCK FALSE
INVARIANTS
    TypeOK
    LedgerConserved
    StatusMatchesQuantity
    AllocationMatchesOrder
    CaughtUpAgrees
PROPERTIES FinalStatusIsFinal ImplementsUnit
