CONSTANTS
    Entry = e
    Exits = {x1}
    NoOrder = none
    EntrySize = 2
    MaxFills = 4
    MaxCrash = 1
    ApiExit = FALSE
SPECIFICATION LiveSpec
CHECK_DEADLOCK FALSE
PROPERTIES UnknownExitIsCounted DeferredIsApplied
