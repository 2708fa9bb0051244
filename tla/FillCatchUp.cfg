CONSTANTS
    PageSize = 2
    PagesPerTick = 2
    QueueSize = 1
    DrainLimit = 1
    MaxBill = 5
    MaxFaults = 1
SPECIFICATION LiveSpec
INVARIANTS TypeOK CursorCovered
PROPERTIES EveryFillIsSeen ImplementsFeed
