CONSTANTS
    Size = 2
    Levels = 2
    MaxExits = 1
    MaxAmends = 1
    MaxFaults = 1
SPECIFICATION Spec
CHECK_DEADLOCK FALSE
INVARIANTS
    TypeOK
    RecordedStopCovers
    EntriesMeetProvenStops
PROPERTIES
    ConfirmedStopKept
