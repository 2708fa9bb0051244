CONSTANTS
    MaxSize = 2
    MaxOpen = 1
    MaxAct = 1
    MaxTrade = 2
SPECIFICATION FairSpec
CHECK_DEADLOCK FALSE
INVARIANTS TypeOK RecoveredIsForeign
PROPERTY MismatchIsAnnounced
