SPECIFICATION FairSpec
CONSTANTS
    Strategy = {s1}
    MaxRise = 2
    MaxEdit = 3
    MaxCrash = 1
INVARIANTS TypeOK OnceForEachRise
PROPERTY PendingIsSettled
