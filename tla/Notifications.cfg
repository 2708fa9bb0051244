SPECIFICATION FairSpec
CONSTANTS
    MaxEvent = 2
    MaxFault = 1
    Text = {m1}
    Noise = Noise
    Enabled = {"line", "email"}
INVARIANTS TypeOK SentOnce
PROPERTIES PassesOnlyHandled QueueMoves
CHECK_DEADLOCK FALSE
