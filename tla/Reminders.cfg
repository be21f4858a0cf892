SPECIFICATION FairSpec
CONSTANTS
    w1 = w1
    w2 = w2
    Worker = {w1, w2}
    Saver = {1, 2}
    MaxRows = 4
    Horizon = 3
    Leads = {1, 2}
    Batch = 2
    Bounds <- MCBounds
INVARIANTS
    DeliveredOncePerProcess
    RemindersFollowInterview
PROPERTY DueIsDispatched
CHECK_DEADLOCK FALSE
