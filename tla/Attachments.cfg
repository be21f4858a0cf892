SPECIFICATION FairSpec
CONSTANTS
    Peer = {1, 2}
    Worker = {1}
    MaxFiles = 3
    MaxSends = 2
    Batch = 2
    Bounds <- MCBounds
INVARIANT SentWhole
PROPERTY OrphansArePurged
CHECK_DEADLOCK FALSE
