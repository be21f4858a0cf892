SPECIFICATION FairSpec
CONSTANTS
    User = {u1, u2}
    Stream = {s1, s2, s3}
    MAX_SSE_PER_USER = 1
    MaxOutages = 2
INVARIANTS
    ChannelsFollowSubscribers
    AtMostOneOverTheCap
PROPERTY HandlersAreReached
CHECK_DEADLOCK FALSE
