SPECIFICATION FairSpec
CONSTANTS
    t1 = t1
    t2 = t2
    ann = ann
    bob = bob
    User = {ann, bob}
    Tab = {t1, t2}
    MaxPairs = 3
    Bounds <- MCBounds
INVARIANTS
    TypeOK
    TabsAgree
    ProfileIsOwn
    WaitersAreReleased
PROPERTY SignOutIsSeen
PROPERTY StaysSignedIn
CHECK_DEADLOCK FALSE
