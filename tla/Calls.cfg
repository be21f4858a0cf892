SPECIFICATION FairSpec
CONSTANTS
    t1 = t1
    t2 = t2
    t3 = t3
    ann = ann
    bob = bob
    User = {ann, bob}
    Tab = {t1, t2, t3}
    Owner <- MCOwner
    MaxCalls = 2
    Bounds <- MCBounds
INVARIANTS
    TypeOK
    OneAnswerer
    RingingIsToldOff
PROPERTY RingingStops
CHECK_DEADLOCK FALSE
