SPECIFICATION Spec
CONSTANTS
    Handler = {h1, h2}
    Password = {p1, p2}
    Initial = p1
    MaxFailedLogins = 2
    MaxRequests = 3
SYMMETRY Interchangeable
INVARIANTS
    RevokedStaysDead
    EvictsOthers
    BarredGetsNowhere
CHECK_DEADLOCK FALSE
