SPECIFICATION Spec
CONSTANTS
    l1 = l1
    q1 = q1
    q2 = q2
    Null = Null
    r1 = r1
    r2 = r2
    Request = {r1, r2}
    Lesson = {l1}
    Quiz = {q1, q2}
    Bounds <- MCBounds
INVARIANTS
    TypeOK
    NoGateSkipped
    CompletedByChoice
    CompletedStays
    FailedFairly
SYMMETRY Alike
CHECK_DEADLOCK FALSE
