SPECIFICATION Spec
CONSTANTS
    Person = {a1, a2, a3}
    Founder = {a1}
    Change = {c1, c2, c3}
    QueryErrors = TRUE
SYMMETRY Interchangeable
INVARIANTS
    SoleIsSafe
CHECK_DEADLOCK FALSE
