SPECIFICATION Spec
CONSTANTS
    Invitation = {i1, i2}
    Handler = {h1, h2}
    MaxAccounts = 2
SYMMETRY Interchangeable
INVARIANTS
    OneHolder
    RedeemedOnce
    SupersededGrantsNothing
CHECK_DEADLOCK FALSE
