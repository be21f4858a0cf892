SPECIFICATION Spec
CONSTANTS
    ann = ann
    lea = lea
    max = max
    rita = rita
    sam = sam
    carl = carl
    g1 = g1
    g2 = g2
    h1 = h1
    h2 = h2
    User = {ann, lea, max, rita, sam, carl}
    Group = {g1, g2}
    NoUser = NoUser
    NoGroup = NoGroup
    Slot = {h1, h2}
    Orgs <- MCOrgs
    Batches <- MCBatches
    Bounds <- MCBounds
INVARIANTS
    TypeOK
    Bidirectional
    CutOff
    SameGroup
SYMMETRY AnySlot
CHECK_DEADLOCK FALSE
