SPECIFICATION Spec
CONSTANTS
    Invoice = {i1}
    Handler = {h1, h2}
    Total <- MCTotal
    Amount <- MCAmount
    MaxPayments = 3
INVARIANTS
    TypeOK
    HistoryFollowsStatus
    StampsMatchStatus
    CacheIsLedgerSum
PROPERTIES
    NoOverpayment
    ImplementsAuditedStatus
CHECK_DEADLOCK FALSE
