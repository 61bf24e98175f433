SPECIFICATION FairSpec
CONSTANTS
    TheOrder = o1
    Orders = {o1}
    Requests = {r1, r2}
    Settlers = {p1, p2}
    NoSession = NoSession
    Of <- AllOfTheOrder
    MaxCalls = 3
    MaxCrashes = 1
INVARIANTS
    ClearedAtMostOnce
    LedgerAgrees
    OnePending
    InvoiceShowsClearance
PROPERTIES
    SoleCaptureIsCredited
CHECK_DEADLOCK FALSE
