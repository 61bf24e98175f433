SPECIFICATION Spec
CONSTANTS
    MaxCharges = 1
    Keys = {k1}
    Verifiers = {v1}
    Bill = 1
    RiderAmount = 1
    MaxCashRows = 0
    MaxLost = 0
INVARIANTS
    PaidTripEarns
CHECK_DEADLOCK FALSE
