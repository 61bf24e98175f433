SPECIFICATION Spec
CONSTANTS
    MaxCharges = 2
    Keys = {k1, k2}
    Verifiers = {v1}
    Bill = 2
    RiderAmount = 1
    MaxCashRows = 1
    MaxLost = 1
INVARIANTS
    EarningIsBacked
    EarningIsPosted
    CompanyShareIsDue
    RefundsFitCharge
PROPERTIES
    CaptureIsFinal
CHECK_DEADLOCK FALSE
SYMMETRY Symmetry
