SPECIFICATION Spec
CONSTANTS
    Withdrawals = {w1, w2}
    Flows = {p1, p2}
    NoWithdrawal = NoWithdrawal
    Amount <- OneEach
    Opening = 2
SYMMETRY Symmetry
INVARIANTS
    RefundedAtMostOnce
    AtMostOnePost
CHECK_DEADLOCK FALSE
