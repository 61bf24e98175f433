SPECIFICATION FairSpec
CONSTANTS
    Withdrawals = {w1}
    Flows = {p1, p2}
    NoWithdrawal = NoWithdrawal
    Amount <- OneEach
    Opening = 1
INVARIANTS
    RefundMeansNoTransfer
    StatusIsTrue
PROPERTIES
    DecidedIsFinal
    DecidedTransferSettles
CHECK_DEADLOCK FALSE
