SPECIFICATION AccountsSpec
CONSTANTS
    Orders = {o1}
    TopUps = {t1, t2}
    Settlements = {k1}
    Withdrawals = {w1, w2}
    Cleaners = {c1, c2}
    MaxAmount = 2
    Floor = 2
    Threshold = 2
INVARIANTS
    AccountsMatchLedgers
    InflowIsWhole
    ClearIsTrue
SYMMETRY Symmetry
