SPECIFICATION FairSpec
CONSTANTS
    Orders = {o1}
    Riders = {r1, r2}
    NoRider = NoRider
    Pollers = {p1, p2}
    Distance <- ParkedRiders
    Conditions = {"OFFLINE", "NO_FIX", "READY", "BARRED"}
    MaxLost = 1
INVARIANTS
    StrandedIsSwept
PROPERTIES
    AnswersAreFinal
    ImplementsPromise
    OfferedResolvesUnlessLost
