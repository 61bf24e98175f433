SPECIFICATION FairSpec
CONSTANTS
    Requests = {r1, r2}
    Sweepers = {w1}
    Sessions = {s1, s2, s3, s4}
    NoSession = NoSession
    Stale = 2
    Delay = 1
INVARIANTS
    OfflineHasNoSession
PROPERTIES
    OnlineStaysRecorded
    RemovedGoesOffline
    SilentGoesOffline
