SPECIFICATION FairSpec
CONSTANTS
    rider = rider
    Events = {offer, paid}
    Offers = {offer}
    Nothing = Nothing
    Nobody = Nobody
    Identities = {rider}
    Devices = {d1}
    Workers = {w1, w2}
    Recipient <- ForRider
    MaxAttempts = 2
    MaxBirths = 2
    MaxCrashes = 1
INVARIANTS
    PushedOnce
    OnlyDeadTokensDropped
PROPERTIES
    Concluded
CHECK_DEADLOCK FALSE
