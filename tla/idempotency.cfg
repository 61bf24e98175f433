SPECIFICATION FairSpec
CONSTANTS
    sent = sent
    repeated = repeated
    other = other
    apart = apart
    k1 = k1
    k2 = k2
    b1 = b1
    b2 = b2
    Nobody = Nobody
    Calls <- MCCalls
    Keys <- MCKeys
    Bodies <- MCBodies
    KeyOf <- MCKeyOf
    BodyOf <- MCBodyOf
    Funds = 1
PROPERTIES
    ImplementsOnceOnly
    PaidIsNotRefused
    CallsAreAnswered
CHECK_DEADLOCK FALSE
