SPECIFICATION Spec
CONSTANTS
    Codes = {c1, c2}
    NoCode = NoCode
    Verifiers = {v1, v2, v3}
    Sessions = {s1, s2}
    Refreshers = {r1, r2}
    NoSession = NoSession
    MaxAttempts = 2
    MaxTokens = 3
SYMMETRY Symmetry
INVARIANTS
    CodeUsedOnce
    ReplacedCodesAreDead
    TokenExchangedOnce
PROPERTIES
    SignedOutStays
CHECK_DEADLOCK FALSE
