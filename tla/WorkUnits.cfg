CONSTANTS
    Coeffs = {1, 2}
    Clients = {alice, bob, nobody}
    Anonymous = nobody
    Digests = {d1, d2}
    MaxAttempts = 3
    LeaseSeconds = 1
    NULL = NULL
SPECIFICATION FairSpec
INVARIANTS
    TypeOK
    OneResult
    CreditToHolder
    LeaseRecorded
    PoisonedWhenUsedUp
PROPERTIES
    SettledIsFinal
    LeaseNotStolen
    CoverageSpec
    LeaseEnds
CHECK_DEADLOCK FALSE
