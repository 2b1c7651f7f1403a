CONSTANTS
    Coeffs = {1, 2}
    Clients = {alice, nobody}
    Anonymous = nobody
    Digests = {d1, d2}
    MaxAttempts = 2
    LeaseSeconds = 0
    NULL = NULL
SPECIFICATION ConnFairSpec
PROPERTY LeaseEnds
CHECK_DEADLOCK FALSE
