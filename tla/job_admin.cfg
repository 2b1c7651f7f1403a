CONSTANTS
    d1 = d1
    d2 = d2
    alice = alice
    u1 = u1
    u2 = u2
    Coeffs = {1}
    Clients = {alice}
    Anonymous = Anonymous
    Digests = {d1, d2}
    MaxAttempts = 2
    LeaseSeconds = 0
    NULL = NULL
    Uploads = {u1, u2}
    Chunks = 2
    Failing = {}
    SpotChecks = {FALSE}
    OneAtATime = TRUE
    Truthful = FALSE
    Noise = Noise
    MaxJobs = 3
SPECIFICATION JobSpec
SYMMETRY Symmetry
INVARIANTS
    RecordedBlobIntact
    NoMixedJob
    ServedJob
    TokenFileTrue
PROPERTIES
    ForcedJobIsClean
CHECK_DEADLOCK FALSE
