CONSTANTS
    d1 = d1
    d2 = d2
    alice = alice
    bob = bob
    u1 = u1
    u2 = u2
    Coeffs = {1}
    Clients = {alice, bob}
    Anonymous = Anonymous
    Digests = {d1, d2, bad}
    MaxAttempts = 2
    LeaseSeconds = 0
    NULL = NULL
    Uploads = {u1, u2}
    Chunks = 2
    Failing = {bad}
    SpotChecks = {TRUE}
    OneAtATime = FALSE
    Truthful = TRUE
    Noise = Noise
SPECIFICATION ServerSpec
SYMMETRY Symmetry
INVARIANTS
    RecordedBlobPresent
    StoredIsKept
    NoStrayTmp
    FailingNotRecorded
PROPERTIES
    IntactWhenRecorded
    ChargedForOwnUpload
CHECK_DEADLOCK FALSE
