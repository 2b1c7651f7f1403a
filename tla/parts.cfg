CONSTANTS
    MaxStream = 7
    ChunkSize = 3
    MaxScan = 6
    K = 2
    Composites = 2
    MaxPolys = 2
    Scores = {1, 2}
    Base = 2
    MaxNumber = 6
    Written <- CanonicalTexts
    Coeffs = {1, 2}
    Clients = {alice, nobody}
    Anonymous = nobody
    Digests = {d1, d2}
    MaxAttempts = 2
    LeaseSeconds = 0
    NULL = NULL
SPECIFICATION PartsSpec
INVARIANTS
    BadRecordCaught
    HonestAccepted
    BestChosen
    StaleOnlyIfAdvanced
    AnsweredIsCommitted
PROPERTIES
    QueueSpec
    DiskSpec
CHECK_DEADLOCK FALSE
