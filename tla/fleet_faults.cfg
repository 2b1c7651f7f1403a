CONSTANTS
    ann = ann
    ben = ben
    annFaults = {"crash", "signal"}
    benFaults = {"lost", "late", "kill", "refuse", "crash", "signal"}
    Workers <- MCWorkers
    Id <- MCId
    Faults <- MCFaults
    Clients = {ann, ben}
    Anonymous = Anonymous
    Coeffs = {1}
    Digests = {good, bad}
    Failing = {bad}
    BadBuilds = {ben}
    Broken = {}
    MaxAttempts = 2
    LeaseSeconds = 0
    MaxFailures = 2
    MaxLate = 1
    NULL = NULL
SPECIFICATION FleetSpec
INVARIANTS
    IdleHoldsNothing
PROPERTIES
    EndedByHolder
    ChargedForLostLease
    DeletedOnlyIfRecorded
CHECK_DEADLOCK FALSE
