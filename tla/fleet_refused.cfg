CONSTANTS
    ann = ann
    ben = ben
    annFaults = {"refuse"}
    benFaults = {}
    Workers <- MCWorkers
    Id <- MCId
    Faults <- MCFaults
    Clients = {ann, ben}
    Anonymous = Anonymous
    Coeffs = {1}
    Digests = {good, bad}
    Failing = {bad}
    BadBuilds = {}
    Broken = {}
    MaxAttempts = 2
    LeaseSeconds = 0
    MaxFailures = 2
    MaxLate = 0
    NULL = NULL
SPECIFICATION FleetSpec
INVARIANTS
    RejectedIsResolved
CHECK_DEADLOCK FALSE
