CONSTANTS
    ann = ann
    ben = ben
    annFaults = {}
    benFaults = {}
    Workers <- MCWorkers
    Id <- MCId
    Faults <- MCFaults
    Clients = {ann, ben}
    Anonymous = Anonymous
    Coeffs = {1, 2}
    Digests = {good, bad}
    Failing = {bad}
    BadBuilds = {}
    Broken = {1}
    MaxAttempts = 2
    LeaseSeconds = 0
    MaxFailures = 2
    MaxLate = 0
    NULL = NULL
SPECIFICATION FairFleetSpec
PROPERTIES
    BrokenIsGivenUp
CHECK_DEADLOCK FALSE
