CONSTANTS
    ann = ann
    ben = ben
    annFaults = {"crash", "signal"}
    benFaults = {"kill", "lost", "refuse"}
    Workers <- MCWorkers
    Id <- MCId
    Faults <- MCFaults
    Clients = {ann, ben}
    Anonymous = Anonymous
    Coeffs = {1}
    Digests = {good, bad}
    Failing = {bad}
    BadBuilds = {ben}
    Broken = {}
    MaxAttempts = 2
    LeaseSeconds = 0
    MaxFailures = 2
    MaxLate = 0
    NULL = NULL
SPECIFICATION FairFleetSpec
PROPERTIES
    JobSettles
    SignalStops
CHECK_DEADLOCK FALSE
