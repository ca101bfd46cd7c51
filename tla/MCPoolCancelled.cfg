SPECIFICATION Spec
CONSTANTS
    c1 = c1
    c2 = c2
    Claimers = {c1, c2}
    MinReady = 0
    StartSessions = 1
    MaxQueue = 1
    Targets = {1}
    CancelAt = {"queued", "launching"}
    MaxCreated = 2
INVARIANT CapacityRestored
