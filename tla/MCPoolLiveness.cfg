SPECIFICATION FairSpec
CONSTANTS
    c1 = c1
    c2 = c2
    Claimers = {c1, c2}
    MinReady = 1
    StartSessions = 1
    MaxQueue = 2
    Targets = {2}
    CancelAt = {"queued"}
    MaxCreated = 2
PROPERTIES
    QueuedServed
    CloseCompletes
