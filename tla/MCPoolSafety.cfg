SPECIFICATION Spec
CONSTANTS
    c1 = c1
    c2 = c2
    c3 = c3
    Claimers = {c1, c2, c3}
    MinReady = 1
    StartSessions = 2
    MaxQueue = 1
    Targets = {0, 1, 3}
    CancelAt = {"queued", "launching"}
    MaxCreated = 2
SYMMETRY ClaimerSymmetry
INVARIANTS
    SlotsConserved
    SessionsPartitioned
    PoolInv
PROPERTIES
    ImplementsLife
