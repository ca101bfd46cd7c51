SPECIFICATION FairSpec
CONSTANTS
    Unset = Unset
    Requests <- MCRequests
    Setups <- MCSetups
    Credentials <- MCCredentials
    Loads <- MCLoads
    Measured = {1, 2}
    Estimate = 2
    MaxRuns = 2
    MaxStuck = 1
INVARIANTS TypeOK CeilingInForce ServesOne StaleGone
PROPERTIES DrainHonoured ProcessEnds
CHECK_DEADLOCK FALSE
