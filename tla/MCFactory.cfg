SPECIFICATION FairSpec
CONSTANTS
    l1 = l1
    l2 = l2
    Launches = {l1, l2}
    Warmer = l1
    Hosts <- AllHosts
CHECK_DEADLOCK FALSE
INVARIANTS
    SandboxKept
    RecognisedIsRecovered
    NothingLeft
    CapCovered
PROPERTIES
    LaunchAndDestroyEnd
