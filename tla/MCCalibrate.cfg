SPECIFICATION FairCalSpec
CONSTANTS
    SESSION_ESTIMATE <- MCEstimate
    AUTO_CEILING = 256
    RAMP_CAP = 2
    Hosts <- MCHosts
    Browsers <- MCBrowsers
    Window = 3
INVARIANTS CalTypeOK CeilingHolds NoOom NeverStalls
PROPERTIES CalibrateReturns
CHECK_DEADLOCK FALSE
