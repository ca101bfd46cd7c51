SPECIFICATION FairSpec
CONSTANTS
    Payloads <- MCPayloads
    NewCookie <- MCNewCookie
    NewRow <- MCNewRow
    CLEANUP_FIRST_ID = 20
    MaxPolls = 2
    MaxClient = 1
    MaxResumes = 1
    MaxFaults = 1
INVARIANTS SeededWhole BatchAccepted CaptureWhole OwnReplies
PROPERTIES SessionEnds
CHECK_DEADLOCK FALSE
