SPECIFICATION FairSpec
CONSTANTS
    NoClient = NoClient
    s1 = s1
    s2 = s2
    c1 = c1
    c2 = c2
    Sessions = {s1, s2}
    Clients = {c1, c2}
CHECK_DEADLOCK FALSE
INVARIANTS
    OneHandOff
    LateOnlyAtEnd
PROPERTIES
    SessionsEnd
