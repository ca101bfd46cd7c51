SPECIFICATION Spec
CONSTANTS
    t1 = t1
    t2 = t2
    t3 = t3
    NoToken = NoToken
    r1 = r1
    r2 = r2
    Tokens = {t1, t2, t3}
    Requests = {r1, r2}
    MaxPending = 2
CHECK_DEADLOCK FALSE
INVARIANTS
    OneShot
    EndsAreFinal
PROPERTIES
    EntryLife
