SPECIFICATION FairSpec
CONSTANTS
    ClientMsgs = 4
    BrowserMsgs = 3
    Oversized <- LastOversized
    PipeRoom = 2
    SocketRoom = 1
CHECK_DEADLOCK FALSE
INVARIANTS
    MessagesWhole
PROPERTIES
    BridgeEnds
