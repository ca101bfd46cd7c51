SPECIFICATION FairSpec
CONSTANTS
    Conns = {1, 2, 3}
    Heads <- MCHeads
    Setups <- MCSetups
    max_connections = 2
INVARIANTS TypeOK PublicOnly LoginKept OneAnswer
PROPERTIES DropCloses
CHECK_DEADLOCK FALSE
