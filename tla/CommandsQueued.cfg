SPECIFICATION FairSpec
CONSTANTS
    Queued = {q1, q2}
    Demo = {}
    Strategy = {}
    Opens = {}
    Closes = {}
    Kind <- MCKind
    Conns = {k1}
    NoConn = NoConn
    ClaimLimit = 2
    MaxDrops = 0
    MaxCrashes = 0
PROPERTY QueuedSettle
CHECK_DEADLOCK FALSE
