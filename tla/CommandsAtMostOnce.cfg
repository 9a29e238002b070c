SPECIFICATION Spec
CONSTANTS
    Queued = {q1, q2}
    Demo = {}
    Strategy = {}
    Opens = {q1, q2}
    Closes = {}
    Kind <- MCKind
    Conns = {k1}
    NoConn = NoConn
    ClaimLimit = 10
    MaxDrops = 0
    MaxCrashes = 0
INVARIANT AtMostOnce
CHECK_DEADLOCK FALSE
