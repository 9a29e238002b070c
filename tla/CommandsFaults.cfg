SPECIFICATION Spec
CONSTANTS
    Queued = {}
    Demo = {d1}
    Strategy = {s1}
    Opens = {s1}
    Closes = {d1}
    Kind <- MCKind
    Conns = {k1, k2, k3, k4}
    NoConn = NoConn
    ClaimLimit = 10
    MaxDrops = 2
    MaxCrashes = 1
INVARIANTS TypeOK OutcomesReported CompletedOpensHaveRows StrategyAtMostOnce PositionsTraceable
SYMMETRY Symmetry
CHECK_DEADLOCK FALSE
