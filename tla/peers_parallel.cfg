SPECIFICATION Spec
CONSTANTS
    Node = {1, 2}
    Session <- Parallel
    From <- MCFrom
    To <- MCTo
    Unreliable = {}
    Stoppable = {}
    MaxPeers = 0
    MaxHandshakes = 0
    NoConn = NoConn
CHECK_DEADLOCK FALSE
INVARIANT FirstWins
