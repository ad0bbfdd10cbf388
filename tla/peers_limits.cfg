SPECIFICATION Spec
CONSTANTS
    Node = {1, 2, 3}
    Session <- Star
    From <- MCFrom
    To <- MCTo
    Unreliable <- Third
    Stoppable = {}
    MaxPeers = 1
    MaxHandshakes = 1
    NoConn = NoConn
CHECK_DEADLOCK FALSE
INVARIANTS TypeOK PeersBounded SlotsExact
