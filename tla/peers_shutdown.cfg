SPECIFICATION FairSpec
CONSTANTS
    Node = {1, 2}
    Session <- Cross
    From <- MCFrom
    To <- MCTo
    Unreliable = {}
    Stoppable = {1}
    MaxPeers = 0
    MaxHandshakes = 0
    NoConn = NoConn
CHECK_DEADLOCK FALSE
INVARIANT DuplicateRule
PROPERTIES HalfOpenRemoved HandshakesEnd
