SPECIFICATION Spec
CONSTANTS
    Node = {1, 2}
    Session <- CrossTwice
    From <- MCFrom
    To <- MCTo
    Unreliable <- Back
    Stoppable = {}
    MaxPeers = 0
    MaxHandshakes = 0
    NoConn = NoConn
CHECK_DEADLOCK FALSE
INVARIANTS TableSound NoOrphan HookBalance Agreement
PROPERTY WinnerKept
