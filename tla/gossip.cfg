SPECIFICATION FairSpec
CONSTANTS
    Node = {1, 2, 3}
    Link <- Triangle
    Msg = {1, 2}
    Origin <- MCOrigin
    Joins = {2}
    Unreliable <- Edge12
    Throttling = {3}
    QueueLen = 1
    NoMsg = NoMsg
CHECK_DEADLOCK FALSE
INVARIANTS TypeOK Covered CrossOnce Converged
PROPERTIES Refines EverybodyHears
