SPECIFICATION Spec
CONSTANTS
    Msg = {1, 2, 3, 4}
    Ts <- MCTs
    Local = {2, 4}
    Direct = {4}
    Worker = {w1, w2}
    MaxPastSkew = 1
    MaxFutureSkew = 1
    TTL = 3
    SeenMax = 3
    MaxDelay = 1
    Horizon = 7
    NoMsg = NoMsg
CHECK_DEADLOCK FALSE
INVARIANTS TypeOK AtMostOnce OwnDirectIgnored QueueMatchesMap
