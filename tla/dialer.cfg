SPECIFICATION FairSpec
CONSTANTS
    Peer = {p}
    Addr = {a1, a2}
    Owner <- Alone
    AddrsFor <- Everyone
    Pass = loop
    AutoDialer = {other}
    User = {other}
    Slots = 1
    Parallel = 2
    Initial = 2
    Cap = 3
CHECK_DEADLOCK FALSE
INVARIANTS TypeOK DialsCounted
PROPERTIES SuccessCounts ConnectReturns Reconnects
