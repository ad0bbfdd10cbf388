SPECIFICATION Spec
CONSTANTS
    Sub = {s1, s2}
    Emitter = {g1, g2}
    Buffer = 1
    Key = {k1, k2, k3}
    Reader = {r1, r2}
    Limit = 2
    Span = 2
    MaxKeys = 2
    Lag = 1
    Every = 3
    IdleAfter = 9
    Delay = 1
    WriteWait = 2
    PongGap = 1
    Tolerated = 5
    Neighbour = {p1, p2, p3, p4}
    Self = me
    Life = 4
    MaxSeen = 2
CHECK_DEADLOCK FALSE
INVARIANTS TypeOK  WindowBound  LiveKept StaysListed
