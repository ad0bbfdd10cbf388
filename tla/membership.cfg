SPECIFICATION Spec
CONSTANTS
    Node = {n1, n2, n3}
    n1 = n1
    n2 = n2
    Link <- Triangle
    Dial <- Pair
    Start <- Worlds
    Channel = {c1, c2}
    c1 = c1
    c2 = c2
    General = c1
    Busy <- Pair
    MaxMsg = 4
    MaxSession = 2
    NoChannel = NoChannel
SYMMETRY Mirror
CHECK_DEADLOCK FALSE
INVARIANTS TypeOK SelfListed Consistent
