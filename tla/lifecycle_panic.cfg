SPECIFICATION FairSpec
CONSTANTS
    Sub = {s1, s2}
    Emitter = {g1, g2}
    Buffer = 1
CHECK_DEADLOCK FALSE
PROPERTY ShutdownSaves
