SPECIFICATION FairSpec
CONSTANTS
    p1 = p1
    p2 = p2
    Peer = {p1, p2}
    Word = {"BEAD", "bead", "be.ad"}
    Fold <- MCFold
    Prefixed <- MCPrefixed
    Valid = {"BEAD", "bead"}
    MaxFaults = 2
    NoAlias = NoAlias
    NoFile = NoFile
    Torn = Torn
CHECK_DEADLOCK FALSE
INVARIANTS TypeOK CleanMeansSaved AliasNamesOne
PROPERTIES FileKeepsPeers EventuallySaved
