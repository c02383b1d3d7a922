SPECIFICATION FairSpec
CONSTANTS
    c1 = c1
    c2 = c2
    g1 = g1
    g2 = g2
    b1 = b1
    b2 = b2
    Clients = {c1, c2}
    Collectors = {g1, g2}
    Blobs = {b1}
    Nobody = nobody
    MaxCrashes = 1
INVARIANTS
    CountsHold
PROPERTIES
    NoOrphanLeft
    CallsEnd
CHECK_DEADLOCK FALSE
