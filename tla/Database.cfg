SPECIFICATION FairSpec
CONSTANTS
    u1 = u1
    u2 = u2
    s1 = s1
    Units = {u1, u2}
    Scripts = {s1}
    Closer = closer
    Nobody = nobody
    MaxStatements = 2
    MaxCancels = 2
INVARIANTS
    UnitsHonest
PROPERTIES
    KeepsPromise
    EveryCallEnds
CHECK_DEADLOCK FALSE
