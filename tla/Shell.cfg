SPECIFICATION FairSpec
CONSTANTS
    o1 = o1
    o2 = o2
    o3 = o3
    Ops = {o1, o2, o3}
    Nobody = nobody
    MaxRestarts = 2
    MaxSpawns = 3
INVARIANTS
    StatusHonest
    BridgedUnlessOvertaken
PROPERTIES
    OpsEnd
CHECK_DEADLOCK FALSE
