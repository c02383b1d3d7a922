SPECIFICATION FairSpec
CONSTANTS
    beat = beat
    asker = asker
    down = down
    Calls = {beat, asker, down}
    Timed = {beat}
    Asking = {asker}
    Down = down
    Bridge = bridge
    Nobody = nobody
    PipeSize = 1
    MayHang = TRUE
    MayAbort = TRUE
    MayCrash = TRUE
INVARIANTS
    AnswersReach
    Delivered
PROPERTIES
    EveryoneAnswered
    StopsAfterAck
CHECK_DEADLOCK FALSE
