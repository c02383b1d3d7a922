SPECIFICATION FairSpec
CONSTANTS
    beat = beat
    asker = asker
    down = down
    Calls = {beat, asker, down}
    Timed = {beat}
    Asking = {asker}
    Down = down
    Bridge = bridge
    Nobody = nobody
    PipeSize = 1
    MayHang = TRUE
    MayAbort = TRUE
    MayCrash = TRUE
PROPERTY StopsForGood
CHECK_DEADLOCK FALSE
