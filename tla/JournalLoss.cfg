SPECIFICATION Spec
CONSTANTS
    a1 = a1
    a2 = a2
    a3 = a3
    Appends = {a1, a2, a3}
    Nobody = nobody
    MaxOpens = 3
INVARIANT NoSilentLoss
CHECK_DEADLOCK FALSE
