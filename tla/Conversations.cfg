SPECIFICATION Spec
CONSTANTS
    Spaces = {w1}
    MaxRuntimes = 2
    Names = {c}
    MaxTalks = 2
    Sends = {s1, s2}
    Window = 1
    Recalls = TRUE
    None = None
SYMMETRY Symmetry
INVARIANTS
    TurnsSound
    CancelReaches
PROPERTIES
    CancelStaysHome
CHECK_DEADLOCK FALSE
