SPECIFICATION BootSpec
CONSTANTS
    Environs <- MCEnvirons
    Disks <- MCDisks
    Texts = {"en", "debug", "eco", "here"}
    LevelNamed <- MCLevelNamed
    ModeNamed <- MCModeNamed
    Absent = Absent
INVARIANTS
    ProcessServes
CHECK_DEADLOCK FALSE
