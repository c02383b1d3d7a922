SPECIFICATION MCSpec
CONSTANTS
    Registered <- MCRegistered
    Refreshers = {"f1", "f2"}
    Ttl = 2
    LastHour = 4
    Unlisted = Unlisted
    Runs = {"r1", "r2"}
    MaxTurns = 4
    Radix = 2
    MaxFrameBytes = 2
    Payloads <- MCPayloads
    MaxSends = 3
    Environs <- MCEnvirons
    Disks <- MCDisks
    Texts = {"en", "debug", "eco", "here"}
    LevelNamed <- MCLevelNamed
    ModeNamed <- MCModeNamed
    Absent = Absent
    PluginIds = {"a.b", "c.d", "x"}
    WellFormed = {"a.b", "c.d"}
    Manifests <- MCManifests
    Roots <- MCRoots
    AppVersion <- MCAppVersion
    NoVersion = NoVersion
    References = {"t", "u", "blank"}
    Blank = "blank"
    Spaces = {"w1", "w2"}
    MaxRuntimes = 3
    Unit = 15120
    Models <- MCModels
    Backends = {"groq", "gemini", "ollama"}
    ServedBy <- MCServedBy
    Adapter <- MCAdapter
    Caps <- MCCaps
    Profile <- MCProfile
    Requests = {r1, r2}
    Asks <- MCAsks
    Catalogues <- MCCatalogues
    MaxRetries = 1
    Cooldown = 1
    MaxTime = 1
    Null = Null
    None = None
INVARIANTS
    FramesIntact
    ReadAlike
    BootSound
    ScanSound
    OwnServices
    WorksThrough
    OrderHeld
PROPERTIES
    CatalogHolds
    OutcomeStands
    RequestsEnd
CHECK_DEADLOCK FALSE
