SPECIFICATION ScanSpec
CONSTANTS
    PluginIds = {"a.b", "c.d", "x"}
    WellFormed = {"a.b", "c.d"}
    Manifests <- MCManifests
    Roots <- MCRoots
    AppVersion <- MCAppVersion
    NoVersion = NoVersion
    References = {"t", "u", "blank"}
    Blank = "blank"
INVARIANTS
    NeverFatal
CHECK_DEADLOCK FALSE
