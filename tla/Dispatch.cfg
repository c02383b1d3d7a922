SPECIFICATION MCSpec
CONSTANTS
    review = review
    check = check
    apply = apply
    Calls = {review, check, apply}
    Ids = {i1}
    Nobody = Nobody
    KindOf <- MCKindOf
    Scope <- MCScope
    plugin = plugin
    one = one
    two = two
    twice = twice
    read = read
    send = send
    Plugins = {plugin}
    Packages = {one, two, twice}
    ToolNames = {read, send}
    NoPackage = NoPackage
    PluginOf <- MCPluginOf
    Contributes <- MCContributes
    Needs <- MCNeeds
    Effect <- MCEffect
    Grantable <- MCGrantable
    Standing <- MCStanding
    Modes <- MCModes
    write = write
    Skill = {write}
INVARIANTS
    AnsweredTruly
    UsableIsEnabled
    PlanIsReadOnly
PROPERTIES
    CancelWorks
    EveryCallEnds
    Propagates
    LeastPrivilege
CHECK_DEADLOCK FALSE
