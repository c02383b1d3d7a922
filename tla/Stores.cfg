SPECIFICATION MCSpec
CONSTANTS
    a1 = a1
    a2 = a2
    a3 = a3
    Appends = {a1, a2, a3}
    Nobody = nobody
    MaxOpens = 3
    Openers = {"o1", "o2", "o3"}
    Knows <- MCKnows
    Sizes <- MCSizes
    Ids = {1, 2}
    Drafts <- MCDrafts
    Editors = {e}
    Edits = {"active", "superseded"}
    Asked <- MCAsked
    Entities = {"a", "b", "c", "d"}
    Edges <- MCEdges
    EdgeKinds = {"calls", "tests"}
    Queries = {q}
    Questions <- MCQuestions
    Chunks = {"k1", "k2"}
    Words = {"x", "y"}
    Dims = {4, 8}
    Handles = {"h1", "h2"}
    VectorReady = TRUE
    Nil = Nil
    Missing = Missing
    Nothing = Nothing
    NoOpener = NoOpener
INVARIANTS
    LogSound
    SchemaWhole
    GraphAnswers
PROPERTIES
    NumbersAdvance
    AppendEnds
    RecallHonest
    StaysIndexed
CHECK_DEADLOCK FALSE
