SPECIFICATION SessionSpec
CONSTANTS
    Stacks = {"a", "b"}
    Keys = {"router", "serviceAccountOverride"}
    Owners <- MCOwners
    MaxValue = 1
    Pairs <- MCPairs
    Filters = {{}, {"a"}}
    Overrides = {{}, {4, 7}}
    MaxCommands = 3
    Files = {"report", "metrics", "trace"}
    Keepers = {"report"}
    Dirs = {"logs"}
    Top <- MCTop
    WrittenBy <- MCWrittenBy
    MaxStreams = 2
    MaxScripts = 2
INVARIANTS
    SessionTypeOK
    NothingLost
    KeepersStayPlain
    WholeIsWhole
    SecretTellsTheTruth
PROPERTIES
    NoSilentRevert
    UpdateStaysInScope
    CollectionImplementsStore
    CollectionEnds
CHECK_DEADLOCK FALSE
