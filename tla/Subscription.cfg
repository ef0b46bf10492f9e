SPECIFICATION FairSpec
CONSTANTS
    Adapters = {"rws1", "rws2"}
    MaxAttempts = 2
    MaxGroups = 3
INVARIANTS
    NothingLeft
    StreamIsWhole
PROPERTIES
    SilentAfterEnd
    StreamSettles
    FrozenNoticed
CHECK_DEADLOCK FALSE
