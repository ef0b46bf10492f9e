SPECIFICATION FairSpec
CONSTANTS
    Gens = {"rw6", "rw7", "rw8"}
    Callers = {"c1", "c2"}
    Asks <- MCAsks
    MaxCalls = 1
    MayHold = TRUE
INVARIANTS
    CleanEnd
    UnderAccess
    AdvertisedMeansSent
    StartWithoutMotion
PROPERTIES
    CallEnds
    JogLetGo
CHECK_DEADLOCK FALSE
