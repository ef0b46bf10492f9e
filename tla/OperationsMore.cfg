SPECIFICATION Spec
CONSTANTS
    Gens = {"rw6", "rw7", "rw8"}
    Callers = {"c1", "c2"}
    Asks <- MCAsks
    MaxCalls = 1
    MayHold = TRUE
INVARIANTS
    ReadsAndStopsAreFree
    OnlyTheseWait
    SomebodyGoesOn
PROPERTY
    GoesForward
CHECK_DEADLOCK FALSE
