SPECIFICATION Spec
CONSTANTS
    Gens = {"rw7"}
    Callers = {"c2"}
    Asks <- MCAsks
    MaxCalls = 1
    MayHold = FALSE
INVARIANTS
    JogUnderHold
CHECK_DEADLOCK FALSE
