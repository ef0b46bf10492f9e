SPECIFICATION Spec
CONSTANTS
    Adapters = {"rws1"}
    MaxAttempts = 2
    MaxGroups = 3
INVARIANT StopFreesGroup
CHECK_DEADLOCK FALSE
