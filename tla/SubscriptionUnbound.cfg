SPECIFICATION Spec
CONSTANTS
    Adapters = {"rws1"}
    MaxAttempts = 2
    MaxGroups = 3
INVARIANT UnboundIsTold
CHECK_DEADLOCK FALSE
