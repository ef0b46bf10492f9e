SPECIFICATION Spec
CONSTANTS
    Attempts = {"c1", "c2"}
    Users = {"u1"}
    Retries = {"r1"}
    Targets = {"x", "y"}
    MaxFails = 2
    MaxLost = 2
    Null = Null
INVARIANT LiveIsStreaming
CHECK_DEADLOCK FALSE
