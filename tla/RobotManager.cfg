SPECIFICATION FairSpec
CONSTANTS
    Attempts = {"c1", "c2"}
    Users = {"u1"}
    Retries = {"r1"}
    Targets = {"x", "y"}
    MaxFails = 2
    MaxLost = 1
    Null = Null
INVARIANTS NothingLeft Whole
PROPERTY ConnectEnds
CHECK_DEADLOCK FALSE
