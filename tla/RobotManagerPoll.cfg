SPECIFICATION Spec
CONSTANTS
    Attempts = {"c1", "c2"}
    Users = {"u1"}
    Retries = {"r1"}
    Targets = {"x", "y"}
    MaxFails = 2
    MaxLost = 1
    Null = Null
PROPERTY PollSparesTheNext
CHECK_DEADLOCK FALSE
