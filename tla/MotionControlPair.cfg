SPECIFICATION Spec
CONSTANTS
    Calls = {"c1", "u1"}
    Setters = {"c1"}
    Reissues = {}
    MaxPosts = 1
    Overtaking = FALSE
INVARIANTS
    TypeOK
    StandingIsCounted
    LeftIsTold
CHECK_DEADLOCK FALSE
