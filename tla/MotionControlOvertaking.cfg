SPECIFICATION Spec
CONSTANTS
    Calls = {"c1"}
    Setters = {"c1"}
    Reissues = {"r1"}
    MaxPosts = 2
    Overtaking = TRUE
INVARIANT
    StandingIsCounted
CHECK_DEADLOCK FALSE
