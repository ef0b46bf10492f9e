SPECIFICATION Spec
CONSTANTS
    Calls = {"c1", "c2"}
    Setters = {"c1", "c2"}
    Reissues = {}
    MaxPosts = 1
    Overtaking = FALSE
INVARIANT
    StandingIsCounted
CHECK_DEADLOCK FALSE
