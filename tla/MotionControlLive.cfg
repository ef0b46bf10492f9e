SPECIFICATION FairSpec
CONSTANTS
    Calls = {"c1"}
    Setters = {"c1"}
    Reissues = {"r1"}
    MaxPosts = 1
    Overtaking = FALSE
PROPERTY
    DisconnectEnds
CHECK_DEADLOCK FALSE
