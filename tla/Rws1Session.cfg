SPECIFICATION Spec
CONSTANTS
    Requests = {"g", "c", "s", "m"}
    Kind <- MCKind
    NodeHttp = TRUE
    MaxSessions = 2
    MaxCloses = 2
INVARIANTS
    CarriedOutOnce
PROPERTIES
    StopWaitsForNoCreate
    ReplacedIsReported
    CloseSparesRequests
CHECK_DEADLOCK FALSE
