SPECIFICATION Spec
CONSTANTS
    Timeouts <- MCTimeouts
    DefaultTimeout = 2
    LongestTimeout = 4
    MinInterval = 1
    MaxInterval = 2
    BusyRetryMin = 1
    BusyLimit = 4
    RequestLimit = 3
INVARIANTS
    SilenceBounded
    BusyBounded
    NeverStalls
PROPERTIES
    JudgedByItsOwnReset
