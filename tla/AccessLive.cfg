SPECIFICATION FairSpec
CONSTANTS
    Locks = {"l1"}
    Ops = {"p1", "p2", "p3"}
    Public = {}
    Groups = {}
    CanRead = FALSE
    Unanswered = TRUE
    Watched = {}
    MaxQueue = 1
    NoTurn = "none"
    Hold <- MCHold
    LockOf <- MCLockOf
    Owner <- MCOwner
    Outer <- MCOuter
    Inner <- MCInner
    GroupHolds <- MCGroupHolds
PROPERTIES
    OperationEnds
    WaiterServed
    WriteTurnSpec
