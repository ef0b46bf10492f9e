SPECIFICATION Spec
CONSTANTS
    Locks = {"l1", "l2", "l3"}
    Ops = {}
    Public = {"v1"}
    Groups = {"g"}
    CanRead = FALSE
    Unanswered = FALSE
    Watched = {}
    MaxQueue = 1
    NoTurn = "none"
    Hold <- MCHold
    LockOf <- MCLockOf
    Owner <- MCOwner
    Outer <- MCOuter
    Inner <- MCInner
    GroupHolds <- MCGroupHolds
INVARIANTS
    ReleaseSparesHolds
