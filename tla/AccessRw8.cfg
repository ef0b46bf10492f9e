SPECIFICATION Spec
CONSTANTS
    Locks = {"l1"}
    Ops = {"p1", "p2"}
    Public = {}
    Groups = {}
    CanRead = TRUE
    Unanswered = TRUE
    Watched = {}
    MaxQueue = 2
    NoTurn = "none"
    Hold <- MCHold
    LockOf <- MCLockOf
    Owner <- MCOwner
    Outer <- MCOuter
    Inner <- MCInner
    GroupHolds <- MCGroupHolds
INVARIANTS
    OneTurn
    HoldsEndWithTurn
    IdleIsNotHeld
    FreshAfterLoss
