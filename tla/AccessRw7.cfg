SPECIFICATION Spec
CONSTANTS
    Locks = {"l1", "l2"}
    Ops = {"p1"}
    Public = {"v1"}
    Groups = {}
    CanRead = FALSE
    Unanswered = TRUE
    Watched = {"l1"}
    MaxQueue = 1
    NoTurn = "none"
    Hold <- MCHold
    LockOf <- MCLockOf
    Owner <- MCOwner
    Outer <- MCOuter
    Inner <- MCInner
    GroupHolds <- MCGroupHolds
INVARIANTS
    HoldsHonoured
PROPERTIES
    LostAsksNoMore
    CountedLockSpec
