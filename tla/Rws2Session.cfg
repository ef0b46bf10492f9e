SPECIFICATION Spec
CONSTANTS
    Reads = {"r"}
    Writes = {"w"}
    InTurn = {"w"}
    MaxSession = 2
INVARIANTS
    GoneIsGone
    WrittenOnce
PROPERTIES
    NothingAfterLogout
    PacedSends
