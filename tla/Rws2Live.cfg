SPECIFICATION FairSpec
CONSTANTS
    Reads = {}
    Writes = {"w"}
    InTurn = {}
    MaxSession = 2
PROPERTIES
    Settles
