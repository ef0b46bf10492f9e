SPECIFICATION Spec
CONSTANTS
    Reads = {"r"}
    Writes = {"w"}
    InTurn = {"w"}
    MaxSession = 2
PROPERTIES
    OneLogin
