SPECIFICATION Session
CONSTANTS
    Irp = {"DEV_DESC", "SET_ADDR", "SET_CFG", "CFG_DESC", "LINE", "STRING", "DATA"}
    Pipe = {"ctrl", "in", "out"}
    InBuffers = 2
    QueueLen = 5
    Address = 2
    MaxLeak = 6
    MaxPlugs = 2
    Payload = {"DATA"}
    MaxOut = 1
CHECK_DEADLOCK FALSE
INVARIANTS
    SessionSafe
    ChainAlive
    AddressAgrees
PROPERTIES
    NoneLostWhileThere
    Enumerated
    ComesBack
