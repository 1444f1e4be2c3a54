SPECIFICATION MouseSession
CONSTANTS
    Irp = {"DEV_DESC", "SET_ADDR", "SET_CFG", "CFG_DESC", "IDLE", "REPORT_MAP", "DATA"}
    Pipe = {"ctrl", "in"}
    InBuffers = 2
    QueueLen = 5
    Address = 2
    MaxLeak = 2
    MaxPlugs = 2
CHECK_DEADLOCK FALSE
INVARIANTS MouseSafe
PROPERTIES ReportsGoOn ReportsBegin
