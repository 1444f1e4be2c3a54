SPECIFICATION PauseAndLoss
CONSTANTS
    Irp = {i1}
    NoIrp = NoIrp
    NumBuffers = 2
    NoDataStage = {}
    Pipe = {p1}
    CtrlPipe = {}
    ChanError = {"ERROR_STALL"}
    NoPipe = NoPipe
CHECK_DEADLOCK FALSE
PROPERTIES
    PortOpReturns
