SPECIFICATION Loss
CONSTANTS
    Irp = {i1, i2, i3}
    NoIrp = NoIrp
    NumBuffers = 2
    NoDataStage = {i1}
    Pipe = {p1}
    CtrlPipe = {p1}
    ChanError = {"ERROR_STALL"}
    NoPipe = NoPipe
CHECK_DEADLOCK FALSE
INVARIANTS
    FlushAgrees
    StoppedWhenWoken
    LostMeansInvalid
PROPERTIES
    CommandReturns
    IrpEnds
    PortOpReturns
