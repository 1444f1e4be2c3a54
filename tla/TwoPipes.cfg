SPECIFICATION Session
CONSTANTS
    Irp = {i1, i2}
    NoIrp = NoIrp
    NumBuffers = 2
    NoDataStage = {}
    Pipe = {p1, p2}
    CtrlPipe = {}
    ChanError = {"ERROR_STALL"}
    NoPipe = NoPipe
SYMMETRY PipeSymmetry
CHECK_DEADLOCK FALSE
INVARIANTS
    ListsConsistent
    IrpOwnedOnce
    PauseCounted
    WorkConserving
