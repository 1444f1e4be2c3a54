SPECIFICATION Session
CONSTANTS
    Irp = {i1, i2, i3, i4}
    NoIrp = NoIrp
    NumBuffers = 2
    NoDataStage = {}
    Pipe = {p1}
    CtrlPipe = {}
    ChanError = {"ERROR_STALL", "ERROR_XFER", "ERROR_IRP_NOT_AVAIL"}
    NoPipe = NoPipe
SYMMETRY Symmetry
CHECK_DEADLOCK FALSE
INVARIANTS
    RingConsistent
    IrpConservation
PROPERTIES
    PipesKeepPromise
