SPECIFICATION Spec
CONSTANTS
    Irp = {i1, i2}
    NoIrp = NoIrp
    NumBuffers = 2
    NoDataStage = {}
    Pipe = {p1}
    CtrlPipe = {}
    ChanError = {"ERROR_STALL", "ERROR_IRP_NOT_AVAIL"}
    NoPipe = NoPipe
SYMMETRY Symmetry
CHECK_DEADLOCK FALSE
INVARIANTS
    TypeOK
    InterruptHasTransfer
    IInv
