SPECIFICATION HostUse
CONSTANTS
    Irp = {i1, i2, i3}
    NoIrp = NoIrp
    NumBuffers = 2
    NoDataStage = {}
    Pipe = {p1}
    CtrlPipe = {}
    ChanError = {"ERROR_STALL", "ERROR_XFER"}
    NoPipe = NoPipe
SYMMETRY Symmetry
CHECK_DEADLOCK FALSE
PROPERTIES
    ViewHolds
