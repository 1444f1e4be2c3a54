SPECIFICATION Spec
CONSTANTS
    Types = {"CTRL", "BULK", "INTR", "ISOCHRONOUS"}
    Mps = {3}
    BInterval = {1, 2, 5, 6}
    NumBytes = {0, 1, 3, 6, 8, 9}
    NumPackets = {0, 1, 3}
    MaxRequests = 3
    Endpoint <- MCEndpoint
    Request <- MCRequest
    PipeIdx = {3}
    FrameNum = {0, 2, 3, 15, 16, 31}
CHECK_DEADLOCK FALSE
INVARIANTS
    DescribesRequest
    DirectionsAgree
    BytesReported
    StreamOnSchedule
    StartsAhead
