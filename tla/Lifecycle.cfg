SPECIFICATION SettledSpec
CONSTANTS
    Task = {t1, t2}
    Pipe = {p1, p2}
    NumChan = 1
    Endpoint <- MCEndpoint
SYMMETRY Symmetry
CHECK_DEADLOCK FALSE
INVARIANTS
    IInv
    NothingLeaks
    PipesHavePort
    PipesFitFifo
