SPECIFICATION JsonlSpec
CONSTANTS
    Callers = {c1, c2, c3}
    Logs = {l1}
    LogOf <- SameLog
    Contents = {x, y, z}
    Part = Part
    AppendMayFail = TRUE
    Idle = Idle
    Free = Free
SYMMETRY Symmetry
INVARIANTS ChainVerifies ReturnedIsKept TamperIsDetected
    TrailIsWholeOrRefused
CONSTRAINT ShortChain
