SPECIFICATION Spec
CONSTANTS
    p1 = p1
    p2 = p2
    p3 = p3
    P = {p1, p2, p3}
    Parent <- Siblings
    None = None
    AnyPid = AnyPid
    Scripts <- mcTraceMe
    MaxSignals = 1
    MaxBatch = 3
INVARIANT WaitsForPtracee
