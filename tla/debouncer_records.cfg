SPECIFICATION Spec
CONSTANTS
    a1 = a1  a2 = a2  a3 = a3  b1 = b1  ca = ca  cb = cb  w1 = w1  w2 = w2
    None = None
    Signals = {a1, a2, b1}
    Components = {ca, cb}
    ComponentOf <- TwoComponents
    Workers = {w1, w2}
    Window = 1
    FaultKinds = {"redis", "resend", "mongo", "postgres", "pubsub", "crash", "restart"}
    MaxFaults = 1
SYMMETRY TwoComponentSymmetry
INVARIANTS TypeOK CountedOnce RowsTraceable AuditTrail RowsHaveForensics LiveIsPersisted
CHECK_DEADLOCK FALSE
