SPECIFICATION FairPoolSpec
CONSTANTS
    a1 = a1  a2 = a2  m1 = m1  ca = ca  w1 = w1  w2 = w2
    None = None
    Signals = {a1, a2}
    Malformed = {}
    Components = {ca}
    ComponentOf <- OneComponent
    Workers = {w1, w2}
    Count = 2
    MaxLost = 0
    Window = 1
    FaultKinds = {"mongo"}
    MaxFaults = 1
PROPERTY PendingIsRetried
CHECK_DEADLOCK FALSE
