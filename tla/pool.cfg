SPECIFICATION FairPoolSpec
CONSTANTS
    a1 = a1  a2 = a2  m1 = m1  ca = ca  w1 = w1  w2 = w2
    None = None
    Signals = {a1, m1}
    Malformed = {m1}
    Components = {ca}
    ComponentOf <- OneComponent
    Workers = {w1, w2}
    Count = 2
    MaxLost = 1
    Window = 1
    FaultKinds = {"redis", "mongo", "crash", "restart"}
    MaxFaults = 3
INVARIANTS PoolTypeOK OneWorkerPerEntry AckedIsAudited DeliveredIsAccounted
PROPERTY EntriesAreHandled
CHECK_DEADLOCK FALSE
