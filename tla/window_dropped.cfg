SPECIFICATION Spec
CONSTANTS
    a1 = a1  a2 = a2  a3 = a3  b1 = b1  ca = ca  cb = cb  w1 = w1  w2 = w2
    None = None
    Signals = {a1, a2}
    Components = {ca}
    ComponentOf <- OneComponent
    Workers = {w1, w2}
    Window = 1
    FaultKinds = {}
    MaxFaults = 0
PROPERTY NoWindowDropped
CHECK_DEADLOCK FALSE
