SPECIFICATION FairSpec
CONSTANTS
    i1 = i1  i2 = i2  r1 = r1  r2 = r2  p1 = p1  n1 = n1
    None = None
    Incidents = {i1}
    Requests = {r1, r2}
    Pollers = {p1}
    Notes = {n1}
    LastHour = 0
    FaultKinds = {"redis"}
    MaxFaults = 1
PROPERTY PurgedInTheEnd
CHECK_DEADLOCK FALSE
