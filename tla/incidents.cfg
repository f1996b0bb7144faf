SPECIFICATION AggSpec
CONSTANTS
    i1 = i1  i2 = i2  r1 = r1  r2 = r2  p1 = p1  n1 = n1  ca = ca
    None = None
    Incidents = {i1}
    Requests = {r1, r2}
    Pollers = {p1}
    Notes = {n1}
    Components = {ca}
    ComponentOf <- OneComponent
    LastHour = 1
    FaultKinds = {"postgres", "redis", "processor", "api", "restart", "aggregator"}
    MaxFaults = 1
SYMMETRY IncidentSymmetry
INVARIANTS AggTypeOK ClosureNeedsRCA FeedIsPersisted ClosedLeavesFeed FeedAgrees HourlyIsReal ClosedBeforeRunIsCounted
PROPERTIES FollowsLiveFeed ClosureIsKept
CHECK_DEADLOCK FALSE
