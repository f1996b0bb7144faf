SPECIFICATION FairSpec
CONSTANTS
    i1 = i1  i2 = i2
    None = None
    Incidents = {i1, i2}
    Early = {i1}
    Panels = {"feed"}
    Overlap <- FeedOverlaps
    MaxInFlight = 2
    FaultKinds = {"http", "redis"}
    MaxFaults = 1
INVARIANTS TypeOK ClosedStaysAway PaneSettles OneSubmissionAtATime ClosedIsPutAway
PROPERTY PanelsCatchUp
