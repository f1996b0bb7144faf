SPECIFICATION FairSpec
CONSTANTS
    MaxCounted = 1
    MaxFaults = 1
INVARIANT MonTypeOK
PROPERTIES HealthSettles VitalsSettle
CHECK_DEADLOCK FALSE
