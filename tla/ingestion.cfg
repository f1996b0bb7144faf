SPECIFICATION FairLoadSpec
CONSTANTS
    s1 = s1  s2 = s2  s3 = s3  r1 = r1  r2 = r2  r3 = r3
    b1 = b1  b2 = b2  h1 = h1  h2 = h2
    Signals = {s1, s2, s3, r1, r2, r3}
    Batches <- SomeBatches
    Handlers = {h1, h2}
    StreamWorkers = 2
    Capacity = 1
    Burst = 2
    MaxGranted = 3
    FaultKinds = {"redis", "resend", "api", "net"}
    MaxFaults = 1
    Concurrency = 2
    Loads = {b1, b2}
    BodyOf <- TwoLoads
INVARIANTS LoadTypeOK AcceptedIsKept WrittenOnce LimitIsPerSignal RefusedIsRetriable ThroughputAddsUp ReportIsTrue
PROPERTY TestEnds
CHECK_DEADLOCK FALSE
