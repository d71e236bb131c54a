SPECIFICATION Spec
CONSTANTS
    p = p
    q = q
    a = a
    b = b
    Partitions = {p}
    Streams = {a, b}
    LogSize = 5
    Log <- MixedLog
    TargetFileSize = 2
    ActiveFileTimeout = 1
    MaxConcurrentUploads = 1
    MaxUploadsRetry = 1
    OffsetReset = "earliest"
    Cooperative = FALSE
    Peers = TRUE
    Faults = {"evict", "disk", "crash", "upload"}
    InitialEnd <- FullLog
    MaxRevocations = 1
    MaxPendingCommits = 1
INVARIANTS
    AtLeastOnce
    PoisonNotPassed
PROPERTIES
    Delivers
