SPECIFICATION Spec
CONSTANTS
    p = p
    q = q
    a = a
    b = b
    Partitions = {p}
    Streams = {a, b}
    LogSize = 2
    Log <- InterleavedLog
    TargetFileSize = 1
    ActiveFileTimeout = 1
    MaxConcurrentUploads = 1
    MaxUploadsRetry = 0
    OffsetReset = "latest"
    Cooperative = FALSE
    Peers = FALSE
    Faults = {"crash"}
    InitialEnd <- EmptyLog
    MaxRevocations = 1
    MaxPendingCommits = 1
INVARIANTS
    AtLeastOnceSinceFirstStart
