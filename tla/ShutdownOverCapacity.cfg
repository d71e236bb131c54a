SPECIFICATION Spec
CONSTANTS
    p = p
    q = q
    a = a
    b = b
    Partitions = {p}
    Streams = {a, b}
    LogSize = 2
    Log <- InterleavedLog
    TargetFileSize = 2
    ActiveFileTimeout = 1
    MaxConcurrentUploads = 1
    MaxUploadsRetry = 1
    OffsetReset = "earliest"
    Cooperative = FALSE
    Peers = FALSE
    Faults = {}
    InitialEnd <- FullLog
    MaxRevocations = 1
    MaxPendingCommits = 1
INVARIANTS
    ConcurrencyBounded
