SPECIFICATION Spec
CONSTANTS
    p = p
    q = q
    a = a
    b = b
    Partitions = {p}
    Streams = {a, b}
    LogSize = 3
    Log <- InterleavedLog
    TargetFileSize = 1
    ActiveFileTimeout = 1
    MaxConcurrentUploads = 2
    MaxUploadsRetry = 1
    OffsetReset = "latest"
    Cooperative = FALSE
    Peers = FALSE
    Faults = {"crash", "upload", "commit"}
    InitialEnd <- EmptyLog
    MaxRevocations = 1
    MaxPendingCommits = 2
INVARIANTS
    TypeOK
    AtLeastOnce
    InFlightAccurate
    ConcurrencyBoundedWhileRunning
PROPERTIES
    NoUploadAbandonedWhileRunning
