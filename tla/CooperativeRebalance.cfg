SPECIFICATION Spec
CONSTANTS
    p = p
    q = q
    a = a
    b = b
    Partitions = {p, q}
    Streams = {a}
    LogSize = 2
    Log <- OneStreamLog
    TargetFileSize = 2
    ActiveFileTimeout = 0
    MaxConcurrentUploads = 1
    MaxUploadsRetry = 0
    OffsetReset = "earliest"
    Cooperative = TRUE
    Peers = TRUE
    Faults = {}
    InitialEnd <- FullLog
    MaxRevocations = 1
    MaxPendingCommits = 1
INVARIANTS
    InCustody
    ScratchFilesAccounted
    NeverFatal
PROPERTIES
    Delivers
