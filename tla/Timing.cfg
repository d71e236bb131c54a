SPECIFICATION FairSpec
CONSTANTS
    Streams = {a}
    ActiveFileTimeout = 1000
    CommitPeriod = 200
    MaxConcurrentUploads = 1
    MaxUploadsRetry = 2
    MaxBusy = 200
    MaxStart = 300
    Step = 100
INVARIANTS
    TypeOK
    SealedInTime
    SignalInTime
    RetryInTime
PROPERTIES
    ComesToRest
CHECK_DEADLOCK FALSE
