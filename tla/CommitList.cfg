SPECIFICATION Spec
CONSTANTS
    p = p
    q = q
    a = a
    Partitions = {p, q}
    Streams = {a}
    LogSize = 3
    Log <- AnyLog
INVARIANTS
    TypeOK
    ScanFindsContiguousEnd
PROPERTIES
    ImplementsList
\* The call returns and the model stops there.
CHECK_DEADLOCK FALSE
