SPECIFICATION LogSpec
CONSTANTS
    LogCallers = {l1}
    BufferSize = 2
    BatchSize = 2
    StreamMaxLen = 2
    MaxLogs = 3
INVARIANT CloseFlushes
CHECK_DEADLOCK FALSE
