SPECIFICATION MCSpec
CONSTANTS
    Instances = {i1}
    HeartbeatTimeout = 1
    WatchBuffer = 1
    MaxOps = 2
    MaxFaults = 2
    MaxNow = 2
    LogCallers = {l1}
    BufferSize = 2
    BatchSize = 2
    StreamMaxLen = 2
    MaxLogs = 3
    Requests = {r1, r2}
    Hooks = 2
    Helpers = {"Map", "Filter", "ForEach", "FlatMap", "Partition", "MapReduce", "Reduce"}
    MaxLen = 4
    Concurrency = 2
    OutputSize = 1
    PartitionSize = 3
    Accepted = {1, 3}
INVARIANTS ConcurrencyBounded CompleteOnSuccess NoErrorSwallowed StuckOnlyBeyondCapacity
PROPERTIES DiscoveryConverges LogsLeave ShutdownEnds Terminates
CHECK_DEADLOCK FALSE
