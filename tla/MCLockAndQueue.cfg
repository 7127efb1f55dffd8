SPECIFICATION MCSpec
CONSTANTS
    ga = ga
    gb = gb
    gc = gc
    pa = pa
    pb = pb
    Goroutines <- MCGoroutines
    Procs <- MCProcs
    ProcOf <- MCProcOf
    MaxTokens = 2
    Producers = {p1}
    Consumers = {c1, c2}
    PartitionCounts = {2}
    DefaultPartitions = 1
    ChanSize = 1
    Hashes <- MCHashes
    Explicit <- MCExplicit
    MaxInt = 3
    MaxParts = 2
    MaxTopics = 2
    MaxMsgs = 2
INVARIANTS LockTypeOK HolderProtected NoOrphanWatchdog QueueTypeOK DeliveredInOrder
PROPERTIES ReleasedByOwnProcess AbandonedLockFreed KeepsQueuePromise EventuallyDelivered PollersEnd
CHECK_DEADLOCK FALSE
