SPECIFICATION DiscoverySpec
CONSTANTS
    Instances = {i1}
    HeartbeatTimeout = 1
    WatchBuffer = 1
    MaxOps = 2
    MaxFaults = 0
    MaxNow = 2
PROPERTY WatchReportsChanges
CHECK_DEADLOCK FALSE
