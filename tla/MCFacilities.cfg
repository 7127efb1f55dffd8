SPECIFICATION MCSpec
CONSTANTS
    Nodes = {"n1", "n2", "n3"}
    Weight <- MCWeight
    Positions <- MCPositions
    RingSize = 4
    Clients = {c1, c2}
    CounterModulus = 4
    MaxRetry = 1
    MaxCalls = 4
    MaxLists = 2
    CacheKeys = {k1, k2}
    Readers = {r1}
    CacheSize = 1
    DefaultExpiration = 2
    Expirations = {0, 1}
    MaxVersion = 2
    MaxCacheTime = 2
    ChanSize = 1
    MaxSent = 3
    MaxBreaks = 2
    JobIds = {j1}
    Schedules <- MCSchedules
    DayLength = 2
    MaxEntries = 2
    MaxStarts = 2
    MaxTick = 1
    DelayMessages <- MCMessages
    DelayTopics = {"a"}
    Controllers = {d1, d2}
    PollSize = 1
    Second = 2
    DateBase = 10
    MaxConsumers = 2
    MaxDelayTime = 3
    LineSizes = {1, 2}
    MaxSize = 2
    MaxBackups = 1
    MaxAge = 2
    MaxLines = 4
    MaxSeconds = 3
    FileTrees <- MCFileTrees
    Unreadable = Unreadable
    Environments <- MCEnvironments
    Loaders = {g1, g2}
    MaxConfigs = 2
    MaxLoads = 3
    MaxEdits = 1
    Instances = {"i1", "i2"}
    NodeID <- MCNodeID
    maxNodeID = 1
    maxSequence = 1
    MaxClock = 2
    MaxIDs = 4
    MaxRestarts = 1
INVARIANTS FacilitiesTypeOK CallsAccounted CacheFresh NothingSkipped JobsContained DelayedOnceAndNotEarly WrittenLinesKept ConfigLayered Unique Increasing ParseInvertsGenerate
CHECK_DEADLOCK FALSE
