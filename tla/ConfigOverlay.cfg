SPECIFICATION ConfigSpec
CONSTANTS
    FileTrees <- MCFileTrees
    Unreadable = Unreadable
    Environments <- MCEnvironments
    Loaders = {g1}
    MaxConfigs = 1
    MaxLoads = 1
    MaxEdits = 0
INVARIANTS FileValuesKept
CHECK_DEADLOCK FALSE
