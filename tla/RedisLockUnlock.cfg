SPECIFICATION LockSpec
CONSTANTS
    ga = ga
    gb = gb
    gc = gc
    pa = pa
    pb = pb
    Goroutines <- MCGoroutines
    Procs <- MCProcs
    ProcOf <- MCProcOf
    MaxTokens = 2
INVARIANTS OnlyHolderUnlocks
CHECK_DEADLOCK FALSE
