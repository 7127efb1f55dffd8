SPECIFICATION BreakerSpec
CONSTANTS
    Users = {u1, u2}
    FailureThreshold = 1
    SuccessThreshold = 1
    HalfOpenRequests = 1
    Panics = FALSE
    MaxProtected = 5
SYMMETRY Symmetry
INVARIANTS NoLeakedSlot
CHECK_DEADLOCK FALSE
