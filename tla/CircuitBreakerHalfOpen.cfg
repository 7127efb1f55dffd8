SPECIFICATION BreakerSpec
CONSTANTS
    Users = {u1, u2, u3}
    FailureThreshold = 1
    SuccessThreshold = 1
    HalfOpenRequests = 1
    Panics = FALSE
    MaxProtected = 5
SYMMETRY Symmetry
INVARIANTS HalfOpenLimit
CHECK_DEADLOCK FALSE
