SPECIFICATION RateSpec
CONSTANTS
    Callers = {c1, c2}
    Rate = 1
    Window = 2
    MaxLag = 0
    MaxCounters = 3
    MaxAdmitted = 4
    MaxInstant = 8
INVARIANT SlidingExact
CHECK_DEADLOCK FALSE
