SPECIFICATION MCSpec
CONSTANTS
    Handlers = {h1, h2}
    AccessLife = 1
    SessionLife = 2
    MaxSessions = 1
    MaxTime = 3
    Calls = {r1, r2}
    Goroutines = {g1, g2}
    Attributes <- MCAttributes
    Contexts = {k1, k2}
    MaxActive = 1
    MaxBytes = 1
    ListMode = "blacklist"
    Listed = {2}
    TrustProxy = TRUE
    AdminNets = {1}
    MaxDepth = 4
    MaxRaces = 1
    Callers = {c1, c2}
    Rate = 2
    Window = 2
    MaxLag = 1
    MaxCounters = 3
    MaxAdmitted = 4
    MaxInstant = 8
    Logins <- MCLogins
    Incoming <- MCIncoming
    Foreign <- MCForeign
    DefaultTenant = "default"
    MaxHops = 4
    Users = {u1, u2, u3}
    FailureThreshold = 2
    SuccessThreshold = 2
    HalfOpenRequests = 1
    Panics = TRUE
    MaxProtected = 5
SYMMETRY MCSymmetry
INVARIANTS RequestsTypeOK DestroyedStaysOut RenewalNotLost HandlersContained RateBounded IdentityKept BreakerTypeOK CrossingsKept SlotsBounded
PROPERTIES KeepsPromise
CHECK_DEADLOCK FALSE
