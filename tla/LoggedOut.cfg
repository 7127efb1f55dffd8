SPECIFICATION SessionSpec
CONSTANTS
    Handlers = {h1, h2}
    AccessLife = 1
    SessionLife = 2
    MaxSessions = 1
    MaxTime = 3
INVARIANT LoggedOut
CHECK_DEADLOCK FALSE
