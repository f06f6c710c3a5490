SPECIFICATION Safety
CONSTANTS
    deviceLoop = deviceLoop
    eventLoop = eventLoop
    Never = Never
    Future = Future
    None = None
    Torn = Torn
    Callers = {deviceLoop, eventLoop}
    ExpiresIn = 3
    RefreshExpiresIn = 4
    AuthExpirationTimeBuffer = 1
    MaxTime = 4
SYMMETRY MCSymmetry
INVARIANTS
    TypeOK
    TokenUnexpired
CHECK_DEADLOCK FALSE
