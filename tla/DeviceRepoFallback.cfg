SPECIFICATION Safety
CONSTANTS
    lamp = lamp
    plug = plug
    lampType = lampType
    plugType = plugType
    deviceLoop = deviceLoop
    eventLoop = eventLoop
    Never = Never
    Future = Future
    NoType = NoType
    Free = Free
    Types = {lampType}
    Devices = {lamp}
    MatchOf <- MCMatchOf
    minCacheDuration = 0
    maxCacheDuration = 1
    CreateMissingDeviceTypes = FALSE
    MaxTime = 1
PROPERTY FallbackOnlyUnlisted
CHECK_DEADLOCK FALSE
