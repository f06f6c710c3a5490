SPECIFICATION Spec
CONSTANTS
    lamp = lamp
    plug = plug
    lampType = lampType
    plugType = plugType
    deviceLoop = deviceLoop
    eventLoop = eventLoop
    Never = Never
    Future = Future
    NoType = NoType
    Free = Free
    Types = {lampType}
    Devices = {lamp}
    MatchOf <- MCMatchOf
    minCacheDuration = 0
    maxCacheDuration = 0
    CreateMissingDeviceTypes = TRUE
    MaxTime = 1
INVARIANTS
    TypeOK
    AnswersRecent
    CreatedIsFound
PROPERTIES
    GivesUpOnlyRecent
    LookupsEnd
CHECK_DEADLOCK FALSE
