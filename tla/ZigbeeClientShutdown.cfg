SPECIFICATION Spec
CONSTANTS
    lamp = lamp
    h1 = h1
    h2 = h2
    lampName = lampName
    NoName = NoName
    NoList = NoList
    NoDevice = NoDevice
    Free = Free
    Devices = {lamp}
    Names = {lampName}
    Lists <- MCPresentOrAbsent
    FirstLists <- MCFirst
    Handlers <- MCOneHandler
    EventBufferSize = 1
    Refreshing = TRUE
    MaxStates = 2
    MaxChanges = 0
PROPERTY ShutdownCompletes
CHECK_DEADLOCK FALSE
