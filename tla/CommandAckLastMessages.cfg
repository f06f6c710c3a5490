SPECIFICATION Safety
CONSTANTS
    c1 = c1
    h1 = h1
    h2 = h2
    lamp = lamp
    NoRequest = NoRequest
    NoCommand = NoCommand
    NoState = NoState
    NoDevice = NoDevice
    CommandBufferSize = 1
    AckEnabled = TRUE
    PublishErrors = FALSE
    Commands <- MCOneCommand
    Handlers <- MCOneHandler
    Devices <- MCOneDevice
    Exposes <- MCExposes
    Requests <- MCSets
    DeviceStates <- MCStates
INVARIANT LastMessagesSent
