SPECIFICATION Spec
CONSTANTS
    c1 = c1
    h1 = h1
    h2 = h2
    lamp = lamp
    NoRequest = NoRequest
    NoCommand = NoCommand
    NoState = NoState
    NoDevice = NoDevice
    CommandBufferSize = 1
    AckEnabled = TRUE
    PublishErrors = TRUE
    Commands <- MCOneCommand
    Handlers <- MCTwoHandlers
    Devices <- MCOneDevice
    Exposes <- MCExposes
    Requests <- MCRequests
    DeviceStates <- MCStates
INVARIANTS
    TypeOK
    AnsweredOnce
    NeverForgotten
    NoMissedState
    EchoConfirms
    ConfirmedSuccess
    TimersFollowEntries
    ExitAfterDelivery
    AnsweredAtExit
PROPERTIES
    NoAddAtZero
    CancelledUntilClosed
    KeepsPromise
    
