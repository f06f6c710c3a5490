SPECIFICATION Spec
CONSTANTS
    lamp = lamp
    s1 = s1
    s2 = s2
    NoList = NoList
    NoDevice = NoDevice
    Devices <- MCOneDevice
    Senders <- MCOneSender
    Lists <- MCAllLists
    MaxMessages = 2
    MaxEvents = 1
    DeviceUpdateBufferSize = 1
    deviceRetryMinDelay = 1
    deviceRetryMaxDelay = 2
    CreateMissingDeviceTypes = TRUE
    SetDeviceErrors = TRUE
INVARIANTS
    TypeOK
    NothingForgotten
    RefreshedUnlessLapsed
PROPERTIES
    PublishesLists
    EventuallyRegistered
    EventuallyHeard
CHECK_DEADLOCK FALSE
