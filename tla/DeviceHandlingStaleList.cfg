SPECIFICATION Safety
CONSTANTS
    lamp = lamp
    s1 = s1
    s2 = s2
    NoList = NoList
    NoDevice = NoDevice
    Devices <- MCOneDevice
    Senders <- MCTwoSenders
    Lists <- MCAllLists
    MaxMessages = 2
    MaxEvents = 2
    DeviceUpdateBufferSize = 1
    deviceRetryMinDelay = 1
    deviceRetryMaxDelay = 3
    CreateMissingDeviceTypes = TRUE
    SetDeviceErrors = FALSE
PROPERTY RetriedUntilNewList
CHECK_DEADLOCK FALSE
