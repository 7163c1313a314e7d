SPECIFICATION LiveSpec
CONSTANTS
    Polled = TRUE
    BurstLimit = 2
    TxParts = 2
    TxRoomMax = 1
    MaxHostPackets = 2
    MaxEvents = 2
    MaxOpens = 1
PROPERTY
    ControllerPacketLeaves
CHECK_DEADLOCK FALSE
