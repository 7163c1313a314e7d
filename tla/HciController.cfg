SPECIFICATION LiveSpec
CONSTANTS
    Polled = TRUE
    BurstLimit = 2
    TxParts = 2
    TxRoomMax = 2
    MaxHostPackets = 2
    MaxEvents = 2
    MaxOpens = 2
INVARIANTS
    RetainedIntact
    HostOrder
    NoneOverwritten
    NoneStranded
PROPERTIES
    PacketHostDrains
CHECK_DEADLOCK FALSE
