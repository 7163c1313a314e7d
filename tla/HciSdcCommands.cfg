SPECIFICATION FairSpec
CONSTANTS
    h1 = h1
    Handle = {h1}
    Opcode <- MCOpcode
    NoOp <- MCNoOp
    OpReset <- MCReset
    OpReadBufferSize <- MCReadBufferSize
    OpCreate <- MCCreate
    OpPawr <- MCPawr
    Table <- MCTable
    CompatTable <- MCCompatTable
    AdvFamily <- MCAdvFamily
    CommandPacket <- AllCommands
    HandlerStatus = {"SUCCESS", "ERROR", "UNKNOWN_HCI_COMMAND"}
    EventCapacity = 70
    CompatCapacity = 254
    TrackHandles = 2
    CreditHandles = 2
    Enforce = FALSE
    Legacy = TRUE
    MaxMasked = 0
    StartupNop = TRUE
    SdcBuffers = 1
    MaxLinks = 1
    MaxQueue = 2
    MaxInFlight = 1
INVARIANTS
    OneCommandCredit
    ConnectAfterStatus
    OneAdvFamily
PROPERTIES
    ImplementsFlow
    QueueServed
    CommandAnswered
