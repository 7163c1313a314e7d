SPECIFICATION Spec
CONSTANTS
    h1 = h1
    h2 = h2
    Handle = {h1, h2}
    Opcode <- MCOpcode
    NoOp <- MCNoOp
    OpReset <- MCReset
    OpReadBufferSize <- MCReadBufferSize
    OpCreate <- MCCreate
    OpPawr <- MCPawr
    Table <- MCTable
    CompatTable <- MCCompatTable
    AdvFamily <- MCAdvFamily
    CommandPacket <- LinkCommands
    HandlerStatus = {"SUCCESS"}
    EventCapacity = 70
    CompatCapacity = 254
    TrackHandles = 2
    CreditHandles = 2
    Enforce = TRUE
    Legacy = FALSE
    MaxMasked = 1
    StartupNop = FALSE
    SdcBuffers = 2
    MaxLinks = 2
    MaxQueue = 2
    MaxInFlight = 2
SYMMETRY Handles
INVARIANTS
    CreditsConserved
    NoOverrun
    TrackedExactly
