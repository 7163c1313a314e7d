SPECIFICATION Spec
CONSTANTS
    Opcode = {"RESET", "SET_PHY"}
    Procedure = {"SET_PHY"}
    Window = 1
    MaxCommands = 3
    MaxPackets = 4
    MaxAcl = 2
INVARIANTS
    NoneLost
    CreditsCounted
    FreshWaits
CHECK_DEADLOCK FALSE
