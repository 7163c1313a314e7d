SPECIFICATION LiveSpec
CONSTANTS
    event = event
    acl = acl
    Reader <- BothEndpoints
    MaxParts = 2
    MaxPackets <- TwoAndOne
INVARIANTS
    EndpointOrder
PROPERTY
    PacketReturned
CHECK_DEADLOCK FALSE
