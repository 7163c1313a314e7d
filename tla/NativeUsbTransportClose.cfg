SPECIFICATION LiveSpec
CONSTANTS
    event = event
    acl = acl
    Reader <- BothEndpoints
    MaxParts = 1
    MaxPackets <- OneEach
PROPERTY
    CloseReturns
CHECK_DEADLOCK FALSE
