SPECIFICATION LiveSpec
CONSTANTS
  Octet <- MCOctet
  PacketCapacity = 5
  HostPacket <- MCHostPacket
  Garbage = {1, 3, 84}
  SdcKnows <- MCSdcKnows
  ChunkSize = 4
  Polled = TRUE
  MaxPackets = 2
  MaxGarbage = 2
  MaxOpens = 2
INVARIANTS
  WithinBuffer
  FramesInStep

  
CHECK_DEADLOCK FALSE
