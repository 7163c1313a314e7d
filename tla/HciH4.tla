------------------------------- MODULE HciH4 -------------------------------
(***************************************************************************)
(* The H:4 packet parser of src/src/hci_h4.cpp: octets go in one by one,   *)
(* whole HCI packets come out.  HciH4ParserFeed copies a run of octets at  *)
(* a time; a run is here that many steps of FeedOctet, and the modules     *)
(* that use the parser let nothing come between the octets of one call.    *)
(* The parser is passive, as both firmware users create it: a complete     *)
(* packet waits in DELIVER until its owner releases it.                    *)
(***************************************************************************)
EXTENDS Integers, Sequences

CONSTANTS Octet,            \* the octets the stream is made of
          PacketCapacity    \* the size of the buffer the parser is given

(* HciH4ParserInitCommon refuses a smaller buffer. *)
ASSUME CapacityAssumption == PacketCapacity \in Nat /\ PacketCapacity >= 4

ASSUME OctetAssumption == Octet \subseteq 0 .. 255

VARIABLES State,            \* HciH4ParseState_t
          Type,             \* the packet indicator, NONE between packets
          pPacket,          \* the first PacketLen octets of the buffer
          PayloadLen,
          DropRemaining,    \* octets of an oversize packet still to skip
          InvalidTypeCount

parserVars == <<State, Type, pPacket, PayloadLen, DropRemaining, InvalidTypeCount>>

NONE    == 0
COMMAND == 1
ACL     == 2
SCO     == 3
EVENT   == 4
ISO     == 5

PacketType == COMMAND .. ISO

ParseState == {"TYPE", "HEADER", "PAYLOAD", "DELIVER", "DROP"}

HciH4HeaderLen == [t \in PacketType |-> IF t = EVENT THEN 2
                                        ELSE IF t \in {COMMAND, SCO} THEN 3
                                        ELSE 4]

ReadLe16(h) == h[3] + 256 * h[4]

(* The length a complete header h announces; an ISO packet has two flag    *)
(* bits above its fourteen bits of length.                                 *)
HciH4PayloadLen(t, h) == IF t = EVENT THEN h[2]
                         ELSE IF t \in {COMMAND, SCO} THEN h[3]
                         ELSE IF t = ACL THEN ReadLe16(h)
                         ELSE ReadLe16(h) % 16384

ParserInit == /\ State = "TYPE"
              /\ Type = NONE
              /\ pPacket = <<>>
              /\ PayloadLen = 0
              /\ DropRemaining = 0
              /\ InvalidTypeCount = 0

(* HciH4ReleasePacket: back to the type octet, the counters stay. *)
HciH4ReleasePacket == /\ State' = "TYPE"
                      /\ Type' = NONE
                      /\ pPacket' = <<>>
                      /\ PayloadLen' = 0
                      /\ DropRemaining' = 0
                      /\ UNCHANGED InvalidTypeCount

(* The type octet: a packet begins, or the octet is skipped and counted. *)
FeedType(o) ==
    /\ State = "TYPE"
    /\ \/ /\ o \in PacketType
          /\ State' = "HEADER"
          /\ Type' = o
          /\ pPacket' = <<>>
          /\ PayloadLen' = 0
          /\ DropRemaining' = 0
          /\ UNCHANGED InvalidTypeCount
       \/ /\ o \notin PacketType
          /\ InvalidTypeCount' = InvalidTypeCount + 1
          /\ UNCHANGED <<State, Type, pPacket, PayloadLen, DropRemaining>>

(* Faulty variant: the buffer is taken to be one octet larger. *)
HeaderDoneOffByOne(h) ==
    LET len == HciH4PayloadLen(Type, h) IN
    /\ PayloadLen' = len
    /\ IF HciH4HeaderLen[Type] + len > PacketCapacity + 1
       THEN DropRemaining' = len /\ pPacket' = <<>> /\ State' = "DROP"
       ELSE /\ pPacket' = h
            /\ State' = IF len = 0 THEN "DELIVER" ELSE "PAYLOAD"
            /\ UNCHANGED DropRemaining

(* The octet that completes the header decides whether the packet fits the *)
(* buffer, has a payload or is complete.                                   *)
HeaderDone(h) ==
    LET len == HciH4PayloadLen(Type, h) IN
    /\ PayloadLen' = len
    /\ \/ /\ HciH4HeaderLen[Type] + len > PacketCapacity
          /\ DropRemaining' = len
          /\ pPacket' = <<>>
          /\ State' = IF len = 0 THEN "TYPE" ELSE "DROP"
       \/ /\ HciH4HeaderLen[Type] + len <= PacketCapacity
          /\ pPacket' = h
          /\ State' = IF len = 0 THEN "DELIVER" ELSE "PAYLOAD"
          /\ UNCHANGED DropRemaining

FeedHeader(o) ==
    /\ State = "HEADER"
    /\ \/ /\ Len(pPacket) + 1 < HciH4HeaderLen[Type]
          /\ pPacket' = Append(pPacket, o)
          /\ UNCHANGED <<State, PayloadLen, DropRemaining>>
       \/ /\ Len(pPacket) + 1 = HciH4HeaderLen[Type]
          /\ HeaderDone(Append(pPacket, o))
    /\ UNCHANGED <<Type, InvalidTypeCount>>

FeedPayload(o) ==
    /\ State = "PAYLOAD"
    /\ pPacket' = Append(pPacket, o)
    /\ State' = IF Len(pPacket) + 1 = HciH4HeaderLen[Type] + PayloadLen
                THEN "DELIVER" ELSE "PAYLOAD"
    /\ UNCHANGED <<Type, PayloadLen, DropRemaining, InvalidTypeCount>>

FeedDrop(o) ==
    /\ State = "DROP"
    /\ \/ /\ DropRemaining > 1
          /\ DropRemaining' = DropRemaining - 1
          /\ UNCHANGED <<State, Type, pPacket, PayloadLen, InvalidTypeCount>>
       \/ /\ DropRemaining <= 1
          /\ HciH4ReleasePacket

(* One octet of HciH4ParserFeed.  A packet in DELIVER stops the feed. *)
FeedOctet(o) == FeedType(o) \/ FeedHeader(o) \/ FeedPayload(o) \/ FeedDrop(o)

HciH4ParserDeliveryPending == State = "DELIVER"

HciH4ParserIsMidPacket == State \in {"HEADER", "PAYLOAD", "DROP"}

HciH4ParserReleasePending == /\ HciH4ParserDeliveryPending
                             /\ HciH4ReleasePacket

ParserTypeOK == /\ State \in ParseState
                /\ Type \in PacketType \cup {NONE}
                /\ pPacket \in Seq(0 .. 255)
                /\ PayloadLen \in Nat
                /\ DropRemaining \in Nat
                /\ InvalidTypeCount \in Nat

(* What the five states mean: a header is short of its length, a payload   *)
(* fits the buffer whole, a packet to deliver is exactly as long as its    *)
(* header says, and only an oversize packet is being dropped.              *)
ParserConsistent ==
    /\ State # "TYPE" => Type \in PacketType
    /\ State = "TYPE" => pPacket = <<>>
    /\ State = "HEADER" => Len(pPacket) < HciH4HeaderLen[Type]
    /\ State \in {"PAYLOAD", "DELIVER"} =>
          /\ HciH4HeaderLen[Type] + PayloadLen <= PacketCapacity
          /\ HciH4HeaderLen[Type] <= Len(pPacket)
    /\ State = "PAYLOAD" => Len(pPacket) < HciH4HeaderLen[Type] + PayloadLen
    /\ State = "DELIVER" => Len(pPacket) = HciH4HeaderLen[Type] + PayloadLen
    /\ State = "DROP" => pPacket = <<>> /\ DropRemaining > 0

(* The parser never writes past the buffer it was given, whatever lengths  *)
(* the stream announces (the memcpy's of HciH4ParserFeed).                 *)
WithinBuffer == Len(pPacket) <= PacketCapacity
=============================================================================
