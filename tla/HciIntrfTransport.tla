------------------------- MODULE HciIntrfTransport -------------------------
(***************************************************************************)
(* The receiving side of the H:4 byte-stream transport                     *)
(* (src/src/hci_intrf_transport.cpp), with the ways the bridge opens it    *)
(* (src/src/hci_controller.cpp) and the idle pass of the application       *)
(* (src/src/hci_app.cpp).  A stream that shows a foreign octet where a     *)
(* packet should begin is suspect: until the burst ends, only the commands *)
(* a filter knows are let through, and a line that then stays idle in the  *)
(* middle of a packet makes the parser start again.                        *)
(*                                                                         *)
(* `line' holds the octets sent to the board and not yet read.  How many   *)
(* of them a read finds is open, so a read may find none while a packet is *)
(* still arriving.  Everything else runs on the HCI thread.  The transmit  *)
(* side is in HciController.  A failed read changes an error counter only  *)
(* and is not a step.                                                      *)
(***************************************************************************)
EXTENDS HciH4

CONSTANTS HostPacket,       \* packets the host sends, indicator first
          Garbage,          \* octets that reach the line and are no HCI
          SdcKnows,         \* <<opcode low, opcode high, length>> of the SDC tables
          ChunkSize,        \* HCI_INTRF_IO_CHUNK_SIZE
          Polled,           \* UsbRunning: PollIntervalMs is not 0
          MaxPackets,       \* bound: packets the host sends
          MaxGarbage,       \* bound: foreign octets
          MaxOpens          \* bound: times the port opens

ASSUME TransportAssumption ==
    /\ HostPacket \subseteq Seq(Octet)
    /\ Garbage \subseteq Octet
    /\ {0, COMMAND, 3, 12} \subseteq Octet
    /\ ChunkSize \in Nat \ {0}
    /\ Polled \in BOOLEAN
    /\ {MaxPackets, MaxGarbage, MaxOpens} \subseteq Nat

H4Reset == <<COMMAND, 3, 12, 0>>

(* An H:4 packet: the indicator, a header and as much as it announces. *)
WellFormed(p) == /\ p # <<>> /\ p[1] \in PacketType /\ Len(p) > HciH4HeaderLen[p[1]]
                 /\ Len(p) = 1 + HciH4HeaderLen[p[1]] + HciH4PayloadLen(p[1], Tail(p))

(* The host sends HCI packets, and boot text does not spell a Reset. *)
ASSUME LineAssumption ==
    /\ \A p \in HostPacket : WellFormed(p)
    /\ \E i \in 1 .. 4 : H4Reset[i] \notin Garbage

VARIABLES Open,
          H4StartupResetSync,       \* the UART of a target that scans
          H4StartupResetSyncActive,
          H4StartupResetMatch,
          HostPacketPending,  \* the bridge holds a packet: nothing is read
          RejectedMark,
          RxChunk,            \* the octets of the last read not yet fed
          line,
          sent, garbled, opened,
          step,               \* history: is the parser in step with the host
          expect              \* history: packets sent and not yet handed over

syncVars == <<H4StartupResetSync, H4StartupResetSyncActive, H4StartupResetMatch>>
portVars == <<Open, syncVars>>
envVars  == <<sent, garbled, opened>>
history  == <<step, expect>>
vars     == <<parserVars, portVars, HostPacketPending, RejectedMark, RxChunk, line, envVars, history>>

Init == /\ ParserInit
        /\ Open = FALSE
        /\ H4StartupResetSync \in BOOLEAN
        /\ H4StartupResetSyncActive = FALSE
        /\ H4StartupResetMatch = 0
        /\ HostPacketPending = FALSE
        /\ RejectedMark = 0
        /\ RxChunk = <<>>
        /\ line = <<>>
        /\ sent = 0 /\ garbled = 0 /\ opened = 0
        /\ step = "IN" /\ expect = <<>>

HciIntrfTransportSuspect == InvalidTypeCount # RejectedMark

Rest(s, n) == SubSeq(s, n + 1, Len(s))

(* What a read may find: a non-empty prefix no longer than the chunk. *)
Readable == {n \in 1 .. ChunkSize : n <= Len(line)}

-----------------------------------------------------------------------------
(* The far end of the line.  A host behind a UART that scans for its Reset *)
(* sends that first.                                                       *)

HostSends(p) ==
    /\ sent < MaxPackets
    /\ (H4StartupResetSync /\ sent = 0) => p = H4Reset
    /\ sent' = sent + 1
    /\ line' = line \o p
    /\ expect' = IF step = "OUT" THEN <<>> ELSE Append(expect, p)
    /\ UNCHANGED <<parserVars, portVars, HostPacketPending, RejectedMark, RxChunk,
                   garbled, opened, step>>

(* Boot text of another program, or noise.  AFTER: the line is garbage     *)
(* followed by exactly the packets of expect.                              *)
GarbageArrives(o) ==
    /\ garbled < MaxGarbage
    /\ garbled' = garbled + 1
    /\ line' = Append(line, o)
    /\ step' = IF expect = <<>> /\ step # "OUT" /\ ~Open THEN "AFTER" ELSE "OUT"
    /\ expect' = <<>>
    /\ UNCHANGED <<parserVars, portVars, HostPacketPending, RejectedMark, RxChunk,
                   sent, opened>>

(* History only: with nothing under way the two ends agree again, but not  *)
(* before a UART that scans has found another Reset.                       *)
InStepAgain ==
    /\ step # "IN"
    /\ Open \/ ~H4StartupResetSync
    /\ State = "TYPE" /\ RxChunk = <<>> /\ line = <<>> /\ ~HostPacketPending
    /\ ~HciIntrfTransportSuspect /\ ~H4StartupResetSyncActive
    /\ step' = "IN"
    /\ expect' = <<>>
    /\ UNCHANGED <<parserVars, portVars, HostPacketPending, RejectedMark, RxChunk,
                   line, envVars>>

OutOfStep == step' = "OUT" /\ expect' = <<>>

-----------------------------------------------------------------------------
(* Opening and closing. *)

TransportClosed == /\ RxChunk' = <<>>
                   /\ HciH4ReleasePacket

(* HciControllerH4Open on a UART that scans for the Reset. *)
OpenScanning ==
    /\ H4StartupResetSync
    /\ H4StartupResetSyncActive' = TRUE
    /\ H4StartupResetMatch' = 0
    /\ Open' = FALSE
    /\ TransportClosed
    /\ UNCHANGED <<H4StartupResetSync, RejectedMark, line, step, expect>>

(* HciControllerH4Open when the first read begins with an indicator: what  *)
(* was read is kept.                                                       *)
OpenKeeping ==
    /\ ~H4StartupResetSync
    /\ line # <<>> /\ Head(line) \in PacketType
    /\ \E n \in Readable : /\ RxChunk' = SubSeq(line, 1, n)
                           /\ line' = Rest(line, n)
    /\ Open' = TRUE
    /\ UNCHANGED <<parserVars, syncVars, RejectedMark, step, expect>>

(* HciControllerH4Open otherwise: HciIntrfTransportOpen throws away what   *)
(* its reads find, which is nothing when all is still on the way.          *)
OpenFlushing ==
    /\ ~H4StartupResetSync
    /\ \E n \in 0 .. Len(line) :
          /\ line' = Rest(line, n)
          /\ IF n = 0 THEN UNCHANGED <<step, expect>> ELSE OutOfStep
    /\ Open' = TRUE
    /\ TransportClosed
    /\ RejectedMark' = InvalidTypeCount
    /\ UNCHANGED syncVars

HciControllerPortOpen ==
    /\ ~Open /\ ~H4StartupResetSyncActive
    /\ opened < MaxOpens
    /\ opened' = opened + 1
    /\ OpenScanning \/ OpenKeeping \/ OpenFlushing
    /\ UNCHANGED <<HostPacketPending, sent, garbled>>

HciControllerPortClose ==
    /\ Open \/ H4StartupResetSyncActive
    /\ Open' = FALSE
    /\ H4StartupResetSyncActive' = FALSE
    /\ H4StartupResetMatch' = 0
    /\ HostPacketPending' = FALSE
    /\ TransportClosed
    /\ OutOfStep
    /\ UNCHANGED <<H4StartupResetSync, RejectedMark, line, envVars>>

(* Faulty variant: an octet that breaks a match is not tried as its start. *)
NextMatchFromZero(o) == IF o = H4Reset[H4StartupResetMatch + 1] THEN H4StartupResetMatch + 1 ELSE 0

(* The scan for the Reset, octet by octet.  What the read found behind the *)
(* Reset stays in the chunk, and the Reset is given to the parser.         *)
NextMatch(o) == IF o = H4Reset[H4StartupResetMatch + 1] THEN H4StartupResetMatch + 1
                ELSE IF o = H4Reset[1] THEN 1 ELSE 0

HciControllerH4StartupSyncProcess ==
    /\ H4StartupResetSyncActive
    /\ ~HostPacketPending
    /\ line # <<>>
    /\ LET match == NextMatch(Head(line)) IN
       \/ /\ match < Len(H4Reset)
          /\ H4StartupResetMatch' = match
          /\ line' = Tail(line)
          /\ UNCHANGED <<parserVars, Open, H4StartupResetSyncActive, RxChunk, step, expect>>
       \/ /\ match = Len(H4Reset)
          /\ \E n \in 1 .. ChunkSize :
                /\ n <= Len(line)
                /\ RxChunk' = SubSeq(line, 2, n)
                /\ line' = Rest(line, n)
          /\ H4StartupResetMatch' = 0
          /\ H4StartupResetSyncActive' = FALSE
          /\ Open' = TRUE
          /\ State' = "DELIVER"
          /\ Type' = COMMAND
          /\ pPacket' = Tail(H4Reset)
          /\ PayloadLen' = 0
          /\ UNCHANGED <<DropRemaining, InvalidTypeCount>>
          /\ IF step = "OUT" THEN UNCHANGED <<step, expect>>
             ELSE step' = "IN" /\ UNCHANGED expect
    /\ UNCHANGED <<H4StartupResetSync, HostPacketPending, RejectedMark, envVars>>

-----------------------------------------------------------------------------
(* HciIntrfTransportProcessRx.  Each pass of its loop decides from the     *)
(* state alone, so a pass is a step and the limit of 64 passes is a pause. *)

Reading == Open /\ ~HostPacketPending

(* HciAppSuspectFilter: the command tables of the SDC layer. *)
HciAppSuspectFilter(p) == SubSeq(p, 1, 3) \in SdcKnows

(* A complete command of a suspect stream the filter does not know. *)
DroppedAsSuspect == /\ HciH4ParserDeliveryPending
                    /\ HciIntrfTransportSuspect
                    /\ Type = COMMAND
                    /\ ~HciAppSuspectFilter(pPacket)

HciIntrfTransportDropPendingSuspect ==
    /\ Reading
    /\ DroppedAsSuspect
    /\ HciH4ParserReleasePending
    /\ UNCHANGED <<portVars, HostPacketPending, RejectedMark, RxChunk, line, envVars, step, expect>>

(* One octet of the feed; an oversize packet is given up at its header. *)
FeedChunk ==
    /\ Reading
    /\ RxChunk # <<>>
    /\ FeedOctet(Head(RxChunk))
    /\ RxChunk' = Tail(RxChunk)
    /\ step' = IF step = "AFTER" THEN "OUT" ELSE step
    /\ expect' = IF step = "IN" /\ State = "HEADER" /\ State' = "DROP" THEN Tail(expect)
                 ELSE IF step = "IN" THEN expect ELSE <<>>
    /\ UNCHANGED <<portVars, HostPacketPending, RejectedMark, line, envVars>>

ReadChunk ==
    /\ Reading
    /\ RxChunk = <<>> /\ ~HciH4ParserDeliveryPending
    /\ \E n \in Readable : /\ RxChunk' = SubSeq(line, 1, n)
                           /\ line' = Rest(line, n)
    /\ UNCHANGED <<parserVars, portVars, HostPacketPending, RejectedMark, envVars, history>>

(* A read that finds nothing between packets ends the burst. *)
ReadNothing ==
    /\ Reading
    /\ RxChunk = <<>> /\ ~HciH4ParserDeliveryPending
    /\ ~HciH4ParserIsMidPacket
    /\ HciIntrfTransportSuspect
    /\ RejectedMark' = InvalidTypeCount
    /\ UNCHANGED <<parserVars, portVars, HostPacketPending, RxChunk, line, envVars, history>>

(* HciIntrfPacketStartRx and RxData: the bridge takes the packet, which    *)
(* stays in the same buffer, and holds it until the controller accepts it. *)
HciIntrfPacketRxData ==
    /\ Reading
    /\ HciH4ParserDeliveryPending /\ ~DroppedAsSuspect
    /\ HciH4ParserReleasePending
    /\ HostPacketPending' = TRUE
    /\ expect' = IF step = "IN" THEN Tail(expect) ELSE expect
    /\ UNCHANGED <<portVars, RejectedMark, RxChunk, line, envVars, step>>

PacketAccepted ==
    /\ HostPacketPending
    /\ HostPacketPending' = FALSE
    /\ UNCHANGED <<parserVars, portVars, RejectedMark, RxChunk, line, envVars, history>>


(* HciIntrfTransportIdle, which HciAppResyncOnIdle calls after four passes *)
(* that read nothing, a bridge that holds a packet among the reasons.      *)
HciIntrfTransportIdle ==
    /\ HostPacketPending \/ RxChunk = <<>> \/ HciH4ParserDeliveryPending
    /\ HciIntrfTransportSuspect
    /\ RejectedMark' = InvalidTypeCount
    /\ IF HciH4ParserIsMidPacket
       THEN TransportClosed
       ELSE UNCHANGED <<parserVars, RxChunk>>
    /\ UNCHANGED <<portVars, HostPacketPending, line, envVars, history>>

Next == \/ \E p \in HostPacket : HostSends(p)
        \/ \E o \in Garbage : GarbageArrives(o)
        \/ InStepAgain
        \/ HciControllerPortOpen
        \/ HciControllerPortClose
        \/ HciControllerH4StartupSyncProcess
        \/ HciIntrfTransportDropPendingSuspect
        \/ FeedChunk
        \/ ReadChunk
        \/ ReadNothing
        \/ HciIntrfPacketRxData
        \/ PacketAccepted
        \/ HciIntrfTransportIdle

Spec == Init /\ [][Next]_vars

(* What the HCI thread keeps doing while the port is open, and the         *)
(* controller accepts a held packet in the end.  The passes in which a     *)
(* silent line counts as idle are those of the poll (HCI_APP_USB_POLL_MS), *)
(* which HciAppInitMode asks for only where USB runs, as the host port or  *)
(* as a log port beside a UART: without it no idle pass need ever come.    *)
Fairness == /\ WF_vars(FeedChunk \/ ReadChunk \/ HciIntrfTransportDropPendingSuspect
                       \/ HciIntrfPacketRxData)
            /\ WF_vars(PacketAccepted)
            /\ WF_vars(Polled /\ HciIntrfTransportIdle)

LiveSpec == Spec /\ Fairness

-----------------------------------------------------------------------------

(* The octets the receiver has taken of the packet it is in. *)
Taken == IF H4StartupResetSyncActive THEN SubSeq(H4Reset, 1, H4StartupResetMatch)
         ELSE IF State \in {"HEADER", "PAYLOAD", "DELIVER"} THEN <<Type>> \o pPacket
         ELSE <<>>

Join(s) == LET join[n \in 0 .. Len(s)] == IF n = 0 THEN <<>> ELSE join[n - 1] \o s[n]
           IN  join[Len(s)]

Flat == Join(expect)

(* While no foreign octet has come between them, the receiver is in step   *)
(* with the host: what it has taken, read and not yet read is exactly the  *)
(* packets the host sent and the bridge has not had, whatever sizes the    *)
(* reads have, however long a packet waits, whenever the line goes idle or *)
(* the port opens on packets already there; behind boot text, from the     *)
(* Reset the UART scans for.                                               *)
FramesInStep ==
    step = "IN" => /\ Taken \o Rest(RxChunk \o line, DropRemaining) = Flat
                   /\ ~HciIntrfTransportSuspect

=============================================================================
