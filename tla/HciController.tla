--------------------------- MODULE HciController ---------------------------
(***************************************************************************)
(* The bridge between the host's transport and the controller              *)
(* (src/src/hci_controller.cpp), the transmit side of the H:4 transport    *)
(* (src/src/hci_intrf_transport.cpp) and the pass of the application that  *)
(* runs both (HciAppHostProcess, src/src/hci_app.cpp).                     *)
(*                                                                         *)
(* The bridge keeps one packet of each direction.  Over H:4 the host's     *)
(* packet is parsed into the buffer it is then retained in, and a packet   *)
(* to the host goes through the stream buffer of the transport, which may  *)
(* leave in parts.  A packet host (native USB, IPC) takes or refuses whole *)
(* packets.  The steps of a pass interleave with what interrupts change:   *)
(* octets from the host, room towards it, work done by the SDC.            *)
(*                                                                         *)
(* Octets are abstracted to packets here; how octets become packets, and   *)
(* streams that lose step, are in HciIntrfTransport.                       *)
(***************************************************************************)
EXTENDS Integers, Sequences

CONSTANTS Polled,        \* PollIntervalMs # 0: the thread also runs without a wake
          BurstLimit,    \* packets of one pass to the host, 16
          TxParts,       \* parts a packet leaves the stream buffer in
          TxRoomMax,     \* parts (H:4) or packets the host's driver holds
          MaxHostPackets, \* bound: packets the host sends
          MaxEvents,     \* bound: packets the controller sends of its own accord
          MaxOpens       \* bound: times the port opens

ASSUME BridgeAssumption ==
    /\ Polled \in BOOLEAN
    /\ BurstLimit \in Nat \ {0, 1}
    /\ {TxParts, TxRoomMax} \subseteq Nat \ {0}
    /\ {MaxHostPackets, MaxEvents, MaxOpens} \subseteq Nat

VARIABLES pc,                       \* where HciControllerProcess is
          burst,                    \* its loop counter
          wake,                     \* an event not yet taken by the thread
          HostUsesH4, Open,
          parser,                   \* EMPTY, PART of a packet, WHOLE
          buf,                      \* the packet whose octets pHostPacket holds
          HostPacketPending,
          hostPkt,                  \* the packet HostPacketType and Len describe
          ControllerPacketPending,
          ctlPkt,                   \* its size
          txLeft,                   \* parts left of TxStream, 0 when it is free
          hostIn, cut,              \* sent by the host; cut: the last one in part
          txRoom,
          ctlOut, sdcWork,          \* of the SDC: packets to fetch, replies to come
          sent, events, opened,     \* bounded counters of the environment
          handled,                  \* history: last host packet dealt with
          entered, delivered, unsendable, lost  \* history: packets to the host

passVars == <<pc, burst>>
hostVars == <<parser, buf, HostPacketPending, hostPkt, hostIn, cut, handled>>
ctlVars  == <<ControllerPacketPending, ctlPkt, entered, unsendable>>
txVars   == <<txLeft, txRoom, delivered>>
sdcVars  == <<ctlOut, sdcWork>>
envVars  == <<sent, events, opened>>
vars     == <<passVars, wake, HostUsesH4, Open, hostVars, ctlVars, txVars, lost, sdcVars, envVars>>

(* SDC goes to the controller, LOCAL is answered by the bridge (loopback,  *)
(* vendor, USB validation, a command above the core version), BAD is of a  *)
(* type no host may send.                                                  *)
Kind == {"SDC", "LOCAL", "BAD"}
Size == {"FIT", "BIG"}  \* BIG does not fit the stream buffer

Packet == [id : Nat, kind : Kind]
NoPacket == [id |-> 0, kind |-> "BAD"]

Init == /\ pc = "IDLE" /\ burst = 0 /\ wake = FALSE
        /\ HostUsesH4 \in BOOLEAN /\ Open = FALSE
        /\ parser = "EMPTY" /\ buf = NoPacket
        /\ HostPacketPending = FALSE /\ hostPkt = NoPacket
        /\ ControllerPacketPending = FALSE /\ ctlPkt = "FIT"
        /\ txLeft = 0
        /\ hostIn = <<>> /\ cut = FALSE
        /\ txRoom = TxRoomMax
        /\ ctlOut = <<>> /\ sdcWork = 0
        /\ sent = 0 /\ events = 0 /\ opened = 0
        /\ handled = 0
        /\ entered = 0 /\ delivered = 0 /\ unsendable = 0 /\ lost = 0

-----------------------------------------------------------------------------
(* The host, its driver and the SDC.  Each of them wakes the thread:       *)
(* HciHostUartEvent, HciHostIpcEvent, the USB events, the SDC callback.    *)

HostSends(k) ==
    /\ sent < MaxHostPackets
    /\ ~cut
    /\ sent' = sent + 1
    /\ hostIn' = Append(hostIn, [id |-> sent + 1, kind |-> k])
    /\ cut' \in IF HostUsesH4 THEN BOOLEAN ELSE {FALSE}
    /\ wake' = TRUE
    /\ UNCHANGED <<passVars, HostUsesH4, Open, parser, buf, HostPacketPending, hostPkt, handled, ctlVars,
                   txVars, lost, sdcVars, events, opened>>

RestArrives ==
    /\ cut
    /\ cut' = FALSE
    /\ wake' = TRUE
    /\ UNCHANGED <<passVars, HostUsesH4, Open, parser, buf, HostPacketPending, hostPkt, hostIn, handled, ctlVars,
                   txVars, lost, sdcVars, envVars>>

HostReads ==
    /\ txRoom < TxRoomMax
    /\ txRoom' = txRoom + 1
    /\ wake' = TRUE
    /\ UNCHANGED <<passVars, HostUsesH4, Open, hostVars, ctlVars, txLeft, delivered, lost, sdcVars, envVars>>

SdcReplies ==
    /\ sdcWork > 0
    /\ sdcWork' = sdcWork - 1
    /\ ctlOut' = Append(ctlOut, "FIT")
    /\ wake' = TRUE
    /\ UNCHANGED <<passVars, HostUsesH4, Open, hostVars, ctlVars, txVars, lost, envVars>>

SdcEvent(z) ==
    /\ events < MaxEvents
    /\ events' = events + 1
    /\ ctlOut' = Append(ctlOut, z)
    /\ wake' = TRUE
    /\ UNCHANGED <<passVars, HostUsesH4, Open, hostVars, ctlVars, txVars, lost, sdcWork, sent, opened>>

-----------------------------------------------------------------------------
(* HciAppSetHostOpen, before a pass.  What an H:4 open flushes is gone.    *)

HciControllerPortOpen ==
    /\ pc = "IDLE" /\ ~Open
    /\ opened < MaxOpens
    /\ opened' = opened + 1
    /\ Open' = TRUE
    /\ wake' = TRUE
    /\ \E n \in IF HostUsesH4 /\ ~cut THEN 0 .. Len(hostIn) ELSE {0} :
          /\ hostIn' = SubSeq(hostIn, n + 1, Len(hostIn))
          /\ handled' = handled + n
    /\ UNCHANGED <<passVars, HostUsesH4, parser, buf, HostPacketPending, hostPkt, cut, ctlVars, txVars, lost,
                   sdcVars, sent, events>>

Held(b) == IF b THEN 1 ELSE 0

HciControllerPortClose ==
    /\ pc = "IDLE" /\ Open
    /\ Open' = FALSE
    /\ parser' = "EMPTY"
    /\ HostPacketPending' = FALSE
    /\ hostPkt' = NoPacket
    /\ ControllerPacketPending' = FALSE
    /\ txLeft' = 0
    /\ handled' = IF HostPacketPending \/ parser # "EMPTY" THEN handled + 1 ELSE handled
    /\ cut' = IF parser = "PART" THEN FALSE ELSE cut
    /\ lost' = lost + Held(ControllerPacketPending) + Held(txLeft # 0)
    /\ UNCHANGED <<passVars, wake, HostUsesH4, buf, hostIn, ctlPkt, entered, unsendable, txRoom, delivered,
                   sdcVars, envVars>>

-----------------------------------------------------------------------------
(* HciIntrfTransportProcess. *)

(* ProcessRx: into the shared buffer, and no further than a whole packet.  *)
Feed == IF hostIn # <<>> /\ parser = "EMPTY"
        THEN /\ buf' = Head(hostIn)
             /\ hostIn' = Tail(hostIn)
             /\ parser' = IF cut /\ Len(hostIn) = 1 THEN "PART" ELSE "WHOLE"
        ELSE /\ parser' = IF parser = "PART" /\ ~cut THEN "WHOLE" ELSE parser
             /\ UNCHANGED <<buf, hostIn>>

(* ProcessTx: left parts go as far as the driver has room. *)
Drain(left) ==
    LET n == IF left <= txRoom THEN left ELSE txRoom IN
    /\ txLeft' = left - n
    /\ txRoom' = txRoom - n
    /\ delivered' = delivered + Held(left # 0 /\ n = left)

(* Faulty variant: fed while the buffer holds a packet for a retry.        *)
TransportAlwaysRuns == HostUsesH4 /\ Open

TransportRuns == HostUsesH4 /\ Open /\ ~HostPacketPending

Goto(l) == pc' = l /\ burst' = burst

HciIntrfTransportProcess(at, next) ==
    /\ pc = at
    /\ Goto(next)
    /\ IF TransportRuns
       THEN /\ Feed
            /\ Drain(txLeft)
       ELSE UNCHANGED <<parser, buf, hostIn, txVars>>
    /\ UNCHANGED <<wake, HostUsesH4, Open, HostPacketPending, hostPkt, cut, handled, ctlVars, lost, sdcVars,
                   envVars>>

-----------------------------------------------------------------------------
(* HciControllerPutHostPacket of packet p, in its three outcomes. *)

PutInvalid(p) == p.kind = "BAD" /\ UNCHANGED <<ctlVars, sdcVars>>

(* QueueLoopback, QueueVendor, QueueUsbTxValidation, QueueUnknownCommand.  *)
PutLocal(p) ==
    /\ p.kind = "LOCAL"
    /\ ~ControllerPacketPending
    /\ ControllerPacketPending' = TRUE
    /\ ctlPkt' = "FIT"
    /\ entered' = entered + 1
    /\ UNCHANGED <<unsendable, sdcVars>>

(* To the SDC, which answers at once, later, or not at all (data). *)
PutSdc(p) ==
    /\ p.kind = "SDC"
    /\ \/ ctlOut' = Append(ctlOut, "FIT") /\ UNCHANGED sdcWork
       \/ sdcWork' = sdcWork + 1 /\ UNCHANGED ctlOut
       \/ UNCHANGED sdcVars
    /\ UNCHANGED ctlVars

(* It may refuse while something of its own is not fetched or not done. *)
Refused(p) ==
    /\ \/ p.kind = "LOCAL" /\ ControllerPacketPending
       \/ p.kind = "SDC" /\ (ctlOut # <<>> \/ sdcWork # 0)
    /\ UNCHANGED <<ctlVars, sdcVars>>

(* Faulty variant: a refusal is not noticed.                               *)
OfferOnce(p) ==
    /\ HostPacketPending' = FALSE
    /\ hostPkt' = NoPacket
    /\ \/ (PutInvalid(p) \/ PutLocal(p) \/ PutSdc(p)) /\ handled' = p.id
       \/ Refused(p) /\ UNCHANGED handled

(* p is offered: accepted and forgotten, or retained for a retry.  What    *)
(* the controller gets is what the buffer holds.                           *)
Offer(p) ==
    \/ /\ PutInvalid(p) \/ PutLocal(p) \/ PutSdc(p)
       /\ HostPacketPending' = FALSE
       /\ hostPkt' = NoPacket
       /\ handled' = p.id
    \/ /\ Refused(p)
       /\ HostPacketPending' = TRUE
       /\ hostPkt' = p
       /\ UNCHANGED handled

(* HciControllerHostProcess, its ways in. *)
Retry == /\ HostPacketPending
         /\ Offer(buf)
         /\ UNCHANGED <<parser, buf, hostIn>>

(* StartRx of the adapter reads too, so a packet may become whole here,    *)
(* and, when its type has been asked for already, wait for the next call.  *)
TakeH4 == /\ ~HostPacketPending /\ HostUsesH4 /\ Open
          /\ \/ /\ parser = "WHOLE"
                /\ parser' = "EMPTY"
                /\ UNCHANGED <<buf, hostIn>>
                /\ Offer(buf)
             \/ /\ parser # "WHOLE"
                /\ Feed
                /\ UNCHANGED <<HostPacketPending, hostPkt, handled, ctlVars, sdcVars>>
             \/ /\ parser = "EMPTY" /\ hostIn # <<>> /\ ~(cut /\ Len(hostIn) = 1)
                /\ buf' = Head(hostIn)
                /\ hostIn' = Tail(hostIn)
                /\ Offer(Head(hostIn))
                /\ UNCHANGED parser
             \/ /\ parser = "PART" /\ ~cut
                /\ parser' = "EMPTY"
                /\ UNCHANGED <<buf, hostIn>>
                /\ Offer(buf)

TakePacket == /\ ~HostPacketPending /\ ~HostUsesH4 /\ Open /\ hostIn # <<>>
              /\ buf' = Head(hostIn)
              /\ hostIn' = Tail(hostIn)
              /\ Offer(Head(hostIn))
              /\ UNCHANGED parser

(* A packet interface that has nothing, or whose read fails. *)
NothingTaken == /\ ~HostPacketPending /\ (~Open \/ ~HostUsesH4)
                /\ UNCHANGED <<parser, buf, HostPacketPending, hostPkt, hostIn, handled, ctlVars,
                               sdcVars>>

HciControllerHostProcess(at, next) ==
    /\ pc = at
    /\ pc' = next
    /\ burst' = IF next = "FETCH" THEN 1 ELSE burst
    /\ Retry \/ TakeH4 \/ TakePacket \/ NothingTaken
    /\ UNCHANGED <<wake, HostUsesH4, Open, cut, txVars, lost, envVars>>

PacketRead == /\ \/ HciControllerHostProcess("HOST1", "FETCH1")
                 \/ HciControllerHostProcess("HOST2", "FETCH")
              /\ hostIn' # hostIn

-----------------------------------------------------------------------------
(* Towards the host. *)

(* Faulty variant: only a packet fetched in this pass is offered.          *)
FetchOnlyNew(at, next, end) ==
    /\ pc = at
    /\ IF ~ControllerPacketPending /\ ctlOut # <<>>
       THEN /\ ControllerPacketPending' = TRUE
            /\ ctlPkt' = Head(ctlOut)
            /\ ctlOut' = Tail(ctlOut)
            /\ entered' = entered + 1
            /\ Goto(next)
       ELSE /\ UNCHANGED <<ControllerPacketPending, ctlPkt, ctlOut, entered>>
            /\ Goto(end)
    /\ UNCHANGED <<wake, HostUsesH4, Open, hostVars, unsendable, txVars, lost, sdcWork, envVars>>

(* HciControllerFetchPacket; in the burst, nothing to send ends the pass.  *)
HciControllerFetchPacket(at, next, end) ==
    /\ pc = at
    /\ IF ~ControllerPacketPending /\ ctlOut # <<>>
       THEN /\ ControllerPacketPending' = TRUE
            /\ ctlPkt' = Head(ctlOut)
            /\ ctlOut' = Tail(ctlOut)
            /\ entered' = entered + 1
       ELSE UNCHANGED <<ControllerPacketPending, ctlPkt, ctlOut, entered>>
    /\ Goto(IF ControllerPacketPending' THEN next ELSE end)
    /\ UNCHANGED <<wake, HostUsesH4, Open, hostVars, unsendable, txVars, lost, sdcWork, envVars>>

NotSent == UNCHANGED <<ControllerPacketPending, unsendable, txVars>>

(* Permanently too long for the stream buffer, or the transport failed. *)
Unsendable == /\ ControllerPacketPending' = FALSE
              /\ unsendable' = unsendable + 1
              /\ UNCHANGED txVars

(* Faulty variant: the stream buffer is filled again before it is out.     *)
SendH4Over == /\ HostUsesH4 /\ ctlPkt # "BIG" /\ Open
              /\ ControllerPacketPending' = FALSE
              /\ Drain(TxParts)
              /\ UNCHANGED unsendable

(* HciIntrfPacketStartTx and TxData. *)
SendH4 == /\ HostUsesH4 /\ ctlPkt # "BIG" /\ Open /\ txLeft = 0
          /\ ControllerPacketPending' = FALSE
          /\ Drain(TxParts)
          /\ UNCHANGED unsendable

SendPacket == /\ ~HostUsesH4 /\ Open /\ txRoom > 0
              /\ ControllerPacketPending' = FALSE
              /\ txRoom' = txRoom - 1
              /\ delivered' = delivered + 1
              /\ UNCHANGED <<unsendable, txLeft>>

(* HciControllerStartPacket. *)
StartPacket ==
    \/ ~ControllerPacketPending /\ NotSent
    \/ ControllerPacketPending /\ HostUsesH4 /\ ctlPkt = "BIG" /\ Unsendable
    \/ ControllerPacketPending /\ ~HostUsesH4 /\ Open /\ Unsendable
    \/ ControllerPacketPending /\ (SendH4 \/ SendPacket)
    \/ /\ ControllerPacketPending
       /\ ~Open \/ (HostUsesH4 /\ txLeft # 0) \/ (~HostUsesH4 /\ txRoom = 0)
       /\ ~(HostUsesH4 /\ ctlPkt = "BIG")
       /\ NotSent

HciControllerStartPacket ==
    /\ pc = "START1"
    /\ Goto("RX2")
    /\ StartPacket
    /\ UNCHANGED <<wake, HostUsesH4, Open, hostVars, ctlPkt, entered, lost, sdcVars, envVars>>

(* Faulty variant: a burst that used up its budget just returns.           *)
BurstEndForgets == pc' = "IDLE" /\ burst' = 0 /\ UNCHANGED wake

(* The budget is used up: ProcessAgain, which HciAppHostProcess turns into *)
(* a wake.                                                                 *)
BurstEnd == pc' = "IDLE" /\ burst' = 0 /\ wake' = TRUE

Burst ==
    /\ pc = "START"
    /\ StartPacket
    /\ \/ ControllerPacketPending' /\ pc' = "IDLE" /\ burst' = 0 /\ UNCHANGED wake
       \/ /\ ~ControllerPacketPending' /\ burst + 1 < BurstLimit
          /\ pc' = "FETCH" /\ burst' = burst + 1 /\ UNCHANGED wake
       \/ ~ControllerPacketPending' /\ burst + 1 = BurstLimit /\ BurstEnd
    /\ UNCHANGED <<HostUsesH4, Open, hostVars, ctlPkt, entered, lost, sdcVars, envVars>>

(* The thread takes the wake, or its wait times out. *)
StartPass ==
    /\ pc = "IDLE"
    /\ wake \/ Polled
    /\ wake' = FALSE
    /\ pc' = "RX1"
    /\ UNCHANGED <<burst, HostUsesH4, Open, hostVars, ctlVars, txVars, lost, sdcVars, envVars>>

(* HciControllerProcess, step by step. *)
HciControllerProcess ==
    \/ StartPass
    \/ HciIntrfTransportProcess("RX1", "HOST1")
    \/ HciControllerHostProcess("HOST1", "FETCH1")
    \/ HciControllerFetchPacket("FETCH1", "START1", "RX2")
    \/ HciControllerStartPacket
    \/ HciIntrfTransportProcess("RX2", "HOST2")
    \/ HciControllerHostProcess("HOST2", "FETCH")
    \/ HciControllerFetchPacket("FETCH", "START", "IDLE")
    \/ Burst

Next == \/ \E k \in Kind : HostSends(k)
        \/ RestArrives
        \/ HostReads
        \/ SdcReplies
        \/ \E z \in Size : SdcEvent(z)
        \/ HciControllerPortOpen
        \/ HciControllerPortClose
        \/ HciControllerProcess

Spec == Init /\ [][Next]_vars

(* The thread polls (USB); a host reads what it is sent and finishes what  *)
(* it sends; the SDC completes the commands it accepts; and not every read *)
(* of a packet interface that has a packet fails.                          *)
Fairness == /\ WF_vars(HciControllerProcess)
            /\ SF_vars(PacketRead)
            /\ WF_vars(HostReads)
            /\ WF_vars(RestArrives)
            /\ WF_vars(SdcReplies)

LiveSpec == Spec /\ Fairness

-----------------------------------------------------------------------------

(* The one buffer of the host's direction serves parser and retry in turn: *)
(* while a packet is retained there, the parser is empty and the octets    *)
(* are still those of the packet that was taken.                           *)
RetainedIntact == HostPacketPending => parser = "EMPTY" /\ buf = hostPkt

(* Host packets the bridge has begun to read, then those still to come. *)
HostStream == (IF HostPacketPending \/ parser # "EMPTY" THEN <<buf>> ELSE <<>>) \o hostIn

(* The controller layer is given the host's packets in the order they were *)
(* sent, each once and none skipped, through every refusal and retry; only *)
(* closing the port gives up the one being held and opening it what was    *)
(* flushed.                                                                *)
HostOrder ==
    /\ sent = handled + Len(HostStream)
    /\ \A i \in 1 .. Len(HostStream) : HostStream[i].id = handled + i

(* A packet that entered the bridge for the host is delivered once, or     *)
(* counted as unsendable, or was held when the port closed, or is still    *)
(* held: neither a local reply nor the next packet overwrites it.          *)
NoneOverwritten ==
    entered = delivered + unsendable + lost + Held(ControllerPacketPending) + Held(txLeft # 0)

(* On a packet host, when the thread goes to wait with no wake             *)
(* outstanding, nothing is left for the host that it has room for.         *)
NoneStranded ==
    pc = "IDLE" /\ ~wake /\ Open /\ ~HostUsesH4 =>
        \/ ~ControllerPacketPending /\ ctlOut = <<>>
        \/ ControllerPacketPending /\ txRoom = 0

(* On a packet host both directions drain although each may have to wait   *)
(* for the other: a packet the bridge holds leaves once the host reads     *)
(* again, and what the host sends reaches the controller layer.            *)
PacketHostDrains ==
    /\ ControllerPacketPending /\ ~HostUsesH4 ~> ~ControllerPacketPending \/ ~Open
    /\ handled # sent /\ ~HostUsesH4 ~> handled = sent \/ ~Open

(* "a controller packet that cannot go out while the bus sleeps stays      *)
(* pending in the bridge and leaves with the first poll after resume"      *)
(* (HciAppHostProcess, src/src/hci_app.cpp), on either kind of host.       *)
ControllerPacketLeaves == ControllerPacketPending ~> (~ControllerPacketPending \/ ~Open)
=============================================================================
