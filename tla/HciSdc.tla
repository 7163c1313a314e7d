------------------------------- MODULE HciSdc -------------------------------
(***************************************************************************)
(* The routing layer between the HCI bridge and the SoftDevice Controller, *)
(* src/src/hci_sdc.cpp, with the command handlers of                       *)
(* src/src/hci_sdc_nrfxlib.cpp that change its state.                      *)
(*                                                                         *)
(* Two command dispatchers, the queue of the SoftDevice Controller and the *)
(* table of owed ACL credits share one outgoing packet slot.  The module   *)
(* models who gets that slot, when a command is refused, and the ACL       *)
(* buffer accounting.                                                      *)
(*                                                                         *)
(* The SoftDevice Controller (variables sdc...) and the host (variables    *)
(* host...) are outside the repository: they are modelled from how this    *)
(* code calls them.  Packets are records that keep their H:4 type, what    *)
(* they report and about which handle.                                     *)
(***************************************************************************)
EXTENDS Integers, Sequences, FiniteSets, Functions

CONSTANTS
    Handle,          \* connection handles the controller may hand out
    Opcode, NoOp,    \* the opcodes a host may send; opcode 0x0000
    CommandPacket,   \* the command packets a host may send
    Table,           \* rows of the vendor table
    CompatTable,     \* rows of the supplemental table
    EventCapacity, CompatCapacity,   \* octets of the two response buffers
    AdvFamily,       \* opcode -> "NONE", "LEGACY" or "EXTENDED"
    OpReset, OpReadBufferSize, OpCreate, OpPawr,
    HandlerStatus,   \* the statuses a controller function may return
    TrackHandles,    \* HCI_SDC_ACL_TRACK_HANDLES
    CreditHandles,   \* HCI_SDC_CREDIT_HANDLES
    Enforce,         \* HCI_SDC_ENFORCE_ACL_CREDITS
    Legacy,          \* HCI_SDC_LEGACY_PAWR_COMPLETION
    StartupNop,      \* HCI_SDC_STARTUP_NOP
    MaxMasked,       \* bound: handles whose ends a host's event mask hides between two
                     \* resets (0: Disconnection Complete is not masked)
    SdcBuffers,      \* ACL buffers LE Read Buffer Size reports
    MaxLinks,        \* bound: links the controller keeps at a time
    MaxQueue,        \* bound: messages in the controller's queue
    MaxInFlight      \* bound: ACL packets the host has in flight

ASSUME SdcAssumption ==
    /\ NoOp \notin Opcode
    /\ {OpReset, OpReadBufferSize, OpCreate, OpPawr} \subseteq Opcode
    /\ OpReset \notin {OpReadBufferSize, OpCreate, OpPawr}
    /\ OpCreate \notin {OpReadBufferSize, OpPawr}
    /\ AdvFamily \in [Opcode -> {"NONE", "LEGACY", "EXTENDED"}]
    /\ IsFiniteSet(Handle)
    /\ TrackHandles \in Nat /\ CreditHandles \in Nat /\ CreditHandles >= TrackHandles
    /\ Enforce \in BOOLEAN /\ Legacy \in BOOLEAN /\ StartupNop \in BOOLEAN
    /\ MaxMasked \in Nat
    /\ SdcBuffers \in Nat /\ MaxLinks \in Nat /\ MaxQueue \in Nat /\ MaxInFlight \in Nat
    /\ \A cmd \in CommandPacket :
          /\ cmd.op \in Opcode /\ cmd.PacketLen \in Nat /\ cmd.paramLen \in Nat
          /\ cmd.agrees \in BOOLEAN

VARIABLES
    cmdEvent,             \* Commands.pEvent
    compatEvent,          \* CompatCommands.pEvent
    AdvCmdTypeSinceReset,
    CommandEventLast,
    DelayedCommandOpcode, \* NoOp when no delayed command is pending
    CreditEventLast,
    CreditCount,          \* credits owed per handle; 0 is no table entry
    AclTracked,           \* handles that hold a tracking entry
    AclOutstanding,       \* their counts; 0 for a handle without an entry
    AclOutstandingTotal,
    AclLimit,
    HeldPacket,           \* the packet fetched but not yet asked for
    ctlPacket,            \* the bridge's outgoing slot, emptied by the host
    sdcQueue, sdcLinks, sdcBuffered, sdcCreating, sdcDelayed, sdcFamilies,
    hostLinks, hostInFlight, hostResetting, hostCreating,
    hostUntold            \* handles of links that ended, masked, since its last reset

cmdVars    == <<cmdEvent, compatEvent, AdvCmdTypeSinceReset, CommandEventLast,
                DelayedCommandOpcode>>
creditVars == <<CreditEventLast, CreditCount>>
aclVars    == <<AclTracked, AclOutstanding, AclOutstandingTotal, AclLimit>>
outVars    == <<HeldPacket, ctlPacket>>
sdcVars    == <<sdcQueue, sdcLinks, sdcBuffered, sdcCreating, sdcDelayed, sdcFamilies>>
hostVars   == <<hostLinks, hostInFlight, hostResetting, hostCreating, hostUntold>>
vars       == <<cmdVars, creditVars, aclVars, outVars, sdcVars, hostVars>>

Commands == INSTANCE HciCmdDispatch WITH Event <- cmdEvent
Compat   == INSTANCE HciCmdDispatch WITH Event <- compatEvent, Table <- CompatTable,
                                         EventCapacity <- CompatCapacity

(* The tables are well formed, and a handler returns a known status.  The  *)
(* rows of HCI_Reset and LE Create Connection are the vendor table's:      *)
(* HCI_SDC_ENTRY_C(..._RESET, 0U, ...), HCI_CMD_RESPONSE_STATUS; what      *)
(* HciSdcSupplementalOpcode lists is neither.                              *)
ASSUME TableAssumption ==
    /\ Commands!DispatchAssumption /\ Compat!DispatchAssumption
    /\ HandlerStatus \subseteq Commands!Status /\ Commands!SUCCESS \in HandlerStatus
    /\ {OpReset, OpCreate} \subseteq DOMAIN Table \ DOMAIN CompatTable
    /\ Table[OpReset].Response = "COMPLETE" /\ Table[OpReset].ReturnLen = 0
    /\ Table[OpCreate].Response = "STATUS" /\ Table[OpCreate].ReturnLen = 0

SUCCESS == "SUCCESS"
NoCount == [h \in Handle |-> 0]
Only(h, n) == [NoCount EXCEPT ![h] = n]
Sum(f) == SumFunction(f)

(* Packets to the host. *)
NoPacket         == [type |-> "NONE"]
ResponseOf(e)    == [type |-> "EVENT", kind |-> "RESPONSE", event |-> e]
Completed(count) == [type |-> "EVENT", kind |-> "COMPLETED", count |-> count]
Connect(h)       == [type |-> "EVENT", kind |-> "CONNECT", handle |-> h]
Disconnect(h)    == [type |-> "EVENT", kind |-> "DISCONNECT", handle |-> h]
DisconnectFailed(h) == [type |-> "EVENT", kind |-> "DISCONNECT_FAILED", handle |-> h]
DelayedComplete  == [type |-> "EVENT", kind |-> "DELAYED", op |-> OpPawr]
Data             == [type |-> "ACL", kind |-> "DATA"]
Bad              == [type |-> "BAD", kind |-> "BAD"]   \* unknown type or length

---------------------------------------------------------------------------
(* ACL credit accounting. *)

CreditEntries(owed) == Cardinality({h \in Handle : owed[h] > 0})

(* Faulty variant: a second credit for a listed handle is not aggregated. *)
OweCreditOnce(owed, h) ==
    IF owed[h] = 0 /\ CreditEntries(owed) < CreditHandles
    THEN [owed EXCEPT ![h] = 1]
    ELSE owed

HciSdcOweCredit(owed, h) ==
    IF owed[h] > 0 \/ CreditEntries(owed) < CreditHandles
    THEN [owed EXCEPT ![h] = @ + 1]
    ELSE owed

(* Whether HciSdcAclSlot with Create finds or makes an entry. *)
HciSdcAclSlot(h) == h \in AclTracked \/ Cardinality(AclTracked) < TrackHandles

Slotted(h) == IF HciSdcAclSlot(h) THEN AclTracked \union {h} ELSE AclTracked

(* Faulty variant: each link tested against the whole budget. *)
AclAtLimitPerLink(h) ==
    Enforce /\ AclLimit # 0 /\ HciSdcAclSlot(h) /\ AclOutstanding[h] >= AclLimit

(* The guard of an enforcing build.  It takes the slot either way. *)
HciSdcAclAtLimit(h) ==
    Enforce /\ AclLimit # 0 /\ HciSdcAclSlot(h) /\ AclOutstandingTotal >= AclLimit

SlottedByGuard(h) == IF Enforce /\ AclLimit # 0 THEN Slotted(h) ELSE AclTracked

HciSdcAclPutTracked(h) ==
    /\ AclTracked' = Slotted(h)
    /\ IF HciSdcAclSlot(h)
       THEN /\ AclOutstanding' = [AclOutstanding EXCEPT ![h] = @ + 1]
            /\ AclOutstandingTotal' = AclOutstandingTotal + 1
       ELSE UNCHANGED <<AclOutstanding, AclOutstandingTotal>>
    /\ UNCHANGED AclLimit

Lesser(a, b) == IF a < b THEN a ELSE b

(* Number Of Completed Packets: each link gives back what it really had. *)
HciSdcAclFreed(count) == [h \in Handle |-> Lesser(AclOutstanding[h], count[h])]

HciSdcAclForget(h) ==
    /\ AclTracked' = AclTracked \ {h}
    /\ AclOutstanding' = [AclOutstanding EXCEPT ![h] = 0]
    /\ AclOutstandingTotal' = IF AclOutstandingTotal > AclOutstanding[h]
                              THEN AclOutstandingTotal - AclOutstanding[h]
                              ELSE 0
    /\ UNCHANGED AclLimit

(* Faulty variant: a disconnection that did not happen forgets the link. *)
ForgetsLinkAnyStatus(p) ==
    p.kind \in {"DISCONNECT", "DISCONNECT_FAILED"} /\ p.handle \in AclTracked

(* Only a successful Disconnection Complete ends the link. *)
ForgetsLink(p) == p.kind = "DISCONNECT" /\ p.handle \in AclTracked

HciSdcAclTrackEvent(p) ==
    \/ /\ p.kind = "COMPLETED"
       /\ LET freed == HciSdcAclFreed(p.count) IN
          /\ AclOutstanding' = [h \in Handle |-> AclOutstanding[h] - freed[h]]
          /\ AclOutstandingTotal' = AclOutstandingTotal - Sum(freed)
       /\ UNCHANGED <<AclTracked, AclLimit>>
    \/ ForgetsLink(p) /\ HciSdcAclForget(p.handle)
    \/ p.kind # "COMPLETED" /\ ~ForgetsLink(p) /\ UNCHANGED aclVars

(* HCI_Reset drops every connection and reports none of them. *)
HciSdcResetFlowControl ==
    /\ AclTracked' = {}
    /\ AclOutstanding' = NoCount
    /\ AclOutstandingTotal' = 0
    /\ CreditCount' = NoCount
    /\ CreditEventLast' = FALSE
    /\ UNCHANGED AclLimit

---------------------------------------------------------------------------
(* HciSdcPutPacket, commands. *)

DelayedCommandPending == DelayedCommandOpcode # NoOp

(* Faulty variant: the supplemental dispatcher is not asked. *)
CommandTurnVendorOnly == ~DelayedCommandPending /\ ~CommandEventLast /\ ~Commands!EventPending

(* Faulty variant: the controller queue is not given its turn. *)
CommandTurnNoPoll == ~DelayedCommandPending /\ ~Commands!EventPending /\ ~Compat!EventPending

(* The next command waits until the last one was answered and the          *)
(* controller queue has had the slot.                                      *)
CommandTurn ==
    /\ ~DelayedCommandPending
    /\ ~CommandEventLast
    /\ ~Commands!EventPending
    /\ ~Compat!EventPending

HciSdcSupplementalOpcode(cmd) == ~Commands!Short(cmd) /\ cmd.op \in DOMAIN CompatTable

HciSdcDelayedCommandCandidate(cmd) ==
    /\ Legacy
    /\ cmd.op = OpPawr
    /\ cmd.PacketLen = Commands!HeaderSize + cmd.paramLen
    /\ cmd.agrees                \* Response_Data_Length matches what follows
    /\ EventCapacity >= Commands!CompleteBaseSize + 2

(* The legacy / extended advertising guard and the choice it remembers. *)
AdvRefuses(op) ==
    /\ AdvFamily[op] # "NONE"
    /\ AdvCmdTypeSinceReset \notin {"NONE", AdvFamily[op]}

(* Faulty variant: the choice is not remembered. *)
AdvGuardForgets(op) == AdvCmdTypeSinceReset

(* The family in force once the guard has let op through. *)
HciSdcAdvCommandGuard(op) ==
    IF AdvFamily[op] # "NONE" THEN AdvFamily[op] ELSE AdvCmdTypeSinceReset

(* What a handler returns: its row's response, and data only on success. *)
ResultOf(row, status) ==
    [Status |-> status, Response |-> row.Response,
     ReturnLen |-> IF status = SUCCESS THEN row.ReturnLen ELSE 0]

PutCommandRejected(cmd) ==
    /\ CommandTurn
    /\ IF HciSdcSupplementalOpcode(cmd)
       THEN Compat!PutRejected(cmd) /\ UNCHANGED cmdEvent
       ELSE Commands!PutRejected(cmd) /\ UNCHANGED compatEvent
    /\ UNCHANGED <<AdvCmdTypeSinceReset, CommandEventLast, DelayedCommandOpcode,
                   creditVars, aclVars, outVars, sdcVars, hostVars>>

PutCommandRefused(cmd) ==
    /\ CommandTurn
    /\ ~HciSdcSupplementalOpcode(cmd)
    /\ Commands!Callable(cmd)
    /\ AdvRefuses(cmd.op)
    /\ Commands!PutRefused(cmd, Commands!DISALLOWED)
    /\ UNCHANGED <<compatEvent, AdvCmdTypeSinceReset, CommandEventLast,
                   DelayedCommandOpcode, creditVars, aclVars, outVars, sdcVars, hostVars>>

PutCompatCommand(cmd, status) ==
    /\ CommandTurn
    /\ HciSdcSupplementalOpcode(cmd)
    /\ Compat!PutHandled(cmd, ResultOf(CompatTable[cmd.op], status))
    /\ UNCHANGED <<cmdEvent, AdvCmdTypeSinceReset, CommandEventLast, DelayedCommandOpcode,
                   creditVars, aclVars, outVars, sdcVars, hostVars>>

(* A vendor-table command gets past table, length and guard. *)
EnterHandler(cmd) ==
    /\ CommandTurn
    /\ ~HciSdcSupplementalOpcode(cmd)
    /\ Commands!Callable(cmd)
    /\ ~AdvRefuses(cmd.op)
    /\ UNCHANGED <<compatEvent, CommandEventLast, outVars>>

(* The controller has now seen a command of op's advertising family. *)
SeenFamily(op) == sdcFamilies \union ({AdvFamily[op]} \ {"NONE"})

(* HciSdcCmdReset: the controller forgets its links and its queue. *)
PutReset(cmd, status) ==
    /\ EnterHandler(cmd)
    /\ cmd.op = OpReset
    /\ Commands!PutHandled(cmd, ResultOf(Table[cmd.op], status))
    /\ \/ /\ status = SUCCESS
          /\ HciSdcResetFlowControl
          /\ AdvCmdTypeSinceReset' = "NONE"
          /\ sdcQueue' = <<>> /\ sdcLinks' = {} /\ sdcBuffered' = NoCount
          /\ sdcCreating' = FALSE /\ sdcDelayed' = FALSE /\ sdcFamilies' = {}
          /\ hostResetting' = TRUE
       \/ /\ status # SUCCESS
          /\ UNCHANGED <<AdvCmdTypeSinceReset, creditVars, aclVars, sdcVars, hostResetting>>
    /\ UNCHANGED <<DelayedCommandOpcode, hostLinks, hostInFlight, hostCreating, hostUntold>>

(* HciSdcCmdLeReadBufferSize and its V2. *)
PutReadBufferSize(cmd, status) ==
    /\ EnterHandler(cmd)
    /\ cmd.op = OpReadBufferSize
    /\ Commands!PutHandled(cmd, ResultOf(Table[cmd.op], status))
    /\ AclLimit' = IF status = SUCCESS THEN SdcBuffers ELSE AclLimit
    /\ AdvCmdTypeSinceReset' = HciSdcAdvCommandGuard(cmd.op)
    /\ sdcFamilies' = SeenFamily(cmd.op)
    /\ UNCHANGED <<DelayedCommandOpcode, creditVars, hostVars,
                   AclTracked, AclOutstanding, AclOutstandingTotal,
                   sdcQueue, sdcLinks, sdcBuffered, sdcCreating, sdcDelayed>>

(* Any other handler.  A connection is created by a command of its own,    *)
(* which the controller refuses while one is being created.                *)
PutCommand(cmd, status) ==
    /\ EnterHandler(cmd)
    /\ cmd.op \notin {OpReset, OpReadBufferSize}
    /\ ~HciSdcDelayedCommandCandidate(cmd)
    /\ cmd.op = OpCreate /\ sdcCreating => status # SUCCESS
    /\ Commands!PutHandled(cmd, ResultOf(Table[cmd.op], status))
    /\ AdvCmdTypeSinceReset' = HciSdcAdvCommandGuard(cmd.op)
    /\ sdcFamilies' = SeenFamily(cmd.op)
    /\ sdcCreating' = (sdcCreating \/ (cmd.op = OpCreate /\ status = SUCCESS))
    /\ UNCHANGED <<DelayedCommandOpcode, creditVars, aclVars, hostVars,
                   sdcQueue, sdcLinks, sdcBuffered, sdcDelayed>>

(* HciSdcDelayCommandComplete: the response data was handed to a legacy    *)
(* controller, which raises the Command Complete itself, later.  Only      *)
(* Unknown Command has no event coming and keeps the dispatcher's.         *)
PutDelayedCommand(cmd, status) ==
    /\ EnterHandler(cmd)
    /\ cmd.op \notin {OpReset, OpReadBufferSize}
    /\ HciSdcDelayedCommandCandidate(cmd)
    /\ AdvCmdTypeSinceReset' = HciSdcAdvCommandGuard(cmd.op)
    /\ sdcFamilies' = SeenFamily(cmd.op)
    /\ \/ /\ status # Commands!UNKNOWN_COMMAND
          /\ DelayedCommandOpcode' = cmd.op
          /\ sdcDelayed' = TRUE
          /\ UNCHANGED cmdEvent
       \/ /\ status = Commands!UNKNOWN_COMMAND
          /\ Commands!PutHandled(cmd, ResultOf(Table[cmd.op], status))
          /\ UNCHANGED <<DelayedCommandOpcode, sdcDelayed>>
    /\ UNCHANGED <<creditVars, aclVars, hostVars,
                   sdcQueue, sdcLinks, sdcBuffered, sdcCreating>>

---------------------------------------------------------------------------
(* HciSdcPutPacket, ACL data.  A host sends on the links it knows, once it *)
(* knows the buffer count, and not while it waits for a reset.             *)

HostSends(h) ==
    /\ h \in hostLinks
    /\ ~hostResetting
    /\ AclLimit # 0
    /\ Sum(hostInFlight) < MaxInFlight
    /\ hostInFlight' = [hostInFlight EXCEPT ![h] = @ + 1]
    /\ UNCHANGED <<hostLinks, hostResetting, hostCreating, hostUntold>>

(* Longer than the controller's buffers.  A packet too short to hold its   *)
(* handle is dropped before this and changes none of the state here.       *)
PutAclOversize(h) ==
    /\ HostSends(h)
    /\ CreditCount' = HciSdcOweCredit(CreditCount, h)
    /\ UNCHANGED <<CreditEventLast, cmdVars, aclVars, outVars, sdcVars>>

PutAclOverLimit(h) ==
    /\ HostSends(h)
    /\ HciSdcAclAtLimit(h)
    /\ AclTracked' = SlottedByGuard(h)
    /\ CreditCount' = HciSdcOweCredit(CreditCount, h)
    /\ UNCHANGED <<CreditEventLast, cmdVars, outVars, sdcVars,
                   AclOutstanding, AclOutstandingTotal, AclLimit>>

(* sdc_hci_data_put fails: the link is gone and the host does not know. *)
PutAclError(h) ==
    /\ HostSends(h)
    /\ ~HciSdcAclAtLimit(h)
    /\ h \notin sdcLinks
    /\ AclTracked' = SlottedByGuard(h)
    /\ CreditCount' = HciSdcOweCredit(CreditCount, h)
    /\ UNCHANGED <<CreditEventLast, cmdVars, outVars, sdcVars,
                   AclOutstanding, AclOutstandingTotal, AclLimit>>

(* sdc_hci_data_put takes the packet, even beyond what it advertised. *)
PutAcl(h) ==
    /\ HostSends(h)
    /\ ~HciSdcAclAtLimit(h)
    /\ h \in sdcLinks
    /\ HciSdcAclPutTracked(h)
    /\ sdcBuffered' = [sdcBuffered EXCEPT ![h] = @ + 1]
    /\ UNCHANGED <<creditVars, cmdVars, outVars,
                   sdcQueue, sdcLinks, sdcCreating, sdcDelayed, sdcFamilies>>

(* -NRF_EAGAIN: the bridge keeps the packet, the guard has taken the slot. *)
PutAclAgain(h) ==
    /\ h \in hostLinks /\ ~hostResetting /\ AclLimit # 0
    /\ ~HciSdcAclAtLimit(h)
    /\ h \in sdcLinks /\ Sum(sdcBuffered) >= SdcBuffers
    /\ AclTracked' = SlottedByGuard(h)
    /\ UNCHANGED <<creditVars, cmdVars, outVars, sdcVars, hostVars,
                   AclOutstanding, AclOutstandingTotal, AclLimit>>

---------------------------------------------------------------------------
(* The packet face: DeviceIntrfRx(type) is StartRx, then RxData when the   *)
(* packet is of that type.  Another packet stays in the hold.              *)

PacketType == {"EVENT", "ACL", "ISO"}

RxData(p, t) ==
    IF p.type = t THEN ctlPacket' = p /\ HeldPacket' = NoPacket
                  ELSE HeldPacket' = p /\ UNCHANGED ctlPacket

RxHeld(t) ==
    /\ ctlPacket = NoPacket
    /\ HeldPacket # NoPacket /\ HeldPacket.type = t
    /\ RxData(HeldPacket, t)
    /\ UNCHANGED <<cmdVars, creditVars, aclVars, sdcVars, hostVars>>

HoldEmpty == ctlPacket = NoPacket /\ HeldPacket = NoPacket

(* HciSdcGetDispatchEvent, the vendor dispatcher first. *)
RxResponse(t) ==
    /\ HoldEmpty
    /\ \/ /\ Commands!HciCmdDispatchGet
          /\ RxData(ResponseOf(cmdEvent), t)
          /\ UNCHANGED compatEvent
       \/ /\ ~Commands!EventPending
          /\ Compat!HciCmdDispatchGet
          /\ RxData(ResponseOf(compatEvent), t)
          /\ UNCHANGED cmdEvent
    /\ CommandEventLast' = TRUE
    /\ UNCHANGED <<AdvCmdTypeSinceReset, DelayedCommandOpcode,
                   creditVars, aclVars, sdcVars, hostVars>>

(* Faulty variant: only the supplemental dispatcher is asked. *)
NoCompatResponse == ~Compat!EventPending

NoResponse == ~Commands!EventPending /\ ~Compat!EventPending

(* One Number Of Completed Packets event for everything owed, unless the   *)
(* last packet out was one.                                                *)
CreditTurn == ~CreditEventLast /\ CreditEntries(CreditCount) > 0

HciSdcBuildCreditEvent(t) ==
    /\ HoldEmpty
    /\ NoResponse
    /\ CreditTurn
    /\ RxData(Completed(CreditCount), t)
    /\ CreditCount' = NoCount
    /\ CreditEventLast' = TRUE
    /\ UNCHANGED <<cmdVars, aclVars, sdcVars, hostVars>>

(* The controller queue has had its turn, whatever it answered. *)
QueueTurn ==
    /\ HoldEmpty
    /\ NoResponse
    /\ ~CreditTurn
    /\ CommandEventLast' = FALSE
    /\ CreditEventLast' = FALSE
    /\ UNCHANGED <<cmdEvent, compatEvent, AdvCmdTypeSinceReset, CreditCount, hostVars>>

(* Faulty variants: any event returns the credit; none does. *)
DelayedAfterAny(p) == NoOp
DelayedAfterNone(p) == DelayedCommandOpcode

(* The real Command Complete of the delayed command returns its credit. *)
DelayedAfter(p) ==
    IF p.kind = "DELAYED" /\ p.op = DelayedCommandOpcode
    THEN NoOp ELSE DelayedCommandOpcode

(* A message of a known type whose length fits the hold. *)
Deliverable(p) == p.type \in PacketType

RxQueue(t) ==
    /\ QueueTurn
    /\ sdcQueue # <<>>
    /\ LET p == Head(sdcQueue) IN
       /\ Deliverable(p)
       /\ RxData(p, t)
       /\ DelayedCommandOpcode' = DelayedAfter(p)
       /\ HciSdcAclTrackEvent(p)
    /\ sdcQueue' = Tail(sdcQueue)
    /\ UNCHANGED <<sdcLinks, sdcBuffered, sdcCreating, sdcDelayed, sdcFamilies>>

(* A message of no known type or length is lost. *)
RxBad ==
    /\ QueueTurn
    /\ sdcQueue # <<>> /\ ~Deliverable(Head(sdcQueue))
    /\ sdcQueue' = Tail(sdcQueue)
    /\ UNCHANGED <<DelayedCommandOpcode, aclVars, outVars,
                   sdcLinks, sdcBuffered, sdcCreating, sdcDelayed, sdcFamilies>>

(* sdc_hci_get has nothing, or fails and keeps what it has. *)
RxEmpty ==
    /\ QueueTurn
    /\ UNCHANGED <<DelayedCommandOpcode, aclVars, outVars, sdcVars>>

---------------------------------------------------------------------------
(* The SoftDevice Controller, between two calls of this code. *)

SdcQueues(p) ==
    /\ Len(sdcQueue) < MaxQueue
    /\ sdcQueue' = Append(sdcQueue, p)
    /\ UNCHANGED <<cmdVars, creditVars, aclVars, outVars, hostVars, sdcFamilies>>

(* The packets on their way from the controller to the host, oldest first. *)
Pipeline == <<ctlPacket, HeldPacket>> \o sdcQueue

InPipeline(p) == \E i \in DOMAIN Pipeline : Pipeline[i] = p

(* A handle is handed out again once the host was told it is free, or      *)
(* would have been had it not masked the event.                            *)
HandleFree(h) ==
    /\ h \notin sdcLinks
    /\ h \notin hostLinks \/ h \in hostUntold
    /\ ~InPipeline(Disconnect(h))

SdcConnect(h) ==
    /\ sdcCreating
    /\ HandleFree(h) /\ Cardinality(sdcLinks) < MaxLinks
    /\ SdcQueues(Connect(h))
    /\ sdcLinks' = sdcLinks \union {h}
    /\ sdcCreating' = FALSE
    /\ UNCHANGED <<sdcBuffered, sdcDelayed>>

SdcCompletes(h) ==
    \E n \in 1..sdcBuffered[h] :
        /\ SdcQueues(Completed(Only(h, n)))
        /\ sdcBuffered' = [sdcBuffered EXCEPT ![h] = @ - n]
        /\ UNCHANGED <<sdcLinks, sdcCreating, sdcDelayed>>

SdcDisconnect(h) ==
    /\ h \in sdcLinks
    /\ SdcQueues(Disconnect(h))
    /\ sdcLinks' = sdcLinks \ {h}
    /\ sdcBuffered' = [sdcBuffered EXCEPT ![h] = 0]
    /\ UNCHANGED <<sdcCreating, sdcDelayed>>

(* The link ends and the host's event mask keeps the event back. *)
SdcDisconnectMasked(h) ==
    /\ Cardinality(hostUntold) < MaxMasked
    /\ h \in sdcLinks
    /\ sdcLinks' = sdcLinks \ {h}
    /\ sdcBuffered' = [sdcBuffered EXCEPT ![h] = 0]
    /\ hostUntold' = hostUntold \union {h}
    /\ UNCHANGED <<cmdVars, creditVars, aclVars, outVars,
                   sdcQueue, sdcCreating, sdcDelayed, sdcFamilies,
                   hostLinks, hostInFlight, hostResetting, hostCreating>>

SdcDisconnectFails(h) ==
    /\ h \in sdcLinks
    /\ SdcQueues(DisconnectFailed(h))
    /\ UNCHANGED <<sdcLinks, sdcBuffered, sdcCreating, sdcDelayed>>

SdcDelayedCompletes ==
    /\ sdcDelayed
    /\ SdcQueues(DelayedComplete)
    /\ sdcDelayed' = FALSE
    /\ UNCHANGED <<sdcLinks, sdcBuffered, sdcCreating>>

SdcData ==
    /\ \E p \in {Data, Bad} : SdcQueues(p)
    /\ UNCHANGED <<sdcLinks, sdcBuffered, sdcCreating, sdcDelayed>>

---------------------------------------------------------------------------
(* The host takes the packet in the bridge's slot. *)

Answers(p, op) == p.kind = "RESPONSE" /\ p.event.op = op /\ p.event.status = SUCCESS

HostResets(p) ==
    /\ Answers(p, OpReset)
    /\ hostLinks' = {} /\ hostInFlight' = NoCount
    /\ hostResetting' = FALSE /\ hostCreating' = 0 /\ hostUntold' = {}

HostCreates(p) ==
    /\ Answers(p, OpCreate)
    /\ hostCreating' = hostCreating + 1
    /\ UNCHANGED <<hostLinks, hostInFlight, hostResetting, hostUntold>>

(* A new link on a handle whose end was masked starts with nothing in      *)
(* flight.                                                                 *)
HostConnects(p) ==
    /\ p.kind = "CONNECT"
    /\ hostLinks' = hostLinks \union {p.handle}
    /\ hostInFlight' = [hostInFlight EXCEPT ![p.handle] = IF p.handle \in hostUntold
                                                          THEN 0 ELSE @]
    /\ hostCreating' = hostCreating - 1
    /\ UNCHANGED <<hostResetting, hostUntold>>

(* Everything in flight on the link is flushed. *)
HostDisconnects(p) ==
    /\ p.kind = "DISCONNECT"
    /\ hostLinks' = hostLinks \ {p.handle}
    /\ hostInFlight' = [hostInFlight EXCEPT ![p.handle] = 0]
    /\ UNCHANGED <<hostResetting, hostCreating, hostUntold>>

(* A host that started a handle over takes back no more than it counts. *)
Counted(p, h) ==
    IF h \notin hostLinks THEN 0
    ELSE IF h \in hostUntold THEN Lesser(hostInFlight[h], p.count[h])
    ELSE p.count[h]

HostCounts(p) ==
    /\ p.kind = "COMPLETED"
    /\ hostInFlight' = [h \in Handle |-> hostInFlight[h] - Counted(p, h)]
    /\ UNCHANGED <<hostLinks, hostResetting, hostCreating, hostUntold>>

HostIgnores(p) ==
    /\ p.kind \notin {"CONNECT", "DISCONNECT", "COMPLETED"}
    /\ ~Answers(p, OpReset) /\ ~Answers(p, OpCreate)
    /\ UNCHANGED hostVars

HostReceives ==
    /\ ctlPacket # NoPacket
    /\ ctlPacket' = NoPacket
    /\ \/ HostResets(ctlPacket)
       \/ HostCreates(ctlPacket)
       \/ HostConnects(ctlPacket)
       \/ HostDisconnects(ctlPacket)
       \/ HostCounts(ctlPacket)
       \/ HostIgnores(ctlPacket)
    /\ UNCHANGED <<HeldPacket, cmdVars, creditVars, aclVars, sdcVars>>

---------------------------------------------------------------------------

(* HciSdcInit, then HciSdcNrfxlibQueueStartupNop where the board asks.     *)
Init ==
    /\ cmdEvent = IF StartupNop THEN Commands!HciCmdDispatchQueueNop ELSE Commands!NoEvent
    /\ Compat!HciCmdDispatchInit
    /\ AdvCmdTypeSinceReset = "NONE"
    /\ CommandEventLast = FALSE
    /\ DelayedCommandOpcode = NoOp
    /\ CreditEventLast = FALSE /\ CreditCount = NoCount
    /\ AclTracked = {} /\ AclOutstanding = NoCount
    /\ AclOutstandingTotal = 0 /\ AclLimit = 0
    /\ HeldPacket = NoPacket /\ ctlPacket = NoPacket
    /\ sdcQueue = <<>> /\ sdcLinks = {} /\ sdcBuffered = NoCount
    /\ sdcCreating = FALSE /\ sdcDelayed = FALSE /\ sdcFamilies = {}
    /\ hostLinks = {} /\ hostInFlight = NoCount
    /\ hostResetting = FALSE /\ hostCreating = 0 /\ hostUntold = {}

PutCommandPacket ==
    \E cmd \in CommandPacket :
        \/ PutCommandRejected(cmd)
        \/ PutCommandRefused(cmd)
        \/ \E status \in HandlerStatus :
              \/ PutCompatCommand(cmd, status)
              \/ PutReset(cmd, status)
              \/ PutReadBufferSize(cmd, status)
              \/ PutCommand(cmd, status)
              \/ PutDelayedCommand(cmd, status)

PutAclPacket ==
    \E h \in Handle :
        \/ PutAclOversize(h)
        \/ PutAclOverLimit(h)
        \/ PutAclError(h)
        \/ PutAcl(h)
        \/ PutAclAgain(h)

Rx == \/ \E t \in PacketType :
            \/ RxHeld(t)
            \/ RxResponse(t)
            \/ HciSdcBuildCreditEvent(t)
            \/ RxQueue(t)
      \/ RxBad
      \/ RxEmpty

SdcStep ==
    \/ \E h \in Handle :
          \/ SdcConnect(h)
          \/ SdcCompletes(h)
          \/ SdcDisconnect(h)
          \/ SdcDisconnectFails(h)
    \/ SdcDelayedCompletes
    \/ SdcData

SdcEndsMasked == \E h \in Handle : SdcDisconnectMasked(h)

Next == PutCommandPacket \/ PutAclPacket \/ Rx \/ SdcStep \/ SdcEndsMasked \/ HostReceives

Spec == Init /\ [][Next]_vars

---------------------------------------------------------------------------
(* Properties. *)

(* What the controller may queue, and what may reach the host. *)
SdcMessage ==
    [type : {"EVENT"}, kind : {"COMPLETED"}, count : [Handle -> Nat]]
    \union [type : {"EVENT"}, kind : {"CONNECT", "DISCONNECT", "DISCONNECT_FAILED"},
            handle : Handle]
    \union {DelayedComplete, Data, Bad}

OutPacket ==
    (SdcMessage \ {Bad})
    \union [type : {"EVENT"}, kind : {"RESPONSE"}, event : Commands!EventRecord]
    \union {NoPacket}

CmdTypeOK ==
    /\ cmdEvent \in Commands!EventRecord /\ compatEvent \in Compat!EventRecord
    /\ AdvCmdTypeSinceReset \in {"NONE", "LEGACY", "EXTENDED"}
    /\ CommandEventLast \in BOOLEAN
    /\ DelayedCommandOpcode \in {NoOp, OpPawr}

CreditTypeOK ==
    /\ CreditEventLast \in BOOLEAN
    /\ CreditCount \in [Handle -> Nat]

AclTypeOK ==
    /\ AclTracked \subseteq Handle
    /\ AclOutstanding \in [Handle -> Nat]
    /\ AclLimit \in {0, SdcBuffers}

OutTypeOK ==
    /\ HeldPacket \in OutPacket
    /\ ctlPacket \in OutPacket

SdcTypeOK ==
    /\ sdcQueue \in Seq(SdcMessage)
    /\ sdcLinks \subseteq Handle
    /\ sdcBuffered \in [Handle -> Nat]
    /\ sdcCreating \in BOOLEAN
    /\ sdcDelayed \in BOOLEAN
    /\ sdcFamilies \subseteq {"LEGACY", "EXTENDED"}

HostTypeOK ==
    /\ hostLinks \subseteq Handle
    /\ hostInFlight \in [Handle -> Int]
    /\ hostResetting \in BOOLEAN
    /\ hostCreating \in Int
    /\ hostUntold \subseteq Handle

(* Every variable keeps its type; a message that HciSdcGetPacket cannot    *)
(* type or measure never reaches the hold or the bridge's slot.            *)
(* AclOutstandingTotal is typed by TrackedExactly.                         *)
TypeOK == CmdTypeOK /\ CreditTypeOK /\ AclTypeOK /\ OutTypeOK /\ SdcTypeOK /\ HostTypeOK

(* At most one command is unanswered across the two dispatchers and the    *)
(* delayed completion: HciSdcPutPacket never grants a second command       *)
(* credit, and a pending response always belongs to the command it names.  *)
OneCommandCredit ==
    /\ ~(Commands!EventPending /\ Compat!EventPending)
    /\ DelayedCommandPending => NoResponse /\ ~CommandEventLast

ReportedBy(p, h) ==
    IF p.type = "EVENT" /\ p.kind = "COMPLETED" THEN p.count[h] ELSE 0

Reported(s, h) == Sum([i \in DOMAIN s |-> ReportedBy(s[i], h)])

(* A link that lives in the controller and in the tracking table counts    *)
(* exactly what the controller still has to report: the completions, the   *)
(* disconnections and the reset keep HciSdcAclTrackEvent in step with it.  *)
(* Once a masked disconnection has left counts behind, which the next link *)
(* on the handle inherits, an entry may count too much but never too       *)
(* little.  AclOutstandingTotal is the sum of the entries all along, the   *)
(* invariant hci_sdc.h states.                                             *)
TrackedExactly ==
    /\ \A h \in AclTracked :
          /\ AclOutstanding[h] >= sdcBuffered[h] + Reported(sdcQueue, h)
          /\ \/ InPipeline(Disconnect(h))
             \/ h \in hostUntold
             \/ AclOutstanding[h] = sdcBuffered[h] + Reported(sdcQueue, h)
    /\ AclOutstandingTotal = Sum(AclOutstanding)

(* The host's buffers are neither lost nor invented: what it has in flight *)
(* on a link is with the controller, owed, or on its way back, until the   *)
(* link's disconnection is.  It is given back none it did not spend: an    *)
(* owed credit never outlives its link into a connection that reuses the   *)
(* handle.  A handle whose link ended masked is not judged until the next  *)
(* reset: the host was never told what it lost.                            *)
CreditsConserved ==
    /\ ~hostResetting =>
           \A h \in hostLinks \ hostUntold :
               \/ InPipeline(Disconnect(h))
               \/ hostInFlight[h] = sdcBuffered[h] + CreditCount[h] + Reported(Pipeline, h)
    /\ \A h \in Handle \ hostUntold : hostInFlight[h] >= 0

(* With HCI_SDC_ENFORCE_ACL_CREDITS the controller never takes more        *)
(* packets than LE Read Buffer Size advertised.                            *)
NoOverrun == Enforce => Sum(sdcBuffered) <= SdcBuffers

(* No controller event overtakes the response of the command that caused   *)
(* it: a connection is reported only after its Command Status was.         *)
ConnectAfterStatus ==
    ctlPacket.type = "EVENT" /\ ctlPacket.kind = "CONNECT" => hostCreating > 0

(* The controller never sees commands of both advertising families between *)
(* two resets.                                                             *)
OneAdvFamily == Cardinality(sdcFamilies) <= 1

(* The command path implements the one-credit command flow. *)
ResponseOp(p) ==
    IF p.type # "EVENT" THEN NoOp
    ELSE IF p.kind = "RESPONSE" THEN p.event.op
    ELSE IF p.kind = "DELAYED"  THEN p.op
    ELSE NoOp

OpenCommand ==
    IF Commands!EventPending THEN cmdEvent.op
    ELSE IF Compat!EventPending THEN compatEvent.op
    ELSE DelayedCommandOpcode

AnswerOut ==
    IF HeldPacket # NoPacket THEN ResponseOp(HeldPacket) ELSE ResponseOp(ctlPacket)

Flow == INSTANCE HciCommandFlow WITH open <- OpenCommand, answer <- AnswerOut

(* HciSdcPutPacket and HciSdcGetPacket implement the command flow. *)
ImplementsFlow == Flow!Spec

---------------------------------------------------------------------------
(* The inductive invariant of the proofs. *)

Hold == {ctlPacket, HeldPacket}

Queued(p) == \E i \in DOMAIN sdcQueue : sdcQueue[i] = p

(* A packet is in the slot or in the hold, never in both, and a response   *)
(* keeps the next command out until the queue has had its turn.            *)
HoldInv ==
    /\ ctlPacket = NoPacket \/ HeldPacket = NoPacket
    /\ \A p \in Hold : p.type = "EVENT" /\ p.kind = "RESPONSE" => CommandEventLast /\ NoResponse

(* One advertising family reaches the controller: the remembered one. *)
FamilyInv == sdcFamilies \subseteq {AdvCmdTypeSinceReset}

(* One delayed completion is owed, and the adapter waits for it. *)
DelayedInv ==
    /\ sdcDelayed => DelayedCommandPending /\ ~Queued(DelayedComplete)
    /\ Queued(DelayedComplete) => DelayedCommandPending
    /\ \A i, j \in DOMAIN sdcQueue :
          sdcQueue[i] = DelayedComplete /\ sdcQueue[j] = DelayedComplete => i = j

(* The supplemental dispatcher answers neither reset nor connection. *)
AnswerPending(op) == Commands!EventPending /\ cmdEvent.op = op /\ cmdEvent.status = SUCCESS
AnswerHeld(op) == \E p \in Hold : p.type = "EVENT" /\ Answers(p, op)
CompatInv == compatEvent.op \notin {OpReset, OpCreate}

One(b) == IF b THEN 1 ELSE 0

Connecting(p) == One(p.type = "EVENT" /\ p.kind = "CONNECT")

Connects(s) == Sum([i \in DOMAIN s |-> Connecting(s[i])])

(* While the answer of a reset is on its way nothing the controller did    *)
(* before it is left.                                                      *)
ResetInv ==
    /\ hostResetting <=> AnswerPending(OpReset) \/ AnswerHeld(OpReset)
    /\ hostResetting =>
          /\ sdcLinks = {} /\ sdcBuffered = NoCount /\ ~sdcCreating
          /\ CreditCount = NoCount
          /\ Connects(sdcQueue) = 0 /\ \A h \in Handle : Reported(sdcQueue, h) = 0

(* Every connection still to be reported was announced by a Command        *)
(* Status, and the one being announced is behind it.                       *)
CreateInv ==
    /\ One(sdcCreating) + Connects(sdcQueue) + Connecting(ctlPacket) + Connecting(HeldPacket)
          <= hostCreating + One(AnswerPending(OpCreate)) + One(AnswerHeld(OpCreate))
    /\ One(AnswerPending(OpCreate)) <= One(sdcCreating) + Connects(sdcQueue)

(* A link's disconnection is the last the controller says of it. *)
LinkInv ==
    \A h \in Handle :
        /\ h \notin sdcLinks => sdcBuffered[h] = 0
        /\ InPipeline(Disconnect(h)) => h \notin sdcLinks
        /\ Disconnect(h) \in Hold => Reported(sdcQueue, h) = 0
        /\ \A i, j \in DOMAIN sdcQueue :
              i < j /\ sdcQueue[i] = Disconnect(h) => ReportedBy(sdcQueue[j], h) = 0

(* Where every handle has a tracking entry. *)
TrackInv ==
    /\ AclOutstandingTotal = Sum(AclOutstanding)
    /\ \A h \in Handle \ AclTracked : AclOutstanding[h] = 0
    /\ hostResetting => AclOutstanding = NoCount
    /\ Cardinality(Handle) <= TrackHandles =>
          \A h \in Handle :
              /\ sdcBuffered[h] + Reported(sdcQueue, h) <= AclOutstanding[h]
              /\ \/ Queued(Disconnect(h))
                 \/ h \in hostUntold
                 \/ AclOutstanding[h] = sdcBuffered[h] + Reported(sdcQueue, h)

Owing(h) == sdcBuffered[h] + CreditCount[h] + Reported(Pipeline, h)

(* What a host that knows the link has in flight covers what will be       *)
(* given back.  A link it does not know yet starts clean: a credit that is *)
(* still owed goes out ahead of the queue.  A handle whose end was masked  *)
(* is left out until the reset.                                            *)
CreditInv ==
    /\ \A h \in hostLinks \ hostUntold :
          /\ hostInFlight[h] >= Owing(h)
          /\ ~hostResetting /\ ~InPipeline(Disconnect(h)) /\ Cardinality(Handle) <= TrackHandles
             => hostInFlight[h] = Owing(h)
    /\ \A h \in Handle \ (hostLinks \union hostUntold) :
          /\ hostInFlight[h] = 0 /\ sdcBuffered[h] = 0 /\ Reported(sdcQueue, h) = 0
          /\ CreditCount[h] > 0 => ~CreditEventLast
          /\ Connect(h) \in Hold => CreditCount[h] = 0
    /\ \A h \in Handle : Disconnect(h) \in Hold => ~CreditEventLast

Inv == /\ TypeOK /\ OneCommandCredit /\ HoldInv /\ FamilyInv /\ DelayedInv /\ CompatInv
       /\ ResetInv /\ CreateInv /\ LinkInv /\ TrackInv /\ CreditInv
       /\ (Cardinality(Handle) <= TrackHandles => NoOverrun)

---------------------------------------------------------------------------
(* Liveness.  The HCI thread polls the controller on every pass, in the    *)
(* bridge's fixed order of types, and the transport drains the slot.       *)
(* sdc_hci_get does not fail for ever while it has a message: asked again  *)
(* and again, it hands it over.  A legacy controller raises the completion *)
(* it owes; strong fairness is needed there only because MaxQueue bounds   *)
(* its queue.                                                              *)

RxMessage == (\E t \in PacketType : RxQueue(t)) \/ RxBad

Fairness ==
    /\ WF_vars(Rx)
    /\ SF_vars(RxMessage)
    /\ WF_vars(HostReceives)
    /\ SF_vars(SdcDelayedCompletes)

FairSpec == Spec /\ Fairness

(* A host that never stops sending commands or overrunning its credits     *)
(* keeps neither a controller event from being fetched nor a credit it is  *)
(* owed from being returned.                                               *)
QueueServed ==
    \A h \in Handle :
        /\ (\E i \in DOMAIN sdcQueue : sdcQueue[i] = Connect(h))
              ~> ~(\E i \in DOMAIN sdcQueue : sdcQueue[i] = Connect(h))
        /\ CreditCount[h] > 0 ~> CreditCount[h] = 0

(* A command whose completion was delayed is answered. *)
CommandAnswered == DelayedCommandPending ~> ~DelayedCommandPending
=============================================================================
