--------------------------- MODULE HciCmdDispatch ---------------------------
(***************************************************************************)
(* The table-driven command dispatcher of src/src/hci_cmd_dispatch.cpp.    *)
(* It takes one HCI command at a time, checks it against its table row and *)
(* leaves at most one response event to be fetched.                        *)
(*                                                                         *)
(* A command is [op, PacketLen, paramLen]: the opcode, the octets that     *)
(* arrived and the length its header claims.  An event keeps what a host   *)
(* acts on: its form, the opcode it answers, the status and its length.    *)
(* Diagnostic counters and the response marks are left out.                *)
(***************************************************************************)
EXTENDS Integers

CONSTANTS
    Opcode,          \* the opcodes a host may send
    NoOp,            \* opcode 0x0000, No Operation
    Table,           \* a function from opcodes to rows
    EventCapacity    \* octets of the response buffer

VARIABLE
    Event            \* the response buffer; its form is "NONE" when empty

HeaderSize       == 3
CompleteBaseSize == 6
StatusSize       == 6
NopSize          == 5
MaxReturnLen     == 251
VariableParamLen == 65535

(* Statuses that the dispatcher itself answers with. *)
SUCCESS            == "SUCCESS"
UNKNOWN_COMMAND    == "UNKNOWN_HCI_COMMAND"
INVALID_PARAMETERS == "INVALID_HCI_PARAMETERS"
MEMORY_EXCEEDED    == "MEMORY_CAPACITY_EXCEEDED"
DISALLOWED         == "COMMAND_DISALLOWED"
UNSPECIFIED        == "UNSPECIFIED_ERROR"

(* "ERROR" stands for any other status a controller function returns. *)
Status == {SUCCESS, UNKNOWN_COMMAND, INVALID_PARAMETERS, MEMORY_EXCEEDED, DISALLOWED,
           UNSPECIFIED, "ERROR"}

Response == {"COMPLETE", "STATUS", "NONE"}

Row == [ParamLen : Nat, ReturnLen : Nat, Response : Response, Handler : BOOLEAN]

DispatchAssumption ==
    /\ NoOp \notin Opcode
    /\ DOMAIN Table \subseteq Opcode
    /\ \A op \in DOMAIN Table : Table[op] \in Row
    /\ EventCapacity \in Nat /\ EventCapacity >= CompleteBaseSize

EventRecord ==
    [form : Response, op : Opcode \union {NoOp}, status : Status, len : Nat]

NoEvent == [form |-> "NONE", op |-> NoOp, status |-> SUCCESS, len |-> 0]

EventPending == Event.form # "NONE"

ReturnCapacity == EventCapacity - CompleteBaseSize

Fits(ReturnLen) == ReturnLen <= ReturnCapacity /\ ReturnLen <= MaxReturnLen

---------------------------------------------------------------------------
(* The events the dispatcher builds. *)

HciCmdBuildComplete(op, status, ReturnLen) ==
    [form |-> "COMPLETE", op |-> op, status |-> status,
     len |-> CompleteBaseSize + ReturnLen]

HciCmdBuildStatus(op, status) ==
    [form |-> "STATUS", op |-> op, status |-> status, len |-> StatusSize]

HciCmdZeroReturn(ReturnLen) == IF Fits(ReturnLen) THEN ReturnLen ELSE 0

HciCmdBuildError(op, status) ==
    IF Table[op].Response = "STATUS"
    THEN HciCmdBuildStatus(op, status)
    ELSE HciCmdBuildComplete(op, status, HciCmdZeroReturn(Table[op].ReturnLen))

(* A failed handler returns nothing: the gap up to the declared length is  *)
(* zero filled, when the declared length fits.                             *)
PaddedLen(row, ReturnLen) ==
    IF ReturnLen < row.ReturnLen /\ Fits(row.ReturnLen) THEN row.ReturnLen ELSE ReturnLen

(* The event a handler's result becomes. *)
HciCmdResultEvent(op, result) ==
    IF result.Response # Table[op].Response THEN HciCmdBuildError(op, UNSPECIFIED)
    ELSE IF ~Fits(result.ReturnLen)         THEN HciCmdBuildError(op, MEMORY_EXCEEDED)
    ELSE IF result.Response = "COMPLETE"
         THEN HciCmdBuildComplete(op, result.Status, PaddedLen(Table[op], result.ReturnLen))
    ELSE IF result.Response = "STATUS"      THEN HciCmdBuildStatus(op, result.Status)
    ELSE NoEvent

---------------------------------------------------------------------------
(* What is wrong with a command, checked in the order of HciCmdDispatchPut. *)

Short(cmd)    == cmd.PacketLen < HeaderSize
Unknown(cmd)  == ~Short(cmd) /\ cmd.op \notin DOMAIN Table
Malformed(cmd) ==
    /\ ~Short(cmd) /\ cmd.op \in DOMAIN Table
    /\ \/ cmd.PacketLen # HeaderSize + cmd.paramLen
       \/ Table[cmd.op].ParamLen \notin {VariableParamLen, cmd.paramLen}
WellFormed(cmd) ==
    /\ cmd.op \in DOMAIN Table
    /\ cmd.PacketLen = HeaderSize + cmd.paramLen
    /\ Table[cmd.op].ParamLen \in {VariableParamLen, cmd.paramLen}
NoHandler(cmd) == WellFormed(cmd) /\ ~Table[cmd.op].Handler
Callable(cmd)  == WellFormed(cmd) /\ Table[cmd.op].Handler

(* HciCmdDispatchKnows, the test the H:4 suspect filter relies on. *)
HciCmdDispatchKnows(op, ParamLen) ==
    /\ op \in DOMAIN Table
    /\ Table[op].ParamLen \in {VariableParamLen, ParamLen}

---------------------------------------------------------------------------
(* The operations. *)

HciCmdDispatchInit == Event = NoEvent

(* A command answered without entering its handler. *)
PutRejected(cmd) ==
    /\ ~EventPending
    /\ \/ Short(cmd)     /\ Event' = NoEvent
       \/ Unknown(cmd)   /\ Event' = HciCmdBuildComplete(cmd.op, UNKNOWN_COMMAND, 0)
       \/ Malformed(cmd) /\ Event' = HciCmdBuildError(cmd.op, INVALID_PARAMETERS)
       \/ NoHandler(cmd) /\ Event' = HciCmdBuildError(cmd.op, UNKNOWN_COMMAND)

(* The guard refuses a callable command with the status it names. *)
PutRefused(cmd, refuse) ==
    /\ ~EventPending
    /\ Callable(cmd)
    /\ refuse # SUCCESS
    /\ Event' = HciCmdBuildError(cmd.op, refuse)

(* The handler runs and its result becomes the response. *)
PutHandled(cmd, result) ==
    /\ ~EventPending
    /\ Callable(cmd)
    /\ Event' = HciCmdResultEvent(cmd.op, result)

(* The hold it is copied to takes the largest event. *)
HciCmdDispatchGet ==
    /\ EventPending
    /\ Event' = NoEvent

(* The No Operation event, queued before a command can arrive. *)
HciCmdDispatchQueueNop ==
    [form |-> "COMPLETE", op |-> NoOp, status |-> SUCCESS, len |-> NopSize]
=============================================================================
