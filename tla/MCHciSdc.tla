------------------------------ MODULE MCHciSdc ------------------------------
(***************************************************************************)
(* Small instances of HciSdc.  The opcodes stand for one command of each   *)
(* kind the routing layer tells apart.                                     *)
(***************************************************************************)
EXTENDS HciSdc, TLC

MCOpcode == {"RESET", "READ_BUFFER_SIZE", "CREATE_CONN", "PAWR_RESPONSE",
             "READ_STATES", "UNKNOWN"}
MCNoOp   == "NOP"
MCReset  == "RESET"
MCReadBufferSize == "READ_BUFFER_SIZE"
MCCreate == "CREATE_CONN"
MCPawr   == "PAWR_RESPONSE"

Fixed(ParamLen, ReturnLen, Response) ==
    [ParamLen |-> ParamLen, ReturnLen |-> ReturnLen, Response |-> Response, Handler |-> TRUE]

MCTable ==
    ("RESET"            :> Fixed(0, 0, "COMPLETE")) @@
    ("READ_BUFFER_SIZE" :> Fixed(0, 3, "COMPLETE")) @@
    ("CREATE_CONN"      :> Fixed(25, 0, "STATUS")) @@
    ("PAWR_RESPONSE"    :> Fixed(65535, 2, "COMPLETE"))

MCCompatTable == "READ_STATES" :> Fixed(0, 8, "COMPLETE")

MCAdvFamily == [op \in MCOpcode |-> CASE op = "CREATE_CONN"   -> "LEGACY"
                                      [] op = "PAWR_RESPONSE" -> "EXTENDED"
                                      [] OTHER                -> "NONE"]

Packet(op, paramLen) ==
    [op |-> op, PacketLen |-> 3 + paramLen, paramLen |-> paramLen, agrees |-> TRUE]

(* The commands that set up links and flow control. *)
LinkCommands == {Packet("RESET", 0), Packet("READ_BUFFER_SIZE", 0), Packet("CREATE_CONN", 25)}

(* One command for every path through the two dispatchers. *)
AllCommands ==
    {Packet("RESET", 0), Packet("READ_BUFFER_SIZE", 0), Packet("CREATE_CONN", 25),
     Packet("PAWR_RESPONSE", 9), [Packet("PAWR_RESPONSE", 9) EXCEPT !.agrees = FALSE],
     Packet("READ_STATES", 0), Packet("READ_STATES", 1), Packet("UNKNOWN", 0),
     [Packet("CREATE_CONN", 25) EXCEPT !.PacketLen = 20],
     [Packet("READ_BUFFER_SIZE", 0) EXCEPT !.PacketLen = 2]}

Handles == Permutations(Handle)
=============================================================================
