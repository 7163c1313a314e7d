--------------------------- MODULE HciCommandFlow ---------------------------
(***************************************************************************)
(* What the command path promises a host that is granted one command       *)
(* credit: a command is taken only when no earlier one is unanswered, every *)
(* command taken is answered once, and the answer names its opcode.        *)
(* A command that has no response (a short packet, a row of response NONE) *)
(* leaves the flow as it was.                                              *)
(***************************************************************************)
CONSTANTS Opcode, NoOp

VARIABLES
    open,      \* the command taken and not answered, NoOp when there is none
    answer     \* the opcode of the answer on its way to the host, or NoOp

Init == open = NoOp /\ answer = NoOp

(* The controller takes a command. *)
Take(op) ==
    /\ open = NoOp
    /\ open' = op
    /\ UNCHANGED answer

(* Its answer enters the outgoing slot. *)
Answer ==
    /\ open # NoOp
    /\ answer = NoOp
    /\ answer' = open
    /\ open' = NoOp

(* The host takes the answer. *)
Deliver ==
    /\ answer # NoOp
    /\ answer' = NoOp
    /\ UNCHANGED open

Next == Answer \/ Deliver \/ \E op \in Opcode : Take(op)

Spec == Init /\ [][Next]_<<open, answer>>
=============================================================================
