------------------------------ MODULE HciHost -------------------------------
(***************************************************************************)
(* The Hci class of the Python host library                                *)
(* (src/python/hcicontroller/hci_ble_test_impl.py and hci_ble_test.py):    *)
(* a command waits for its answer, a procedure for its terminal event, and *)
(* everything else that arrives meanwhile is deferred and put back.        *)
(*                                                                         *)
(* A packet is told by its number of arrival.  Answers and terminal events *)
(* carry their opcode; the command they belong to is known to the model    *)
(* only.                                                                   *)
(***************************************************************************)
EXTENDS Integers, Sequences, FiniteSets, SequencesExt

CONSTANTS Opcode,        \* commands of the caller
          Procedure,     \* those that end with an event of their own
          Window,        \* ACL buffers the controller advertised
          MaxCommands,   \* bound: commands sent
          MaxPackets,    \* bound: packets the controller sends
          MaxAcl         \* bound: ACL packets the host sends

ASSUME HostAssumption == /\ Procedure \subseteq Opcode
                         /\ {Window, MaxCommands, MaxPackets, MaxAcl} \subseteq Nat

None == "NONE"

VARIABLES wire,          \* packets on the way to the host
          arrived,       \* packets the controller has sent
          busy,          \* commands and procedures the controller has not ended
          held, lost,    \* ACL packets it holds, and discarded with a link
          pending, deferred, doing,
          acl_credits,
          commands, acls,
          returned,      \* history: what the caller was given
          dropped,       \* history: what a wait that failed took with it
          taken,         \* history: answers and terminal events, with the command they ended
          stale          \* history: a command was sent with an older one of its opcode open

controllerVars == <<arrived, busy, held, lost>>
hostVars == <<pending, deferred, doing, acl_credits, commands, acls>>
history  == <<returned, dropped, taken, stale>>
vars == <<wire, controllerVars, hostVars, history>>

Idle == [what |-> "idle", opcode |-> None, id |-> 0]

Init == /\ wire = <<>> /\ arrived = 0 /\ busy = {}
        /\ held = 0 /\ lost = 0
        /\ pending = <<>> /\ deferred = <<>> /\ doing = Idle
        /\ acl_credits = Window
        /\ commands = 0 /\ acls = 0
        /\ returned = <<>> /\ dropped = <<>> /\ taken = {} /\ stale = FALSE

-----------------------------------------------------------------------------
(* The controller. *)

Sends(kind, c, done) ==
    /\ arrived < MaxPackets
    /\ arrived' = arrived + 1
    /\ wire' = Append(wire, [n |-> arrived + 1, kind |-> kind, opcode |-> c.opcode, id |-> c.id,
                             done |-> done])

Answers(c) ==
    /\ c.what = "command"
    /\ Sends("answer", c, 0)
    /\ busy' = (busy \ {c}) \cup (IF c.opcode \in Procedure THEN {[c EXCEPT !.what = "procedure"]} ELSE {})
    /\ UNCHANGED <<held, lost, hostVars, history>>

Terminates(c) ==
    /\ c.what = "procedure"
    /\ Sends("terminal", c, 0)
    /\ busy' = busy \ {c}
    /\ UNCHANGED <<held, lost, hostVars, history>>

(* Number Of Completed Packets. *)
Completes ==
    /\ \E k \in 1 .. held : Sends("event", Idle, k) /\ held' = held - k
    /\ UNCHANGED <<busy, lost, hostVars, history>>

(* Disconnection Complete: what the link still held is not counted back. *)
Disconnects ==
    /\ Sends("event", Idle, 0)
    /\ lost' = lost + held /\ held' = 0
    /\ UNCHANGED <<busy, hostVars, history>>

-----------------------------------------------------------------------------
(* Reading. *)

HasPacket == pending # <<>> \/ wire # <<>>

Packet == IF pending # <<>> THEN Head(pending) ELSE Head(wire)

(* Faulty variant: an event counts again when it comes from the queue.     *)
CountAlways == acl_credits' = acl_credits + Packet.done

(* on_event, called by read_wire. *)
on_event == acl_credits' = IF pending # <<>> THEN acl_credits ELSE acl_credits + Packet.done

(* The deferred queue first, then the port. *)
Take == /\ HasPacket
        /\ on_event
        /\ wire' = IF pending # <<>> THEN wire ELSE Tail(wire)

Rest == IF pending # <<>> THEN Tail(pending) ELSE pending

read_packet ==
    /\ doing = Idle
    /\ Take
    /\ pending' = Rest
    /\ returned' = Append(returned, Packet)
    /\ UNCHANGED <<controllerVars, deferred, doing, commands, acls, dropped, taken, stale>>

(* One turn of _poll_ready_events. *)
_poll_ready_events ==
    /\ doing = Idle /\ wire # <<>>
    /\ acl_credits' = acl_credits + Head(wire).done
    /\ wire' = Tail(wire)
    /\ pending' = Append(pending, Head(wire))
    /\ UNCHANGED <<controllerVars, deferred, doing, commands, acls, history>>

send_acl ==
    /\ doing = Idle /\ acls < MaxAcl
    /\ acls' = acls + 1
    /\ acl_credits' = acl_credits - 1
    /\ held' = held + 1
    /\ UNCHANGED <<wire, arrived, busy, lost, pending, deferred, doing, commands, history>>

-----------------------------------------------------------------------------
(* A command, and the procedure it starts. *)

(* An older command of the opcode that is not over for the host. *)
Open(op) == \/ \E c \in busy : c.opcode = op
            \/ \E p \in ToSet(wire \o pending) : p.opcode = op

command(op) ==
    /\ doing = Idle /\ commands < MaxCommands
    /\ commands' = commands + 1
    /\ doing' = [what |-> "command", opcode |-> op, id |-> commands + 1]
    /\ busy' = busy \cup {doing'}
    /\ stale' = (stale \/ Open(op))
    /\ UNCHANGED <<wire, arrived, held, lost, pending, deferred, acl_credits, acls, returned,
                   dropped, taken>>

(* What ends the wait: by the opcode, and for a procedure by the handle    *)
(* too, which is the same for all of them here.                            *)
Matches(p) == /\ p.kind = IF doing.what = "command" THEN "answer" ELSE "terminal"
              /\ p.opcode = doing.opcode

(* Faulty variant: what was deferred is dropped.                           *)
PutBackNone(rest) == pending' = rest /\ deferred' = <<>>

(* Faulty variant: the packet deferred last comes first.                   *)
PutBackReversed(rest) == pending' = Reverse(deferred) \o rest /\ deferred' = <<>>

(* command appends what it deferred to the queue; _restore_packets puts it *)
(* ahead.                                                                  *)
PutBack(rest) ==
    /\ pending' = IF doing.what = "command" THEN rest \o deferred ELSE deferred \o rest
    /\ deferred' = <<>>

(* The wrapper of cmd_probe goes on to wait for the terminal event. *)
Ends ==
    /\ doing # Idle /\ Take /\ Matches(Packet)
    /\ PutBack(Rest)
    /\ doing' = IF doing.what = "command" /\ doing.opcode \in Procedure
                THEN [doing EXCEPT !.what = "procedure"] ELSE Idle
    /\ taken' = taken \cup {[packet |-> Packet, by |-> doing.id]}
    /\ UNCHANGED <<controllerVars, commands, acls, returned, dropped, stale>>

Defers ==
    /\ doing # Idle /\ Take /\ ~Matches(Packet)
    /\ pending' = Rest
    /\ deferred' = Append(deferred, Packet)
    /\ UNCHANGED <<controllerVars, doing, commands, acls, history>>

(* The queue is gone through in no time: a wait gives up on the port.      *)
TimesOut ==
    /\ doing # Idle /\ pending = <<>>
    /\ PutBack(pending)
    /\ doing' = Idle
    /\ UNCHANGED <<wire, controllerVars, acl_credits, commands, acls, history>>

(* read_wire raises HciError or HciGone.  The exception leaves the wait,   *)
(* whose list of deferred packets is a local variable and goes with it;    *)
(* the queue is not touched.  A read between waits that fails changes      *)
(* nothing.                                                                *)
ReadFails ==
    /\ doing # Idle /\ pending = <<>>
    /\ dropped' = dropped \o deferred
    /\ deferred' = <<>>
    /\ doing' = Idle
    /\ UNCHANGED <<wire, controllerVars, pending, acl_credits, commands, acls, returned, taken,
                   stale>>

Next == \/ \E c \in busy : Answers(c) \/ Terminates(c)
        \/ Completes \/ Disconnects
        \/ read_packet \/ _poll_ready_events \/ send_acl
        \/ \E op \in Opcode : command(op)
        \/ Ends \/ Defers \/ TimesOut \/ ReadFails

Spec == Init /\ [][Next]_vars

-----------------------------------------------------------------------------

InOrder(s) == \A i, j \in 1 .. Len(s) : i < j => s[i].n < s[j].n

(* Every packet that arrived is on the wire, deferred, in the queue, with  *)
(* the caller, or ended a wait, and only one of these, whatever waits gave *)
(* up; the only others are those a wait had deferred when the port failed  *)
(* under it.                                                               *)
NoneLost ==
    LET all == wire \o pending \o deferred \o returned \o dropped
        ns  == {all[i].n : i \in 1 .. Len(all)} \cup {t.packet.n : t \in taken}
    IN  Len(all) + Cardinality(taken) = arrived /\ ns = 1 .. arrived

(* The packets the events of s count back. *)
Done(s) == LET done[n \in 0 .. Len(s)] == IF n = 0 THEN 0 ELSE done[n - 1] + s[n].done
           IN  done[Len(s)]

(* The credits the host counts, the packets the controller holds, those    *)
(* counted on the wire and those lost with a link make up the window: an   *)
(* event counts once although its packet is queued and read again.         *)
CreditsCounted == acl_credits + held + lost + Done(wire) = Window

(* As long as no command is sent while an older one of its opcode is open, *)
(* "anything that is not the answer to this command is put back in order   *)
(* once the command completes", and a wait ends with its own answer or     *)
(* terminal event, never with that of a command that gave up.              *)
FreshWaits ==
    ~stale => /\ InOrder(returned \o deferred \o pending)
              /\ \A t \in taken : t.packet.id = t.by

-----------------------------------------------------------------------------
(* The inductive invariant behind the three. *)

HciPacket == [n : Nat, kind : {"answer", "terminal", "event"}, opcode : Opcode \cup {None},
              id : Nat, done : Nat]
Waiting(whats) == [what : whats, opcode : Opcode, id : Nat]

TypeOK ==
    /\ {wire, pending, deferred, returned, dropped} \subseteq Seq(HciPacket)
    /\ busy \subseteq Waiting({"command", "procedure"})
    /\ doing \in Waiting({"command", "procedure"}) \cup {Idle}
    /\ taken \subseteq [packet : HciPacket, by : Nat] /\ IsFiniteSet(taken)
    /\ {arrived, held, lost, commands, acls} \subseteq Nat
    /\ acl_credits \in Int /\ stale \in BOOLEAN

(* Where the numbers are. *)
Numbers(s)   == {s[i].n : i \in 1 .. Len(s)}
NumbersTaken == {t.packet.n : t \in taken}

Once(s) == \A i, j \in 1 .. Len(s) : s[i].n = s[j].n => i = j

(* The sets part 1 .. n. *)
Apart(W, P, D, R, X, T, n) ==
    /\ W \cap P = {} /\ (W \cup P) \cap D = {} /\ (W \cup P \cup D) \cap R = {}
    /\ (W \cup P \cup D \cup R) \cap X = {} /\ (W \cup P \cup D \cup R \cup X) \cap T = {}
    /\ W \cup P \cup D \cup R \cup X \cup T = 1 .. n

(* Each number is in one place, and there once. *)
Placed ==
    /\ Once(wire) /\ Once(pending) /\ Once(deferred) /\ Once(returned) /\ Once(dropped)
    /\ \A t, u \in taken : t.packet.n = u.packet.n => t = u
    /\ Apart(Numbers(wire), Numbers(pending), Numbers(deferred), Numbers(returned),
             Numbers(dropped), NumbersTaken, arrived)
    /\ Len(wire) + Len(pending) + Len(deferred) + Len(returned) + Len(dropped)
         + Cardinality(taken) = arrived

Before(A, B) == \A a \in A, b \in B : a < b

(* The host has read the packets of the caller, then those it defers, then *)
(* those still in the queue, in this order; the wire comes after them all. *)
Ordered ==
    /\ InOrder(returned) /\ InOrder(deferred) /\ InOrder(pending) /\ InOrder(wire)
    /\ Before(Numbers(returned), Numbers(deferred) \cup Numbers(pending) \cup Numbers(wire))
    /\ Before(Numbers(deferred), Numbers(pending) \cup Numbers(wire))
    /\ Before(Numbers(pending), Numbers(wire))

(* What may end a wait: answers and terminal events of its opcode. *)
Concerns(p) == p.kind # "event" /\ p.opcode = doing.opcode

(* What can end the wait is its own, and an answer is not in the queue. *)
Own ==
    doing # Idle =>
        /\ \A c \in busy : c.opcode = doing.opcode => c.id = doing.id
        /\ \A p \in ToSet(wire) \cup ToSet(pending) \cup ToSet(deferred) :
              Concerns(p) => p.id = doing.id
        /\ doing.what = "command" => \A p \in ToSet(pending) : ~Concerns(p)

Fresh == ~stale => Ordered /\ Own /\ \A t \in taken : t.packet.id = t.by

Inv == /\ TypeOK /\ Placed /\ CreditsCounted /\ Fresh
       /\ doing = Idle => deferred = <<>>
=============================================================================
