------------------------------ MODULE SecureLink ------------------------------
(***************************************************************************)
(* examples/secure_reconnect.py as the central ("C") and                   *)
(* examples/secure_peripheral.py as the peripheral ("P"), each with the    *)
(* controller it drives: pair, encrypt, disconnect, reconnect with the     *)
(* stored key.  An L2CAP message is one ACL packet.                        *)
(*                                                                         *)
(* The controllers and the air between them are external; so is the        *)
(* attribute server of a device under test, which the peripheral program   *)
(* does not have.  A wait may time out whenever the program looks.         *)
(***************************************************************************)
EXTENDS SmpPairing

CONSTANTS Settings,      \* arguments of the two programs: features, keys to distribute
          Window,        \* ACL buffers of a controller
          Cycles,        \* args.cycles of the central
          Connections,   \* args.connections of the peripheral
          MaxRuns,       \* bound: runs of the central program
          MaxFaults      \* bound: lost links, odd PDUs, kills and a peripheral that is stopped

ASSUME SettingsAssumption ==
    \A x \in Settings :
        /\ {x.c, x.p} \subseteq [io : Nat, oob : {FALSE}, mitm : BOOLEAN, sc : BOOLEAN, size : 0 .. 16]
        /\ x.init \in Nat

VARIABLES setting,
          conn,          \* number of the last connection
          up,            \* sides whose controller holds it
          closing,       \* it is coming to an end
          adv, init,     \* the peripheral advertises, the central initiates
          asked,         \* key the central encrypts with, while the answer is out
          air,           \* PDUs in the buffers of a controller
          wire,          \* packets on the way to a host
          host,          \* Link, and Hci below it
          tosend,        \* PDUs waiting for a credit
          c, p,          \* the programs
          bondfile, bonds,
          faults,
          gaveup         \* history: disconnect() left without the event

controllers == <<conn, up, closing, adv, init, asked, air>>
programs == <<tosend, c, p, bondfile, bonds>>
vars == <<setting, controllers, wire, host, programs, faults, gaveup>>

Sides == {"C", "P"}
Other(s) == IF s = "C" THEN "P" ELSE "C"

None == <<>>             \* no key
Torn == <<"torn">>       \* a file opened for writing and not written: it does not load
Event(t, v) == [t |-> t, v |-> v]

(* "back" is Hci.pending; events have had their effect once they are in it. *)
Link == [handle |-> 0, disc |-> 0, enc |-> "none", newconn |-> 0, requests |-> 0,
         credits |-> Window, back |-> <<>>]

Central(run, ltk) ==
    [pc |-> "connect", run |-> run, cycle |-> IF ltk = None THEN 0 ELSE 1, then |-> "over",
     smp |-> Pairing(setting.c, <<"C", run>>), ltk |-> ltk, outcome |-> "none", expect |-> setting.resp]

Responder(n) == Pairing(setting.p, <<"P", n>>)

Peripheral == [pc |-> "loop", conn |-> 0, smp |-> <<>>, prompted |-> FALSE, paired |-> FALSE, summary |-> 0]

(* hci.setup and start_advertising are behind both programs; the two may   *)
(* have a bond from an earlier run, which the central then uses or         *)
(* replaces.                                                               *)
Earlier == f5(shared_secret(<<"C", 0>>, <<"P", 0>>), <<"na", 0>>, <<"nb", 0>>).ltk

Init == /\ setting \in Settings
        /\ conn = 0 /\ up = {} /\ closing = FALSE /\ adv = TRUE /\ init = FALSE /\ asked = None
        /\ air = [s \in Sides |-> <<>>] /\ wire = [s \in Sides |-> <<>>]
        /\ host = [s \in Sides |-> Link]
        /\ tosend = [s \in Sides |-> <<>>]
        /\ bonds = (IF setting.bonded THEN Earlier ELSE None) /\ bondfile = bonds
        /\ \E ltk \in {None, bondfile} : c = Central(1, ltk)
        /\ p = Peripheral
        /\ faults = 0 /\ gaveup = FALSE

-----------------------------------------------------------------------------
(* Link and Hci: reading a packet, a command, sending. *)

_on_event(s, h, e) ==
    CASE e.t = "disc"               -> [h EXCEPT !.disc = e.v]
      [] e.t = "enc" /\ s = "C"     -> [h EXCEPT !.enc = e.v]      \* the peripheral reports it only
      [] e.t = "completed"          -> [h EXCEPT !.credits = @ + 1]
      [] e.t = "ltk request"        -> [h EXCEPT !.requests = @ + 1]
      [] e.t = "conn" /\ s = "P"    -> [h EXCEPT !.newconn = e.v]
      [] OTHER                      -> h

(* A command reads all that came before its answer and puts it back.  Only *)
(* data and connections are of use to a later read.                        *)
PutsBack(h, e) == IF e.t \in {"pdu", "conn"} THEN [h EXCEPT !.back = Append(@, e)] ELSE h

command(s, h) ==
    LET heard[n \in 0 .. Len(wire[s])] ==
            IF n = 0 THEN h ELSE PutsBack(_on_event(s, heard[n - 1], wire[s][n]), wire[s][n])
    IN  heard[Len(wire[s])]

CanRead(s) == host[s].back # <<>> \/ wire[s] # <<>>

(* One packet: what it is, the host after it, and what is still coming. *)
read_packet(s) ==
    IF host[s].back # <<>>
    THEN [e |-> Head(host[s].back), h |-> [host[s] EXCEPT !.back = Tail(@)], w |-> wire[s]]
    ELSE [e |-> Head(wire[s]), h |-> _on_event(s, host[s], Head(wire[s])), w |-> Tail(wire[s])]

Reads(s) == /\ host' = [host EXCEPT ![s] = read_packet(s).h]
            /\ wire' = [wire EXCEPT ![s] = read_packet(s).w]

(* The exception that ends a program is met by its finally clause. *)
RaisesIn(s) ==
    /\ tosend' = [tosend EXCEPT ![s] = <<>>]
    /\ IF s = "C"
       THEN /\ c' = [c EXCEPT !.pc = IF host["C"].handle = 0 THEN "over" ELSE "disconnect", !.then = "over"]
            /\ UNCHANGED p
       ELSE p' = [p EXCEPT !.pc = "finally"] /\ UNCHANGED c

(* A packet for a link that is gone is dropped, and its credit with it. *)
send_l2cap(s) ==
    /\ tosend[s] # <<>> /\ host[s].credits > 0
    /\ host' = [host EXCEPT ![s].credits = @ - 1]
    /\ air' = [air EXCEPT ![s] = IF s \in up THEN Append(@, Head(tosend[s])) ELSE @]
    /\ tosend' = [tosend EXCEPT ![s] = Tail(@)]
    /\ UNCHANGED <<setting, conn, up, closing, adv, init, asked, wire, c, p, bondfile, bonds, faults, gaveup>>

(* What is polled here is not handed to anyone. *)
_take_credit(s) ==
    /\ tosend[s] # <<>> /\ host[s].credits = 0
    /\ CanRead(s) /\ Reads(s)
    /\ UNCHANGED <<setting, controllers, programs, faults, gaveup>>

NoCredit(s) ==
    /\ tosend[s] # <<>> /\ host[s].credits = 0
    /\ RaisesIn(s)
    /\ UNCHANGED <<setting, controllers, wire, host, bondfile, bonds, faults, gaveup>>

-----------------------------------------------------------------------------
(* The central. *)

At(pc) == c.pc = pc /\ tosend["C"] = <<>>
GoTo(pc) == c' = [c EXCEPT !.pc = pc]
Leaves == tosend' = tosend /\ UNCHANGED <<bondfile, bonds, p, setting, faults>>
Quiet == Leaves /\ UNCHANGED <<controllers, gaveup>>

Item == read_packet("C").e
IsPdu(code) == Item.t = "pdu" /\ Item.v.code = code
Dropped == host["C"].disc # 0
Polls == ~ Dropped /\ CanRead("C") /\ Reads("C")
Looks == UNCHANGED <<host, wire>>

(* Faulty variant: the last disconnection is left. *)
ResetEncryption(h) == [h EXCEPT !.enc = "none"]

Reset(h) == [h EXCEPT !.disc = 0, !.enc = "none"]

(* A controller does not make a second link to the same peer. *)
connect ==
    /\ At("connect")
    /\ host' = [host EXCEPT !["C"] = command("C", Reset(@))]
    /\ wire' = [wire EXCEPT !["C"] = <<>>]
    /\ IF "C" \in up THEN GoTo("over") /\ UNCHANGED init
                     ELSE GoTo("connecting") /\ init' = TRUE
    /\ Leaves /\ UNCHANGED <<conn, up, closing, adv, asked, air, gaveup>>

(* A connection that fails ends the run as the timeout does. *)
Connecting ==
    /\ At("connecting") /\ CanRead("C")
    /\ wire' = [wire EXCEPT !["C"] = read_packet("C").w]
    /\ host' = [host EXCEPT !["C"] = [read_packet("C").h EXCEPT !.handle = IF Item.t = "conn" THEN Item.v ELSE @]]
    /\ IF Item.t = "conn" THEN GoTo("secreq") ELSE UNCHANGED c
    /\ Quiet

ConnectTimeout ==
    /\ At("connecting")
    /\ init' = FALSE
    /\ host' = [host EXCEPT !["C"] = command("C", @)]
    /\ wire' = [wire EXCEPT !["C"] = <<>>]
    /\ GoTo("over")
    /\ Leaves /\ UNCHANGED <<conn, up, closing, adv, asked, air, gaveup>>

(* The next cycle, when there is one. *)
NextCycle(d) == IF d.then = "cycle" /\ d.cycle < Cycles
                THEN [d EXCEPT !.pc = "connect", !.cycle = @ + 1] ELSE [d EXCEPT !.pc = "over"]

Hang(then) == c' = [c EXCEPT !.pc = "disconnect", !.then = then]

(* pair() starts whatever came of the wait; a reconnect looks at the link  *)
(* once more.                                                              *)
AfterSecurityRequest(h) ==
    IF c.cycle = 0
    THEN /\ c' = [c EXCEPT !.pc = "pairing", !.smp = start(@).smp]
         /\ tosend' = [tosend EXCEPT !["C"] = start(c.smp).out]
         /\ host' = [host EXCEPT !["C"] = h]
    ELSE /\ IF h.disc # 0 THEN c' = NextCycle([c EXCEPT !.then = "cycle"]) ELSE GoTo("encrypt")
         /\ host' = [host EXCEPT !["C"] = [h EXCEPT !.handle = IF h.disc # 0 THEN 0 ELSE @]]
         /\ UNCHANGED tosend

wait_security_request ==
    /\ At("secreq")
    /\ \/ /\ ~ Dropped /\ CanRead("C")
          /\ wire' = [wire EXCEPT !["C"] = read_packet("C").w]
          /\ IF IsPdu("security request") THEN AfterSecurityRequest(read_packet("C").h)
             ELSE host' = [host EXCEPT !["C"] = read_packet("C").h] /\ UNCHANGED <<c, tosend>>
       \/ AfterSecurityRequest(host["C"]) /\ UNCHANGED wire      \* dropped, or the time is up
    /\ UNCHANGED <<setting, controllers, p, bondfile, bonds, faults, gaveup>>

(* One turn of the loop of pair().  Nothing is read while the user         *)
(* compares, so the answer is taken here and a slow user is a slow         *)
(* send_l2cap; with args.auto_accept, which the liveness properties rest   *)
(* on, there is no user to wait for.                                       *)
Fed(smp, pdu) ==
    LET fed == central_feed(smp, pdu)
    IN  IF fed.smp.state = "wait user" THEN central_user_confirm(fed.smp, TRUE) ELSE fed

pair ==
    /\ At("pairing") /\ ~ done(c.smp) /\ Polls
    /\ IF Item.t = "pdu" /\ Item.v.code # "att response"
       THEN LET fed == Fed(c.smp, Item.v)
            IN  c' = [c EXCEPT !.smp = fed.smp] /\ tosend' = [tosend EXCEPT !["C"] = fed.out]
       ELSE UNCHANGED <<c, tosend>>
    /\ UNCHANGED <<setting, controllers, p, bondfile, bonds, faults, gaveup>>

(* Dropped or out of time. *)
PairFails == At("pairing") /\ ~ done(c.smp) /\ Hang("over") /\ Looks /\ Quiet

Paired ==
    /\ At("pairing") /\ done(c.smp)
    /\ IF c.smp.state = "complete" THEN c' = [c EXCEPT !.pc = "encrypt", !.ltk = c.smp.ltk] ELSE Hang("over")
    /\ Looks /\ Quiet

start_encryption ==
    /\ At("encrypt")
    /\ host' = [host EXCEPT !["C"] = command("C", [@ EXCEPT !.enc = "none"])]
    /\ asked' = IF up = Sides THEN c.ltk ELSE asked
    /\ wire' = [wire EXCEPT !["C"] = <<>>,
                            !["P"] = IF up = Sides THEN Append(@, Event("ltk request", 0)) ELSE @]
    /\ GoTo("encwait")
    /\ Leaves /\ UNCHANGED <<conn, up, closing, adv, init, air, gaveup>>

(* On the pairing connection the keys come first, then the bond is saved. *)
Encrypted(outcome) ==
    c' = [c EXCEPT !.outcome = outcome,
                   !.pc = IF c.cycle = 0 THEN (IF outcome = "on" THEN "collect" ELSE "save")
                          ELSE (IF outcome = "on" THEN "probe" ELSE "disconnect"),
                   !.then = "cycle"]

wait_encryption ==
    /\ At("encwait")
    /\ \/ Dropped /\ Encrypted("dropped") /\ Looks
       \/ ~ Dropped /\ host["C"].enc # "none" /\ Encrypted(host["C"].enc) /\ Looks
       \/ host["C"].enc = "none" /\ Polls /\ UNCHANGED c
       \/ Encrypted("silent") /\ Looks
    /\ Quiet

(* Every SMP message is counted as one of the keys. *)
collect_keys ==
    /\ At("collect")
    /\ \/ c.expect > 0 /\ Polls
          /\ c' = [c EXCEPT !.expect = IF Item.t = "pdu" /\ Item.v.code # "att response" THEN @ - 1 ELSE @]
       \/ GoTo("sendkeys") /\ Looks                              \* all, dropped, or out of time
    /\ Quiet

send_keys ==
    /\ At("sendkeys") /\ GoTo("save")
    /\ tosend' = [tosend EXCEPT !["C"] = [i \in 1 .. setting.init |-> Pdu("key", i)]]
    /\ UNCHANGED <<host, wire, setting, controllers, p, bondfile, bonds, faults, gaveup>>

(* The file is emptied, then written. *)
save_bond ==
    /\ \/ At("save") /\ bondfile' = Torn /\ GoTo("saving")
       \/ /\ At("saving") /\ bondfile' = c.ltk
          /\ IF c.outcome = "on" THEN GoTo("probe") ELSE Hang("over")
    /\ UNCHANGED <<host, wire, tosend, setting, controllers, p, bonds, faults, gaveup>>

att_probe ==
    /\ At("probe") /\ GoTo("probing")
    /\ tosend' = [tosend EXCEPT !["C"] = <<Pdu("att request", 0)>>]
    /\ UNCHANGED <<host, wire, setting, controllers, p, bondfile, bonds, faults, gaveup>>

Probing ==
    /\ At("probing")
    /\ \/ Polls /\ IF IsPdu("att response") THEN Hang("cycle") ELSE UNCHANGED c
       \/ Hang(IF c.cycle = 0 THEN "over" ELSE "cycle") /\ Looks  \* dropped, or out of time
    /\ Quiet

disconnect ==
    /\ At("disconnect") /\ GoTo("hanging")
    /\ IF Dropped THEN UNCHANGED <<host, wire, closing>>
       ELSE /\ host' = [host EXCEPT !["C"] = command("C", @)]
            /\ wire' = [wire EXCEPT !["C"] = <<>>]
            /\ closing' = (closing \/ "C" \in up)
    /\ Leaves /\ UNCHANGED <<conn, up, adv, init, asked, air, gaveup>>

Hanging ==
    /\ At("hanging")
    /\ \/ Polls /\ UNCHANGED <<c, gaveup>>
       \/ /\ c' = NextCycle(c) /\ gaveup' = (gaveup \/ ~ Dropped)
          /\ host' = [host EXCEPT !["C"].handle = 0] /\ UNCHANGED wire
    /\ Leaves /\ UNCHANGED controllers

(* The program is started again, after its end or in the middle: with      *)
(* --reconnect-only when there is a bond that loads.  setup() resets the   *)
(* controller.                                                             *)
Restart ==
    /\ c.run < MaxRuns
    /\ IF c.pc = "over" THEN UNCHANGED faults ELSE faults < MaxFaults /\ faults' = faults + 1
    /\ \E ltk \in {None, bondfile} \ {Torn} : c' = Central(c.run + 1, ltk)
    /\ host' = [host EXCEPT !["C"] = Link] /\ wire' = [wire EXCEPT !["C"] = <<>>]
    /\ tosend' = [tosend EXCEPT !["C"] = <<>>] /\ air' = [air EXCEPT !["C"] = <<>>]
    /\ up' = up \ {"C"} /\ closing' = (closing \/ "C" \in up) /\ init' = FALSE /\ asked' = None
    /\ gaveup' = FALSE
    /\ UNCHANGED <<setting, conn, adv, p, bondfile, bonds>>

CentralNext == \/ connect \/ Connecting \/ ConnectTimeout \/ wait_security_request
               \/ pair \/ PairFails \/ Paired
               \/ start_encryption \/ wait_encryption \/ collect_keys \/ send_keys \/ save_bond
               \/ att_probe \/ Probing \/ disconnect \/ Hanging
               \/ send_l2cap("C") \/ _take_credit("C") \/ NoCredit("C")

-----------------------------------------------------------------------------
(* The peripheral. *)

Turn(pc) == p.pc = pc /\ tosend["P"] = <<>>
Apart == UNCHANGED <<setting, c, bondfile, faults, gaveup>>   \* the other program's

NewConn ==
    /\ Turn("loop") /\ host["P"].newconn # 0
    /\ host' = [host EXCEPT !["P"] = [Reset(@) EXCEPT !.handle = host["P"].newconn, !.newconn = 0, !.requests = 0]]
    /\ p' = [p EXCEPT !.conn = host["P"].newconn, !.smp = <<>>, !.prompted = FALSE, !.paired = FALSE]
    /\ tosend' = [tosend EXCEPT !["P"] = <<Pdu("security request", 0)>>]
    /\ Apart /\ UNCHANGED <<controllers, wire, bonds>>

HasSmp == p.smp # <<>>

(* The key of the pairing that just ended, or of the bond. *)
KeyFor == IF HasSmp /\ p.smp[1].state = "complete" THEN p.smp[1].ltk ELSE bonds

(* Faulty variant: only a link that has just been paired is served. *)
AskedWhilePairing == Turn("loop") /\ host["P"].newconn = 0 /\ host["P"].requests > 0 /\ HasSmp

KeyAsked == Turn("loop") /\ host["P"].newconn = 0 /\ host["P"].requests > 0 /\ p.conn # 0

(* Controllers with one key encrypt, with two they lose the link. *)
ServeKeyRequest ==
    /\ KeyAsked
    /\ host' = [host EXCEPT !["P"] = command("P", [host["P"] EXCEPT !.requests = @ - 1])]
    /\ wire' = IF asked = None \/ up # Sides \/ KeyFor \notin {None, asked}
               THEN [wire EXCEPT !["P"] = <<>>]
               ELSE IF KeyFor = None
               THEN [wire EXCEPT !["P"] = <<>>, !["C"] = Append(@, Event("enc", "refused"))]
               ELSE [wire EXCEPT !["P"] = <<Event("enc", "on")>>, !["C"] = Append(@, Event("enc", "on"))]
    /\ closing' = (closing \/ (asked # None /\ KeyFor \notin {None, asked}))
    /\ asked' = None
    /\ Apart /\ UNCHANGED <<conn, up, adv, init, air, p, tosend, bonds>>

(* A Pairing Request makes a new responder. *)
Serve(pdu) ==
    LET fed == responder_feed(IF pdu.code = "request" THEN Responder(p.conn) ELSE p.smp[1], pdu)
    IN  IF pdu.code = "request" \/ (HasSmp /\ pdu.code \in {"public key", "random", "dhkey check", "failed"})
        THEN /\ p' = [p EXCEPT !.pc = "tail", !.smp = <<fed.smp>>,
                               !.prompted = @ /\ pdu.code # "request"]
             /\ tosend' = [tosend EXCEPT !["P"] = fed.out]
        ELSE /\ p' = [p EXCEPT !.pc = "tail"]
             /\ tosend' \in {[tosend EXCEPT !["P"] = out] :
                             out \in IF pdu.code = "att request" THEN {<<>>, <<Pdu("att response", 0)>>}
                                     ELSE {<<>>}}

PollTurn == Turn("loop") /\ host["P"].newconn = 0 /\ ~ KeyAsked

LinkOver == host["P"].disc # 0 /\ p.conn # 0

(* One packet at most in a turn. *)
PollsPacket ==
    /\ PollTurn /\ CanRead("P") /\ Reads("P")
    /\ IF read_packet("P").e.t = "pdu" /\ p.conn # 0 THEN Serve(read_packet("P").e.v)
       ELSE p' = [p EXCEPT !.pc = "tail"] /\ UNCHANGED tosend
    /\ Apart /\ UNCHANGED <<controllers, bonds>>

(* Nothing read is a turn too.  Only an ended connection leaves the rest   *)
(* of it something to do; another one would change nothing and is no step. *)
PollsNothing ==
    /\ PollTurn /\ ~ CanRead("P") /\ LinkOver
    /\ p' = [p EXCEPT !.pc = "tail"]
    /\ Apart /\ UNCHANGED <<controllers, wire, host, tosend, bonds>>

poll == PollsPacket \/ PollsNothing

Compares == HasSmp /\ ~ p.prompted /\ p.smp[1].state = "wait user or check" /\ p.smp[1].method = NC

Prompt ==
    /\ Turn("tail") /\ Compares
    /\ LET fed == responder_user_confirm(p.smp[1], TRUE)
       IN  /\ p' = [p EXCEPT !.prompted = TRUE, !.smp = <<fed.smp>>]
           /\ tosend' = [tosend EXCEPT !["P"] = fed.out]
    /\ Apart /\ UNCHANGED <<controllers, wire, host, bonds>>

(* The bond, then the end of the connection, then the next turn. *)
NewBond == HasSmp /\ p.smp[1].state = "complete" /\ ~ p.paired

(* Faulty variant: a bond is never replaced. *)
save_first_bond == bonds' = IF NewBond /\ bonds = None THEN p.smp[1].ltk ELSE bonds

save_bonds == bonds' = IF NewBond THEN p.smp[1].ltk ELSE bonds

LoopEnds ==
    /\ Turn("tail") /\ ~ Compares
    /\ save_bonds
    /\ IF LinkOver
       THEN LET more == p.summary + 1 < Connections
                h    == [host["P"] EXCEPT !.disc = 0, !.handle = 0]
            IN  /\ p' = [p EXCEPT !.pc = IF more THEN "loop" ELSE "finally", !.conn = 0, !.smp = <<>>,
                                  !.prompted = FALSE, !.paired = FALSE, !.summary = @ + 1]
                /\ adv' = more
                /\ host' = [host EXCEPT !["P"] = IF more THEN command("P", h) ELSE h]
                /\ wire' = [wire EXCEPT !["P"] = IF more THEN <<>> ELSE @]
       ELSE /\ p' = [p EXCEPT !.pc = "loop", !.paired = @ \/ NewBond]
            /\ UNCHANGED <<adv, host, wire>>
    /\ Apart /\ UNCHANGED <<conn, up, closing, init, asked, air, tosend>>

(* The user stops it anywhere in the loop, half way through save_bonds     *)
(* too; args.seconds end it in the same way at the top.                    *)
KeyboardInterrupt ==
    /\ p.pc \in {"loop", "tail"} /\ faults < MaxFaults /\ faults' = faults + 1
    /\ RaisesIn("P")
    /\ bonds' \in {bonds} \cup (IF NewBond THEN {Torn} ELSE {})
    /\ UNCHANGED <<setting, controllers, wire, host, bondfile, gaveup>>

Finally ==
    /\ Turn("finally")
    /\ closing' = (closing \/ (host["P"].handle # 0 /\ "P" \in up)) /\ adv' = FALSE
    /\ host' = [host EXCEPT !["P"] = command("P", @)] /\ wire' = [wire EXCEPT !["P"] = <<>>]
    /\ p' = [p EXCEPT !.pc = "over"]
    /\ Apart /\ UNCHANGED <<conn, up, init, asked, air, tosend, bonds>>

PeripheralNext == \/ NewConn \/ ServeKeyRequest \/ poll \/ Prompt \/ LoopEnds \/ Finally
                  \/ send_l2cap("P") \/ _take_credit("P") \/ NoCredit("P")

-----------------------------------------------------------------------------
(* The controllers. *)

Hosts == UNCHANGED <<setting, host, programs, gaveup>>

Connected ==
    /\ adv /\ init /\ up = {}
    /\ conn' = conn + 1 /\ up' = Sides /\ closing' = FALSE /\ adv' = FALSE /\ init' = FALSE
    /\ wire' = [s \in Sides |-> Append(wire[s], Event("conn", conn + 1))]
    /\ Hosts /\ UNCHANGED <<asked, air, faults>>

(* What an odd peer may send in place of a message. *)
Odd(pdu) ==
    {[pdu EXCEPT !.ok = FALSE]} \cup
    CASE pdu.code \in {"request", "response"} -> {[pdu EXCEPT !.val.mitm = ~ @], [pdu EXCEPT !.val.io = 3],
                                                 [pdu EXCEPT !.val.size = 7]}
      [] pdu.code = "public key"              -> {[pdu EXCEPT !.val = OffCurve], [pdu EXCEPT !.val = <<"X", 0>>]}
      [] OTHER                                -> {[pdu EXCEPT !.val = <<"X">>]}

Pairs(pdu) == pdu.code \in {"request", "response", "public key", "confirm", "random", "dhkey check"}

Deliver(s) ==
    /\ up = Sides /\ air[s] # <<>>
    /\ LET pdu == Head(air[s])
       IN  \E got \in {pdu} \cup (IF Pairs(pdu) /\ faults < MaxFaults THEN Odd(pdu) ELSE {}) :
              /\ wire' = [wire EXCEPT ![s] = Append(@, Event("completed", 0)),
                                      ![Other(s)] = Append(@, Event("pdu", got))]
              /\ faults' = IF got = pdu THEN faults ELSE faults + 1
    /\ air' = [air EXCEPT ![s] = Tail(@)]
    /\ Hosts /\ UNCHANGED <<conn, up, closing, adv, init, asked>>

LinkLost ==
    /\ up = Sides /\ ~ closing /\ faults < MaxFaults
    /\ faults' = faults + 1 /\ closing' = TRUE
    /\ Hosts /\ UNCHANGED <<conn, up, adv, init, asked, air, wire>>

(* The packets left in the buffers are not counted back. *)
Ends(s) ==
    /\ closing /\ s \in up
    /\ up' = up \ {s} /\ asked' = None
    /\ air' = [air EXCEPT ![s] = <<>>]
    /\ wire' = [wire EXCEPT ![s] = Append(@, Event("disc", conn))]
    /\ Hosts /\ UNCHANGED <<conn, closing, adv, init, faults>>

Next == \/ CentralNext \/ Restart
        \/ PeripheralNext \/ KeyboardInterrupt
        \/ Connected \/ LinkLost
        \/ \E s \in Sides : Deliver(s) \/ Ends(s)

Spec == Init /\ [][Next]_vars

LiveSpec == /\ Spec
            /\ WF_vars(CentralNext) /\ WF_vars(PeripheralNext)
            /\ \A s \in Sides : WF_vars(Deliver(s)) /\ WF_vars(Ends(s))

-----------------------------------------------------------------------------
(* A pairing the central completed is complete at the peripheral, with the *)
(* same key and method and what the checks cover of each end's features    *)
(* (io, oob, auth_req) as the other sent them, whatever an odd PDU said in *)
(* between.  The key size is not covered: an altered one goes unnoticed.   *)
PairedAlike ==
    c.smp.state = "complete" /\ HasSmp /\ p.smp[1].peer = c.smp.key =>
        /\ p.smp[1].state = "complete"
        /\ p.smp[1].ltk = c.smp.ltk /\ p.smp[1].method = c.smp.method
        /\ IoCap(p.smp[1].theirs) = IoCap(c.smp.mine) /\ IoCap(c.smp.theirs) = IoCap(p.smp[1].mine)

(* Runs of the central whose key pair went into a key. *)
RunOf(ltk) == {k[2] : k \in {k \in ltk[2] : k[1] = "C"}}

(* The key the central holds (or has saved and can load) is the            *)
(* peripheral's bond, or about to be in this turn of its loop, unless a    *)
(* later pairing replaced it.  The one other way to lose it is a           *)
(* peripheral stopped between its last check and the end of save_bonds:    *)
(* then the new key is in no bond, or the file is torn and all are gone.   *)
BondUsable ==
    \A ltk \in {c.ltk, bondfile} \ {None, Torn} :
        \/ bonds = ltk
        \/ p.pc = "tail" /\ NewBond /\ p.smp[1].ltk = ltk
        \/ bonds \notin {None, Torn} /\ \E r \in RunOf(bonds), q \in RunOf(ltk) : r > q
        \/ p.pc \in {"finally", "over"} /\ NewBond /\ (p.smp[1].ltk = ltk \/ bonds = Torn)

(* A link is taken for dropped only when the one in use has been reported  *)
(* so, as long as disconnect() waited for its event.                       *)
DroppedIsOurs ==
    \A s \in Sides : host[s].handle # 0 /\ host[s].disc # 0 /\ ~ gaveup => host[s].disc = host[s].handle

(* A key request the peripheral has read is answered and not left in its   *)
(* queue, on a link just paired or on a later one: the central's procedure *)
(* stalls until it is.                                                     *)
KeyRequestServed == host["P"].requests > 0 ~> (host["P"].requests = 0 \/ p.pc = "over")

(* A peripheral whose link has ended advertises again, or is done: it may  *)
(* hear of the end in a poll, but also in a command or in a wait for a     *)
(* credit, with nothing more to read.                                      *)
AdvertisesAgain == conn # 0 /\ "P" \notin up ~> adv \/ p.pc = "over"
=============================================================================
