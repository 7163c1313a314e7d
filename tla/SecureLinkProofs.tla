------------------------- MODULE SecureLinkProofs -------------------------
(***************************************************************************)
(* SecureLink: a completed pairing is alike at both ends, and a link is    *)
(* taken for dropped only when it is the one in use, for every setting,    *)
(* any number of runs, cycles, connections and faults.  First the          *)
(* invariants; then what an action does to the queues of events and PDUs;  *)
(* then the pairing, action by action; then the links.                     *)
(***************************************************************************)
EXTENDS SecureLink, WellFoundedInduction, NaturalsInduction, SequenceTheorems, TLAPS

(* What is in a queue, and that it is one. *)
Els(q) == {q[i] : i \in 1 .. Len(q)}
IsSeq(q) == q \in Seq(Els(q))

(* At most one element of q is in K. *)
Lone(q, K) == \A i, j \in 1 .. Len(q) : q[i] \in K /\ q[j] \in K => i = j
Free(q, K) == \A i \in 1 .. Len(q) : q[i] \notin K

IsEvent(e) == e = [t |-> e.t, v |-> e.v]
IsPacket(x) == x = [code |-> x.code, val |-> x.val, ok |-> x.ok] /\ x.ok \in BOOLEAN

IsLink(h) == h = [handle |-> h.handle, disc |-> h.disc, enc |-> h.enc, newconn |-> h.newconn,
                  requests |-> h.requests, credits |-> h.credits, back |-> h.back]

IsPairing(x) == x = [state |-> x.state, mine |-> x.mine, theirs |-> x.theirs, method |-> x.method, key |-> x.key,
                     peer |-> x.peer, dhkey |-> x.dhkey, na |-> x.na, nb |-> x.nb, confirm |-> x.confirm,
                     mac |-> x.mac, ltk |-> x.ltk, check |-> x.check, accepted |-> x.accepted]

IsCentral(x) == x = [pc |-> x.pc, run |-> x.run, cycle |-> x.cycle, then |-> x.then, smp |-> x.smp,
                     ltk |-> x.ltk, outcome |-> x.outcome, expect |-> x.expect]

IsPeripheral(x) == x = [pc |-> x.pc, conn |-> x.conn, smp |-> x.smp, prompted |-> x.prompted,
                        paired |-> x.paired, summary |-> x.summary]

OnSides(f) == f = [s \in Sides |-> f[s]]

(* An event, with a PDU in it when it is data. *)
IsMessage(e) == IsEvent(e) /\ (e.t = "pdu" => IsPacket(e.v))

Arriving(s) == Els(wire[s]) \cup Els(host[s].back)
Leaving(s) == Els(tosend[s]) \cup Els(air[s])

(* PDUs of s that the other side has not read. *)
OnWay(s) == Leaving(s) \cup {e.v : e \in {x \in Arriving(Other(s)) : x.t = "pdu"}}

InShape(s) ==
    /\ IsSeq(tosend[s]) /\ IsSeq(air[s]) /\ IsSeq(wire[s]) /\ IsLink(host[s]) /\ IsSeq(host[s].back)
    /\ \A e \in Arriving(s) : IsMessage(e)
    /\ \A x \in Leaving(s) : IsPacket(x)

Shapes ==
    /\ setting \in Settings
    /\ OnSides(tosend) /\ OnSides(air) /\ OnSides(wire) /\ OnSides(host)
    /\ \A s \in Sides : InShape(s)
    /\ IsCentral(c) /\ IsPairing(c.smp)
    /\ IsPeripheral(p) /\ (p.smp = <<>> \/ (p.smp = <<p.smp[1]>> /\ IsPairing(p.smp[1])))

(* What an end sends, for all that the air makes of it: nothing is known   *)
(* of the features it says it has.                                         *)
FromCentral(x) ==
    /\ x.code = "public key" => x.val \in {OffCurve, <<"X", 0>>} \/ x.val \in {<<"C", r>> : r \in 1 .. c.run}
    /\ x.code = "dhkey check" => x.val = <<"X">> \/ x.val = f6(x.val[2], x.val[3], x.val[4], IoCap(setting.c), "C", "P")
FromPeripheral(x) ==
    /\ x.code = "dhkey check" =>
           \/ x.val = <<"X">>
           \/ /\ x.val = f6(x.val[2], x.val[3], x.val[4], IoCap(setting.p), "P", "C")
              /\ \A k \in x.val[2][2] : k = <<"C", k[2]>> => k[2] \in 1 .. c.run

Pdus == /\ \A x \in OnWay("C") : FromCentral(x)
        /\ \A x \in OnWay("P") : FromPeripheral(x)

Keyed(x) == x.dhkey = {x.key, x.peer}
Agreed(x) == x.mac = <<"mac", x.dhkey, x.na, x.nb>> /\ x.ltk = <<"ltk", x.dhkey, x.na, x.nb>>

CentralOK ==
    /\ c.run \in Nat \ {0} /\ c.cycle \in Nat
    /\ c.smp.mine = setting.c /\ c.smp.key = <<"C", c.run>> /\ c.smp.state # "wait user"
    /\ c.pc \in {"connect", "connecting", "secreq"} /\ c.cycle = 0 => c.smp.state = "idle"
    /\ c.smp.state \in {"wait public key", "wait confirm", "wait random", "wait dhkey check", "complete"} =>
           c.smp.method = Method(c.smp.mine, c.smp.theirs)
    /\ c.smp.state \in {"wait confirm", "wait random", "wait dhkey check", "complete"} => Keyed(c.smp)
    /\ c.smp.state \in {"wait dhkey check", "complete"} =>
           Agreed(c.smp) /\ c.smp.check = f6(c.smp.mac, c.smp.nb, c.smp.na, IoCap(c.smp.theirs), "P", "C")
    /\ c.smp.state = "complete" => IoCap(c.smp.theirs) = IoCap(setting.p)

ResponderOK(x) ==
    /\ x.mine = setting.p /\ x.key = <<"P", x.key[2]>>
    /\ x.peer \in {<<>>, OffCurve, <<"X", 0>>} \/ x.peer \in {<<"C", r>> : r \in 1 .. c.run}
    /\ x.state \in {"idle", "wait public key"} => x.peer = <<>>
    /\ x.state \in {"wait public key", "wait random", "wait user or check", "complete"} =>
           x.method = Method(x.theirs, x.mine)
    /\ x.state \in {"wait random", "wait user or check", "complete"} => Keyed(x)
    /\ x.state \in {"wait user or check", "complete"} => Agreed(x)
    /\ x.check \in {<<>>, <<"X">>} \/ x.check = f6(x.check[2], x.check[3], x.check[4], IoCap(setting.c), "C", "P")
    /\ x.state = "complete" => IoCap(x.theirs) = IoCap(setting.c)

(* The public key of this run of the central, on its way. *)
KeyPdus == {[code |-> "public key", val |-> c.smp.key, ok |-> b] : b \in BOOLEAN}
KeyEvents == {Event("pdu", x) : x \in KeyPdus}

(* Of the elements of K at most one is in w and b together. *)
Slot(w, b, K) == Lone(w, K) /\ Lone(b, K) /\ (Free(w, K) \/ Free(b, K))

Gone == Free(tosend["C"], KeyPdus) /\ Free(air["C"], KeyPdus)               \* it is not leaving
Arrived == Free(wire["P"], KeyEvents) /\ Free(host["P"].back, KeyEvents)    \* nor arriving
Clear == Gone /\ Arrived

OneKey ==
    /\ Slot(tosend["C"], air["C"], KeyPdus) /\ Slot(wire["P"], host["P"].back, KeyEvents)
    /\ Gone \/ Arrived

Met == HasSmp /\ p.smp[1].peer = c.smp.key

(* A check the responder made with the key of this run. *)
Checks(x) == x.code = "dhkey check" /\ x.val # <<"X">> /\ c.smp.key \in x.val[2][2]

Once == /\ OneKey
        /\ c.smp.state \in {"idle", "wait response"} => Clear /\ ~ Met /\ \A x \in OnWay("P") : ~ Checks(x)
        /\ Met => Clear

Settled(mac) == Clear /\ (Met => p.smp[1].state = "complete" /\ p.smp[1].mac = mac)

Answered ==
    /\ c.smp.state = "complete" => Settled(c.smp.mac)
    /\ \A x \in OnWay("P") : Checks(x) => Settled(x.val[2])

PairInv == /\ Pdus /\ CentralOK /\ (HasSmp => ResponderOK(p.smp[1]))
           /\ Once /\ Answered

ConnEvents == [t : {"conn"}, v : Nat]
DiscEvents == [t : {"disc"}, v : Nat]
Links == {"conn", "disc"}

Numbered(s) == \A e \in Arriving(s) : e.t \in Links => e.v \in Nat
Numbers == conn \in Nat /\ Numbered("C") /\ Numbered("P")

(* The peripheral has at most one connection and one disconnection to hear *)
(* of, both of the last connection, and none of them once it advertises.   *)
PeripheralLink ==
    /\ \A e \in Els(wire["P"]) : e.t \in Links => e.v = conn
    /\ host["P"].newconn \in {0, conn} /\ host["P"].disc \in {0, conn} /\ host["P"].handle \in {0, conn}
    /\ Lone(wire["P"], DiscEvents) /\ Lone(wire["P"], ConnEvents)
    /\ "P" \in up => Free(wire["P"], DiscEvents) /\ host["P"].disc = 0
    /\ host["P"].disc # 0 => Free(wire["P"], DiscEvents)
    /\ host["P"].newconn # 0 => Free(wire["P"], ConnEvents) /\ p.conn = 0
    /\ p.conn # 0 => Free(wire["P"], ConnEvents)
    /\ adv => /\ "P" \notin up /\ Free(wire["P"], DiscEvents) /\ Free(wire["P"], ConnEvents)
              /\ host["P"].newconn = 0 /\ host["P"].disc = 0 /\ host["P"].handle = 0 /\ p.conn = 0

Resting == {"connect", "connecting", "over"}

(* The central initiates only while it waits for the connection, and has   *)
(* no other connection to hear of.                                         *)
CentralWaits ==
    /\ c.pc \in Resting => tosend["C"] = <<>>
    /\ init => c.pc = "connecting" /\ Free(wire["C"], ConnEvents)
    /\ \A e \in Els(host["C"].back) : e.t # "disc"
    /\ c.pc # "over" => Free(host["C"].back, ConnEvents)
    /\ c.pc = "connecting" => Lone(wire["C"], ConnEvents)
    /\ c.pc \notin {"connecting", "over"} => Free(wire["C"], ConnEvents)

(* As for the peripheral, when disconnect() has always had its event. *)
CentralLink ==
    /\ \A e \in Arriving("C") : e.t \in Links => e.v = conn
    /\ host["C"].disc \in {0, conn} /\ host["C"].handle \in {0, conn}
    /\ Lone(wire["C"], DiscEvents)
    /\ "C" \in up => Free(wire["C"], DiscEvents) /\ host["C"].disc = 0
    /\ host["C"].disc # 0 => Free(wire["C"], DiscEvents)
    /\ init \/ c.pc = "connect" => "C" \notin up /\ host["C"].handle = 0 /\ Free(wire["C"], DiscEvents)
    /\ init => host["C"].disc = 0

LinkInv == Numbers /\ PeripheralLink /\ CentralWaits /\ (~ gaveup => CentralLink)

-----------------------------------------------------------------------------
(* Queues: what is in them, and of what there is at most one.              *)

LEMMA IsSeqDom ==
    ASSUME NEW q, IsSeq(q)
    PROVE  Len(q) \in Nat /\ DOMAIN q = 1 .. Len(q) /\ \A i \in 1 .. Len(q) : q[i] \in Els(q)
  BY DEF IsSeq, Els

LEMMA SeqEmpty == IsSeq(<<>>) /\ Els(<<>>) = {} /\ \A K : Lone(<<>>, K) /\ Free(<<>>, K)
  BY DEF IsSeq, Els, Lone, Free

(* A sequence over any set is one over its own elements. *)
LEMMA SeqOwn == ASSUME NEW S, NEW q \in Seq(S) PROVE IsSeq(q)
<1>1. Len(q) \in Nat /\ q = [i \in 1 .. Len(q) |-> q[i]] /\ \A i \in 1 .. Len(q) : q[i] \in Els(q)
  BY DEF Els
<1>2. q \in [1 .. Len(q) -> Els(q)]
  BY <1>1
<1> QED
  BY <1>1, <1>2 DEF IsSeq

LEMMA SeqAppend ==
    ASSUME NEW q, IsSeq(q), NEW e
    PROVE  /\ IsSeq(Append(q, e)) /\ Els(Append(q, e)) = Els(q) \cup {e} /\ Append(q, e) # <<>>
           /\ Len(Append(q, e)) = Len(q) + 1 /\ Append(q, e)[Len(q) + 1] = e
           /\ \A i \in 1 .. Len(q) : Append(q, e)[i] = q[i]
<1> DEFINE S == Els(q) \cup {e}
           a == Append(q, e)
<1>1. q \in Seq(S) /\ e \in S
  <2>1. q \in Seq(Els(q)) /\ Els(q) \subseteq S /\ e \in S
    BY DEF IsSeq
  <2> HIDE DEF S
  <2>2. PICK E : E = Els(q)
    OBVIOUS
  <2>3. q \in Seq(E) /\ E \subseteq S
    BY <2>1, <2>2
  <2>4. Len(q) \in Nat /\ q \in [1 .. Len(q) -> S]
    BY <2>3
  <2> QED
    BY <2>1, <2>4
<1>2. a \in Seq(S) /\ Len(a) = Len(q) + 1 /\ a[Len(q) + 1] = e /\ \A i \in 1 .. Len(q) : a[i] = q[i]
  <2> HIDE DEF S
  <2> QED
    BY <1>1
<1>3. Len(q) \in Nat
  BY IsSeqDom
<1> HIDE DEF a
<1>4. Els(a) = S
  <2>1. \A i \in 1 .. Len(q) : i \in 1 .. Len(a)
    BY <1>2, <1>3
  <2>2. Len(q) + 1 \in 1 .. Len(a)
    BY <1>2, <1>3
  <2>3. \A i \in 1 .. Len(a) : i = Len(q) + 1 \/ i \in 1 .. Len(q)
    BY <1>2, <1>3
  <2> QED
    BY <1>2, <2>1, <2>2, <2>3 DEF Els
<1>5. IsSeq(a) /\ a # <<>>
  BY <1>2, <1>3, <1>4 DEF IsSeq
<1> QED
  BY <1>2, <1>4, <1>5 DEF a

LEMMA SeqTail ==
    ASSUME NEW q, IsSeq(q), q # <<>>
    PROVE  /\ IsSeq(Tail(q)) /\ Head(q) \in Els(q) /\ Els(q) = {Head(q)} \cup Els(Tail(q))
           /\ Head(q) = q[1] /\ Len(Tail(q)) = Len(q) - 1 /\ Len(q) \in Nat \ {0}
           /\ \A i \in 1 .. Len(q) - 1 : Tail(q)[i] = q[i + 1]
<1> DEFINE S == Els(q)
           a == Tail(q)
<1>1. q \in Seq(S)
  BY DEF IsSeq
<1>2. /\ a \in Seq(S) /\ Len(a) = Len(q) - 1 /\ Head(q) = q[1] /\ Len(q) \in Nat \ {0}
      /\ \A i \in 1 .. Len(q) - 1 : a[i] = q[i + 1]
  <2> HIDE DEF S
  <2> QED
    BY <1>1
<1>3. IsSeq(a)
  BY <1>2, SeqOwn
<1> HIDE DEF a
<1>4. Els(q) = {q[1]} \cup Els(a)
  <2>1. ASSUME NEW i \in 1 .. Len(q) PROVE q[i] \in {q[1]} \cup Els(a)
    <3>1. CASE i = 1
      BY <3>1
    <3>2. CASE i # 1
      <4>1. i - 1 \in 1 .. Len(q) - 1 /\ (i - 1) + 1 = i /\ i - 1 \in 1 .. Len(a)
        BY <1>2, <3>2
      <4> QED
        BY <1>2, <4>1 DEF Els
    <3> QED
      BY <3>1, <3>2
  <2>2. ASSUME NEW i \in 1 .. Len(a) PROVE a[i] \in Els(q)
    <3>1. i + 1 \in 1 .. Len(q) /\ i \in 1 .. Len(q) - 1
      BY <1>2
    <3> QED
      BY <1>2, <3>1 DEF Els
  <2>3. q[1] \in Els(q)
    BY <1>2 DEF Els
  <2> QED
    BY <2>1, <2>2, <2>3 DEF Els
<1>5. Head(q) \in Els(q)
  BY <1>2, <1>4
<1> QED
  BY <1>2, <1>3, <1>4, <1>5 DEF a

LEMMA FreeEls == ASSUME NEW q, NEW K PROVE Free(q, K) <=> Els(q) \cap K = {}
  BY DEF Free, Els

LEMMA FreeLone == ASSUME NEW q, NEW K, Free(q, K) PROVE Lone(q, K)
  BY DEF Free, Lone

LEMMA FreeAppend ==
    ASSUME NEW q, IsSeq(q), NEW e, NEW K, Free(q, K), e \notin K PROVE Free(Append(q, e), K)
  BY FreeEls, SeqAppend

LEMMA FreeTail ==
    ASSUME NEW q, IsSeq(q), q # <<>>, NEW K, Free(q, K) PROVE Free(Tail(q), K) /\ Head(q) \notin K
  BY FreeEls, SeqTail

LEMMA LoneAppend ==
    ASSUME NEW q, IsSeq(q), NEW e, NEW K, Lone(q, K), e \notin K \/ Free(q, K)
    PROVE  Lone(Append(q, e), K)
<1> DEFINE a == Append(q, e)
<1>1. Len(q) \in Nat /\ Len(a) = Len(q) + 1 /\ a[Len(q) + 1] = e /\ \A i \in 1 .. Len(q) : a[i] = q[i]
  BY SeqAppend, IsSeqDom
<1> HIDE DEF a
<1>2. \A i \in 1 .. Len(a) : i = Len(q) + 1 \/ i \in 1 .. Len(q)
  BY <1>1
<1>3. Lone(a, K)
  BY <1>1, <1>2 DEF Lone, Free
<1> QED
  BY <1>3 DEF a

LEMMA LoneTail ==
    ASSUME NEW q, IsSeq(q), q # <<>>, NEW K, Lone(q, K)
    PROVE  Lone(Tail(q), K) /\ (Head(q) \in K => Free(Tail(q), K))
<1> DEFINE a == Tail(q)
<1>1. /\ Len(a) = Len(q) - 1 /\ Head(q) = q[1] /\ Len(q) \in Nat \ {0}
      /\ \A i \in 1 .. Len(q) - 1 : a[i] = q[i + 1]
  BY SeqTail
<1> HIDE DEF a
<1>2. \A i \in 1 .. Len(a) : i + 1 \in 1 .. Len(q) /\ i + 1 # 1 /\ 1 \in 1 .. Len(q) /\ a[i] = q[i + 1] /\ i \in Nat
  BY <1>1
<1>3. Lone(a, K)
  <2> SUFFICES ASSUME NEW i \in 1 .. Len(a), NEW j \in 1 .. Len(a), a[i] \in K, a[j] \in K PROVE i = j
    BY DEF Lone
  <2>1. i + 1 = j + 1
    BY <1>2 DEF Lone
  <2> QED
    BY <2>1
<1>4. Head(q) \in K => Free(a, K)
  BY <1>1, <1>2 DEF Lone, Free
<1> QED
  BY <1>3, <1>4 DEF a

-----------------------------------------------------------------------------
(* A command hears all that is on the way: the table of command() exists   *)
(* and what each row of it has heard.                                      *)

LEMMA LeastNatural ==
    ASSUME NEW B, B \subseteq Nat, B # {}
    PROVE  \E n \in B : \A m \in B : n <= m
<1> DEFINE R == OpToRel(<, Nat)
<1>1. PICK n \in B : \A m \in B : <<m, n>> \notin R
  BY NatLessThanWellFounded, WFMin
<1>2. ASSUME NEW m \in B PROVE n <= m
  <2>1. m \in Nat /\ n \in Nat
    OBVIOUS
  <2>2. <<m, n>> \in R <=> m < n
    BY <2>1 DEF OpToRel
  <2> HIDE DEF R
  <2> QED
    BY <1>1, <2>1, <2>2
<1> QED
  BY <1>2

(* What reading an event does to a host. *)
LEMMA OnEvent ==
    ASSUME NEW s, NEW g, IsLink(g), NEW e
    PROVE  LET h == _on_event(s, g, e)
           IN  /\ IsLink(h) /\ h.handle = g.handle /\ h.back = g.back
               /\ h.disc = IF e.t = "disc" THEN e.v ELSE g.disc
               /\ h.newconn = IF e.t = "conn" /\ s = "P" THEN e.v ELSE g.newconn
<1>1. CASE e.t = "disc"
  BY <1>1 DEF _on_event, IsLink
<1>2. CASE e.t = "enc" /\ s = "C"
  BY <1>2 DEF _on_event, IsLink
<1>3. CASE e.t = "completed"
  BY <1>3 DEF _on_event, IsLink
<1>4. CASE e.t = "ltk request"
  BY <1>4 DEF _on_event, IsLink
<1>5. CASE e.t = "conn" /\ s = "P"
  BY <1>5 DEF _on_event, IsLink
<1>6. CASE /\ e.t # "disc" /\ ~ (e.t = "enc" /\ s = "C") /\ e.t # "completed" /\ e.t # "ltk request"
           /\ ~ (e.t = "conn" /\ s = "P")
  BY <1>6 DEF _on_event, IsLink
<1> QED
  BY <1>1, <1>2, <1>3, <1>4, <1>5, <1>6

Hears(s, g, e) == PutsBack(_on_event(s, g, e), e)

LEMMA HearsOne ==
    ASSUME NEW s, NEW g, IsLink(g), IsSeq(g.back), NEW e
    PROVE  LET h == Hears(s, g, e)
           IN  /\ IsLink(h) /\ IsSeq(h.back) /\ h.handle = g.handle
               /\ h.disc = IF e.t = "disc" THEN e.v ELSE g.disc
               /\ h.newconn = IF e.t = "conn" /\ s = "P" THEN e.v ELSE g.newconn
               /\ h.back = IF e.t \in {"pdu", "conn"} THEN Append(g.back, e) ELSE g.back
<1>1. PICK k : k = _on_event(s, g, e)
  OBVIOUS
<1>2. /\ IsLink(k) /\ k.handle = g.handle /\ k.back = g.back
      /\ k.disc = IF e.t = "disc" THEN e.v ELSE g.disc
      /\ k.newconn = IF e.t = "conn" /\ s = "P" THEN e.v ELSE g.newconn
  BY <1>1, OnEvent
<1>3. IsSeq(Append(g.back, e))
  BY SeqAppend
<1>4. CASE e.t \in {"pdu", "conn"}
  BY <1>1, <1>2, <1>3, <1>4 DEF Hears, PutsBack, IsLink
<1>5. CASE e.t \notin {"pdu", "conn"}
  BY <1>1, <1>2, <1>5 DEF Hears, PutsBack
<1> QED
  BY <1>4, <1>5

(* The host after each of the first n events. *)
Table(s, w, h, n, f) == f = [i \in 0 .. n |-> IF i = 0 THEN h ELSE Hears(s, f[i - 1], w[i])]

LEMMA TableExists ==
    ASSUME NEW s, NEW w, NEW h, NEW n \in Nat
    PROVE  \E f : Table(s, w, h, n, f)
<1> DEFINE B == {m \in Nat : ~ \E f : Table(s, w, h, m, f)}
<1> SUFFICES ASSUME B # {} PROVE FALSE
  OBVIOUS
<1>1. PICK m \in B : \A k \in B : m <= k
  <2>1. B \subseteq Nat
    OBVIOUS
  <2> HIDE DEF B
  <2> QED
    BY <2>1, LeastNatural
<1>2. m # 0
  <2>1. Table(s, w, h, 0, [i \in 0 .. 0 |-> h])
    BY DEF Table
  <2> QED
    BY <2>1
<1>3. m - 1 \in Nat /\ m - 1 \notin B
  BY <1>1, <1>2
<1>4. PICK f : Table(s, w, h, m - 1, f)
  BY <1>3
<1> DEFINE g == [i \in 0 .. m |-> IF i < m THEN f[i] ELSE Hears(s, f[m - 1], w[m])]
           k == [i \in 0 .. m |-> IF i = 0 THEN h ELSE Hears(s, g[i - 1], w[i])]
<1>5. ASSUME NEW i \in 0 .. m PROVE g[i] = k[i]
  <2>1. \A j \in 0 .. m - 1 : f[j] = IF j = 0 THEN h ELSE Hears(s, f[j - 1], w[j])
    <3>1. PICK l \in Nat : l = m - 1
      BY <1>3
    <3> QED
      BY <1>4, <3>1 DEF Table
  <2>2. i # 0 => i - 1 \in 0 .. m /\ i - 1 < m /\ i - 1 \in 0 .. m - 1
    BY <1>3
  <2>3. i < m => i \in 0 .. m - 1
    BY <1>3
  <2> QED
    BY <2>1, <2>2, <2>3, <1>2
<1>6. g = k
  BY <1>5
<1>7. Table(s, w, h, m, g)
  <2>1. Table(s, w, h, m, g) <=> g = k
    BY DEF Table
  <2> QED
    BY <1>6, <2>1
<1> QED
  BY <1>7

LEMMA CommandTable ==
    ASSUME NEW s, NEW h, IsSeq(wire[s])
    PROVE  \E f : /\ command(s, h) = f[Len(wire[s])] /\ f[0] = h
                  /\ \A i \in 1 .. Len(wire[s]) : f[i] = Hears(s, f[i - 1], wire[s][i])
<1> DEFINE f == CHOOSE g : Table(s, wire[s], h, Len(wire[s]), g)
           l == Len(wire[s])
<1>1. l \in Nat
  BY IsSeqDom
<1>2. Table(s, wire[s], h, l, f)
  BY <1>1, TableExists
<1>3. command(s, h) = f[l]
  BY DEF command, Table, Hears
<1> HIDE DEF f, l
<1>4. \A i \in 0 .. l : f[i] = IF i = 0 THEN h ELSE Hears(s, f[i - 1], wire[s][i])
  BY <1>2 DEF Table
<1>5. f[0] = h /\ \A i \in 1 .. l : f[i] = Hears(s, f[i - 1], wire[s][i])
  <2>1. 0 \in 0 .. l /\ \A i \in 1 .. l : i \in 0 .. l /\ i # 0
    BY <1>1
  <2> QED
    BY <1>4, <2>1
<1> QED
  BY <1>3, <1>5 DEF l

(* What a host h has come to after the first n events of w. *)
Heard(s, w, h, n, g) ==
    /\ IsLink(g) /\ IsSeq(g.back) /\ g.handle = h.handle
    /\ \A e \in Els(g.back) : e \in Els(h.back) \/ \E i \in 1 .. n : e = w[i] /\ e.t \in {"pdu", "conn"}
    /\ g.disc = h.disc \/ \E i \in 1 .. n : w[i].t = "disc" /\ g.disc = w[i].v
    /\ g.newconn = h.newconn \/ (s = "P" /\ \E i \in 1 .. n : w[i].t = "conn" /\ g.newconn = w[i].v)
    /\ \A K : Free(h.back, K) /\ Lone(w, K) => Lone(g.back, K)
    /\ \A K : Lone(h.back, K) /\ Free(w, K) => Lone(g.back, K)

LEMMA HeardNext ==
    ASSUME NEW s, NEW w, IsSeq(w), NEW h, NEW n \in 1 .. Len(w), NEW g, Heard(s, w, h, n - 1, g)
    PROVE  Heard(s, w, h, n, Hears(s, g, w[n]))
<1>0. Len(w) \in Nat
  BY IsSeqDom
<1>1. \A i \in 1 .. n - 1 : i \in 1 .. n /\ i \in 1 .. Len(w) /\ i # n
  BY <1>0
<1>1a. n \in 1 .. n
  BY <1>0
<1>2. PICK e : e = w[n]
  OBVIOUS
<1>3. PICK k : k = Hears(s, g, e)
  OBVIOUS
<1>4. /\ IsLink(k) /\ IsSeq(k.back) /\ k.handle = g.handle
      /\ k.disc = IF e.t = "disc" THEN e.v ELSE g.disc
      /\ k.newconn = IF e.t = "conn" /\ s = "P" THEN e.v ELSE g.newconn
      /\ k.back = IF e.t \in {"pdu", "conn"} THEN Append(g.back, e) ELSE g.back
  BY <1>3, HearsOne DEF Heard
<1>5. \A x \in Els(k.back) : x \in Els(g.back) \/ (x = e /\ e.t \in {"pdu", "conn"})
  BY <1>4, SeqAppend DEF Heard
<1>6. \A x \in Els(k.back) : x \in Els(h.back) \/ \E i \in 1 .. n : x = w[i] /\ x.t \in {"pdu", "conn"}
  BY <1>1, <1>1a, <1>2, <1>5 DEF Heard
<1>7. k.disc = h.disc \/ \E i \in 1 .. n : w[i].t = "disc" /\ k.disc = w[i].v
  BY <1>1, <1>1a, <1>2, <1>4 DEF Heard
<1>8. k.newconn = h.newconn \/ (s = "P" /\ \E i \in 1 .. n : w[i].t = "conn" /\ k.newconn = w[i].v)
  BY <1>1, <1>1a, <1>2, <1>4 DEF Heard
<1>9. ASSUME NEW K, Free(h.back, K), Lone(w, K) PROVE Lone(k.back, K)
  <2>1. Lone(g.back, K)
    BY <1>9 DEF Heard
  <2>2. ASSUME e \in K PROVE Free(g.back, K)
    <3>1. ASSUME NEW x \in Els(g.back), x \in K PROVE FALSE
      <4>1. x \notin Els(h.back)
        BY <1>9, <3>1, FreeEls
      <4>2. PICK i \in 1 .. n - 1 : x = w[i]
        BY <4>1 DEF Heard
      <4> QED
        BY <1>1, <1>2, <1>9, <2>2, <3>1, <4>2 DEF Lone
    <3> QED
      BY <3>1, FreeEls
  <2>3. Lone(Append(g.back, e), K)
    BY <2>1, <2>2, LoneAppend DEF Heard
  <2> QED
    BY <1>4, <2>1, <2>3
<1>10. ASSUME NEW K, Lone(h.back, K), Free(w, K) PROVE Lone(k.back, K)
  <2>1. Lone(g.back, K)
    BY <1>10 DEF Heard
  <2>2. e \notin K
    BY <1>2, <1>10 DEF Free
  <2>3. Lone(Append(g.back, e), K)
    BY <2>1, <2>2, LoneAppend DEF Heard
  <2> QED
    BY <1>4, <2>1, <2>3
<1>11. k.handle = h.handle
  BY <1>4 DEF Heard
<1>12. Heard(s, w, h, n, k)
  BY <1>4, <1>6, <1>7, <1>8, <1>9, <1>10, <1>11 DEF Heard
<1> QED
  BY <1>2, <1>3, <1>12

LEMMA CommandHeard ==
    ASSUME NEW s, NEW h, IsLink(h), IsSeq(h.back), IsSeq(wire[s])
    PROVE  Heard(s, wire[s], h, Len(wire[s]), command(s, h))
<1>1. PICK w : w = wire[s]
  OBVIOUS
<1>2. PICK f : /\ command(s, h) = f[Len(w)] /\ f[0] = h
               /\ \A i \in 1 .. Len(w) : f[i] = Hears(s, f[i - 1], w[i])
  BY <1>1, CommandTable
<1>3. IsSeq(w) /\ Len(w) \in Nat
  BY <1>1, IsSeqDom
<1> DEFINE B == {n \in 0 .. Len(w) : ~ Heard(s, w, h, n, f[n])}
<1>4. ASSUME B # {} PROVE FALSE
  <2>1. PICK m \in B : \A k \in B : m <= k
    <3>1. B \subseteq Nat
      BY <1>3
    <3> HIDE DEF B
    <3> QED
      BY <1>4, <3>1, LeastNatural
  <2>2. m \in 0 .. Len(w) /\ ~ Heard(s, w, h, m, f[m])
    OBVIOUS
  <2>3. Heard(s, w, h, 0, h)
    <3>1. \A K : Free(h.back, K) => Lone(h.back, K)
      BY FreeLone
    <3> QED
      BY <3>1 DEF Heard
  <2>4. m # 0
    BY <1>2, <2>2, <2>3
  <2>5. m \in 1 .. Len(w) /\ m - 1 \in 0 .. Len(w) /\ ~(m <= m - 1)
    BY <1>3, <2>2, <2>4
  <2>6. m - 1 \notin B
    <3> HIDE DEF B
    <3> QED
      BY <2>1, <2>5
  <2>7. Heard(s, w, h, m - 1, f[m - 1])
    BY <2>5, <2>6
  <2>8. Heard(s, w, h, m, Hears(s, f[m - 1], w[m]))
    BY <1>3, <2>5, <2>7, HeardNext
  <2> QED
    BY <1>2, <2>2, <2>5, <2>8
<1>5. Heard(s, w, h, Len(w), f[Len(w)])
  BY <1>3, <1>4
<1> QED
  BY <1>1, <1>2, <1>5

(* A command: what it keeps, and where what it has put back is from. *)
LEMMA Commands ==
    ASSUME NEW s, NEW h, IsLink(h), IsSeq(h.back), IsSeq(wire[s])
    PROVE  LET r == command(s, h)
           IN  /\ IsLink(r) /\ IsSeq(r.back) /\ r.handle = h.handle
               /\ \A e \in Els(r.back) : e \in Els(h.back) \/ (e \in Els(wire[s]) /\ e.t \in {"pdu", "conn"})
               /\ r.disc = h.disc \/ \E e \in Els(wire[s]) : e.t = "disc" /\ r.disc = e.v
               /\ r.newconn = h.newconn \/ (s = "P" /\ \E e \in Els(wire[s]) : e.t = "conn" /\ r.newconn = e.v)
               /\ \A K : Free(h.back, K) /\ Lone(wire[s], K) => Lone(r.back, K)
               /\ \A K : Lone(h.back, K) /\ Free(wire[s], K) => Lone(r.back, K)
<1>1. PICK w : w = wire[s]
  OBVIOUS
<1>2. PICK r : r = command(s, h)
  OBVIOUS
<1>3. Heard(s, w, h, Len(w), r)
  BY <1>1, <1>2, CommandHeard
<1>4. \A i \in 1 .. Len(w) : w[i] \in Els(w)
  BY DEF Els
<1>5. /\ IsLink(r) /\ IsSeq(r.back) /\ r.handle = h.handle
      /\ \A e \in Els(r.back) : e \in Els(h.back) \/ (e \in Els(w) /\ e.t \in {"pdu", "conn"})
      /\ r.disc = h.disc \/ \E e \in Els(w) : e.t = "disc" /\ r.disc = e.v
      /\ r.newconn = h.newconn \/ (s = "P" /\ \E e \in Els(w) : e.t = "conn" /\ r.newconn = e.v)
  BY <1>3, <1>4 DEF Heard
<1>6. /\ \A K : Free(h.back, K) /\ Lone(w, K) => Lone(r.back, K)
      /\ \A K : Lone(h.back, K) /\ Free(w, K) => Lone(r.back, K)
  BY <1>3 DEF Heard
<1> QED
  BY <1>1, <1>2, <1>5, <1>6

-----------------------------------------------------------------------------
(* Events that arrive: they keep their order, are read, or are dropped.    *)

(* What comes in at a side keeps its place or goes: (w, b) are its events  *)
(* before, (w2, b2) after, and nothing but notices was added.              *)
Recv(w, b, w2, b2) ==
    /\ IsSeq(w2) /\ IsSeq(b2)
    /\ \A e \in Els(w2) \cup Els(b2) : e \in Els(w) \cup Els(b) \/ (IsEvent(e) /\ e.t # "pdu")
    /\ \A K : (\A x \in K : x.t = "pdu") /\ Slot(w, b, K) => Slot(w2, b2, K)

LEMMA RecvSame == ASSUME NEW w, NEW b, IsSeq(w), IsSeq(b) PROVE Recv(w, b, w, b)
  BY DEF Recv

LEMMA RecvNone == ASSUME NEW w, NEW b PROVE Recv(w, b, <<>>, <<>>)
  BY SeqEmpty DEF Recv, Slot

LEMMA RecvAppend ==
    ASSUME NEW w, NEW b, NEW w2, NEW b2, Recv(w, b, w2, b2), NEW e, IsEvent(e), e.t # "pdu"
    PROVE  Recv(w, b, Append(w2, e), b2)
<1>1. IsSeq(Append(w2, e)) /\ Els(Append(w2, e)) = Els(w2) \cup {e}
  BY SeqAppend DEF Recv
<1>2. ASSUME NEW K, \A x \in K : x.t = "pdu", Slot(w2, b2, K) PROVE Slot(Append(w2, e), b2, K)
  <2>1. e \notin K /\ IsSeq(w2)
    BY <1>2 DEF Recv
  <2>2. Lone(Append(w2, e), K)
    BY <1>2, <2>1, LoneAppend DEF Slot
  <2>3. Free(w2, K) => Free(Append(w2, e), K)
    BY <2>1, FreeAppend
  <2> QED
    BY <1>2, <2>2, <2>3 DEF Slot
<1> QED
  BY <1>1, <1>2 DEF Recv

LEMMA RecvCommand ==
    ASSUME NEW s, NEW h, IsLink(h), IsSeq(h.back), IsSeq(wire[s])
    PROVE  Recv(wire[s], h.back, <<>>, command(s, h).back) /\ IsLink(command(s, h))
<1>1. PICK w : w = wire[s]
  OBVIOUS
<1>2. PICK r : r = command(s, h)
  OBVIOUS
<1>3. /\ IsLink(r) /\ IsSeq(r.back)
      /\ \A e \in Els(r.back) : e \in Els(h.back) \/ (e \in Els(w) /\ e.t \in {"pdu", "conn"})
      /\ \A K : Free(h.back, K) /\ Lone(w, K) => Lone(r.back, K)
      /\ \A K : Lone(h.back, K) /\ Free(w, K) => Lone(r.back, K)
  BY <1>1, <1>2, Commands
<1>4. ASSUME NEW K, Slot(w, h.back, K) PROVE Slot(<<>>, r.back, K)
  BY <1>3, <1>4, SeqEmpty DEF Slot
<1>5. Recv(w, h.back, <<>>, r.back)
  BY <1>3, <1>4, SeqEmpty DEF Recv
<1> QED
  BY <1>1, <1>2, <1>3, <1>5

(* Reading one packet. *)
LEMMA Reading ==
    ASSUME NEW s, IsLink(host[s]), IsSeq(host[s].back), IsSeq(wire[s]), CanRead(s)
    PROVE  LET r == read_packet(s)
           IN  /\ Recv(wire[s], host[s].back, r.w, r.h.back) /\ IsLink(r.h)
               /\ r.e \in Els(wire[s]) \cup Els(host[s].back)
               /\ \A K : Slot(wire[s], host[s].back, K) /\ r.e \in K => Free(r.w, K) /\ Free(r.h.back, K)
               /\ r.h.handle = host[s].handle
<1>1. PICK w, h : w = wire[s] /\ h = host[s]
  OBVIOUS
<1>2. PICK r : r = read_packet(s)
  OBVIOUS
<1>3. CASE h.back # <<>>
  <2>1. r.e = Head(h.back) /\ r.h = [h EXCEPT !.back = Tail(h.back)] /\ r.w = w
    BY <1>1, <1>2, <1>3 DEF read_packet
  <2>2. IsLink(r.h) /\ r.h.back = Tail(h.back) /\ r.h.handle = h.handle
    BY <1>1, <2>1 DEF IsLink
  <2>3. IsSeq(Tail(h.back)) /\ Head(h.back) \in Els(h.back) /\ Els(Tail(h.back)) \subseteq Els(h.back)
    BY <1>1, <1>3, SeqTail
  <2>4. ASSUME NEW K, Slot(w, h.back, K)
        PROVE  Slot(w, Tail(h.back), K) /\ (r.e \in K => Free(w, K) /\ Free(Tail(h.back), K))
    <3>1. Lone(Tail(h.back), K) /\ (r.e \in K => Free(Tail(h.back), K))
      BY <1>1, <1>3, <2>1, <2>4, LoneTail DEF Slot
    <3>2. Free(h.back, K) => Free(Tail(h.back), K)
      BY <1>1, <1>3, FreeTail
    <3>3. r.e \in K => ~ Free(h.back, K)
      BY <2>1, <2>3, FreeEls
    <3> QED
      BY <2>4, <3>1, <3>2, <3>3 DEF Slot
  <2>5. Recv(w, h.back, r.w, r.h.back)
    BY <1>1, <2>1, <2>2, <2>3, <2>4 DEF Recv
  <2> QED
    BY <1>1, <1>2, <2>1, <2>2, <2>3, <2>4, <2>5
<1>4. CASE h.back = <<>>
  <2>0. w # <<>>
    BY <1>1, <1>4 DEF CanRead
  <2>1. r.e = Head(w) /\ r.h = _on_event(s, h, Head(w)) /\ r.w = Tail(w)
    BY <1>1, <1>2, <1>4 DEF read_packet
  <2>2. IsLink(r.h) /\ r.h.back = h.back /\ r.h.handle = h.handle
    BY <1>1, <2>1, OnEvent
  <2>3. IsSeq(Tail(w)) /\ Head(w) \in Els(w) /\ Els(Tail(w)) \subseteq Els(w)
    BY <1>1, <2>0, SeqTail
  <2>4. ASSUME NEW K, Slot(w, h.back, K)
        PROVE  Slot(Tail(w), h.back, K) /\ (r.e \in K => Free(Tail(w), K) /\ Free(h.back, K))
    <3>1. Lone(Tail(w), K) /\ (r.e \in K => Free(Tail(w), K))
      BY <1>1, <2>0, <2>1, <2>4, LoneTail DEF Slot
    <3>2. Free(h.back, K)
      BY <1>4, SeqEmpty
    <3> QED
      BY <2>4, <3>1, <3>2 DEF Slot
  <2>5. Recv(w, h.back, r.w, r.h.back)
    BY <1>1, <2>1, <2>2, <2>3, <2>4 DEF Recv
  <2> QED
    BY <1>1, <1>2, <2>1, <2>2, <2>3, <2>4, <2>5
<1> QED
  BY <1>3, <1>4

LEMMA AtC == ASSUME NEW f, OnSides(f), NEW x
             PROVE  LET g == [f EXCEPT !["C"] = x] IN OnSides(g) /\ g["C"] = x /\ g["P"] = f["P"]
  BY DEF OnSides, Sides
LEMMA AtP == ASSUME NEW f, OnSides(f), NEW x
             PROVE  LET g == [f EXCEPT !["P"] = x] IN OnSides(g) /\ g["P"] = x /\ g["C"] = f["C"]
  BY DEF OnSides, Sides

Received(s) == Recv(wire[s], host[s].back, wire'[s], host'[s].back) /\ IsLink(host'[s])
Kept(s) == wire'[s] = wire[s] /\ host'[s] = host[s]
Reception == OnSides(wire') /\ OnSides(host') /\ Received("C") /\ Received("P")

LEMMA ShapesSide ==
    ASSUME Shapes, NEW s \in Sides
    PROVE  /\ IsSeq(wire[s]) /\ IsLink(host[s]) /\ IsSeq(host[s].back) /\ OnSides(wire) /\ OnSides(host)
           /\ IsSeq(tosend[s]) /\ IsSeq(air[s]) /\ OnSides(tosend) /\ OnSides(air)
  BY DEF Shapes, InShape

LEMMA Both == "C" \in Sides /\ "P" \in Sides /\ \A s \in Sides : s = "C" \/ s = "P"
  BY DEF Sides

LEMMA KeptReceived == ASSUME Shapes, NEW s \in Sides, Kept(s) PROVE Received(s)
  BY ShapesSide, RecvSame DEF Kept, Received

(* Only the host fields of s other than back change. *)
LEMMA FieldsReceived ==
    ASSUME Shapes, NEW s \in Sides, wire'[s] = wire[s], IsLink(host'[s]), host'[s].back = host[s].back
    PROVE  Received(s)
  BY ShapesSide, RecvSame DEF Received

LEMMA ReadReceived ==
    ASSUME Shapes, NEW s \in Sides, CanRead(s), Reads(s)
    PROVE  /\ OnSides(wire') /\ OnSides(host') /\ Received(s)
           /\ host'[s] = read_packet(s).h /\ wire'[s] = read_packet(s).w
           /\ \A t \in Sides \ {s} : Kept(t)
<1>1. IsLink(read_packet(s).h) /\ Recv(wire[s], host[s].back, read_packet(s).w, read_packet(s).h.back)
  BY ShapesSide, Reading
<1>2. CASE s = "C"
  <2>1. PICK w, h : w = read_packet(s).w /\ h = read_packet(s).h
    OBVIOUS
  <2>2. wire' = [wire EXCEPT !["C"] = w] /\ host' = [host EXCEPT !["C"] = h]
    BY <1>2, <2>1 DEF Reads
  <2>3. OnSides(wire) /\ OnSides(host)
    BY ShapesSide
  <2>4. /\ OnSides(wire') /\ wire'["C"] = w /\ wire'["P"] = wire["P"]
        /\ OnSides(host') /\ host'["C"] = h /\ host'["P"] = host["P"]
    BY ONLY <2>2, <2>3, AtC
  <2> QED
    BY <1>1, <1>2, <2>1, <2>4 DEF Received, Kept, Sides
<1>3. CASE s = "P"
  <2>1. PICK w, h : w = read_packet(s).w /\ h = read_packet(s).h
    OBVIOUS
  <2>2. wire' = [wire EXCEPT !["P"] = w] /\ host' = [host EXCEPT !["P"] = h]
    BY <1>3, <2>1 DEF Reads
  <2>3. OnSides(wire) /\ OnSides(host)
    BY ShapesSide
  <2>4. /\ OnSides(wire') /\ wire'["P"] = w /\ wire'["C"] = wire["C"]
        /\ OnSides(host') /\ host'["P"] = h /\ host'["C"] = host["C"]
    BY ONLY <2>2, <2>3, AtP
  <2> QED
    BY <1>1, <1>3, <2>1, <2>4 DEF Received, Kept, Sides
<1> QED
  BY <1>2, <1>3, Both

LEMMA CommandReceived ==
    ASSUME Shapes, NEW s \in Sides, NEW h, IsLink(h), h.back = host[s].back,
           host'[s] = command(s, h), wire'[s] = <<>>
    PROVE  Received(s)
<1>1. IsSeq(h.back) /\ IsSeq(wire[s])
  BY ShapesSide
<1>2. Recv(wire[s], h.back, <<>>, command(s, h).back) /\ IsLink(command(s, h))
  BY <1>1, RecvCommand
<1> QED
  BY <1>2 DEF Received

(* The central reads or commands, the peripheral's side is left alone. *)
LEMMA CentralReads == ASSUME Shapes, CanRead("C"), Reads("C") PROVE Reception /\ Kept("P")
<1>1. OnSides(wire') /\ OnSides(host') /\ Received("C") /\ Kept("P")
  BY Both, ReadReceived
<1> QED
  BY <1>1, Both, KeptReceived DEF Reception

LEMMA PeripheralReads == ASSUME Shapes, CanRead("P"), Reads("P") PROVE Reception /\ Kept("C")
<1>1. OnSides(wire') /\ OnSides(host') /\ Received("P") /\ Kept("C")
  BY Both, ReadReceived
<1> QED
  BY <1>1, Both, KeptReceived DEF Reception

LEMMA NothingReads == ASSUME Shapes, wire' = wire, host' = host PROVE Reception /\ Kept("C") /\ Kept("P")
<1>1. Kept("C") /\ Kept("P") /\ OnSides(wire') /\ OnSides(host')
  BY Both, ShapesSide DEF Kept
<1> QED
  BY <1>1, Both, KeptReceived DEF Reception

LEMMA CentralCommands ==
    ASSUME Shapes, NEW h, IsLink(h), h.back = host["C"].back,
           host' = [host EXCEPT !["C"] = command("C", h)], wire' = [wire EXCEPT !["C"] = <<>>]
    PROVE  Reception /\ Kept("P") /\ host'["C"] = command("C", h) /\ wire'["C"] = <<>>
<1>1. /\ OnSides(wire') /\ wire'["C"] = <<>> /\ wire'["P"] = wire["P"]
      /\ OnSides(host') /\ host'["C"] = command("C", h) /\ host'["P"] = host["P"]
  BY Both, ShapesSide, AtC
<1>2. Received("C") /\ Kept("P")
  BY <1>1, Both, CommandReceived DEF Kept
<1> QED
  BY <1>1, <1>2, Both, KeptReceived DEF Reception

LEMMA PeripheralCommands ==
    ASSUME Shapes, NEW h, IsLink(h), h.back = host["P"].back,
           host' = [host EXCEPT !["P"] = command("P", h)], wire' = [wire EXCEPT !["P"] = <<>>]
    PROVE  Reception /\ Kept("C") /\ host'["P"] = command("P", h) /\ wire'["P"] = <<>>
<1>1. /\ OnSides(wire') /\ wire'["P"] = <<>> /\ wire'["C"] = wire["C"]
      /\ OnSides(host') /\ host'["P"] = command("P", h) /\ host'["C"] = host["C"]
  BY Both, ShapesSide, AtP
<1>2. Received("P") /\ Kept("C")
  BY <1>1, Both, CommandReceived DEF Kept
<1> QED
  BY <1>1, <1>2, Both, KeptReceived DEF Reception

(* The host's fields change, not what it has put back. *)
LEMMA FieldsC ==
    ASSUME Shapes, NEW h, IsLink(h), h.back = host["C"].back, host' = [host EXCEPT !["C"] = h], wire' = wire
    PROVE  Reception /\ Kept("P") /\ host'["C"] = h
<1>1. /\ OnSides(wire') /\ wire'["C"] = wire["C"] /\ wire'["P"] = wire["P"]
      /\ OnSides(host') /\ host'["C"] = h /\ host'["P"] = host["P"]
  BY Both, ShapesSide, AtC
<1>2. Received("C") /\ Kept("P")
  BY <1>1, Both, FieldsReceived DEF Kept
<1> QED
  BY <1>1, <1>2, Both, KeptReceived DEF Reception

LEMMA FieldsP ==
    ASSUME Shapes, NEW h, IsLink(h), h.back = host["P"].back, host' = [host EXCEPT !["P"] = h], wire' = wire
    PROVE  Reception /\ Kept("C") /\ host'["P"] = h
<1>1. /\ OnSides(wire') /\ wire'["C"] = wire["C"] /\ wire'["P"] = wire["P"]
      /\ OnSides(host') /\ host'["P"] = h /\ host'["C"] = host["C"]
  BY Both, ShapesSide, AtP
<1>2. Received("P") /\ Kept("C")
  BY <1>1, Both, FieldsReceived DEF Kept
<1> QED
  BY <1>1, <1>2, Both, KeptReceived DEF Reception

-----------------------------------------------------------------------------
(* What each action of the central does to the events that arrive ...      *)

(* Assignments to the fields of a host. *)
LEMMA EditReset ==
    ASSUME NEW h, IsLink(h), NEW g, g = Reset(h)
    PROVE  IsLink(g) /\ g.back = h.back /\ g.handle = h.handle /\ g.newconn = h.newconn /\ g.disc = 0
  BY DEF IsLink, Reset

LEMMA EditEnc ==
    ASSUME NEW h, IsLink(h), NEW x, NEW g, g = [h EXCEPT !.enc = x]
    PROVE  IsLink(g) /\ g.back = h.back /\ g.handle = h.handle /\ g.newconn = h.newconn /\ g.disc = h.disc
  BY DEF IsLink

LEMMA EditHandle ==
    ASSUME NEW h, IsLink(h), NEW x, NEW g, g = [h EXCEPT !.handle = x]
    PROVE  IsLink(g) /\ g.back = h.back /\ g.handle = x /\ g.newconn = h.newconn /\ g.disc = h.disc
  BY DEF IsLink

LEMMA EditRequests ==
    ASSUME NEW h, IsLink(h), NEW x, NEW g, g = [h EXCEPT !.requests = x]
    PROVE  IsLink(g) /\ g.back = h.back /\ g.handle = h.handle /\ g.newconn = h.newconn /\ g.disc = h.disc
  BY DEF IsLink

LEMMA EditCredits ==
    ASSUME NEW h, IsLink(h), NEW x, NEW g, g = [h EXCEPT !.credits = x]
    PROVE  IsLink(g) /\ g.back = h.back /\ g.handle = h.handle /\ g.newconn = h.newconn /\ g.disc = h.disc
  BY DEF IsLink

LEMMA Hosts0 == ASSUME Shapes PROVE IsLink(host["C"]) /\ IsLink(host["P"]) /\ OnSides(host) /\ OnSides(wire)
  BY Both, ShapesSide

LEMMA ConnectReceives == ASSUME Shapes, connect PROVE Reception /\ Kept("P")
<1>1. PICK h : h = Reset(host["C"])
  OBVIOUS
<1>2. IsLink(h) /\ h.back = host["C"].back
  BY <1>1, Hosts0, EditReset
<1> QED
  BY <1>1, <1>2, CentralCommands DEF connect

(* One packet is read, then the handle is set. *)
LEMMA ReadThenHandle ==
    ASSUME Shapes, CanRead("C"), NEW x,
           host' = [host EXCEPT !["C"] = [read_packet("C").h EXCEPT !.handle = x]],
           wire' = [wire EXCEPT !["C"] = read_packet("C").w]
    PROVE  /\ Reception /\ Kept("P")
           /\ host'["C"] = [read_packet("C").h EXCEPT !.handle = x] /\ wire'["C"] = read_packet("C").w
<1>0. /\ IsSeq(wire["C"]) /\ IsLink(host["C"]) /\ IsSeq(host["C"].back) /\ OnSides(wire) /\ OnSides(host)
  BY Both, ShapesSide
<1>1. IsLink(read_packet("C").h) /\ Recv(wire["C"], host["C"].back, read_packet("C").w, read_packet("C").h.back)
  BY <1>0, Reading
<1>2. PICK g : g = [read_packet("C").h EXCEPT !.handle = x]
  OBVIOUS
<1>3. IsLink(g) /\ g.back = read_packet("C").h.back
  BY <1>1, <1>2, EditHandle
<1>4. /\ OnSides(wire') /\ wire'["C"] = read_packet("C").w /\ wire'["P"] = wire["P"]
      /\ OnSides(host') /\ host'["C"] = g /\ host'["P"] = host["P"]
  BY <1>0, <1>2, AtC
<1>5. Received("C") /\ Kept("P")
  BY <1>1, <1>3, <1>4 DEF Received, Kept
<1> QED
  BY <1>2, <1>4, <1>5, Both, KeptReceived DEF Reception

LEMMA ConnectingReceives == ASSUME Shapes, Connecting PROVE Reception /\ Kept("P")
<1>1. PICK x : x = IF Item.t = "conn" THEN Item.v ELSE read_packet("C").h.handle
  OBVIOUS
<1>2. /\ CanRead("C") /\ host' = [host EXCEPT !["C"] = [read_packet("C").h EXCEPT !.handle = x]]
      /\ wire' = [wire EXCEPT !["C"] = read_packet("C").w]
  BY <1>1 DEF Connecting
<1> QED
  BY <1>2, ReadThenHandle

LEMMA TimeoutReceives == ASSUME Shapes, ConnectTimeout PROVE Reception /\ Kept("P")
<1>1. PICK h : h = host["C"]
  OBVIOUS
<1> QED
  BY <1>1, Hosts0, CentralCommands DEF ConnectTimeout

(* What wait_security_request leaves of a host that is now h. *)
LEMMA AfterHost ==
    ASSUME NEW h, IsLink(h), AfterSecurityRequest(h)
    PROVE  \E g : /\ host' = [host EXCEPT !["C"] = g] /\ IsLink(g) /\ g.back = h.back /\ g.disc = h.disc
                  /\ g.newconn = h.newconn
                  /\ g.handle = IF c.cycle # 0 /\ h.disc # 0 THEN 0 ELSE h.handle
<1>1. CASE c.cycle = 0
  BY <1>1 DEF AfterSecurityRequest
<1>2. CASE c.cycle # 0
  <2>1. PICK x : x = IF h.disc # 0 THEN 0 ELSE h.handle
    OBVIOUS
  <2>2. PICK g : g = [h EXCEPT !.handle = x]
    OBVIOUS
  <2>3. IsLink(g) /\ g.back = h.back /\ g.disc = h.disc /\ g.newconn = h.newconn /\ g.handle = x
    BY IsLink(h), <2>2, EditHandle
  <2>4. host' = [host EXCEPT !["C"] = g]
    BY <1>2, <2>1, <2>2 DEF AfterSecurityRequest
  <2> QED
    BY <1>2, <2>1, <2>3, <2>4
<1> QED
  BY <1>1, <1>2

LEMMA SecurityReceives == ASSUME Shapes, wait_security_request PROVE Reception /\ Kept("P")
<1>0. /\ IsSeq(wire["C"]) /\ IsLink(host["C"]) /\ IsSeq(host["C"].back) /\ OnSides(wire) /\ OnSides(host)
  BY Both, ShapesSide
<1>1. CASE CanRead("C") /\ wire' = [wire EXCEPT !["C"] = read_packet("C").w]
           /\ IF IsPdu("security request") THEN AfterSecurityRequest(read_packet("C").h)
              ELSE host' = [host EXCEPT !["C"] = read_packet("C").h]
  <2>1. IsLink(read_packet("C").h) /\ Recv(wire["C"], host["C"].back, read_packet("C").w, read_packet("C").h.back)
    BY <1>0, <1>1, Reading
  <2>2. PICK g : host' = [host EXCEPT !["C"] = g] /\ IsLink(g) /\ g.back = read_packet("C").h.back
    BY <1>1, <2>1, AfterHost
  <2>3. /\ OnSides(wire') /\ wire'["C"] = read_packet("C").w /\ wire'["P"] = wire["P"]
        /\ OnSides(host') /\ host'["C"] = g /\ host'["P"] = host["P"]
    <3>1. PICK w : w = read_packet("C").w
      OBVIOUS
    <3>2. wire' = [wire EXCEPT !["C"] = w]
      BY <1>1, <3>1
    <3>3. OnSides(wire) /\ OnSides(host)
      BY <1>0
    <3>4. OnSides(wire') /\ wire'["C"] = w /\ wire'["P"] = wire["P"]
      BY ONLY <3>2, <3>3, AtC
    <3>5. OnSides(host') /\ host'["C"] = g /\ host'["P"] = host["P"]
      BY ONLY <2>2, <3>3, AtC
    <3> QED
      BY <3>1, <3>4, <3>5
  <2>4. Received("C") /\ Kept("P")
    BY <2>1, <2>2, <2>3 DEF Received, Kept
  <2> QED
    BY <2>3, <2>4, Both, KeptReceived DEF Reception
<1>2. CASE AfterSecurityRequest(host["C"]) /\ wire' = wire
  <2>1. PICK g : host' = [host EXCEPT !["C"] = g] /\ IsLink(g) /\ g.back = host["C"].back
    BY <1>0, <1>2, AfterHost
  <2> QED
    BY <1>2, <2>1, FieldsC
<1> QED
  BY <1>1, <1>2 DEF wait_security_request

LEMMA PollReceives ==
    ASSUME Shapes, (CanRead("C") /\ Reads("C")) \/ UNCHANGED <<host, wire>> PROVE Reception /\ Kept("P")
<1>1. CASE CanRead("C") /\ Reads("C")
  BY <1>1, CentralReads
<1>2. CASE UNCHANGED <<host, wire>>
  BY <1>2, NothingReads
<1> QED
  BY <1>1, <1>2

(* The actions of the central that read or look. *)
LEMMA PollersReceive ==
    ASSUME Shapes, \/ pair \/ PairFails \/ Paired \/ wait_encryption \/ collect_keys \/ send_keys \/ save_bond
                   \/ att_probe \/ Probing \/ _take_credit("C") \/ NoCredit("C")
    PROVE  Reception /\ Kept("P")
<1>1. (CanRead("C") /\ Reads("C")) \/ UNCHANGED <<host, wire>>
  <2>1. CASE pair
    BY <2>1 DEF pair, Polls
  <2>2. CASE PairFails \/ Paired
    BY <2>2 DEF PairFails, Paired, Looks
  <2>3. CASE wait_encryption
    BY <2>3 DEF wait_encryption, Polls, Looks
  <2>4. CASE collect_keys
    BY <2>4 DEF collect_keys, Polls, Looks
  <2>5. CASE send_keys \/ save_bond \/ att_probe
    BY <2>5 DEF send_keys, save_bond, att_probe
  <2>6. CASE Probing
    BY <2>6 DEF Probing, Polls, Looks
  <2>7. CASE _take_credit("C")
    BY <2>7 DEF _take_credit
  <2>8. CASE NoCredit("C")
    BY <2>8 DEF NoCredit
  <2> QED
    BY <2>1, <2>2, <2>3, <2>4, <2>5, <2>6, <2>7, <2>8
<1> QED
  BY <1>1, PollReceives

LEMMA NoticeEvent == ASSUME NEW t, NEW v PROVE IsEvent(Event(t, v)) /\ Event(t, v).t = t /\ Event(t, v).v = v
  BY DEF IsEvent, Event

(* A notice is appended to what comes in at s. *)
LEMMA NoticeReceived ==
    ASSUME Shapes, NEW s \in Sides, NEW t, t # "pdu", NEW v, host'[s] = host[s],
           wire'[s] = Append(wire[s], Event(t, v))
    PROVE  Received(s)
<1>1. IsSeq(wire[s]) /\ IsSeq(host[s].back) /\ IsLink(host[s])
  BY ShapesSide
<1>2. PICK e : e = Event(t, v)
  OBVIOUS
<1>3. IsEvent(e) /\ e.t # "pdu"
  BY <1>2, NoticeEvent
<1>4. Recv(wire[s], host[s].back, wire[s], host[s].back)
  BY <1>1, RecvSame
<1>5. Recv(wire[s], host[s].back, Append(wire[s], e), host[s].back)
  BY <1>3, <1>4, RecvAppend
<1> QED
  BY <1>1, <1>2, <1>5 DEF Received

LEMMA EncryptReceives ==
    ASSUME Shapes, start_encryption
    PROVE  Reception /\ host'["P"] = host["P"] /\ wire'["C"] = <<>>
           /\ wire'["P"] = IF up = Sides THEN Append(wire["P"], Event("ltk request", 0)) ELSE wire["P"]
<1>0. IsLink(host["C"]) /\ OnSides(wire) /\ OnSides(host)
  BY Hosts0
<1>1. PICK h : h = [host["C"] EXCEPT !.enc = "none"]
  OBVIOUS
<1>2. IsLink(h) /\ h.back = host["C"].back
  BY <1>0, <1>1, EditEnc
<1>3. OnSides(host') /\ host'["C"] = command("C", h) /\ host'["P"] = host["P"]
  BY <1>0, <1>1, AtC DEF start_encryption
<1>4. /\ OnSides(wire') /\ wire'["C"] = <<>>
      /\ wire'["P"] = IF up = Sides THEN Append(wire["P"], Event("ltk request", 0)) ELSE wire["P"]
  BY <1>0 DEF start_encryption, OnSides, Sides
<1>5. Received("C")
  BY <1>2, <1>3, <1>4, Both, CommandReceived
<1>6. Received("P")
  <2>1. CASE up = Sides
    BY <1>3, <1>4, <2>1, Both, NoticeReceived
  <2>2. CASE up # Sides
    BY <1>3, <1>4, <2>2, Both, KeptReceived DEF Kept
  <2> QED
    BY <2>1, <2>2
<1> QED
  BY <1>3, <1>4, <1>5, <1>6 DEF Reception

LEMMA DisconnectReceives == ASSUME Shapes, disconnect PROVE Reception /\ Kept("P")
<1>1. CASE Dropped
  BY <1>1, NothingReads DEF disconnect
<1>2. CASE ~ Dropped
  <2>1. PICK h : h = host["C"]
    OBVIOUS
  <2> QED
    BY <1>2, <2>1, Hosts0, CentralCommands DEF disconnect
<1> QED
  BY <1>1, <1>2

LEMMA HangingReceives == ASSUME Shapes, Hanging PROVE Reception /\ Kept("P")
<1>1. CASE Polls
  BY <1>1, CentralReads DEF Polls
<1>2. CASE host' = [host EXCEPT !["C"].handle = 0] /\ UNCHANGED wire
  <2>1. PICK g : g = [host["C"] EXCEPT !.handle = 0]
    OBVIOUS
  <2>2. IsLink(g) /\ g.back = host["C"].back
    BY <2>1, Hosts0, EditHandle
  <2>3. host' = [host EXCEPT !["C"] = g]
    BY <1>2, <2>1
  <2> QED
    BY <1>2, <2>2, <2>3, FieldsC
<1> QED
  BY <1>1, <1>2 DEF Hanging

LEMMA SendReceives ==
    ASSUME Shapes, NEW s \in Sides, send_l2cap(s)
    PROVE  /\ Reception /\ wire' = wire /\ \A t \in Sides \ {s} : Kept(t)
           /\ host'[s] = [host[s] EXCEPT !.credits = host[s].credits - 1]
<1>1. PICK g : g = [host[s] EXCEPT !.credits = host[s].credits - 1]
  OBVIOUS
<1>2. IsLink(g) /\ g.back = host[s].back
  BY <1>1, ShapesSide, EditCredits
<1>3. host' = [host EXCEPT ![s] = g] /\ wire' = wire
  BY <1>1 DEF send_l2cap
<1>4. CASE s = "C"
  <2>1. Reception /\ Kept("P") /\ host'["C"] = g
    BY <1>2, <1>3, <1>4, FieldsC
  <2> QED
    BY <1>1, <1>3, <1>4, <2>1 DEF Sides
<1>5. CASE s = "P"
  <2>1. Reception /\ Kept("C") /\ host'["P"] = g
    BY <1>2, <1>3, <1>5, FieldsP
  <2> QED
    BY <1>1, <1>3, <1>5, <2>1 DEF Sides
<1> QED
  BY <1>4, <1>5, Both

LEMMA LinkIsLink == IsLink(Link) /\ Link.back = <<>> /\ Link.disc = 0 /\ Link.handle = 0 /\ Link.newconn = 0
  BY DEF IsLink, Link

LEMMA RestartReceives ==
    ASSUME Shapes, Restart
    PROVE  Reception /\ Kept("P") /\ host'["C"] = Link /\ wire'["C"] = <<>>
<1>1. /\ OnSides(wire') /\ wire'["C"] = <<>> /\ wire'["P"] = wire["P"]
      /\ OnSides(host') /\ host'["C"] = Link /\ host'["P"] = host["P"]
  BY Hosts0, AtC DEF Restart
<1>2. Received("C") /\ Kept("P")
  BY <1>1, LinkIsLink, RecvNone DEF Received, Kept
<1> QED
  BY <1>1, <1>2, Both, KeptReceived DEF Reception

-----------------------------------------------------------------------------
(* ... and each of the peripheral, the controllers and the air.            *)

LEMMA NewConnReceives ==
    ASSUME Shapes, NewConn
    PROVE  /\ Reception /\ Kept("C") /\ wire' = wire
           /\ host'["P"].handle = host["P"].newconn /\ host'["P"].newconn = 0 /\ host'["P"].disc = 0
<1>1. PICK h : h = Reset(host["P"])
  OBVIOUS
<1>2. IsLink(h) /\ h.back = host["P"].back /\ h.disc = 0
  BY <1>1, Hosts0, EditReset
<1>3. PICK g : g = [h EXCEPT !.handle = host["P"].newconn, !.newconn = 0, !.requests = 0]
  OBVIOUS
<1>4. IsLink(g) /\ g.back = host["P"].back /\ g.handle = host["P"].newconn /\ g.newconn = 0 /\ g.disc = 0
  BY <1>2, <1>3 DEF IsLink
<1>5. host' = [host EXCEPT !["P"] = g] /\ wire' = wire
  BY <1>1, <1>3 DEF NewConn
<1>6. Reception /\ Kept("C") /\ host'["P"] = g
  BY <1>4, <1>5, FieldsP
<1> QED
  BY <1>4, <1>5, <1>6

(* The answer to a key request. *)
LEMMA ServeReceives ==
    ASSUME Shapes, ServeKeyRequest
    PROVE  /\ Reception /\ host'["C"] = host["C"]
           /\ \E h : /\ IsLink(h) /\ h.back = host["P"].back /\ h.handle = host["P"].handle
                     /\ h.newconn = host["P"].newconn /\ h.disc = host["P"].disc
                     /\ host'["P"] = command("P", h)
           /\ wire'["P"] \in {<<>>, <<Event("enc", "on")>>}
           /\ wire'["C"] = wire["C"] \/ \E v : wire'["C"] = Append(wire["C"], Event("enc", v))
<1>0. IsLink(host["P"]) /\ IsSeq(host["P"].back) /\ IsSeq(wire["P"]) /\ OnSides(wire) /\ OnSides(host)
  BY Both, ShapesSide
<1>1. PICK h : h = [host["P"] EXCEPT !.requests = host["P"].requests - 1]
  OBVIOUS
<1>2. /\ IsLink(h) /\ h.back = host["P"].back /\ h.handle = host["P"].handle
      /\ h.newconn = host["P"].newconn /\ h.disc = host["P"].disc
  BY <1>0, <1>1, EditRequests
<1>3. OnSides(host') /\ host'["P"] = command("P", h) /\ host'["C"] = host["C"]
  <2>0. host' = [host EXCEPT !["P"] = command("P", [host["P"] EXCEPT !.requests = host["P"].requests - 1])]
    BY Zenon DEF ServeKeyRequest
  <2>1. host' = [host EXCEPT !["P"] = command("P", h)]
    BY <1>1, <2>0
  <2> QED
    BY <1>0, <2>1, AtP
<1>4. /\ OnSides(wire')
      /\ wire'["P"] \in {<<>>, <<Event("enc", "on")>>}
      /\ wire'["C"] = wire["C"] \/ \E v : wire'["C"] = Append(wire["C"], Event("enc", v))
  <2>1. CASE asked = None \/ up # Sides \/ KeyFor \notin {None, asked}
    <3>1. wire' = [wire EXCEPT !["P"] = <<>>]
      BY <2>1 DEF ServeKeyRequest
    <3> QED
      BY <1>0, <3>1, AtP
  <2>2. CASE ~(asked = None \/ up # Sides \/ KeyFor \notin {None, asked}) /\ KeyFor = None
    <3>1. wire' = [wire EXCEPT !["P"] = <<>>, !["C"] = Append(wire["C"], Event("enc", "refused"))]
      BY <2>2 DEF ServeKeyRequest
    <3>2. OnSides(wire') /\ wire'["P"] = <<>> /\ wire'["C"] = Append(wire["C"], Event("enc", "refused"))
      BY <1>0, <3>1 DEF OnSides, Sides
    <3> QED
      BY <3>2
  <2>3. CASE ~(asked = None \/ up # Sides \/ KeyFor \notin {None, asked}) /\ KeyFor # None
    <3>1. wire' = [wire EXCEPT !["P"] = <<Event("enc", "on")>>, !["C"] = Append(wire["C"], Event("enc", "on"))]
      BY <2>3 DEF ServeKeyRequest
    <3>2. OnSides(wire') /\ wire'["P"] = <<Event("enc", "on")>> /\ wire'["C"] = Append(wire["C"], Event("enc", "on"))
      BY <1>0, <3>1 DEF OnSides, Sides
    <3> QED
      BY <3>2
  <2> QED
    BY <2>1, <2>2, <2>3
<1>5. Recv(wire["P"], host["P"].back, <<>>, host'["P"].back) /\ IsLink(host'["P"])
  BY <1>0, <1>2, <1>3, RecvCommand
<1>6. Received("P")
  <2>1. CASE wire'["P"] = <<>>
    BY <1>5, <2>1 DEF Received
  <2>2. CASE wire'["P"] = <<Event("enc", "on")>>
    <3>1. PICK e : e = Event("enc", "on")
      OBVIOUS
    <3>2. IsEvent(e) /\ e.t # "pdu"
      BY <3>1, NoticeEvent
    <3>3. Recv(wire["P"], host["P"].back, Append(<<>>, e), host'["P"].back)
      BY <1>5, <3>2, RecvAppend
    <3>4. Append(<<>>, e) = <<e>>
      OBVIOUS
    <3> QED
      BY <1>5, <2>2, <3>1, <3>3, <3>4 DEF Received
  <2> QED
    BY <1>4, <2>1, <2>2
<1>7. Received("C")
  <2>1. CASE wire'["C"] = wire["C"]
    BY <1>3, <2>1, Both, KeptReceived DEF Kept
  <2>2. CASE \E v : wire'["C"] = Append(wire["C"], Event("enc", v))
    BY <1>3, <2>2, Both, NoticeReceived
  <2> QED
    BY <1>4, <2>1, <2>2
<1> QED
  BY <1>2, <1>3, <1>4, <1>6, <1>7 DEF Reception

LEMMA PeripheralPolls ==
    ASSUME Shapes, \/ PollsPacket \/ PollsNothing \/ Prompt \/ KeyboardInterrupt \/ _take_credit("P") \/ NoCredit("P")
    PROVE  Reception /\ Kept("C")
<1>1. (CanRead("P") /\ Reads("P")) \/ UNCHANGED <<host, wire>>
  BY DEF PollsPacket, PollTurn, Prompt, PollsNothing, KeyboardInterrupt, _take_credit, NoCredit, controllers
<1>2. CASE CanRead("P") /\ Reads("P")
  BY <1>2, PeripheralReads
<1>3. CASE UNCHANGED <<host, wire>>
  BY <1>3, NothingReads
<1> QED
  BY <1>1, <1>2, <1>3

(* The end of a connection: the bookkeeping, then a command when the       *)
(* peripheral goes on.                                                     *)
LEMMA LoopEndsReceives ==
    ASSUME Shapes, LoopEnds
    PROVE  /\ Reception /\ Kept("C")
           /\ \/ Kept("P") /\ UNCHANGED adv
              \/ /\ host["P"].disc # 0 /\ p.conn # 0 /\ p'.conn = 0
                 /\ \E h : /\ IsLink(h) /\ h.back = host["P"].back /\ h.handle = 0 /\ h.disc = 0
                           /\ h.newconn = host["P"].newconn
                           /\ \/ adv' = TRUE /\ host'["P"] = command("P", h) /\ wire'["P"] = <<>>
                              \/ adv' = FALSE /\ host'["P"] = h /\ wire'["P"] = wire["P"]
<1>0. IsLink(host["P"]) /\ OnSides(wire) /\ OnSides(host) /\ IsPeripheral(p)
  BY Hosts0 DEF Shapes
<1>1. CASE ~(host["P"].disc # 0 /\ p.conn # 0)
  <2>1. host' = host /\ wire' = wire /\ adv' = adv
    BY <1>1 DEF LoopEnds, LinkOver
  <2> QED
    BY <2>1, NothingReads
<1>2. CASE host["P"].disc # 0 /\ p.conn # 0
  <2>1. PICK h : h = [host["P"] EXCEPT !.disc = 0, !.handle = 0]
    OBVIOUS
  <2>2. /\ IsLink(h) /\ h.back = host["P"].back /\ h.handle = 0 /\ h.disc = 0
        /\ h.newconn = host["P"].newconn
    BY <1>0, <2>1 DEF IsLink
  <2>3. p'.conn = 0
    <3>1. p' = [p EXCEPT !.pc = IF p.summary + 1 < Connections THEN "loop" ELSE "finally", !.conn = 0, !.smp = <<>>,
                         !.prompted = FALSE, !.paired = FALSE, !.summary = p.summary + 1]
      BY <1>2 DEF LoopEnds, LinkOver
    <3> QED
      BY <1>0, <3>1 DEF IsPeripheral
  <2>4. CASE p.summary + 1 < Connections
    <3>1. host' = [host EXCEPT !["P"] = command("P", h)] /\ wire' = [wire EXCEPT !["P"] = <<>>] /\ adv' = TRUE
      BY <1>2, <2>1, <2>4 DEF LoopEnds, LinkOver
    <3>2. Reception /\ Kept("C") /\ host'["P"] = command("P", h) /\ wire'["P"] = <<>>
      BY <2>2, <3>1, PeripheralCommands
    <3> QED
      BY <1>2, <2>2, <2>3, <3>1, <3>2
  <2>5. CASE ~(p.summary + 1 < Connections)
    <3>1. host' = [host EXCEPT !["P"] = h] /\ wire' = [wire EXCEPT !["P"] = wire["P"]] /\ adv' = FALSE
      <4>1. /\ host' = [host EXCEPT !["P"] = IF p.summary + 1 < Connections
                                              THEN command("P", [host["P"] EXCEPT !.disc = 0, !.handle = 0])
                                              ELSE [host["P"] EXCEPT !.disc = 0, !.handle = 0]]
            /\ wire' = [wire EXCEPT !["P"] = IF p.summary + 1 < Connections THEN <<>> ELSE wire["P"]]
            /\ adv' = (p.summary + 1 < Connections)
        BY <1>2 DEF LoopEnds, LinkOver
      <4>2. adv' = FALSE
        <5>1. adv' = (p.summary + 1 < Connections)
          BY <4>1
        <5>2. (p.summary + 1 < Connections) = FALSE
          BY <2>5
        <5> QED
          BY <5>1, <5>2
      <4>3. host' = [host EXCEPT !["P"] = h]
        BY <2>1, <2>5, <4>1
      <4>4. wire' = [wire EXCEPT !["P"] = wire["P"]]
        BY <2>5, <4>1
      <4> QED
        BY <4>2, <4>3, <4>4
    <3>2. wire' = wire
      BY <1>0, <3>1 DEF OnSides
    <3>3. Reception /\ Kept("C") /\ host'["P"] = h
      BY <2>2, <3>1, <3>2, FieldsP
    <3> QED
      BY <1>2, <2>2, <2>3, <3>1, <3>2, <3>3
  <2> QED
    BY <2>4, <2>5
<1> QED
  BY <1>1, <1>2

LEMMA FinallyReceives ==
    ASSUME Shapes, Finally
    PROVE  Reception /\ Kept("C") /\ host'["P"] = command("P", host["P"]) /\ wire'["P"] = <<>>
<1>1. PICK h : h = host["P"]
  OBVIOUS
<1> QED
  BY <1>1, Hosts0, PeripheralCommands DEF Finally

LEMMA ConnectedReceives ==
    ASSUME Shapes, Connected
    PROVE  /\ Reception /\ host' = host
           /\ \A s \in Sides : wire'[s] = Append(wire[s], Event("conn", conn + 1))
<1>1. /\ host' = host /\ OnSides(host') /\ OnSides(wire')
      /\ \A s \in Sides : wire'[s] = Append(wire[s], Event("conn", conn + 1))
  BY Hosts0 DEF Connected, Hosts, OnSides
<1>2. Received("C") /\ Received("P")
  BY <1>1, Both, NoticeReceived
<1> QED
  BY <1>1, <1>2 DEF Reception

LEMMA LostReceives == ASSUME Shapes, LinkLost PROVE Reception /\ Kept("C") /\ Kept("P")
  BY NothingReads DEF LinkLost, Hosts

LEMMA EndsReceives ==
    ASSUME Shapes, NEW s \in Sides, Ends(s)
    PROVE  /\ Reception /\ host' = host /\ wire'[s] = Append(wire[s], Event("disc", conn))
           /\ \A t \in Sides \ {s} : Kept(t)
<1>0. OnSides(wire) /\ OnSides(host) /\ host' = host
  BY Hosts0 DEF Ends, Hosts
<1>1. PICK x : x = Append(wire[s], Event("disc", conn))
  OBVIOUS
<1>2. wire' = [wire EXCEPT ![s] = x]
  BY <1>1 DEF Ends
<1>3. CASE s = "C"
  <2>1. OnSides(wire') /\ wire'["C"] = x /\ wire'["P"] = wire["P"]
    BY <1>0, <1>2, <1>3, AtC
  <2>2. Received("C") /\ Kept("P")
    BY <1>0, <1>1, <1>3, <2>1, Both, NoticeReceived DEF Kept
  <2> QED
    BY <1>0, <1>1, <1>3, <2>1, <2>2, Both, KeptReceived DEF Reception, Sides
<1>4. CASE s = "P"
  <2>1. OnSides(wire') /\ wire'["P"] = x /\ wire'["C"] = wire["C"]
    BY <1>0, <1>2, <1>4, AtP
  <2>2. Received("P") /\ Kept("C")
    BY <1>0, <1>1, <1>4, <2>1, Both, NoticeReceived DEF Kept
  <2> QED
    BY <1>0, <1>1, <1>4, <2>1, <2>2, Both, KeptReceived DEF Reception, Sides
<1> QED
  BY <1>3, <1>4, Both

-----------------------------------------------------------------------------
(* PDUs that leave: they wait, are in the air, arrive.                     *)

(* What leaves a side keeps its place, moves on or goes; new PDUs may come *)
(* in front.                                                               *)
Passes(t, a, t2, a2, new) ==
    /\ IsSeq(t2) /\ IsSeq(a2)
    /\ Els(t2) \cup Els(a2) \subseteq Els(t) \cup Els(a) \cup new
    /\ \A K : K \cap new = {} /\ Slot(t, a, K) => Slot(t2, a2, K)

Passed(s, new) == Passes(tosend[s], air[s], tosend'[s], air'[s], new)
Way(fromC, fromP) == OnSides(tosend') /\ OnSides(air') /\ Passed("C", fromC) /\ Passed("P", fromP)
Transmission == Way({}, {})

LEMMA PassesSame == ASSUME NEW t, NEW a, IsSeq(t), IsSeq(a) PROVE Passes(t, a, t, a, {})
  BY DEF Passes

LEMMA PassesNoWait == ASSUME NEW t, NEW a, IsSeq(t), IsSeq(a) PROVE Passes(t, a, <<>>, a, {})
  BY SeqEmpty DEF Passes, Slot

LEMMA PassesNoAir == ASSUME NEW t, NEW a, IsSeq(t), IsSeq(a) PROVE Passes(t, a, t, <<>>, {})
  BY SeqEmpty DEF Passes, Slot

LEMMA PassesNone == ASSUME NEW t, NEW a PROVE Passes(t, a, <<>>, <<>>, {})
  BY SeqEmpty DEF Passes, Slot

LEMMA PassesTail ==
    ASSUME NEW t, NEW a, IsSeq(t), IsSeq(a)
    PROVE  /\ t # <<>> => Passes(t, a, Tail(t), a, {})
           /\ a # <<>> => Passes(t, a, t, Tail(a), {})
<1>1. ASSUME t # <<>> PROVE Passes(t, a, Tail(t), a, {})
  <2>1. IsSeq(Tail(t)) /\ Els(Tail(t)) \subseteq Els(t)
    BY <1>1, SeqTail
  <2>2. ASSUME NEW K, Slot(t, a, K) PROVE Slot(Tail(t), a, K)
    BY <1>1, <2>2, LoneTail, FreeTail DEF Slot
  <2> QED
    BY <2>1, <2>2 DEF Passes
<1>2. ASSUME a # <<>> PROVE Passes(t, a, t, Tail(a), {})
  <2>1. IsSeq(Tail(a)) /\ Els(Tail(a)) \subseteq Els(a)
    BY <1>2, SeqTail
  <2>2. ASSUME NEW K, Slot(t, a, K) PROVE Slot(t, Tail(a), K)
    BY <1>2, <2>2, LoneTail, FreeTail DEF Slot
  <2> QED
    BY <2>1, <2>2 DEF Passes
<1> QED
  BY <1>1, <1>2

LEMMA PassesOn ==
    ASSUME NEW t, NEW a, IsSeq(t), IsSeq(a), t # <<>>
    PROVE  Passes(t, a, Tail(t), Append(a, Head(t)), {})
<1>1. IsSeq(Tail(t)) /\ Els(Tail(t)) \subseteq Els(t) /\ Head(t) \in Els(t)
  BY SeqTail
<1>2. IsSeq(Append(a, Head(t))) /\ Els(Append(a, Head(t))) = Els(a) \cup {Head(t)}
  BY SeqAppend
<1>3. ASSUME NEW K, Slot(t, a, K) PROVE Slot(Tail(t), Append(a, Head(t)), K)
  <2>1. Lone(Tail(t), K) /\ (Head(t) \in K => Free(Tail(t), K)) /\ (Free(t, K) => Free(Tail(t), K))
    BY <1>3, LoneTail, FreeTail DEF Slot
  <2>2. CASE Head(t) \in K
    <3>1. ~ Free(t, K)
      BY <1>1, <2>2, FreeEls
    <3>2. Free(a, K)
      BY <1>3, <3>1 DEF Slot
    <3>3. Lone(Append(a, Head(t)), K)
      BY <1>3, <3>2, LoneAppend DEF Slot
    <3> QED
      BY <2>1, <2>2, <3>3 DEF Slot
  <2>3. CASE Head(t) \notin K
    <3>1. Lone(Append(a, Head(t)), K)
      BY <1>3, <2>3, LoneAppend DEF Slot
    <3>2. Free(a, K) => Free(Append(a, Head(t)), K)
      BY <2>3, FreeAppend
    <3> QED
      BY <1>3, <2>1, <3>1, <3>2 DEF Slot
  <2> QED
    BY <2>2, <2>3
<1> QED
  BY <1>1, <1>2, <1>3 DEF Passes

LEMMA SameTransmission == ASSUME Shapes, tosend' = tosend, air' = air PROVE Transmission
<1>1. OnSides(tosend') /\ OnSides(air')
  BY Both, ShapesSide
<1>2. Passed("C", {}) /\ Passed("P", {})
  BY Both, ShapesSide, PassesSame DEF Passed
<1> QED
  BY <1>1, <1>2 DEF Transmission, Way

LEMMA SendTransmits ==
    ASSUME Shapes, NEW s \in Sides, send_l2cap(s) PROVE Transmission
<1>0. IsSeq(tosend["C"]) /\ IsSeq(air["C"]) /\ IsSeq(tosend["P"]) /\ IsSeq(air["P"]) /\ OnSides(tosend) /\ OnSides(air)
  BY Both, ShapesSide
<1>1. PICK x, y : x = Tail(tosend[s]) /\ y = IF s \in up THEN Append(air[s], Head(tosend[s])) ELSE air[s]
  OBVIOUS
<1>2. tosend' = [tosend EXCEPT ![s] = x] /\ air' = [air EXCEPT ![s] = y] /\ tosend[s] # <<>>
  BY <1>1 DEF send_l2cap
<1>3. Passes(tosend[s], air[s], x, y, {})
  BY <1>1, <1>2, ShapesSide, PassesOn, PassesTail
<1>4. CASE s = "C"
  <2>1. OnSides(tosend') /\ tosend'["C"] = x /\ tosend'["P"] = tosend["P"]
    <3>1. tosend' = [tosend EXCEPT !["C"] = x] /\ OnSides(tosend)
      BY <1>0, <1>2, <1>4
    <3> QED
      BY ONLY <3>1, AtC
  <2>2. OnSides(air') /\ air'["C"] = y /\ air'["P"] = air["P"]
    <3>1. air' = [air EXCEPT !["C"] = y] /\ OnSides(air)
      BY <1>0, <1>2, <1>4
    <3> QED
      BY ONLY <3>1, AtC
  <2>3. Passed("P", {})
    BY <1>0, <2>1, <2>2, PassesSame DEF Passed
  <2> QED
    BY <1>3, <1>4, <2>1, <2>2, <2>3 DEF Transmission, Way, Passed
<1>5. CASE s = "P"
  <2>1. OnSides(tosend') /\ tosend'["P"] = x /\ tosend'["C"] = tosend["C"]
    <3>1. tosend' = [tosend EXCEPT !["P"] = x] /\ OnSides(tosend)
      BY <1>0, <1>2, <1>5
    <3> QED
      BY ONLY <3>1, AtP
  <2>2. OnSides(air') /\ air'["P"] = y /\ air'["C"] = air["C"]
    <3>1. air' = [air EXCEPT !["P"] = y] /\ OnSides(air)
      BY <1>0, <1>2, <1>5
    <3> QED
      BY ONLY <3>1, AtP
  <2>3. Passed("C", {})
    BY <1>0, <2>1, <2>2, PassesSame DEF Passed
  <2> QED
    BY <1>3, <1>5, <2>1, <2>2, <2>3 DEF Transmission, Way, Passed
<1> QED
  BY <1>4, <1>5, Both

LEMMA RaisesTransmits ==
    ASSUME Shapes, NEW s \in Sides, RaisesIn(s), air' = air PROVE Transmission /\ tosend'[s] = <<>>
<1>0. IsSeq(tosend["C"]) /\ IsSeq(air["C"]) /\ IsSeq(tosend["P"]) /\ IsSeq(air["P"]) /\ OnSides(tosend) /\ OnSides(air)
  BY Both, ShapesSide
<1>1. tosend' = [tosend EXCEPT ![s] = <<>>] /\ air' = air
  BY DEF RaisesIn
<1>2. CASE s = "C"
  <2>1. OnSides(tosend') /\ tosend'["C"] = <<>> /\ tosend'["P"] = tosend["P"]
    BY <1>0, <1>1, <1>2, AtC
  <2>2. Passed("C", {}) /\ Passed("P", {})
    BY <1>0, <1>1, <2>1, PassesSame, PassesNoWait DEF Passed
  <2> QED
    BY <1>0, <1>1, <1>2, <2>1, <2>2 DEF Transmission, Way
<1>3. CASE s = "P"
  <2>1. OnSides(tosend') /\ tosend'["P"] = <<>> /\ tosend'["C"] = tosend["C"]
    BY <1>0, <1>1, <1>3, AtP
  <2>2. Passed("C", {}) /\ Passed("P", {})
    BY <1>0, <1>1, <2>1, PassesSame, PassesNoWait DEF Passed
  <2> QED
    BY <1>0, <1>1, <1>3, <2>1, <2>2 DEF Transmission, Way
<1> QED
  BY <1>2, <1>3, Both

LEMMA RestartTransmits ==
    ASSUME Shapes, Restart
    PROVE  Transmission /\ tosend'["C"] = <<>> /\ air'["C"] = <<>> /\ tosend'["P"] = tosend["P"] /\ air'["P"] = air["P"]
<1>0. IsSeq(tosend["C"]) /\ IsSeq(air["C"]) /\ IsSeq(tosend["P"]) /\ IsSeq(air["P"]) /\ OnSides(tosend) /\ OnSides(air)
  BY Both, ShapesSide
<1>1. OnSides(tosend') /\ tosend'["C"] = <<>> /\ tosend'["P"] = tosend["P"]
  BY <1>0, AtC DEF Restart
<1>2. OnSides(air') /\ air'["C"] = <<>> /\ air'["P"] = air["P"]
  BY <1>0, AtC DEF Restart
<1>3. Passed("C", {}) /\ Passed("P", {})
  BY <1>0, <1>1, <1>2, PassesSame, PassesNone DEF Passed
<1> QED
  BY <1>1, <1>2, <1>3 DEF Transmission, Way

LEMMA EndsTransmits ==
    ASSUME Shapes, NEW s \in Sides, Ends(s) PROVE Transmission /\ tosend' = tosend
<1>0. IsSeq(tosend["C"]) /\ IsSeq(air["C"]) /\ IsSeq(tosend["P"]) /\ IsSeq(air["P"]) /\ OnSides(tosend) /\ OnSides(air)
  BY Both, ShapesSide
<1>1. air' = [air EXCEPT ![s] = <<>>] /\ tosend' = tosend
  BY DEF Ends, Hosts, programs
<1>2. CASE s = "C"
  <2>1. OnSides(air') /\ air'["C"] = <<>> /\ air'["P"] = air["P"]
    BY <1>0, <1>1, <1>2, AtC
  <2>2. Passed("C", {}) /\ Passed("P", {})
    BY <1>0, <1>1, <2>1, PassesSame, PassesNoAir DEF Passed
  <2> QED
    BY <1>0, <1>1, <2>1, <2>2 DEF Transmission, Way
<1>3. CASE s = "P"
  <2>1. OnSides(air') /\ air'["P"] = <<>> /\ air'["C"] = air["C"]
    BY <1>0, <1>1, <1>3, AtP
  <2>2. Passed("C", {}) /\ Passed("P", {})
    BY <1>0, <1>1, <2>1, PassesSame, PassesNoAir DEF Passed
  <2> QED
    BY <1>0, <1>1, <2>1, <2>2 DEF Transmission, Way
<1> QED
  BY <1>2, <1>3, Both

(* The PDUs out are handed to an idle sender. *)
LEMMA PassesNew ==
    ASSUME NEW t, NEW a, NEW out, IsSeq(a), IsSeq(out), t = <<>> PROVE Passes(t, a, out, a, Els(out))
<1>1. ASSUME NEW K, K \cap Els(out) = {}, Slot(t, a, K) PROVE Slot(out, a, K)
  <2>1. Free(out, K) /\ Lone(out, K)
    BY <1>1, FreeEls, FreeLone
  <2> QED
    BY <1>1, <2>1 DEF Slot
<1> QED
  BY <1>1 DEF Passes

LEMMA CentralSays ==
    ASSUME Shapes, NEW out, IsSeq(out), tosend["C"] = <<>>,
           tosend' = [tosend EXCEPT !["C"] = out], air' = air
    PROVE  Way(Els(out), {}) /\ tosend'["C"] = out /\ tosend'["P"] = tosend["P"]
<1>0. IsSeq(tosend["P"]) /\ IsSeq(air["C"]) /\ IsSeq(air["P"]) /\ OnSides(tosend) /\ OnSides(air)
  BY Both, ShapesSide
<1>1. OnSides(tosend') /\ tosend'["C"] = out /\ tosend'["P"] = tosend["P"]
  BY <1>0, AtC
<1>2. Passed("C", Els(out)) /\ Passed("P", {})
  BY <1>0, <1>1, PassesNew, PassesSame DEF Passed
<1> QED
  BY <1>0, <1>1, <1>2 DEF Way

LEMMA PeripheralSays ==
    ASSUME Shapes, NEW out, IsSeq(out), tosend["P"] = <<>>,
           tosend' = [tosend EXCEPT !["P"] = out], air' = air
    PROVE  Way({}, Els(out)) /\ tosend'["P"] = out /\ tosend'["C"] = tosend["C"]
<1>0. IsSeq(tosend["C"]) /\ IsSeq(air["C"]) /\ IsSeq(air["P"]) /\ OnSides(tosend) /\ OnSides(air)
  BY Both, ShapesSide
<1>1. OnSides(tosend') /\ tosend'["P"] = out /\ tosend'["C"] = tosend["C"]
  BY <1>0, AtP
<1>2. Passed("P", Els(out)) /\ Passed("C", {})
  BY <1>0, <1>1, PassesNew, PassesSame DEF Passed
<1> QED
  BY <1>0, <1>1, <1>2 DEF Way

(* What is on the way after a step that delivers nothing. *)
LEMMA WayNext ==
    ASSUME Shapes, Reception, NEW nc, NEW np, Way(nc, np)
    PROVE  /\ Leaving("C")' \subseteq Leaving("C") \cup nc /\ Leaving("P")' \subseteq Leaving("P") \cup np
           /\ OnWay("C")' \subseteq OnWay("C") \cup nc /\ OnWay("P")' \subseteq OnWay("P") \cup np
           /\ \A s \in Sides : \A e \in Arriving(s)' : e \in Arriving(s) \/ (IsEvent(e) /\ e.t # "pdu")
<1>1. ASSUME NEW s \in Sides, NEW e \in Arriving(s)' PROVE e \in Arriving(s) \/ (IsEvent(e) /\ e.t # "pdu")
  <2>1. Recv(wire[s], host[s].back, wire'[s], host'[s].back)
    BY Both DEF Reception, Received
  <2> QED
    BY <1>1, <2>1 DEF Recv, Arriving
<1>2. Leaving("C")' \subseteq Leaving("C") \cup nc /\ Leaving("P")' \subseteq Leaving("P") \cup np
  BY DEF Way, Passed, Passes, Leaving
<1>3. Other("C") = "P" /\ Other("P") = "C"
  BY DEF Other
<1>4. OnWay("C")' \subseteq OnWay("C") \cup nc
  BY <1>1, <1>2, <1>3, Both DEF OnWay
<1>5. OnWay("P")' \subseteq OnWay("P") \cup np
  BY <1>1, <1>2, <1>3, Both DEF OnWay
<1> QED
  BY <1>1, <1>2, <1>4, <1>5

(* The shapes after such a step. *)
LEMMA ShapesNext ==
    ASSUME Shapes, Reception, NEW nc, NEW np, Way(nc, np), \A x \in nc \cup np : IsPacket(x), setting' = setting,
           IsCentral(c'), IsPairing(c'.smp), IsPeripheral(p'),
           p'.smp = <<>> \/ (p'.smp = <<p'.smp[1]>> /\ IsPairing(p'.smp[1]))
    PROVE  Shapes'
<1>1. /\ Leaving("C")' \subseteq Leaving("C") \cup nc /\ Leaving("P")' \subseteq Leaving("P") \cup np
      /\ \A s \in Sides : \A e \in Arriving(s)' : e \in Arriving(s) \/ (IsEvent(e) /\ e.t # "pdu")
  BY WayNext
<1>2. ASSUME NEW s \in Sides PROVE InShape(s)'
  <2>1. IsSeq(wire'[s]) /\ IsSeq(host'[s].back) /\ IsLink(host'[s])
    BY Both DEF Reception, Received, Recv
  <2>2. IsSeq(tosend'[s]) /\ IsSeq(air'[s])
    BY Both DEF Way, Passed, Passes
  <2>3. /\ \A e \in Arriving(s) : IsMessage(e)
        /\ \A x \in Leaving(s) : IsPacket(x)
    BY DEF Shapes, InShape
  <2>4. \A e \in Arriving(s)' : IsMessage(e)
    BY <1>1, <2>3 DEF IsMessage
  <2>5. \A x \in Leaving(s)' : IsPacket(x)
    BY <1>1, <2>3, Both
  <2> QED
    BY <2>1, <2>2, <2>4, <2>5 DEF InShape
<1>3. OnSides(wire') /\ OnSides(host') /\ OnSides(tosend') /\ OnSides(air')
  BY DEF Reception, Way
<1>4. setting' \in Settings
  BY DEF Shapes
<1> QED
  BY <1>2, <1>3, <1>4 DEF Shapes

LEMMA KeyCodes ==
    /\ \A x \in KeyPdus : IsPacket(x) /\ x.code = "public key" /\ x.val = c.smp.key
    /\ \A e \in KeyEvents : e.t = "pdu" /\ e.v \in KeyPdus
<1>1. ASSUME NEW x \in KeyPdus PROVE IsPacket(x) /\ x.code = "public key" /\ x.val = c.smp.key
  <2>1. PICK b \in BOOLEAN : x = [code |-> "public key", val |-> c.smp.key, ok |-> b]
    BY <1>1 DEF KeyPdus
  <2> QED
    BY <2>1 DEF IsPacket
<1>2. ASSUME NEW e \in KeyEvents PROVE e.t = "pdu" /\ e.v \in KeyPdus
  <2>1. PICK x \in KeyPdus : e = Event("pdu", x)
    BY <1>2 DEF KeyEvents
  <2> QED
    BY <2>1 DEF Event
<1> QED
  BY <1>1, <1>2

(* And the place of the public key. *)
LEMMA KeyNext ==
    ASSUME Shapes, Reception, NEW nc, NEW np, Way(nc, np), \A x \in nc : x.code # "public key",
           c'.smp.key = c.smp.key
    PROVE  /\ OneKey => OneKey'
           /\ (Gone => Gone') /\ (Arrived => Arrived') /\ (Clear => Clear')
<1>1. PICK K, E : K = KeyPdus /\ E = KeyEvents
  OBVIOUS
<1>2. K = KeyPdus' /\ E = KeyEvents'
  BY <1>1 DEF KeyPdus, KeyEvents
<1>3. \A x \in K : x.code = "public key"
  BY <1>1, KeyCodes
<1>4. \A e \in E : e.t = "pdu"
  BY <1>1, KeyCodes
<1>5. Passes(tosend["C"], air["C"], tosend'["C"], air'["C"], nc)
  BY DEF Way, Passed
<1>6. Recv(wire["P"], host["P"].back, wire'["P"], host'["P"].back)
  BY DEF Reception, Received
<1>7. K \cap nc = {}
  BY <1>3
<1>8. ASSUME Free(tosend["C"], K), Free(air["C"], K) PROVE Free(tosend'["C"], K) /\ Free(air'["C"], K)
  <2>1. Els(tosend["C"]) \cap K = {} /\ Els(air["C"]) \cap K = {}
    BY <1>8, FreeEls
  <2>2. Els(tosend'["C"]) \cap K = {} /\ Els(air'["C"]) \cap K = {}
    BY <1>5, <1>7, <2>1 DEF Passes
  <2> QED
    BY <2>2, FreeEls
<1>9. ASSUME Free(wire["P"], E), Free(host["P"].back, E) PROVE Free(wire'["P"], E) /\ Free(host'["P"].back, E)
  <2>1. Els(wire["P"]) \cap E = {} /\ Els(host["P"].back) \cap E = {}
    BY <1>9, FreeEls
  <2>2. Els(wire'["P"]) \cap E = {} /\ Els(host'["P"].back) \cap E = {}
    BY <1>4, <1>6, <2>1 DEF Recv
  <2> QED
    BY <2>2, FreeEls
<1>10. Slot(tosend["C"], air["C"], K) => Slot(tosend'["C"], air'["C"], K)
  BY <1>5, <1>7 DEF Passes
<1>11. Slot(wire["P"], host["P"].back, E) => Slot(wire'["P"], host'["P"].back, E)
  BY <1>4, <1>6 DEF Recv
<1>12. (Gone => Gone') /\ (Arrived => Arrived')
  BY <1>1, <1>2, <1>8, <1>9 DEF Gone, Arrived
<1>13. OneKey => OneKey'
  BY <1>1, <1>2, <1>10, <1>11, <1>12 DEF OneKey
<1> QED
  BY <1>12, <1>13 DEF Clear

-----------------------------------------------------------------------------
(* Calm steps: no loud PDU is made and neither pairing moves.              *)

Loud == {"request", "response", "public key", "dhkey check"}
Early == {"connect", "connecting", "secreq"}

(* A step that leaves both pairings alone and says nothing about them. *)
CentralSame == /\ IsCentral(c') /\ c'.smp = c.smp /\ c'.run = c.run /\ c'.cycle \in Nat
               /\ c'.pc \in Early /\ c'.cycle = 0 => c.pc \in Early /\ c.cycle = 0
PeripheralSame == IsPeripheral(p') /\ (p'.smp = p.smp \/ p'.smp = <<>>)
Calm == /\ setting' = setting /\ CentralSame /\ PeripheralSame /\ Reception
        /\ \E nc, np : Way(nc, np) /\ \A x \in nc \cup np : IsPacket(x) /\ x.code \notin Loud

LEMMA CalmShapes == ASSUME Shapes, Calm PROVE Shapes'
<1>1. PICK nc, np : Way(nc, np) /\ \A x \in nc \cup np : IsPacket(x) /\ x.code \notin Loud
  BY DEF Calm
<1>2. IsCentral(c') /\ IsPairing(c'.smp)
  BY DEF Calm, CentralSame, Shapes
<1>3. IsPeripheral(p') /\ (p'.smp = <<>> \/ (p'.smp = <<p'.smp[1]>> /\ IsPairing(p'.smp[1])))
  BY DEF Calm, PeripheralSame, Shapes
<1> QED
  BY <1>1, <1>2, <1>3, ShapesNext DEF Calm

LEMMA CalmPairs == ASSUME Shapes, PairInv, Calm PROVE PairInv'
<1>1. PICK nc, np : Way(nc, np) /\ \A x \in nc \cup np : IsPacket(x) /\ x.code \notin Loud
  BY DEF Calm
<1>2. /\ setting' = setting /\ c'.smp = c.smp /\ c'.run = c.run /\ c'.cycle \in Nat
      /\ c'.pc \in Early /\ c'.cycle = 0 => c.pc \in Early /\ c.cycle = 0
      /\ p'.smp = p.smp \/ p'.smp = <<>>
      /\ Reception
  BY DEF Calm, CentralSame, PeripheralSame
<1>3. OnWay("C")' \subseteq OnWay("C") \cup nc /\ OnWay("P")' \subseteq OnWay("P") \cup np
  BY <1>1, <1>2, WayNext
<1>4. (OneKey => OneKey') /\ (Clear => Clear')
  <2>1. \A x \in nc : x.code # "public key"
    BY <1>1 DEF Loud
  <2>2. Shapes /\ Reception /\ Way(nc, np) /\ c'.smp.key = c.smp.key
    BY <1>1, <1>2
  <2> QED
    BY <2>1, <2>2, KeyNext
<1>5. Pdus'
  <2>1. ASSUME NEW x, FromCentral(x) \/ x.code \notin Loud PROVE FromCentral(x)'
    BY <1>2, <2>1 DEF FromCentral, Loud
  <2>2. ASSUME NEW x, FromPeripheral(x) \/ x.code \notin Loud PROVE FromPeripheral(x)'
    BY <1>2, <2>2 DEF FromPeripheral, Loud
  <2> QED
    BY <1>1, <1>3, <2>1, <2>2 DEF PairInv, Pdus
<1>6. CentralOK'
  BY <1>2 DEF PairInv, CentralOK, Keyed, Agreed, Early
<1>7. HasSmp' => p'.smp = p.smp /\ HasSmp
  BY <1>2 DEF HasSmp
<1>8. (HasSmp => ResponderOK(p.smp[1]))'
  BY <1>2, <1>7 DEF PairInv, ResponderOK
<1>9. Met' => Met
  BY <1>2, <1>7 DEF Met
<1>10. Once'
  <2>1. ASSUME NEW x \in OnWay("P")', Checks(x)' PROVE x \in OnWay("P") /\ Checks(x)
    BY <1>1, <1>2, <1>3, <2>1 DEF Loud, Checks
  <2> QED
    BY <1>2, <1>4, <1>9, <2>1 DEF PairInv, Once
<1>11. ASSUME NEW m, Settled(m) PROVE Settled(m)'
  BY <1>4, <1>7, <1>9, <1>11 DEF Settled, Met
<1>12. Answered'
  <2>1. (c.smp.state = "complete" => Settled(c.smp.mac))'
    <3>1. ASSUME c.smp.state = "complete" PROVE Settled(c.smp.mac)
      BY <3>1 DEF PairInv, Answered
    <3>2. Settled(c.smp.mac) => Settled(c.smp.mac)'
      BY <1>2, <1>4, <1>7, <1>9 DEF Settled, Met
    <3> QED
      BY <1>2, <3>1, <3>2
  <2>2. ASSUME NEW x \in OnWay("P")', Checks(x)'
        PROVE  Settled(x.val[2])'
    <3>1. x \in OnWay("P") /\ Checks(x)
      BY <1>1, <1>2, <1>3, <2>2 DEF Loud, Checks
    <3> QED
      BY <1>2, <1>11, <2>2, <3>1 DEF PairInv, Answered
  <2> QED
    BY <2>1, <2>2 DEF Answered
<1> QED
  BY <1>5, <1>6, <1>8, <1>10, <1>12 DEF PairInv

LEMMA Programs == ASSUME Shapes, PairInv PROVE IsCentral(c) /\ c.cycle \in Nat /\ IsPeripheral(p)
  BY DEF Shapes, PairInv, CentralOK

LEMMA SameC == ASSUME Shapes, PairInv, c' = c PROVE CentralSame
  BY Programs DEF CentralSame

LEMMA SameP == ASSUME Shapes, p' = p PROVE PeripheralSame
  BY DEF Shapes, PeripheralSame

LEMMA GoSame ==
    ASSUME Shapes, PairInv, NEW x, GoTo(x), x \notin Early \/ c.pc \in Early PROVE CentralSame
<1>1. IsCentral(c') /\ c'.pc = x /\ c'.smp = c.smp /\ c'.run = c.run /\ c'.cycle = c.cycle
  BY Programs DEF GoTo, IsCentral
<1> QED
  BY <1>1, Programs DEF CentralSame

LEMMA HangSame == ASSUME Shapes, PairInv, NEW x, Hang(x) PROVE CentralSame
<1>1. IsCentral(c') /\ c'.pc = "disconnect" /\ c'.smp = c.smp /\ c'.run = c.run /\ c'.cycle = c.cycle
  BY Programs DEF Hang, IsCentral
<1> QED
  BY <1>1, Programs DEF CentralSame, Early

LEMMA CycleSame ==
    ASSUME Shapes, PairInv, NEW d, IsCentral(d), d.smp = c.smp, d.run = c.run, d.cycle = c.cycle, c' = NextCycle(d)
    PROVE  CentralSame
<1>1. CASE c' = [d EXCEPT !.pc = "connect", !.cycle = d.cycle + 1]
  <2>1. IsCentral(c') /\ c'.pc = "connect" /\ c'.smp = c.smp /\ c'.run = c.run /\ c'.cycle = c.cycle + 1
    BY <1>1 DEF IsCentral
  <2>2. c'.cycle \in Nat /\ c'.cycle # 0
    BY <2>1, Programs
  <2> QED
    BY <2>1, <2>2 DEF CentralSame
<1>2. CASE c' = [d EXCEPT !.pc = "over"]
  <2>1. IsCentral(c') /\ c'.pc = "over" /\ c'.smp = c.smp /\ c'.run = c.run /\ c'.cycle = c.cycle
    BY <1>2 DEF IsCentral
  <2> QED
    BY <2>1, Programs DEF CentralSame, Early
<1> QED
  BY <1>1, <1>2 DEF NextCycle

LEMMA EncryptedSame == ASSUME Shapes, PairInv, NEW o, Encrypted(o) PROVE CentralSame
<1>1. PICK x : x = IF c.cycle = 0 THEN (IF o = "on" THEN "collect" ELSE "save")
                   ELSE (IF o = "on" THEN "probe" ELSE "disconnect")
  OBVIOUS
<1>2. c' = [c EXCEPT !.outcome = o, !.pc = x, !.then = "cycle"]
  BY <1>1 DEF Encrypted
<1>3. IsCentral(c') /\ c'.pc = x /\ c'.smp = c.smp /\ c'.run = c.run /\ c'.cycle = c.cycle
  BY <1>2, Programs DEF IsCentral
<1>4. x \notin Early
  BY <1>1 DEF Early
<1> QED
  BY <1>3, <1>4, Programs DEF CentralSame

(* A step whose only PDUs are the ones that were there. *)
LEMMA CalmQuietly ==
    ASSUME Shapes, setting' = setting, CentralSame, PeripheralSame, Reception, Transmission PROVE Calm
<1>1. Way({}, {})
  BY DEF Transmission
<1> QED
  BY <1>1 DEF Calm

LEMMA CalmC ==
    ASSUME Shapes, setting' = setting, CentralSame, p' = p, Reception, tosend' = tosend, air' = air PROVE Calm
  BY SameP, SameTransmission, CalmQuietly

LEMMA CalmP ==
    ASSUME Shapes, PairInv, setting' = setting, PeripheralSame, c' = c, Reception, tosend' = tosend, air' = air
    PROVE  Calm
  BY SameC, SameTransmission, CalmQuietly

(* The central's calm steps. *)
LEMMA ConnectCalm == ASSUME Shapes, PairInv, connect PROVE Calm
<1>1. CentralSame
  <2>1. c.pc \in Early /\ (GoTo("over") \/ GoTo("connecting"))
    BY DEF connect, At, Early
  <2> QED
    BY <2>1, GoSame
<1> QED
  BY <1>1, ConnectReceives, CalmC DEF connect, Leaves

LEMMA ConnectingCalm == ASSUME Shapes, PairInv, Connecting \/ ConnectTimeout PROVE Calm
<1>1. CentralSame
  <2>1. c.pc \in Early /\ (GoTo("over") \/ GoTo("secreq") \/ c' = c)
    BY DEF Connecting, ConnectTimeout, At, Early
  <2> QED
    BY <2>1, GoSame, SameC
<1>2. setting' = setting /\ p' = p /\ tosend' = tosend /\ air' = air
  BY DEF Connecting, ConnectTimeout, Leaves, Quiet, controllers
<1> QED
  BY <1>1, <1>2, ConnectingReceives, TimeoutReceives, CalmC

LEMMA PollersCalm ==
    ASSUME Shapes, PairInv, \/ PairFails \/ Paired \/ wait_encryption \/ collect_keys \/ save_bond
                            \/ Probing \/ _take_credit("C")
    PROVE  Calm
<1>1. Reception
  BY PollersReceive
<1>2. setting' = setting /\ p' = p /\ tosend' = tosend /\ air' = air
  BY DEF PairFails, Paired, wait_encryption, collect_keys, save_bond, Probing, _take_credit, Leaves, Quiet,
         controllers, programs
<1>3. CentralSame
  <2>1. CASE PairFails
    BY <2>1, HangSame DEF PairFails
  <2>2. CASE Paired
    <3>1. CASE c.smp.state = "complete"
      <4>1. c' = [c EXCEPT !.pc = "encrypt", !.ltk = c.smp.ltk]
        BY <2>2, <3>1 DEF Paired
      <4>2. IsCentral(c') /\ c'.pc = "encrypt" /\ c'.smp = c.smp /\ c'.run = c.run /\ c'.cycle = c.cycle
        BY <4>1, Programs DEF IsCentral
      <4> QED
        BY <4>2, Programs DEF CentralSame, Early
    <3>2. CASE c.smp.state # "complete"
      BY <2>2, <3>2, HangSame DEF Paired
    <3> QED
      BY <3>1, <3>2
  <2>3. CASE wait_encryption
    BY <2>3, EncryptedSame, SameC DEF wait_encryption
  <2>4. CASE collect_keys
    <3>1. CASE GoTo("sendkeys")
      BY <3>1, GoSame DEF Early
    <3>2. CASE ~ GoTo("sendkeys")
      <4>0. /\ At("collect")
            /\ c' = [c EXCEPT !.expect = IF Item.t = "pdu" /\ Item.v.code # "att response"
                                         THEN c.expect - 1 ELSE c.expect]
        BY <2>4, <3>2 DEF collect_keys
      <4>1. PICK x : c' = [c EXCEPT !.expect = x]
        BY <4>0
      <4>2. IsCentral(c') /\ c'.pc = c.pc /\ c'.smp = c.smp /\ c'.run = c.run /\ c'.cycle = c.cycle
        BY <4>1, Programs DEF IsCentral
      <4> QED
        BY <4>2, Programs DEF CentralSame
    <3> QED
      BY <3>1, <3>2
  <2>5. CASE save_bond
    <3>1. GoTo("saving") \/ GoTo("probe") \/ Hang("over")
      BY <2>5 DEF save_bond
    <3> QED
      BY <3>1, GoSame, HangSame DEF Early
  <2>6. CASE Probing
    <3>1. c' = c \/ \E x : Hang(x)
      BY <2>6 DEF Probing
    <3> QED
      BY <3>1, HangSame, SameC
  <2>7. CASE _take_credit("C")
    BY <2>7, SameC DEF _take_credit, programs
  <2> QED
    BY <2>1, <2>2, <2>3, <2>4, <2>5, <2>6, <2>7
<1> QED
  BY <1>1, <1>2, <1>3, CalmC

LEMMA EncryptCalm == ASSUME Shapes, PairInv, start_encryption PROVE Calm
<1>1. CentralSame
  BY GoSame DEF start_encryption, Early
<1> QED
  BY <1>1, EncryptReceives, CalmC DEF start_encryption, Leaves

LEMMA HangupCalm == ASSUME Shapes, PairInv, disconnect \/ Hanging PROVE Calm
<1>1. CentralSame
  <2>1. CASE disconnect
    BY <2>1, GoSame DEF disconnect, Early
  <2>2. CASE Hanging
    <3>1. c' = c \/ c' = NextCycle(c)
      BY <2>2 DEF Hanging
    <3> QED
      BY <3>1, SameC, CycleSame, Programs
  <2> QED
    BY <2>1, <2>2
<1>2. setting' = setting /\ p' = p /\ tosend' = tosend /\ air' = air
  BY DEF disconnect, Hanging, Leaves, controllers
<1> QED
  BY <1>1, <1>2, DisconnectReceives, HangingReceives, CalmC

LEMMA SeqOne == ASSUME NEW x PROVE IsSeq(<<x>>) /\ Els(<<x>>) = {x}
<1>1. Len(<<x>>) = 1 /\ <<x>>[1] = x /\ <<x>> \in Seq({x})
  OBVIOUS
<1>2. 1 .. 1 = {1}
  OBVIOUS
<1>3. IsSeq(<<x>>)
  BY <1>1, SeqOwn
<1> QED
  BY <1>1, <1>2, <1>3 DEF Els

LEMMA SeqTwo == ASSUME NEW x, NEW y PROVE IsSeq(<<x, y>>) /\ Els(<<x, y>>) = {x, y}
<1>1. PICK q : q = <<x, y>>
  OBVIOUS
<1>2. q \in Seq({x, y}) /\ Len(q) = 2 /\ q[1] = x /\ q[2] = y
  BY <1>1
<1>3. IsSeq(q)
  BY <1>2, SeqOwn
<1>4. 1 .. 2 = {1, 2}
  OBVIOUS
<1>5. Els(q) = {x, y}
  BY <1>2, <1>4 DEF Els
<1> QED
  BY <1>1, <1>3, <1>5

(* Key PDUs and attribute requests. *)
LEMMA SaidCalm ==
    ASSUME Shapes, NEW out, IsSeq(out), tosend["C"] = <<>>, tosend' = [tosend EXCEPT !["C"] = out], air' = air,
           \A x \in Els(out) : IsPacket(x) /\ x.code \notin Loud,
           setting' = setting, CentralSame, PeripheralSame, Reception
    PROVE  Calm
<1>1. Way(Els(out), {})
  BY CentralSays
<1> QED
  BY <1>1 DEF Calm

LEMMA AnsweredCalm ==
    ASSUME Shapes, NEW out, IsSeq(out), tosend["P"] = <<>>, tosend' = [tosend EXCEPT !["P"] = out], air' = air,
           \A x \in Els(out) : IsPacket(x) /\ x.code \notin Loud,
           setting' = setting, CentralSame, PeripheralSame, Reception
    PROVE  Calm
<1>1. Way({}, Els(out))
  BY PeripheralSays
<1> QED
  BY <1>1 DEF Calm

LEMMA KeysCalm == ASSUME Shapes, PairInv, send_keys PROVE Calm
<1>1. setting.init \in Nat
  BY SettingsAssumption DEF Shapes
<1>2. PICK out : out = [i \in 1 .. setting.init |-> Pdu("key", i)]
  OBVIOUS
<1>3. Len(out) = setting.init /\ out \in Seq({Pdu("key", i) : i \in 1 .. setting.init})
  BY <1>1, <1>2
<1>4. IsSeq(out)
  BY <1>3, SeqOwn
<1>5. \A x \in Els(out) : IsPacket(x) /\ x.code \notin Loud
  <2>1. ASSUME NEW x \in Els(out) PROVE IsPacket(x) /\ x.code \notin Loud
    <3>1. PICK i \in 1 .. setting.init : x = Pdu("key", i)
      BY <1>2, <1>3, <2>1 DEF Els
    <3> QED
      BY <3>1 DEF IsPacket, Pdu, Loud
  <2> QED
    BY <2>1
<1>6. CentralSame /\ PeripheralSame
  BY GoSame, SameP DEF send_keys, Early
<1>7. tosend["C"] = <<>> /\ tosend' = [tosend EXCEPT !["C"] = out] /\ air' = air /\ setting' = setting
  BY <1>2 DEF send_keys, At, controllers
<1> QED
  BY <1>4, <1>5, <1>6, <1>7, PollersReceive, SaidCalm

LEMMA ProbeCalm == ASSUME Shapes, PairInv, att_probe PROVE Calm
<1>1. PICK x : x = Pdu("att request", 0)
  OBVIOUS
<1>2. IsPacket(x) /\ x.code \notin Loud
  BY <1>1 DEF IsPacket, Pdu, Loud
<1>3. IsSeq(<<x>>) /\ Els(<<x>>) = {x}
  BY SeqOne
<1>4. CentralSame /\ PeripheralSame
  BY GoSame, SameP DEF att_probe, Early
<1>5. tosend["C"] = <<>> /\ tosend' = [tosend EXCEPT !["C"] = <<x>>] /\ air' = air /\ setting' = setting
  BY <1>1 DEF att_probe, At, controllers
<1> QED
  BY <1>2, <1>3, <1>4, <1>5, PollersReceive, SaidCalm

(* A reconnect needs no pairing. *)
LEMMA SecurityCalm ==
    ASSUME Shapes, PairInv, wait_security_request, c.cycle # 0 \/ (c' = c /\ tosend' = tosend) PROVE Calm
<1>1. tosend' = tosend /\ CentralSame
  <2>1. CASE c' = c /\ tosend' = tosend
    BY <2>1, SameC
  <2>2. CASE ~(c' = c /\ tosend' = tosend)
    <3>1. PICK h : AfterSecurityRequest(h)
      BY <2>2 DEF wait_security_request
    <3>2. c.cycle # 0
      BY <2>2
    <3>3. PICK d : d = [c EXCEPT !.then = "cycle"]
      OBVIOUS
    <3>4. (GoTo("encrypt") \/ c' = NextCycle(d)) /\ tosend' = tosend
      BY <3>1, <3>2, <3>3 DEF AfterSecurityRequest
    <3>5. IsCentral(d) /\ d.smp = c.smp /\ d.run = c.run /\ d.cycle = c.cycle
      BY <3>3, Programs DEF IsCentral
    <3> QED
      BY <3>4, <3>5, GoSame, CycleSame DEF Early
  <2> QED
    BY <2>1, <2>2
<1>2. setting' = setting /\ p' = p /\ air' = air
  BY DEF wait_security_request, controllers
<1> QED
  BY <1>1, <1>2, SecurityReceives, CalmC

LEMMA RaisesSame ==
    ASSUME Shapes, PairInv, NEW s \in Sides, RaisesIn(s) PROVE CentralSame /\ PeripheralSame
<1>1. CASE s = "C"
  <2>1. p' = p /\ c' = [c EXCEPT !.pc = IF host["C"].handle = 0 THEN "over" ELSE "disconnect", !.then = "over"]
    BY <1>1 DEF RaisesIn
  <2>2. PICK x : x = IF host["C"].handle = 0 THEN "over" ELSE "disconnect"
    OBVIOUS
  <2>3. c' = [c EXCEPT !.pc = x, !.then = "over"] /\ x \notin Early
    BY <2>1, <2>2 DEF Early
  <2>4. IsCentral(c') /\ c'.pc = x /\ c'.smp = c.smp /\ c'.run = c.run /\ c'.cycle = c.cycle
    BY <2>3, Programs DEF IsCentral
  <2> QED
    BY <2>1, <2>3, <2>4, Programs, SameP DEF CentralSame
<1>2. CASE s = "P"
  <2>1. c' = c /\ p' = [p EXCEPT !.pc = "finally"]
    BY <1>2 DEF RaisesIn
  <2>2. IsPeripheral(p') /\ p'.smp = p.smp
    BY <2>1, Programs DEF IsPeripheral
  <2> QED
    BY <2>1, <2>2, SameC DEF PeripheralSame
<1> QED
  BY <1>1, <1>2, Both

LEMMA SendersCalm ==
    ASSUME Shapes, PairInv, NEW s \in Sides, send_l2cap(s) \/ NoCredit(s) PROVE Calm
<1>1. CASE send_l2cap(s)
  <2>1. setting' = setting /\ c' = c /\ p' = p
    BY <1>1 DEF send_l2cap
  <2> QED
    BY <1>1, <2>1, SameC, SameP, SendReceives, SendTransmits, CalmQuietly
<1>2. CASE NoCredit(s)
  <2>0. RaisesIn(s) /\ air' = air
    BY <1>2 DEF NoCredit, controllers
  <2>1. setting' = setting /\ CentralSame /\ PeripheralSame
    BY <1>2, RaisesSame DEF NoCredit
  <2>2. Reception
    BY <1>2, Both, PollersReceive, PeripheralPolls
  <2> QED
    BY <2>0, <2>1, <2>2, RaisesTransmits, CalmQuietly
<1> QED
  BY <1>1, <1>2

(* The peripheral's. *)
LEMMA NewConnCalm == ASSUME Shapes, PairInv, NewConn PROVE Calm
<1>1. PICK x : x = Pdu("security request", 0)
  OBVIOUS
<1>2. IsPacket(x) /\ x.code \notin Loud
  BY <1>1 DEF IsPacket, Pdu, Loud
<1>3. IsSeq(<<x>>) /\ Els(<<x>>) = {x}
  BY SeqOne
<1>4. tosend["P"] = <<>> /\ tosend' = [tosend EXCEPT !["P"] = <<x>>] /\ air' = air /\ setting' = setting /\ c' = c
  BY <1>1 DEF NewConn, Turn, Apart, controllers
<1>5. PeripheralSame
  <2>1. p' = [p EXCEPT !.conn = host["P"].newconn, !.smp = <<>>, !.prompted = FALSE, !.paired = FALSE]
    BY DEF NewConn
  <2>2. IsPeripheral(p') /\ p'.smp = <<>>
    BY <2>1, Programs DEF IsPeripheral
  <2> QED
    BY <2>2 DEF PeripheralSame
<1> QED
  BY <1>2, <1>3, <1>4, <1>5, SameC, NewConnReceives, AnsweredCalm

LEMMA ServeKeyCalm == ASSUME Shapes, PairInv, ServeKeyRequest PROVE Calm
<1>1. setting' = setting /\ c' = c /\ p' = p /\ tosend' = tosend /\ air' = air
  BY DEF ServeKeyRequest, Apart
<1> QED
  BY <1>1, SameC, ServeReceives, CalmC

LEMMA PcSame == ASSUME Shapes, PairInv, NEW x, p' = [p EXCEPT !.pc = x] PROVE PeripheralSame
<1>1. IsPeripheral(p') /\ p'.smp = p.smp
  BY Programs DEF IsPeripheral
<1> QED
  BY <1>1 DEF PeripheralSame

LEMMA LoopEndsCalm == ASSUME Shapes, PairInv, LoopEnds PROVE Calm
<1>1. setting' = setting /\ c' = c /\ tosend' = tosend /\ air' = air
  BY DEF LoopEnds, LinkOver, Apart
<1>2. PeripheralSame
  <2>1. CASE host["P"].disc # 0 /\ p.conn # 0
    <3>1. PICK x, y : p' = [p EXCEPT !.pc = x, !.conn = 0, !.smp = <<>>, !.prompted = FALSE, !.paired = FALSE,
                                   !.summary = y]
      BY <2>1 DEF LoopEnds, LinkOver
    <3>2. IsPeripheral(p') /\ p'.smp = <<>>
      BY <3>1, Programs DEF IsPeripheral
    <3> QED
      BY <3>2 DEF PeripheralSame
  <2>2. CASE ~(host["P"].disc # 0 /\ p.conn # 0)
    <3>1. PICK y : p' = [p EXCEPT !.pc = "loop", !.paired = y]
      BY <2>2 DEF LoopEnds, LinkOver
    <3>2. IsPeripheral(p') /\ p'.smp = p.smp
      BY <3>1, Programs DEF IsPeripheral
    <3> QED
      BY <3>2 DEF PeripheralSame
  <2> QED
    BY <2>1, <2>2
<1> QED
  BY <1>1, <1>2, LoopEndsReceives, CalmP

LEMMA EndingCalm == ASSUME Shapes, PairInv, PollsNothing \/ Finally \/ _take_credit("P") PROVE Calm
<1>1. setting' = setting /\ c' = c /\ tosend' = tosend /\ air' = air
  BY DEF PollsNothing, Finally, _take_credit, Apart, controllers, programs
<1>2. PeripheralSame
  BY PcSame, SameP DEF PollsNothing, Finally, _take_credit, programs
<1>3. Reception
  BY FinallyReceives, PeripheralPolls
<1> QED
  BY <1>1, <1>2, <1>3, CalmP

LEMMA InterruptCalm == ASSUME Shapes, PairInv, KeyboardInterrupt PROVE Calm
<1>1. RaisesIn("P") /\ air' = air /\ setting' = setting
  BY DEF KeyboardInterrupt, controllers
<1>2. CentralSame /\ PeripheralSame
  BY <1>1, Both, RaisesSame
<1>3. Reception
  BY PeripheralPolls
<1> QED
  BY <1>1, <1>2, <1>3, Both, RaisesTransmits, CalmQuietly

(* The controllers', but for the delivery of a PDU. *)
LEMMA ControllersCalm ==
    ASSUME Shapes, PairInv, Connected \/ LinkLost \/ \E s \in Sides : Ends(s) PROVE Calm
<1>1. setting' = setting /\ c' = c /\ p' = p
  BY DEF Connected, LinkLost, Ends, Hosts, programs
<1>2. CASE Connected \/ LinkLost
  <2>1. tosend' = tosend /\ air' = air
    BY <1>2 DEF Connected, LinkLost, Hosts, programs
  <2> QED
    BY <1>1, <1>2, <2>1, SameC, ConnectedReceives, LostReceives, CalmC
<1>3. CASE \E s \in Sides : Ends(s)
  <2>1. Reception /\ Transmission
    BY <1>3, EndsReceives, EndsTransmits
  <2> QED
    BY <1>1, <2>1, SameC, SameP, CalmQuietly
<1> QED
  BY <1>2, <1>3

LEMMA StutterCalm == ASSUME Shapes, PairInv, UNCHANGED vars PROVE Calm
<1>1. setting' = setting /\ c' = c /\ p' = p /\ tosend' = tosend /\ air' = air /\ host' = host /\ wire' = wire
  BY DEF vars, programs, controllers
<1> QED
  BY <1>1, SameC, NothingReads, CalmC

-----------------------------------------------------------------------------
(* What a PDU makes of the pairing of the central ...                      *)

(* What a PDU makes of a pairing: it fails, ... *)
Fails(x, f) == /\ f.smp = [x EXCEPT !.state = "failed"]
               /\ f.out = <<>> \/ \E r : f.out = <<Pdu("failed", r)>>
Ignores(x, f) == f.smp = x /\ f.out = <<>>

LEMMA FailFails == ASSUME NEW x, NEW r PROVE Fails(x, _fail(x, r)) /\ Fails(x, Raises(x))
  BY DEF Fails, _fail, Raises, Does

(* ... or goes on, at the central, ... *)
TakesResponse(x, d, f) ==
    /\ d.code = "response" /\ x.state = "wait response"
    /\ f.smp = [x EXCEPT !.state = "wait public key", !.theirs = d.val, !.method = Method(x.mine, d.val)]
    /\ f.out = <<Pdu("public key", x.key)>>
TakesKey(x, d, f) ==
    /\ d.code = "public key" /\ x.state = "wait public key"
    /\ f.smp = [x EXCEPT !.state = "wait confirm", !.peer = d.val, !.dhkey = {x.key, d.val}]
    /\ f.out = <<>>
TakesConfirm(x, d, f) ==
    /\ d.code = "confirm" /\ x.state = "wait confirm"
    /\ f.smp = [x EXCEPT !.state = "wait random", !.confirm = d.val, !.na = <<"na", x.key>>]
    /\ \E v : f.out = <<Pdu("random", v)>>
SameUpTo(x, y) == /\ y.mine = x.mine /\ y.theirs = x.theirs /\ y.method = x.method
                  /\ y.key = x.key /\ y.peer = x.peer /\ y.dhkey = x.dhkey
SendsCheck(f) ==
    /\ IsPairing(f.smp) /\ f.smp.state = "wait dhkey check" /\ Agreed(f.smp)
    /\ f.smp.check = f6(f.smp.mac, f.smp.nb, f.smp.na, IoCap(f.smp.theirs), "P", "C")
    /\ f.out = <<Pdu("dhkey check", f6(f.smp.mac, f.smp.na, f.smp.nb, IoCap(f.smp.mine), "C", "P"))>>
TakesRandom(x, d, f) ==
    /\ d.code = "random" /\ x.state = "wait random"
    /\ SameUpTo(x, f.smp) /\ SendsCheck(f)
TakesCheck(x, d, f) ==
    /\ d.code = "dhkey check" /\ x.state = "wait dhkey check" /\ d.val = x.check
    /\ f.smp = [x EXCEPT !.state = "complete"] /\ f.out = <<>>

LEMMA OnResponse ==
    ASSUME NEW x, NEW d, d.code = "response", NEW f, f = central_on_response(x, d)
    PROVE  Fails(x, f) \/ TakesResponse(x, d, f)
<1>1. CASE \E r : f = _fail(x, r)
  BY <1>1, FailFails
<1>2. CASE f = Raises(x)
  BY <1>2, FailFails
<1>3. CASE /\ x.state = "wait response"
           /\ f = Does([x EXCEPT !.state = "wait public key", !.theirs = d.val, !.method = Method(x.mine, d.val)],
                       <<Pdu("public key", x.key)>>)
  <2>1. TakesResponse(x, d, f)
    BY ONLY <1>3, d.code = "response" DEF TakesResponse, Does
  <2> QED
    BY <2>1
<1> QED
  BY <1>1, <1>2, <1>3 DEF central_on_response

LEMMA OnKey ==
    ASSUME NEW x, NEW d, d.code = "public key", NEW f, f = central_on_public_key(x, d)
    PROVE  Fails(x, f) \/ TakesKey(x, d, f)
<1>1. CASE f = Raises(x)
  BY <1>1, FailFails
<1>2. CASE /\ x.state = "wait public key"
           /\ f = Stays([x EXCEPT !.state = "wait confirm", !.peer = d.val, !.dhkey = shared_secret(x.key, d.val)])
  <2>1. TakesKey(x, d, f)
    BY ONLY <1>2, d.code = "public key" DEF TakesKey, Stays, Does, shared_secret
  <2> QED
    BY <2>1
<1> QED
  BY <1>1, <1>2 DEF central_on_public_key

LEMMA OnConfirm ==
    ASSUME NEW x, NEW d, d.code = "confirm", NEW f, f = central_on_confirm(x, d)
    PROVE  Fails(x, f) \/ TakesConfirm(x, d, f)
<1>1. CASE f = Raises(x)
  BY <1>1, FailFails
<1>2. CASE /\ x.state = "wait confirm"
           /\ f = Does([x EXCEPT !.state = "wait random", !.confirm = d.val, !.na = <<"na", x.key>>],
                       <<Pdu("random", <<"na", x.key>>)>>)
  <2>1. TakesConfirm(x, d, f)
    BY ONLY <1>2, d.code = "confirm" DEF TakesConfirm, Does
  <2> QED
    BY <2>1
<1> QED
  BY <1>1, <1>2 DEF central_on_confirm

LEMMA OnCheck ==
    ASSUME NEW x, NEW d, d.code = "dhkey check", NEW f, f = central_on_dhkey_check(x, d)
    PROVE  Fails(x, f) \/ TakesCheck(x, d, f)
<1>1. CASE f = Raises(x) \/ f = _fail(x, "dhkey check failed")
  BY <1>1, FailFails
<1>2. CASE x.state = "wait dhkey check" /\ d.val = x.check /\ f = Stays([x EXCEPT !.state = "complete"])
  <2>1. TakesCheck(x, d, f)
    BY ONLY <1>2, d.code = "dhkey check" DEF TakesCheck, Stays, Does
  <2> QED
    BY <2>1
<1> QED
  BY <1>1, <1>2 DEF central_on_dhkey_check

(* The comparison of pair() is accepted in the same turn. *)
LEMMA SendCheck ==
    ASSUME NEW y, IsPairing(y), Agreed(y), NEW f, f = _send_dhkey_check(y)
    PROVE  SameUpTo(y, f.smp) /\ SendsCheck(f)
<1>1. PICK k : k = f6(y.mac, y.nb, y.na, IoCap(y.theirs), "P", "C")
  OBVIOUS
<1>2. PICK z : z = [y EXCEPT !.state = "wait dhkey check", !.check = k]
  OBVIOUS
<1>3. f.smp = z /\ f.out = <<Pdu("dhkey check", f6(y.mac, y.na, y.nb, IoCap(y.mine), "C", "P"))>>
  BY <1>1, <1>2 DEF _send_dhkey_check, Does
<1>4. /\ IsPairing(z) /\ SameUpTo(y, z) /\ z.state = "wait dhkey check" /\ z.check = k
      /\ z.mac = y.mac /\ z.na = y.na /\ z.nb = y.nb /\ z.ltk = y.ltk
  BY ONLY IsPairing(y), <1>2 DEF IsPairing, SameUpTo
<1>5. Agreed(z)
  BY ONLY <1>4, Agreed(y) DEF Agreed, SameUpTo
<1>6. z.theirs = y.theirs /\ z.mine = y.mine
  BY ONLY <1>4 DEF SameUpTo
<1> QED
  BY ONLY <1>1, <1>3, <1>4, <1>5, <1>6 DEF SendsCheck

LEMMA OnRandom ==
    ASSUME NEW x, IsPairing(x), NEW d, d.code = "random", NEW f, f = Fed(x, d), ~ done(x)
    PROVE  Fails(x, f) \/ TakesRandom(x, d, f)
<1>1. PICK g : g = central_on_random(x, d)
  OBVIOUS
<1>2. g = central_feed(x, d)
  BY <1>1 DEF central_feed
<1>3. f = IF g.smp.state = "wait user" THEN central_user_confirm(g.smp, TRUE) ELSE g
  BY <1>2 DEF Fed
<1>4. PICK m, l : m = <<"mac", x.dhkey, x.na, d.val>> /\ l = <<"ltk", x.dhkey, x.na, d.val>>
  OBVIOUS
<1>5. PICK n : n = [x EXCEPT !.nb = d.val, !.mac = m, !.ltk = l]
  OBVIOUS
<1>6. CASE g = Raises(x) \/ g = _fail(x, "confirm value failed")
  <2>1. Fails(x, g)
    BY <1>6, FailFails
  <2>2. g.smp.state = "failed"
    BY <2>1 DEF Fails, IsPairing
  <2>3. f = g
    BY <1>3, <2>2
  <2> QED
    BY <2>1, <2>3
<1>7. CASE x.state = "wait random" /\ g = Stays([n EXCEPT !.state = "wait user"])
  <2>1. PICK u : u = [n EXCEPT !.state = "wait user"]
    OBVIOUS
  <2>2. g.smp = u /\ u.state = "wait user"
    BY <1>5, <1>7, <2>1 DEF Stays, Does, IsPairing
  <2>3. PICK y : y = [u EXCEPT !.accepted = TRUE]
    OBVIOUS
  <2>4. /\ IsPairing(y) /\ SameUpTo(x, y)
        /\ y.mac = m /\ y.ltk = l /\ y.na = x.na /\ y.nb = d.val
    BY ONLY IsPairing(x), <1>5, <2>1, <2>3 DEF IsPairing, SameUpTo
  <2>5. Agreed(y)
    BY ONLY <1>4, <2>4 DEF Agreed, SameUpTo
  <2>6. f = _send_dhkey_check(y)
    BY <1>3, <2>2, <2>3 DEF central_user_confirm
  <2>7. TakesRandom(x, d, f)
    <3>1. SameUpTo(y, f.smp) /\ SendsCheck(f)
      BY ONLY <2>4, <2>5, <2>6, SendCheck
    <3>2. SameUpTo(x, f.smp)
      BY ONLY <2>4, <3>1 DEF SameUpTo
    <3> QED
      BY ONLY <1>7, <3>1, <3>2, d.code = "random" DEF TakesRandom
  <2> QED
    BY <2>7
<1>8. CASE x.state = "wait random" /\ g = _send_dhkey_check(n)
  <2>1. /\ IsPairing(n) /\ SameUpTo(x, n)
        /\ n.mac = m /\ n.ltk = l /\ n.na = x.na /\ n.nb = d.val
    BY ONLY IsPairing(x), <1>5 DEF IsPairing, SameUpTo
  <2>2. Agreed(n)
    BY ONLY <1>4, <2>1 DEF Agreed, SameUpTo
  <2>3. TakesRandom(x, d, g)
    <3>1. SameUpTo(n, g.smp) /\ SendsCheck(g)
      BY ONLY <1>8, <2>1, <2>2, SendCheck
    <3>2. SameUpTo(x, g.smp)
      BY ONLY <2>1, <3>1 DEF SameUpTo
    <3> QED
      BY ONLY <1>8, <3>1, <3>2, d.code = "random" DEF TakesRandom
  <2>4. f = g
    BY <1>3, <2>3 DEF TakesRandom, SendsCheck
  <2> QED
    BY <2>3, <2>4
<1> QED
  <2>1. f5(x.dhkey, x.na, d.val).mac = m /\ f5(x.dhkey, x.na, d.val).ltk = l
    BY <1>4 DEF f5
  <2> QED
    BY <1>1, <1>5, <1>6, <1>7, <1>8, <2>1 DEF central_on_random

LEMMA FedIs ==
    ASSUME NEW x, IsPairing(x), ~ done(x), x.state # "wait user", NEW d, NEW f, f = Fed(x, d)
    PROVE  \/ Fails(x, f) \/ Ignores(x, f) \/ TakesResponse(x, d, f) \/ TakesKey(x, d, f)
           \/ TakesConfirm(x, d, f) \/ TakesRandom(x, d, f) \/ TakesCheck(x, d, f)
<1>1. CASE d.code = "random"
  BY <1>1, OnRandom
<1>2. CASE d.code # "random"
  <2>1. PICK g : g = central_feed(x, d)
    OBVIOUS
  <2>2. \/ Fails(x, g) \/ Ignores(x, g) \/ TakesResponse(x, d, g) \/ TakesKey(x, d, g)
        \/ TakesConfirm(x, d, g) \/ TakesCheck(x, d, g)
    <3>1. CASE d.code = "failed"
      <4>1. g = Stays([x EXCEPT !.state = "failed"])
        BY <2>1, <3>1 DEF central_feed
      <4> QED
        BY <4>1 DEF Stays, Does, Fails
    <3>2. CASE d.code = "response"
      BY <2>1, <3>2, OnResponse DEF central_feed
    <3>3. CASE d.code = "public key"
      BY <2>1, <3>3, OnKey DEF central_feed
    <3>4. CASE d.code = "confirm"
      BY <2>1, <3>4, OnConfirm DEF central_feed
    <3>5. CASE d.code = "dhkey check"
      BY <2>1, <3>5, OnCheck DEF central_feed
    <3>6. CASE d.code \notin {"failed", "response", "public key", "confirm", "random", "dhkey check"}
      <4>1. g = Stays(x)
        BY <2>1, <3>6 DEF central_feed
      <4> QED
        BY <4>1 DEF Stays, Does, Ignores
    <3> QED
      BY <1>2, <3>1, <3>2, <3>3, <3>4, <3>5, <3>6
  <2>3. g.smp.state # "wait user"
    BY <2>2 DEF Fails, Ignores, TakesResponse, TakesKey, TakesConfirm, TakesCheck, IsPairing
  <2>4. f = g
    BY <2>1, <2>3 DEF Fed
  <2> QED
    BY <2>2, <2>4
<1> QED
  BY <1>1, <1>2

LEMMA LoneOne == ASSUME NEW x, NEW K PROVE Lone(<<x>>, K)
<1>1. Len(<<x>>) = 1
  OBVIOUS
<1>2. \A i, j \in 1 .. 1 : i = j
  OBVIOUS
<1> QED
  BY <1>1, <1>2 DEF Lone

Fresh == {"idle", "wait response"}

(* The PDUs on the way, after a step that adds proper ones. *)
LEMMA PdusNext ==
    ASSUME Shapes, PairInv, Reception, NEW nc, NEW np, Way(nc, np), setting' = setting, c'.run = c.run,
           \A x \in nc : FromCentral(x)', \A x \in np : FromPeripheral(x)'
    PROVE  Pdus'
<1>1. OnWay("C")' \subseteq OnWay("C") \cup nc /\ OnWay("P")' \subseteq OnWay("P") \cup np
  BY WayNext
<1>2. ASSUME NEW x, FromCentral(x) PROVE FromCentral(x)'
  BY <1>2 DEF FromCentral
<1>3. ASSUME NEW x, FromPeripheral(x) PROVE FromPeripheral(x)'
  BY <1>3 DEF FromPeripheral
<1> QED
  BY <1>1, <1>2, <1>3 DEF PairInv, Pdus

(* The central's pairing goes on, its public key apart. *)
LEMMA CentralStep ==
    ASSUME Shapes, PairInv, Reception, NEW nc, Way(nc, {}), setting' = setting, p'.smp = p.smp, c'.run = c.run,
           c'.smp.key = c.smp.key, CentralOK', \A x \in nc : x.code # "public key" /\ FromCentral(x)',
           c'.smp.state \in Fresh => c.smp.state \in Fresh,
           NEW m, m = c'.smp.mac, c'.smp.state = "complete" => Settled(m)
    PROVE  PairInv'
<1>0. PICK np : np = {}
  OBVIOUS
<1>1. OnWay("P")' \subseteq OnWay("P")
  <2>1. OnWay("P")' \subseteq OnWay("P") \cup np
    BY <1>0, WayNext
  <2> QED
    BY <1>0, <2>1
<1>2. (OneKey => OneKey') /\ (Clear => Clear')
  BY KeyNext
<1>3. Pdus'
  <2>1. Way(nc, np) /\ (\A x \in np : FromPeripheral(x)') /\ \A x \in nc : FromCentral(x)'
    BY <1>0
  <2> QED
    BY <2>1, PdusNext
<1>4. (HasSmp => ResponderOK(p.smp[1]))'
  BY DEF PairInv, ResponderOK, HasSmp
<1>5. Met' <=> Met
  BY DEF Met, HasSmp
<1>6. ASSUME NEW x PROVE Checks(x)' <=> Checks(x)
  BY DEF Checks
<1>7. Once'
  BY <1>1, <1>2, <1>5, <1>6 DEF PairInv, Once, Fresh
<1>8. ASSUME NEW k, Settled(k) PROVE Settled(k)'
  BY <1>2, <1>5, <1>8 DEF Settled
<1>9. Answered'
  <2>1. (c.smp.state = "complete" => Settled(c.smp.mac))'
    BY <1>2, <1>5 DEF Settled
  <2>2. ASSUME NEW x \in OnWay("P")', Checks(x)' PROVE Settled(x.val[2])'
    BY <1>1, <1>6, <1>8, <2>2 DEF PairInv, Answered
  <2> QED
    BY <2>1, <2>2 DEF Answered
<1> QED
  BY <1>3, <1>4, <1>7, <1>9 DEF PairInv

(* Its public key goes out: there was none on the way. *)
LEMMA KeySent ==
    ASSUME Shapes, PairInv, Reception, NEW pk, pk = Pdu("public key", c.smp.key), tosend["C"] = <<>>,
           tosend' = [tosend EXCEPT !["C"] = <<pk>>], air' = air,
           setting' = setting, p'.smp = p.smp, c'.run = c.run, c'.smp.key = c.smp.key, CentralOK',
           c.smp.state = "wait response", c'.smp.state = "wait public key"
    PROVE  PairInv'
<1>0. IsPacket(pk) /\ pk.code = "public key" /\ pk.val = c.smp.key
  BY DEF IsPacket, Pdu
<1>1. IsSeq(<<pk>>) /\ Els(<<pk>>) = {pk}
  BY SeqOne
<1>2. Way({pk}, {}) /\ tosend'["C"] = <<pk>>
  BY <1>1, CentralSays
<1> DEFINE nc == {pk}
           np == {}
<1>a. Way(nc, np)
  BY <1>2
<1> HIDE DEF nc, np
<1>3. OnWay("P")' \subseteq OnWay("P")
  <2>1. OnWay("P")' \subseteq OnWay("P") \cup np
    BY <1>a, WayNext
  <2> QED
    BY <2>1 DEF np
<1>4. Clear /\ ~ Met /\ \A x \in OnWay("P") : ~ Checks(x)
  BY DEF PairInv, Once
<1>5. Pdus'
  <2>1. FromCentral(pk)'
    <3>1. c.smp.key = <<"C", c.run>> /\ c.run \in 1 .. c.run
      <4>1. c.smp.key = <<"C", c.run>> /\ c.run \in Nat \ {0}
        BY DEF PairInv, CentralOK
      <4> QED
        BY ONLY <4>1
    <3> QED
      BY <1>0, <3>1 DEF FromCentral
  <2>2. (\A x \in nc : FromCentral(x)') /\ \A x \in np : FromPeripheral(x)'
    BY <2>1 DEF nc, np
  <2> QED
    BY <1>a, <2>2, PdusNext
<1>6. (HasSmp => ResponderOK(p.smp[1]))'
  BY DEF PairInv, ResponderOK, HasSmp
<1>7. ~ Met'
  BY <1>4 DEF Met, HasSmp
<1>8. \A x \in OnWay("P")' : ~ Checks(x)'
  BY <1>3, <1>4 DEF Checks
<1>9. OneKey'
  <2>1. PICK K, E : K = KeyPdus /\ E = KeyEvents
    OBVIOUS
  <2>2. K = KeyPdus' /\ E = KeyEvents'
    BY <2>1 DEF KeyPdus, KeyEvents
  <2>3. Lone(<<pk>>, K)
    BY LoneOne
  <2>4. Free(air["C"], K) /\ Free(wire["P"], E) /\ Free(host["P"].back, E)
    BY <1>4, <2>1 DEF Clear, Gone, Arrived
  <2>5. Slot(<<pk>>, air["C"], K)
    BY <2>3, <2>4, FreeLone DEF Slot
  <2>6. Free(wire'["P"], E) /\ Free(host'["P"].back, E)
    <3>1. Recv(wire["P"], host["P"].back, wire'["P"], host'["P"].back)
      BY DEF Reception, Received
    <3>2. \A e \in E : e.t = "pdu"
      BY <2>1, KeyCodes
    <3>3. Els(wire["P"]) \cap E = {} /\ Els(host["P"].back) \cap E = {}
      BY <2>4, FreeEls
    <3>4. Els(wire'["P"]) \cap E = {} /\ Els(host'["P"].back) \cap E = {}
      BY <3>1, <3>2, <3>3 DEF Recv
    <3> QED
      BY <3>4, FreeEls
  <2>7. Slot(wire'["P"], host'["P"].back, E)
    BY <2>6, FreeLone DEF Slot
  <2>8. Arrived'
    BY <2>2, <2>6 DEF Arrived
  <2>9. Slot(tosend'["C"], air'["C"], K)
    BY <1>2, <2>5
  <2> QED
    BY <2>2, <2>7, <2>8, <2>9 DEF OneKey
<1>10. Once'
  BY <1>7, <1>9 DEF Once
<1>11. Answered'
  BY <1>8 DEF Answered
<1> QED
  BY <1>5, <1>6, <1>10, <1>11 DEF PairInv

(* What of the program does not change in the two. *)
Pairs0 == /\ IsCentral(c') /\ c'.run = c.run /\ c'.cycle = c.cycle /\ c'.pc \notin Early /\ setting' = setting /\ p' = p
          /\ Reception

LEMMA PdusOK ==
    ASSUME PairInv PROVE /\ \A x \in OnWay("C") : FromCentral(x)
                         /\ \A x \in OnWay("P") : FromPeripheral(x)
  BY DEF PairInv, Pdus

LEMMA StartOK ==
    ASSUME Shapes, PairInv, Pairs0, NEW y, y = c'.smp, y = [c.smp EXCEPT !.state = "wait response"]
    PROVE  IsPairing(y) /\ y.key = c.smp.key /\ y.state = "wait response" /\ CentralOK'
<1>1. IsPairing(y) /\ y.key = c.smp.key /\ y.mine = c.smp.mine /\ y.state = "wait response"
  BY DEF Shapes, IsPairing
<1>2. c.run \in Nat \ {0} /\ c.cycle \in Nat /\ c.smp.mine = setting.c /\ c.smp.key = <<"C", c.run>>
  BY DEF PairInv, CentralOK
<1>3. CentralOK'
  BY <1>1, <1>2 DEF CentralOK, Pairs0, Early
<1> QED
  BY <1>1, <1>3

LEMMA F6Is ==
    ASSUME NEW w, NEW n, NEW o, NEW io, NEW a, NEW b, NEW v, v = f6(w, n, o, io, a, b)
    PROVE  v # <<"X">> /\ v # <<>> /\ v[2] = w /\ v[3] = n /\ v[4] = o /\ v[5] = io
<1>1. v[1] = "f6" /\ v[2] = w /\ v[3] = n /\ v[4] = o /\ v[5] = io /\ Len(v) = 7
  BY DEF f6
<1>2. <<"X">>[1] # "f6"
  OBVIOUS
<1>3. Len(<<>>) # 7
  OBVIOUS
<1> QED
  BY <1>1, <1>2, <1>3

(* The state the central's pairing is in after a PDU of the responder. *)
LEMMA FedOK ==
    ASSUME Shapes, PairInv, Pairs0, NEW d \in OnWay("P"), NEW f, f.smp = c'.smp, ~ done(c.smp), f = Fed(c.smp, d)
    PROVE  IsPairing(f.smp) /\ f.smp.key = c.smp.key /\ CentralOK'
<1>0. IsPairing(c.smp) /\ c.smp.state # "wait user" /\ CentralOK /\ FromPeripheral(d)
  BY PdusOK DEF Shapes, PairInv, CentralOK
<1>1. PICK x, y : x = c.smp /\ y = c'.smp
  OBVIOUS
<1>2. /\ c.run \in Nat \ {0} /\ c.cycle \in Nat /\ x.mine = setting.c /\ x.key = <<"C", c.run>>
      /\ c'.run = c.run /\ c'.cycle = c.cycle /\ c'.pc \notin Early /\ setting' = setting
  BY <1>0, <1>1 DEF CentralOK, Pairs0
<1>3. ASSUME y.mine = x.mine, y.key = x.key, y.state # "wait user",
             y.state \in {"wait public key", "wait confirm", "wait random", "wait dhkey check", "complete"} =>
                 y.method = Method(y.mine, y.theirs),
             y.state \in {"wait confirm", "wait random", "wait dhkey check", "complete"} => Keyed(y),
             y.state \in {"wait dhkey check", "complete"} =>
                 Agreed(y) /\ y.check = f6(y.mac, y.nb, y.na, IoCap(y.theirs), "P", "C"),
             y.state = "complete" => IoCap(y.theirs) = IoCap(setting.p)
      PROVE  CentralOK'
  BY <1>1, <1>2, <1>3 DEF CentralOK, Early, Keyed, Agreed
<1>4. CASE Fails(x, f)
  <2>1. y = [x EXCEPT !.state = "failed"]
    BY <1>1, <1>4 DEF Fails
  <2>2. IsPairing(y) /\ y.state = "failed" /\ y.key = x.key /\ y.mine = x.mine
    BY ONLY <1>0, <1>1, <2>1 DEF IsPairing
  <2> QED
    BY <1>1, <1>3, <2>2
<1>5. CASE Ignores(x, f)
  <2>1. y = x
    BY <1>1, <1>5 DEF Ignores
  <2> QED
    BY <1>0, <1>1, <1>3, <2>1 DEF CentralOK
<1>6. CASE TakesResponse(x, d, f)
  <2>1. y = [x EXCEPT !.state = "wait public key", !.theirs = d.val, !.method = Method(x.mine, d.val)]
    BY <1>1, <1>6 DEF TakesResponse
  <2>2. /\ IsPairing(y) /\ y.state = "wait public key" /\ y.key = x.key /\ y.mine = x.mine
        /\ y.theirs = d.val /\ y.method = Method(x.mine, d.val)
    BY ONLY <1>0, <1>1, <2>1 DEF IsPairing
  <2> QED
    BY <1>1, <1>3, <2>2
<1>7. CASE TakesKey(x, d, f)
  <2>1. y = [x EXCEPT !.state = "wait confirm", !.peer = d.val, !.dhkey = {x.key, d.val}]
    BY <1>1, <1>7 DEF TakesKey
  <2>2. /\ IsPairing(y) /\ y.state = "wait confirm" /\ y.key = x.key /\ y.mine = x.mine
        /\ y.theirs = x.theirs /\ y.method = x.method /\ y.dhkey = {x.key, d.val} /\ y.peer = d.val
    BY ONLY <1>0, <1>1, <2>1 DEF IsPairing
  <2>3. x.method = Method(x.mine, x.theirs)
    BY <1>0, <1>1, <1>7 DEF CentralOK, TakesKey
  <2>4. Keyed(y)
    BY <2>2 DEF Keyed
  <2> QED
    BY <1>1, <1>3, <2>2, <2>3, <2>4
<1>8. CASE TakesConfirm(x, d, f)
  <2>1. y = [x EXCEPT !.state = "wait random", !.confirm = d.val, !.na = <<"na", x.key>>]
    BY <1>1, <1>8 DEF TakesConfirm
  <2>2. /\ IsPairing(y) /\ y.state = "wait random" /\ SameUpTo(x, y)
    BY ONLY <1>0, <1>1, <2>1 DEF IsPairing, SameUpTo
  <2>3. x.method = Method(x.mine, x.theirs) /\ Keyed(x)
    BY <1>0, <1>1, <1>8 DEF CentralOK, TakesConfirm
  <2>4. Keyed(y)
    BY <2>2, <2>3 DEF Keyed, SameUpTo
  <2> QED
    BY <1>1, <1>3, <2>2, <2>3, <2>4 DEF SameUpTo
<1>9. CASE TakesRandom(x, d, f)
  <2>1. SameUpTo(x, y) /\ IsPairing(y) /\ y.state = "wait dhkey check" /\ Agreed(y)
        /\ y.check = f6(y.mac, y.nb, y.na, IoCap(y.theirs), "P", "C")
    BY <1>1, <1>9 DEF TakesRandom, SendsCheck
  <2>3. x.method = Method(x.mine, x.theirs) /\ Keyed(x)
    BY <1>0, <1>1, <1>9 DEF CentralOK, TakesRandom
  <2>4. Keyed(y)
    BY <2>1, <2>3 DEF Keyed, SameUpTo
  <2> QED
    BY <1>1, <1>3, <2>1, <2>3, <2>4 DEF SameUpTo
<1>10. CASE TakesCheck(x, d, f)
  <2>1. y = [x EXCEPT !.state = "complete"]
    BY <1>1, <1>10 DEF TakesCheck
  <2>2. /\ IsPairing(y) /\ y.state = "complete" /\ SameUpTo(x, y) /\ y.check = x.check
        /\ y.mac = x.mac /\ y.ltk = x.ltk /\ y.na = x.na /\ y.nb = x.nb
    BY ONLY <1>0, <1>1, <2>1 DEF IsPairing, SameUpTo
  <2>3. /\ x.method = Method(x.mine, x.theirs) /\ Keyed(x) /\ Agreed(x)
        /\ x.check = f6(x.mac, x.nb, x.na, IoCap(x.theirs), "P", "C")
    BY <1>0, <1>1, <1>10 DEF CentralOK, TakesCheck
  <2>4. Keyed(y) /\ Agreed(y)
    BY <2>2, <2>3 DEF Keyed, Agreed, SameUpTo
  <2>5. IoCap(x.theirs) = IoCap(setting.p)
    <3>1. d.val = f6(x.mac, x.nb, x.na, IoCap(x.theirs), "P", "C") /\ d.code = "dhkey check"
      BY <1>10, <2>3 DEF TakesCheck
    <3>2. d.val = <<"X">> \/ d.val = f6(d.val[2], d.val[3], d.val[4], IoCap(setting.p), "P", "C")
      BY <1>0, <3>1 DEF FromPeripheral
    <3>3. d.val # <<"X">> /\ d.val[5] = IoCap(x.theirs)
      <4>1. PICK v, io : v = d.val /\ io = IoCap(x.theirs)
        OBVIOUS
      <4>2. v = f6(x.mac, x.nb, x.na, io, "P", "C")
        BY ONLY <3>1, <4>1
      <4>3. v # <<"X">> /\ v[5] = io
        BY ONLY <4>2, F6Is
      <4> QED
        BY ONLY <4>1, <4>3
    <3>4. d.val[5] = IoCap(setting.p)
      BY ONLY <3>2, <3>3, F6Is
    <3> QED
      BY <3>3, <3>4
  <2> QED
    BY <1>1, <1>3, <2>2, <2>3, <2>4, <2>5 DEF SameUpTo
<1> QED
  BY <1>0, <1>1, <1>4, <1>5, <1>6, <1>7, <1>8, <1>9, <1>10, FedIs

LEMMA ShapesC ==
    ASSUME Shapes, Pairs0, IsPairing(c'.smp), NEW nc, Way(nc, {}), \A x \in nc : IsPacket(x) PROVE Shapes'
<1>1. PICK np : np = {}
  OBVIOUS
<1>2. Way(nc, np) /\ \A x \in nc \cup np : IsPacket(x)
  BY <1>1
<1>3. p'.smp = <<>> \/ (p'.smp = <<p'.smp[1]>> /\ IsPairing(p'.smp[1]))
  BY DEF Shapes, Pairs0
<1>4. Reception /\ setting' = setting /\ IsCentral(c') /\ IsPeripheral(p')
  BY DEF Shapes, Pairs0
<1> QED
  BY <1>2, <1>3, <1>4, ShapesNext

(* pair() starts. *)
LEMMA StartPairs ==
    ASSUME Shapes, PairInv, wait_security_request, c.cycle = 0, ~(c' = c /\ tosend' = tosend)
    PROVE  Shapes' /\ PairInv'
<1>1. \E h : AfterSecurityRequest(h)
  BY DEF wait_security_request
<1>2. /\ c' = [c EXCEPT !.pc = "pairing", !.smp = start(c.smp).smp]
      /\ tosend' = [tosend EXCEPT !["C"] = start(c.smp).out]
  BY <1>1 DEF AfterSecurityRequest
<1>3. PICK y : y = [c.smp EXCEPT !.state = "wait response"]
  OBVIOUS
<1>4. PICK q : q = Pdu("request", c.smp.mine)
  OBVIOUS
<1>5. start(c.smp).smp = y /\ start(c.smp).out = <<q>>
  BY <1>3, <1>4 DEF start, Does
<1>6. IsCentral(c') /\ c'.smp = y /\ c'.pc = "pairing" /\ c'.run = c.run /\ c'.cycle = c.cycle
  <2>1. c' = [c EXCEPT !.pc = "pairing", !.smp = y] /\ IsCentral(c)
    BY <1>2, <1>5, Programs
  <2> QED
    BY ONLY <2>1 DEF IsCentral
<1>7. setting' = setting /\ p' = p /\ air' = air
      /\ tosend["C"] = <<>>
  BY DEF wait_security_request, controllers, At
<1>8. Pairs0
  BY <1>6, <1>7, SecurityReceives DEF Pairs0, Early
<1>9. IsPairing(y) /\ y.key = c.smp.key /\ y.state = "wait response" /\ CentralOK'
  BY <1>3, <1>6, <1>8, StartOK
<1>10. IsPacket(q) /\ q.code = "request" /\ q.val = c.smp.mine
  BY <1>4 DEF Pdu, IsPacket
<1> DEFINE nc == {q}
<1>11. Way(nc, {})
  <2>1. IsSeq(<<q>>) /\ Els(<<q>>) = {q}
    BY SeqOne
  <2>2. tosend' = [tosend EXCEPT !["C"] = <<q>>]
    BY <1>2, <1>5
  <2> QED
    BY <1>7, <2>1, <2>2, CentralSays
<1>12. \A x \in nc : IsPacket(x) /\ x.code # "public key"
  BY <1>10
<1>13. FromCentral(q)'
  <2>1. c.smp.mine = setting.c
    BY DEF PairInv, CentralOK
  <2> QED
    BY <1>7, <1>10, <2>1 DEF FromCentral
<1>14. \A x \in nc : FromCentral(x)'
  BY <1>13
<1> HIDE DEF nc
<1>15. Shapes'
  BY <1>6, <1>8, <1>9, <1>11, <1>12, ShapesC
<1>16. c.smp.state = "idle"
  <2>a. At("secreq")
    BY DEF wait_security_request
  <2>1. c.pc = "secreq" /\ c.cycle = 0
    BY ONLY <2>a, c.cycle = 0 DEF At
  <2>2. c.pc \in {"connect", "connecting", "secreq"} /\ c.cycle = 0 => c.smp.state = "idle"
    BY DEF PairInv, CentralOK
  <2> QED
    BY ONLY <2>1, <2>2
<1>17. PairInv'
  <2>1. PICK m : m = c'.smp.mac
    OBVIOUS
  <2>2. /\ c'.smp.state = "complete" => Settled(m)
        /\ c'.smp.state \in Fresh => c.smp.state \in Fresh
    BY <1>6, <1>9, <1>16 DEF Fresh
  <2>3. /\ Reception /\ setting' = setting /\ p'.smp = p.smp /\ c'.run = c.run /\ c'.smp.key = c.smp.key /\ CentralOK'
        /\ \A x \in nc : x.code # "public key" /\ FromCentral(x)'
    BY <1>6, <1>7, <1>8, <1>9, <1>12, <1>14 DEF Pairs0
  <2> QED
    BY <1>11, <2>1, <2>2, <2>3, CentralStep
<1> QED
  BY <1>15, <1>17

(* What the central read is a PDU of the peripheral. *)
LEMMA ItemC ==
    ASSUME Shapes, CanRead("C"), Item.t = "pdu" PROVE Item.v \in OnWay("P") /\ IsPacket(Item.v)
<1>1. Item \in Els(wire["C"]) \cup Els(host["C"].back)
  BY Both, ShapesSide, Reading DEF Item
<1>2. Item \in Arriving("C") /\ Other("P") = "C"
  BY <1>1 DEF Arriving, Other
<1>3. IsMessage(Item)
  BY <1>2, Both DEF Shapes, InShape
<1> QED
  BY <1>2, <1>3 DEF OnWay, IsMessage

(* One turn of pair(). *)
LEMMA PairPairs == ASSUME Shapes, PairInv, pair PROVE Shapes' /\ PairInv'
<1>0. /\ At("pairing") /\ ~ done(c.smp) /\ CanRead("C") /\ setting' = setting /\ p' = p /\ air' = air
      /\ tosend["C"] = <<>>
      /\ Reception
  BY PollersReceive DEF pair, Polls, controllers, At
<1>1. CASE c' = c /\ tosend' = tosend
  <2>1. Calm
    BY <1>0, <1>1, SameC, CalmC
  <2> QED
    BY <2>1, CalmShapes, CalmPairs
<1>2. CASE ~(c' = c /\ tosend' = tosend)
  <2>1. PICK d, f : d = Item.v /\ f = Fed(c.smp, d)
    OBVIOUS
  <2>2. /\ Item.t = "pdu" /\ c' = [c EXCEPT !.smp = f.smp] /\ tosend' = [tosend EXCEPT !["C"] = f.out]
    BY <1>2, <2>1 DEF pair
  <2>3. d \in OnWay("P")
    BY <1>0, <2>1, <2>2, ItemC
  <2>4. IsCentral(c') /\ c'.smp = f.smp /\ c'.pc = "pairing" /\ c'.run = c.run /\ c'.cycle = c.cycle
    <3>1. IsCentral(c) /\ c.pc = "pairing"
      BY <1>0, Programs DEF At
    <3> QED
      BY ONLY <2>2, <3>1 DEF IsCentral
  <2>5. Pairs0
    BY <1>0, <2>4 DEF Pairs0, Early
  <2>6. IsPairing(f.smp) /\ f.smp.key = c.smp.key /\ CentralOK'
    BY <1>0, <2>1, <2>3, <2>4, <2>5, FedOK
  <2>7. IsPairing(c.smp) /\ c.smp.state # "wait user" /\ c.smp.mine = setting.c
    BY DEF Shapes, PairInv, CentralOK
  <2>8. \/ Fails(c.smp, f) \/ Ignores(c.smp, f) \/ TakesResponse(c.smp, d, f) \/ TakesKey(c.smp, d, f)
        \/ TakesConfirm(c.smp, d, f) \/ TakesRandom(c.smp, d, f) \/ TakesCheck(c.smp, d, f)
    BY <1>0, <2>1, <2>7, FedIs
  <2>9. CASE TakesResponse(c.smp, d, f)
    <3>1. PICK pk : pk = Pdu("public key", c.smp.key)
      OBVIOUS
    <3>2. f.out = <<pk>> /\ c.smp.state = "wait response" /\ f.smp.state = "wait public key"
      BY <2>7, <2>9, <3>1 DEF TakesResponse, IsPairing
    <3>3. tosend' = [tosend EXCEPT !["C"] = <<pk>>]
      BY <2>2, <3>2
    <3>4. IsPacket(pk)
      BY <3>1 DEF Pdu, IsPacket
    <3>5. IsSeq(<<pk>>) /\ Els(<<pk>>) = {pk}
      BY SeqOne
    <3>6. Way({pk}, {})
      BY <1>0, <3>3, <3>5, CentralSays
    <3>7. \A x \in {pk} : IsPacket(x)
      BY <3>4
    <3>8. Shapes'
      BY <2>4, <2>5, <2>6, <3>6, <3>7, ShapesC
    <3>9. PairInv'
      BY <1>0, <2>4, <2>6, <3>1, <3>2, <3>3, KeySent
    <3> QED
      BY <3>8, <3>9
  <2>10. CASE ~ TakesResponse(c.smp, d, f)
    <3>1. IsSeq(f.out) /\ \A x \in Els(f.out) : IsPacket(x) /\ x.code # "public key" /\ FromCentral(x)'
      <4>1. CASE f.out = <<>>
        BY <4>1, SeqEmpty
      <4>2. CASE \E r : f.out = <<Pdu("failed", r)>>
        <5>1. PICK r, x : x = Pdu("failed", r) /\ f.out = <<x>>
          BY <4>2
        <5>2. IsPacket(x) /\ x.code = "failed"
          BY <5>1 DEF Pdu, IsPacket
        <5>3. FromCentral(x)'
          BY <5>2 DEF FromCentral
        <5> QED
          BY <5>1, <5>2, <5>3, SeqOne
      <4>3. CASE \E v : f.out = <<Pdu("random", v)>>
        <5>1. PICK r, x : x = Pdu("random", r) /\ f.out = <<x>>
          BY <4>3
        <5>2. IsPacket(x) /\ x.code = "random"
          BY <5>1 DEF Pdu, IsPacket
        <5>3. FromCentral(x)'
          BY <5>2 DEF FromCentral
        <5> QED
          BY <5>1, <5>2, <5>3, SeqOne
      <4>4. CASE TakesRandom(c.smp, d, f)
        <5>1. PICK v, io, x : /\ io = IoCap(f.smp.mine) /\ v = f6(f.smp.mac, f.smp.na, f.smp.nb, io, "C", "P")
                              /\ x = Pdu("dhkey check", v)
          OBVIOUS
        <5>2. f.out = <<x>> /\ f.smp.mine = c.smp.mine
          BY <4>4, <5>1 DEF TakesRandom, SendsCheck, SameUpTo
        <5>3. IsPacket(x) /\ x.code = "dhkey check" /\ x.val = v
          BY <5>1 DEF Pdu, IsPacket
        <5>4. v[2] = f.smp.mac /\ v[3] = f.smp.na /\ v[4] = f.smp.nb
          <6>1. PICK w, a, b : w = f.smp.mac /\ a = f.smp.na /\ b = f.smp.nb
            OBVIOUS
          <6>2. v = f6(w, a, b, io, "C", "P")
            BY ONLY <5>1, <6>1
          <6>3. v[2] = w /\ v[3] = a /\ v[4] = b
            BY ONLY <6>2, F6Is
          <6> QED
            BY ONLY <6>1, <6>3
        <5>5. io = IoCap(setting.c)
          BY <2>7, <5>1, <5>2
        <5>6. x.val = f6(x.val[2], x.val[3], x.val[4], IoCap(setting.c), "C", "P")
          BY ONLY <5>1, <5>3, <5>4, <5>5
        <5>7. FromCentral(x)'
          BY <1>0, <5>3, <5>6 DEF FromCentral
        <5> QED
          BY <5>2, <5>3, <5>7, SeqOne
      <4> QED
        BY <2>8, <2>10, <4>1, <4>2, <4>3, <4>4 DEF Fails, Ignores, TakesKey, TakesConfirm, TakesCheck
    <3>2. PICK nc : nc = Els(f.out)
      OBVIOUS
    <3>3. Way(nc, {}) /\ \A x \in nc : IsPacket(x) /\ x.code # "public key" /\ FromCentral(x)'
      BY <1>0, <2>2, <3>1, <3>2, CentralSays
    <3>4. Shapes'
      BY <2>4, <2>5, <2>6, <3>3, ShapesC
    <3>5. PICK m : m = c'.smp.mac
      OBVIOUS
    <3>6. c'.smp.state \in Fresh => c.smp.state \in Fresh
      BY <2>4, <2>7, <2>8, <2>10
      DEF Fails, Ignores, TakesKey, TakesConfirm, TakesCheck, TakesRandom, SendsCheck, Fresh, IsPairing
    <3>7. c'.smp.state = "complete" => Settled(m)
      <4>1. CASE TakesCheck(c.smp, d, f)
        <5>1. m = c.smp.mac /\ d.val = c.smp.check /\ d.code = "dhkey check" /\ c.smp.state = "wait dhkey check"
          BY <2>4, <2>7, <3>5, <4>1 DEF TakesCheck, IsPairing
        <5>2. /\ c.smp.check = f6(c.smp.mac, c.smp.nb, c.smp.na, IoCap(c.smp.theirs), "P", "C")
              /\ Keyed(c.smp) /\ Agreed(c.smp)
          BY <5>1 DEF PairInv, CentralOK
        <5>3. d.val # <<"X">> /\ d.val[2] = c.smp.mac
          <6>1. PICK v, w, io : v = d.val /\ w = c.smp.mac /\ io = IoCap(c.smp.theirs)
            OBVIOUS
          <6>2. v = f6(w, c.smp.nb, c.smp.na, io, "P", "C")
            BY ONLY <5>1, <5>2, <6>1
          <6>3. v # <<"X">> /\ v[2] = w
            BY ONLY <6>2, F6Is
          <6> QED
            BY ONLY <6>1, <6>3
        <5>4. c.smp.key \in c.smp.mac[2]
          BY ONLY <5>2 DEF Keyed, Agreed
        <5>5. Checks(d)
          BY ONLY <5>1, <5>3, <5>4 DEF Checks
        <5>6. Settled(d.val[2])
          BY <2>3, <5>5 DEF PairInv, Answered
        <5> QED
          BY <5>1, <5>3, <5>6
      <4>2. CASE ~ TakesCheck(c.smp, d, f)
        <5>1. c'.smp.state # "complete"
          BY <1>0, <2>4, <2>7, <2>8, <2>10, <4>2
          DEF Fails, Ignores, TakesKey, TakesConfirm, TakesRandom, SendsCheck, done, IsPairing
        <5> QED
          BY <5>1
      <4> QED
        BY <4>1, <4>2
    <3>8. PairInv'
      <4>1. Reception /\ p'.smp = p.smp /\ c'.run = c.run /\ c'.smp.key = c.smp.key /\ CentralOK' /\ setting' = setting
        BY <1>0, <2>4, <2>6
      <4>2. \A x \in nc : x.code # "public key" /\ FromCentral(x)'
        BY <3>3
      <4> QED
        BY <3>3, <3>5, <3>6, <3>7, <4>1, <4>2, CentralStep
    <3> QED
      BY <3>4, <3>8
  <2> QED
    BY <2>9, <2>10
<1> QED
  BY <1>1, <1>2

-----------------------------------------------------------------------------
(* A new run: nothing of it is on the way.                                 *)

LEMMA NewRun ==
    ASSUME NEW n, NEW r, NEW x, x = Pairing(n, r)
    PROVE  IsPairing(x) /\ x.state = "idle" /\ x.mine = n /\ x.key = r /\ x.peer = <<>> /\ x.check = <<>>
  BY DEF IsPairing, Pairing

LEMMA TwoIs == ASSUME NEW a, NEW b, NEW k, k = <<a, b>> PROVE k[1] = a /\ k[2] = b /\ k # <<>>
  OBVIOUS

(* A run that has not begun has sent nothing. *)
LEMMA Unused ==
    ASSUME PairInv, NEW k, k = <<"C", c.run + 1>>
    PROVE  /\ \A x \in OnWay("C") : x.code = "public key" => x.val # k
           /\ \A x \in OnWay("P") : x.code = "dhkey check" /\ x.val # <<"X">> => k \notin x.val[2][2]
           /\ HasSmp => p.smp[1].peer # k
<1>0. c.run \in Nat \ {0}
  BY DEF PairInv, CentralOK
<1>1. k[1] = "C" /\ k[2] = c.run + 1 /\ k # <<>>
  BY TwoIs
<1>2. k \notin {OffCurve, <<"X", 0>>, <<>>}
  <2>1. OffCurve[1] = "off curve" /\ <<"X", 0>>[1] = "X"
    BY DEF OffCurve
  <2> QED
    BY ONLY <1>1, <2>1
<1>3. \A r \in 1 .. c.run : k # <<"C", r>>
  <2>1. ASSUME NEW r \in 1 .. c.run, k = <<"C", r>> PROVE FALSE
    <3>1. k[2] = r
      BY ONLY <2>1, TwoIs
    <3> QED
      BY ONLY <1>0, <1>1, <3>1, r \in 1 .. c.run
  <2> QED
    BY <2>1
<1>4. ASSUME NEW x \in OnWay("C"), x.code = "public key" PROVE x.val # k
  <2>1. x.val \in {OffCurve, <<"X", 0>>} \/ x.val \in {<<"C", r>> : r \in 1 .. c.run}
    BY <1>4, PdusOK DEF FromCentral
  <2> QED
    BY ONLY <1>2, <1>3, <2>1
<1>5. ASSUME NEW x \in OnWay("P"), x.code = "dhkey check", x.val # <<"X">>, k \in x.val[2][2] PROVE FALSE
  <2>1. \A z \in x.val[2][2] : z = <<"C", z[2]>> => z[2] \in 1 .. c.run
    BY <1>5, PdusOK DEF FromPeripheral
  <2>2. k[2] \in 1 .. c.run
    <3>1. k = <<"C", k[2]>>
      BY ONLY <1>1, k = <<"C", c.run + 1>>
    <3> QED
      BY <1>5, <2>1, <3>1
  <2> QED
    BY ONLY <1>0, <1>1, <2>2
<1>6. ASSUME HasSmp PROVE p.smp[1].peer # k
  <2>1. p.smp[1].peer \in {<<>>, OffCurve, <<"X", 0>>} \/ p.smp[1].peer \in {<<"C", r>> : r \in 1 .. c.run}
    BY <1>6 DEF PairInv, ResponderOK
  <2> QED
    BY ONLY <1>2, <1>3, <2>1
<1> QED
  BY <1>4, <1>5, <1>6

LEMMA RestartPairs == ASSUME Shapes, PairInv, Restart PROVE Shapes' /\ PairInv'
<1>1. PICK ltk : c' = Central(c.run + 1, ltk)
  BY DEF Restart
<1>2. PICK y, k : y = Pairing(setting.c, k) /\ k = <<"C", c.run + 1>>
  OBVIOUS
<1>3. IsCentral(c') /\ c'.smp = y /\ c'.run = c.run + 1 /\ c'.cycle \in {0, 1}
  BY ONLY <1>1, <1>2 DEF Central, IsCentral
<1>4. IsPairing(y) /\ y.state = "idle" /\ y.mine = setting.c /\ y.key = k
  BY ONLY <1>2, NewRun
<1>5. setting' = setting /\ p' = p
  BY DEF Restart
<1>6. /\ Reception /\ Kept("P") /\ Transmission /\ tosend'["C"] = <<>> /\ air'["C"] = <<>>
  BY RestartReceives, RestartTransmits
<1>7. PICK nc, np : nc = {} /\ np = {}
  OBVIOUS
<1>8. Way(nc, np)
  BY <1>6, <1>7 DEF Transmission
<1>9. Shapes'
  <2>1. \A x \in nc \cup np : IsPacket(x)
    BY <1>7
  <2>2. IsPairing(c'.smp) /\ IsPeripheral(p') /\ (p'.smp = <<>> \/ (p'.smp = <<p'.smp[1]>> /\ IsPairing(p'.smp[1])))
    BY <1>3, <1>4, <1>5 DEF Shapes
  <2> QED
    BY <1>3, <1>5, <1>6, <1>8, <2>1, <2>2, ShapesNext
<1>10. OnWay("C")' \subseteq OnWay("C") /\ OnWay("P")' \subseteq OnWay("P")
  <2>1. OnWay("C")' \subseteq OnWay("C") \cup nc /\ OnWay("P")' \subseteq OnWay("P") \cup np
    BY <1>6, <1>8, WayNext
  <2> QED
    BY <1>7, <2>1
<1>11. c.run \in Nat \ {0} /\ c'.run \in Nat \ {0} /\ c'.cycle \in Nat /\ \A r \in 1 .. c.run : r \in 1 .. c'.run
  <2>1. c.run \in Nat \ {0}
    BY DEF PairInv, CentralOK
  <2> QED
    BY ONLY <1>3, <2>1
<1>12. Pdus'
  <2>1. ASSUME NEW x, FromCentral(x) PROVE FromCentral(x)'
    BY <1>5, <1>11, <2>1 DEF FromCentral
  <2>2. ASSUME NEW x, FromPeripheral(x) PROVE FromPeripheral(x)'
    BY <1>5, <1>11, <2>2 DEF FromPeripheral
  <2> QED
    BY <1>10, <2>1, <2>2, PdusOK DEF Pdus
<1>13. CentralOK'
  BY <1>2, <1>3, <1>4, <1>5, <1>11 DEF CentralOK
<1>14. (HasSmp => ResponderOK(p.smp[1]))'
  BY <1>5, <1>11 DEF PairInv, HasSmp, ResponderOK
<1>15. /\ \A x \in OnWay("C") : x.code = "public key" => x.val # k
       /\ \A x \in OnWay("P") : x.code = "dhkey check" /\ x.val # <<"X">> => k \notin x.val[2][2]
       /\ HasSmp => p.smp[1].peer # k
  BY <1>2, Unused
<1>16. ~ Met'
  BY <1>3, <1>4, <1>5, <1>15 DEF Met, HasSmp
<1>17. \A x \in OnWay("P")' : ~ Checks(x)'
  BY <1>3, <1>4, <1>10, <1>15 DEF Checks
<1>18. Gone'
  BY <1>6, SeqEmpty DEF Gone
<1>19. Arrived'
  <2>1. PICK E : E = KeyEvents'
    OBVIOUS
  <2>2. ASSUME NEW e \in E, e \in Els(wire["P"]) \cup Els(host["P"].back) PROVE FALSE
    <3>1. PICK x : e = Event("pdu", x) /\ x \in KeyPdus'
      BY <2>1 DEF KeyEvents
    <3>2. e.t = "pdu" /\ e.v = x
      BY ONLY <3>1 DEF Event
    <3>3. PICK b \in BOOLEAN : x = [code |-> "public key", val |-> c'.smp.key, ok |-> b]
      BY <3>1 DEF KeyPdus
    <3>4. x.code = "public key" /\ x.val = k
      BY <1>3, <1>4, <3>3
    <3>5. x \in OnWay("C")
      <4>1. e \in Arriving("P") /\ Other("C") = "P"
        BY <2>2 DEF Arriving, Other
      <4> QED
        BY <3>2, <4>1 DEF OnWay
    <3> QED
      BY <1>15, <3>4, <3>5
  <2>3. Els(wire["P"]) \cap E = {} /\ Els(host["P"].back) \cap E = {}
    BY <2>2
  <2>4. Free(wire["P"], E) /\ Free(host["P"].back, E)
    BY <2>3, FreeEls
  <2> QED
    BY <1>6, <2>1, <2>4 DEF Arrived, Kept
<1>20. Clear'
  BY <1>18, <1>19 DEF Clear
<1>21. Once'
  BY <1>16, <1>17, <1>18, <1>19, <1>20, FreeLone DEF Once, OneKey, Gone, Arrived, Slot
<1>22. Answered'
  BY <1>3, <1>4, <1>17 DEF Answered
<1> QED
  BY <1>9, <1>12, <1>13, <1>14, <1>21, <1>22 DEF PairInv

-----------------------------------------------------------------------------
(* ... and of the responder.                                               *)

(* ... and at the responder. *)
AcceptsRequest(x, d, f) ==
    /\ d.code = "request" /\ x.state = "idle"
    /\ f.smp = [x EXCEPT !.state = "wait public key", !.theirs = d.val, !.method = Method(d.val, x.mine),
                            !.nb = <<"nb", x.key>>]
    /\ f.out = <<Pdu("response", x.mine)>>
AcceptsKey(x, d, f) ==
    /\ d.code = "public key" /\ x.state = "wait public key"
    /\ f.smp = [x EXCEPT !.state = "wait random", !.peer = d.val, !.dhkey = {x.key, d.val}]
    /\ \E v : f.out = <<Pdu("public key", x.key), Pdu("confirm", v)>>
AcceptsRandom(x, d, f) ==
    /\ d.code = "random" /\ x.state = "wait random"
    /\ IsPairing(f.smp) /\ SameUpTo(x, f.smp) /\ Agreed(f.smp) /\ f.smp.state = "wait user or check"
    /\ f.smp.check = x.check
    /\ \E v : f.out = <<Pdu("random", v)>>
Completes(z, f) ==
    /\ z.check = f6(z.mac, z.na, z.nb, IoCap(z.theirs), "C", "P")
    /\ f.smp = [z EXCEPT !.state = "complete"]
    /\ f.out = <<Pdu("dhkey check", f6(z.mac, z.nb, z.na, IoCap(z.mine), "P", "C"))>>
AcceptsCheck(x, d, f) ==
    /\ d.code = "dhkey check" /\ x.state = "wait user or check"
    /\ LET z == [x EXCEPT !.check = d.val] IN Ignores(z, f) \/ Fails(z, f) \/ Completes(z, f)

LEMMA FinishIs ==
    ASSUME NEW z, NEW f, f = _finish(z) PROVE Ignores(z, f) \/ Fails(z, f) \/ Completes(z, f)
<1>1. CASE f = Stays(z)
  <2>1. Ignores(z, f)
    BY ONLY <1>1 DEF Ignores, Stays, Does
  <2> QED
    BY <2>1
<1>2. CASE f = _fail(z, "dhkey check failed")
  BY <1>2, FailFails
<1>3. CASE /\ z.check = f6(z.mac, z.na, z.nb, IoCap(z.theirs), "C", "P")
           /\ f = Does([z EXCEPT !.state = "complete"],
                       <<Pdu("dhkey check", f6(z.mac, z.nb, z.na, IoCap(z.mine), "P", "C"))>>)
  <2>1. Completes(z, f)
    BY ONLY <1>3 DEF Completes, Does
  <2> QED
    BY <2>1
<1> QED
  BY <1>1, <1>2, <1>3 DEF _finish

LEMMA OnRequest ==
    ASSUME NEW x, NEW d, d.code = "request", NEW f, f = responder_on_request(x, d)
    PROVE  Fails(x, f) \/ AcceptsRequest(x, d, f)
<1>1. CASE \E r : f = _fail(x, r)
  BY <1>1, FailFails
<1>2. CASE f = Raises(x)
  BY <1>2, FailFails
<1>3. CASE /\ x.state = "idle"
           /\ f = Does([x EXCEPT !.state = "wait public key", !.theirs = d.val, !.method = Method(d.val, x.mine),
                                 !.nb = <<"nb", x.key>>], <<Pdu("response", x.mine)>>)
  <2>1. AcceptsRequest(x, d, f)
    BY ONLY <1>3, d.code = "request" DEF AcceptsRequest, Does
  <2> QED
    BY <2>1
<1> QED
  BY <1>1, <1>2, <1>3 DEF responder_on_request

LEMMA OnPeerKey ==
    ASSUME NEW x, NEW d, d.code = "public key", NEW f, f = responder_on_public_key(x, d)
    PROVE  Fails(x, f) \/ AcceptsKey(x, d, f)
<1>1. CASE f = Raises(x)
  BY <1>1, FailFails
<1>2. CASE /\ x.state = "wait public key"
           /\ f = Does([x EXCEPT !.state = "wait random", !.peer = d.val, !.dhkey = shared_secret(x.key, d.val)],
                       <<Pdu("public key", x.key), Pdu("confirm", f4(x.key, d.val, x.nb))>>)
  <2>1. AcceptsKey(x, d, f)
    BY ONLY <1>2, d.code = "public key" DEF AcceptsKey, Does, shared_secret
  <2> QED
    BY <2>1
<1> QED
  BY <1>1, <1>2 DEF responder_on_public_key

LEMMA OnPeerRandom ==
    ASSUME NEW x, IsPairing(x), NEW d, d.code = "random", NEW f, f = responder_on_random(x, d)
    PROVE  Fails(x, f) \/ AcceptsRandom(x, d, f)
<1>1. CASE f = Raises(x)
  BY <1>1, FailFails
<1>2. CASE f # Raises(x)
  <2>1. PICK m, l, b : /\ m = <<"mac", x.dhkey, d.val, x.nb>> /\ l = <<"ltk", x.dhkey, d.val, x.nb>>
                       /\ b = (x.method # NC)
    OBVIOUS
  <2>2. f5(x.dhkey, d.val, x.nb).mac = m /\ f5(x.dhkey, d.val, x.nb).ltk = l
    BY <2>1 DEF f5
  <2>3. PICK y : y = [x EXCEPT !.state = "wait user or check", !.na = d.val, !.mac = m, !.ltk = l, !.accepted = b]
    OBVIOUS
  <2>4. f = Does(y, <<Pdu("random", x.nb)>>) /\ x.state = "wait random"
    BY <1>2, <2>1, <2>2, <2>3 DEF responder_on_random
  <2>5. f.smp = y /\ f.out = <<Pdu("random", x.nb)>>
    BY ONLY <2>4 DEF Does
  <2>6. /\ IsPairing(y) /\ SameUpTo(x, y) /\ y.state = "wait user or check" /\ y.check = x.check
        /\ y.na = d.val /\ y.nb = x.nb /\ y.mac = m /\ y.ltk = l
    BY ONLY IsPairing(x), <2>3 DEF IsPairing, SameUpTo
  <2>7. Agreed(y)
    BY ONLY <2>1, <2>6 DEF Agreed, SameUpTo
  <2>8. AcceptsRandom(x, d, f)
    BY ONLY <2>4, <2>5, <2>6, <2>7, d.code = "random" DEF AcceptsRandom
  <2> QED
    BY <2>8
<1> QED
  BY <1>1, <1>2

LEMMA OnPeerCheck ==
    ASSUME NEW x, NEW d, d.code = "dhkey check", NEW f, f = responder_on_dhkey_check(x, d)
    PROVE  Fails(x, f) \/ AcceptsCheck(x, d, f)
<1>1. CASE f = Raises(x)
  BY <1>1, FailFails
<1>2. CASE f # Raises(x)
  <2>1. PICK z : z = [x EXCEPT !.check = d.val]
    OBVIOUS
  <2>2. f = _finish(z) /\ x.state = "wait user or check"
    BY <1>2, <2>1 DEF responder_on_dhkey_check
  <2>3. Ignores(z, f) \/ Fails(z, f) \/ Completes(z, f)
    BY ONLY <2>2, FinishIs
  <2>4. AcceptsCheck(x, d, f)
    BY ONLY <2>1, <2>2, <2>3, d.code = "dhkey check" DEF AcceptsCheck
  <2> QED
    BY <2>4
<1> QED
  BY <1>1, <1>2

LEMMA ResponderIs ==
    ASSUME NEW x, IsPairing(x), NEW d, NEW f, f = responder_feed(x, d)
    PROVE  \/ Ignores(x, f)
           \/ ~ done(x) /\ \/ Fails(x, f) \/ AcceptsRequest(x, d, f) \/ AcceptsKey(x, d, f)
                           \/ AcceptsRandom(x, d, f) \/ AcceptsCheck(x, d, f)
<1>1. CASE done(x) \/ d.code \notin {"failed", "request", "public key", "random", "dhkey check"}
  <2>1. f = Stays(x)
    BY <1>1 DEF responder_feed
  <2>2. Ignores(x, f)
    BY ONLY <2>1 DEF Ignores, Stays, Does
  <2> QED
    BY <2>2
<1>2. CASE ~ done(x) /\ d.code \in {"failed", "request", "public key", "random", "dhkey check"}
  <2>1. CASE d.code = "failed"
    <3>1. f = Stays([x EXCEPT !.state = "failed"])
      BY <1>2, <2>1 DEF responder_feed
    <3>2. Fails(x, f)
      BY ONLY <3>1 DEF Stays, Does, Fails
    <3> QED
      BY <1>2, <3>2
  <2>2. CASE d.code = "request"
    BY <1>2, <2>2, OnRequest DEF responder_feed
  <2>3. CASE d.code = "public key"
    BY <1>2, <2>3, OnPeerKey DEF responder_feed
  <2>4. CASE d.code = "random"
    BY <1>2, <2>4, OnPeerRandom DEF responder_feed
  <2>5. CASE d.code = "dhkey check"
    BY <1>2, <2>5, OnPeerCheck DEF responder_feed
  <2> QED
    BY <1>2, <2>1, <2>2, <2>3, <2>4, <2>5
<1> QED
  BY <1>1, <1>2

(* What the responder sends is in order, and a check it sends with the     *)
(* central's key is for the pairing it completes.                          *)
Sends(y, out) ==
    /\ IsSeq(out)
    /\ \A z \in Els(out) : /\ IsPacket(z) /\ FromPeripheral(z)
                           /\ Checks(z) => y.peer = c.smp.key /\ z.val[2] = y.mac /\ y.state = "complete"

LEMMA SendsNothing == ASSUME NEW y PROVE Sends(y, <<>>)
  BY SeqEmpty DEF Sends

LEMMA SendsThis ==
    ASSUME NEW y, NEW z, IsPacket(z), FromPeripheral(z),
           Checks(z) => y.peer = c.smp.key /\ z.val[2] = y.mac /\ y.state = "complete"
    PROVE  Sends(y, <<z>>)
<1>1. PICK q : q = <<z>>
  OBVIOUS
<1>2. IsSeq(q) /\ Els(q) = {z}
  BY <1>1, SeqOne
<1>3. Sends(y, q)
  BY <1>2 DEF Sends
<1> QED
  BY <1>1, <1>3

LEMMA SendsOne ==
    ASSUME NEW y, NEW z, IsPacket(z), z.code \notin {"response", "dhkey check"} PROVE Sends(y, <<z>>)
<1>1. FromPeripheral(z) /\ ~ Checks(z)
  BY DEF FromPeripheral, Checks
<1> QED
  BY <1>1, SendsThis

LEMMA FailSends == ASSUME NEW x, NEW f, Fails(x, f), NEW y PROVE Sends(y, f.out)
<1>1. CASE f.out = <<>>
  BY <1>1, SendsNothing
<1>2. CASE f.out # <<>>
  <2>1. PICK r : f.out = <<Pdu("failed", r)>>
    BY <1>2 DEF Fails
  <2>2. PICK z : z = Pdu("failed", r)
    OBVIOUS
  <2>3. IsPacket(z) /\ z.code = "failed"
    BY ONLY <2>2 DEF Pdu, IsPacket
  <2>4. Sends(y, <<z>>)
    BY <2>3, SendsOne
  <2> QED
    BY <2>1, <2>2, <2>4
<1> QED
  BY <1>1, <1>2

LEMMA FailOK ==
    ASSUME NEW x, IsPairing(x), ResponderOK(x), NEW f, Fails(x, f)
    PROVE  IsPairing(f.smp) /\ ResponderOK(f.smp) /\ f.smp.peer = x.peer /\ f.smp.state = "failed"
<1>1. PICK y : y = f.smp
  OBVIOUS
<1>2. y = [x EXCEPT !.state = "failed"]
  BY <1>1 DEF Fails
<1>3. IsPairing(y) /\ y.state = "failed" /\ SameUpTo(x, y) /\ y.check = x.check
  BY ONLY IsPairing(x), <1>2 DEF IsPairing, SameUpTo
<1>4. ResponderOK(y)
  BY ONLY ResponderOK(x), <1>3 DEF ResponderOK, SameUpTo
<1> QED
  BY <1>1, <1>3, <1>4 DEF SameUpTo

(* Whose keys are in a key. *)
LEMMA SharedKeys ==
    ASSUME PairInv, NEW z, ResponderOK(z), Keyed(z)
    PROVE  /\ \A k \in z.dhkey : k = <<"C", k[2]>> => k[2] \in 1 .. c.run
           /\ c.smp.key \in z.dhkey => z.peer = c.smp.key
<1>1. z.dhkey = {z.key, z.peer} /\ z.key = <<"P", z.key[2]>>
  BY DEF Keyed, ResponderOK
<1>2. z.key[1] = "P"
  BY ONLY <1>1, TwoIs
<1>3. z.peer \in {<<>>, OffCurve, <<"X", 0>>} \/ z.peer \in {<<"C", r>> : r \in 1 .. c.run}
  BY DEF ResponderOK
<1>4. ASSUME NEW k \in z.dhkey, k = <<"C", k[2]>> PROVE k[2] \in 1 .. c.run
  <2>1. k[1] = "C" /\ k # <<>>
    <3>1. PICK n : n = k[2]
      OBVIOUS
    <3>2. k = <<"C", n>>
      BY <1>4, <3>1
    <3> QED
      BY ONLY <3>2, TwoIs
  <2>2. k = z.peer
    BY <1>1, <1>2, <2>1
  <2>3. OffCurve[1] # "C" /\ <<"X", 0>>[1] # "C"
    BY DEF OffCurve
  <2>4. PICK r \in 1 .. c.run : k = <<"C", r>>
    BY ONLY <1>3, <2>1, <2>2, <2>3
  <2>5. k[2] = r
    BY ONLY <2>4, TwoIs
  <2> QED
    BY <2>5
<1>5. c.smp.key[1] = "C"
  <2>1. c.smp.key = <<"C", c.run>>
    BY DEF PairInv, CentralOK
  <2> QED
    BY ONLY <2>1, TwoIs
<1> QED
  BY <1>1, <1>2, <1>4, <1>5

(* _finish: the values have been compared, with the features both sent. *)
LEMMA FinishOK ==
    ASSUME PairInv, NEW z, IsPairing(z), ResponderOK(z), z.state = "wait user or check",
           NEW f, Ignores(z, f) \/ Fails(z, f) \/ Completes(z, f)
    PROVE  IsPairing(f.smp) /\ ResponderOK(f.smp) /\ f.smp.peer = z.peer /\ Sends(f.smp, f.out)
<1>1. CASE Ignores(z, f)
  BY <1>1, SendsNothing DEF Ignores
<1>2. CASE Fails(z, f)
  BY <1>2, FailOK, FailSends
<1>3. CASE Completes(z, f)
  <2>1. PICK y : y = f.smp
    OBVIOUS
  <2>2. y = [z EXCEPT !.state = "complete"]
    BY <1>3, <2>1 DEF Completes
  <2>3. /\ IsPairing(y) /\ y.state = "complete" /\ SameUpTo(z, y) /\ y.check = z.check
        /\ y.na = z.na /\ y.nb = z.nb /\ y.mac = z.mac /\ y.ltk = z.ltk
    BY ONLY IsPairing(z), <2>2 DEF IsPairing, SameUpTo
  <2>4. IoCap(z.theirs) = IoCap(setting.c)
    <3>1. PICK v, io : v = z.check /\ io = IoCap(z.theirs)
      OBVIOUS
    <3>2. v = f6(z.mac, z.na, z.nb, io, "C", "P")
      BY ONLY <1>3, <3>1 DEF Completes
    <3>3. v # <<>> /\ v # <<"X">> /\ v[5] = io
      BY ONLY <3>2, F6Is
    <3>4. v = f6(v[2], v[3], v[4], IoCap(setting.c), "C", "P")
      BY <3>1, <3>3 DEF ResponderOK
    <3>5. v[5] = IoCap(setting.c)
      BY ONLY <3>4, F6Is
    <3> QED
      BY ONLY <3>1, <3>3, <3>5
  <2>5. Keyed(z) /\ Agreed(z) /\ z.mine = setting.p
    BY DEF ResponderOK
  <2>6. Keyed(y) /\ Agreed(y)
    BY ONLY <2>3, <2>5 DEF Keyed, Agreed, SameUpTo
  <2>7. ResponderOK(y)
    <3>1. /\ z.mine = setting.p /\ z.key = <<"P", z.key[2]>>
          /\ z.peer \in {<<>>, OffCurve, <<"X", 0>>} \/ z.peer \in {<<"C", r>> : r \in 1 .. c.run}
          /\ z.method = Method(z.theirs, z.mine)
          /\ z.check \in {<<>>, <<"X">>} \/ z.check = f6(z.check[2], z.check[3], z.check[4], IoCap(setting.c), "C", "P")
      BY DEF ResponderOK
    <3> QED
      BY ONLY <2>3, <2>4, <2>6, <3>1 DEF ResponderOK, SameUpTo
  <2>8. PICK v, io, x : /\ io = IoCap(z.mine) /\ v = f6(z.mac, z.nb, z.na, io, "P", "C") /\ x = Pdu("dhkey check", v)
    OBVIOUS
  <2>9. f.out = <<x>>
    BY ONLY <1>3, <2>8 DEF Completes
  <2>10. IsPacket(x) /\ x.code = "dhkey check" /\ x.val = v
    BY ONLY <2>8 DEF IsPacket, Pdu
  <2>11. v[2] = z.mac /\ v[3] = z.nb /\ v[4] = z.na
    <3>1. PICK w, a, b : w = z.mac /\ a = z.nb /\ b = z.na
      OBVIOUS
    <3>2. v = f6(w, a, b, io, "P", "C")
      BY ONLY <2>8, <3>1
    <3>3. v[2] = w /\ v[3] = a /\ v[4] = b
      BY ONLY <3>2, F6Is
    <3> QED
      BY ONLY <3>1, <3>3
  <2>12. z.mac[2] = z.dhkey
    BY ONLY <2>5 DEF Agreed
  <2>13. /\ \A k \in z.dhkey : k = <<"C", k[2]>> => k[2] \in 1 .. c.run
         /\ c.smp.key \in z.dhkey => z.peer = c.smp.key
    BY <2>5, SharedKeys
  <2>14. FromPeripheral(x)
    <3>1. io = IoCap(setting.p)
      BY ONLY <2>5, <2>8
    <3>2. x.val = f6(x.val[2], x.val[3], x.val[4], IoCap(setting.p), "P", "C")
      BY ONLY <2>8, <2>10, <2>11, <3>1
    <3>3. \A k \in x.val[2][2] : k = <<"C", k[2]>> => k[2] \in 1 .. c.run
      BY ONLY <2>10, <2>11, <2>12, <2>13
    <3> QED
      BY ONLY <2>10, <3>2, <3>3 DEF FromPeripheral
  <2>15. Checks(x) => y.peer = c.smp.key /\ x.val[2] = y.mac /\ y.state = "complete"
    BY ONLY <2>3, <2>10, <2>11, <2>12, <2>13 DEF Checks, SameUpTo
  <2>16. Sends(y, <<x>>)
    BY ONLY <2>10, <2>14, <2>15, SendsThis
  <2> QED
    BY <2>1, <2>3, <2>7, <2>9, <2>16 DEF SameUpTo
<1> QED
  BY <1>1, <1>2, <1>3

(* One PDU at the responder. *)
LEMMA RespondOK ==
    ASSUME Shapes, PairInv, NEW x, IsPairing(x), ResponderOK(x), NEW d, FromCentral(d), NEW f, f = responder_feed(x, d)
    PROVE  /\ IsPairing(f.smp) /\ ResponderOK(f.smp) /\ Sends(f.smp, f.out)
           /\ \/ f.smp = x
              \/ ~ done(x) /\ (f.smp.peer = x.peer \/ (d.code = "public key" /\ f.smp.peer = d.val))
<1>1. PICK y : y = f.smp
  OBVIOUS
<1>2. CASE Ignores(x, f)
  BY <1>2, SendsNothing DEF Ignores
<1>3. CASE ~ done(x) /\ Fails(x, f)
  BY <1>3, FailOK, FailSends
<1>4. CASE ~ done(x) /\ AcceptsRequest(x, d, f)
  <2>1. y = [x EXCEPT !.state = "wait public key", !.theirs = d.val, !.method = Method(d.val, x.mine),
                     !.nb = <<"nb", x.key>>]
    BY <1>1, <1>4 DEF AcceptsRequest
  <2>2. /\ IsPairing(y) /\ y.state = "wait public key" /\ y.theirs = d.val /\ y.method = Method(d.val, x.mine)
        /\ y.mine = x.mine /\ y.key = x.key /\ y.peer = x.peer /\ y.check = x.check
    BY ONLY IsPairing(x), <2>1 DEF IsPairing
  <2>3. x.state = "idle"
    BY <1>4 DEF FromCentral, AcceptsRequest
  <2>4. ResponderOK(y)
    BY ONLY ResponderOK(x), <2>2, <2>3 DEF ResponderOK
  <2>5. PICK z : z = Pdu("response", x.mine)
    OBVIOUS
  <2>6. f.out = <<z>>
    BY ONLY <1>4, <2>5 DEF AcceptsRequest
  <2>7. IsPacket(z) /\ z.code = "response" /\ z.val = setting.p
    <3>1. x.mine = setting.p
      BY DEF ResponderOK
    <3> QED
      BY ONLY <2>5, <3>1 DEF Pdu, IsPacket
  <2>9. FromPeripheral(z) /\ ~ Checks(z)
    BY ONLY <2>7 DEF FromPeripheral, Checks
  <2>10. Sends(y, <<z>>)
    BY ONLY <2>7, <2>9, SendsThis
  <2> QED
    BY <1>1, <1>4, <2>2, <2>4, <2>6, <2>10
<1>5. CASE ~ done(x) /\ AcceptsKey(x, d, f)
  <2>1. y = [x EXCEPT !.state = "wait random", !.peer = d.val, !.dhkey = {x.key, d.val}]
    BY <1>1, <1>5 DEF AcceptsKey
  <2>2. /\ IsPairing(y) /\ y.state = "wait random" /\ y.peer = d.val /\ y.dhkey = {x.key, d.val}
        /\ y.mine = x.mine /\ y.theirs = x.theirs /\ y.method = x.method /\ y.key = x.key /\ y.check = x.check
    BY ONLY IsPairing(x), <2>1 DEF IsPairing
  <2>3. d.val \in {OffCurve, <<"X", 0>>} \/ d.val \in {<<"C", r>> : r \in 1 .. c.run}
    BY <1>5 DEF FromCentral, AcceptsKey
  <2>4. Keyed(y)
    BY ONLY <2>2 DEF Keyed
  <2>5. ResponderOK(y)
    <3>1. /\ x.mine = setting.p /\ x.key = <<"P", x.key[2]>>
          /\ x.method = Method(x.theirs, x.mine)
          /\ x.check \in {<<>>, <<"X">>} \/ x.check = f6(x.check[2], x.check[3], x.check[4], IoCap(setting.c), "C", "P")
      BY <1>5 DEF ResponderOK, AcceptsKey
    <3> QED
      BY ONLY <2>2, <2>3, <2>4, <3>1 DEF ResponderOK
  <2>a. PICK v : f.out = <<Pdu("public key", x.key), Pdu("confirm", v)>>
    BY <1>5 DEF AcceptsKey
  <2>b. PICK z, w : z = Pdu("public key", x.key) /\ w = Pdu("confirm", v)
    OBVIOUS
  <2>6. z = Pdu("public key", x.key) /\ w = Pdu("confirm", v) /\ f.out = <<z, w>>
    BY ONLY <2>a, <2>b
  <2>7. IsPacket(z) /\ z.code = "public key" /\ IsPacket(w) /\ w.code = "confirm"
    BY ONLY <2>6 DEF Pdu, IsPacket
  <2>8. FromPeripheral(z) /\ ~ Checks(z) /\ FromPeripheral(w) /\ ~ Checks(w)
    BY ONLY <2>7 DEF FromPeripheral, Checks
  <2>9. Sends(y, f.out)
    <3>1. IsSeq(f.out) /\ Els(f.out) = {z, w}
      <4>1. IsSeq(<<z, w>>) /\ Els(<<z, w>>) = {z, w}
        BY ONLY SeqTwo
      <4> QED
        BY ONLY <2>6, <4>1
    <3> QED
      BY ONLY <2>7, <2>8, <3>1 DEF Sends
  <2>10. d.code = "public key"
    BY <1>5 DEF AcceptsKey
  <2> QED
    BY <1>1, <1>5, <2>2, <2>5, <2>9, <2>10
<1>6. CASE ~ done(x) /\ AcceptsRandom(x, d, f)
  <2>1. IsPairing(y) /\ SameUpTo(x, y) /\ Agreed(y) /\ y.state = "wait user or check" /\ y.check = x.check
    BY <1>1, <1>6 DEF AcceptsRandom
  <2>2. /\ x.mine = setting.p /\ x.key = <<"P", x.key[2]>>
        /\ x.method = Method(x.theirs, x.mine)
        /\ x.check \in {<<>>, <<"X">>} \/ x.check = f6(x.check[2], x.check[3], x.check[4], IoCap(setting.c), "C", "P")
        /\ x.peer \in {<<>>, OffCurve, <<"X", 0>>} \/ x.peer \in {<<"C", r>> : r \in 1 .. c.run}
        /\ Keyed(x)
    BY <1>6 DEF ResponderOK, AcceptsRandom
  <2>3. Keyed(y)
    BY ONLY <2>1, <2>2 DEF Keyed, SameUpTo
  <2>4. ResponderOK(y)
    BY ONLY <2>1, <2>2, <2>3 DEF ResponderOK, SameUpTo
  <2>5. PICK v, z : z = Pdu("random", v) /\ f.out = <<z>>
    BY <1>6 DEF AcceptsRandom
  <2>6. IsPacket(z) /\ z.code = "random"
    BY ONLY <2>5 DEF Pdu, IsPacket
  <2>7. Sends(y, <<z>>)
    BY <2>6, SendsOne
  <2> QED
    BY <1>1, <1>6, <2>1, <2>4, <2>5, <2>7 DEF SameUpTo
<1>7. CASE ~ done(x) /\ AcceptsCheck(x, d, f)
  <2>1. PICK z : z = [x EXCEPT !.check = d.val]
    OBVIOUS
  <2>2. /\ IsPairing(z) /\ SameUpTo(x, z) /\ z.state = x.state /\ z.check = d.val
        /\ z.na = x.na /\ z.nb = x.nb /\ z.mac = x.mac /\ z.ltk = x.ltk
    BY ONLY IsPairing(x), <2>1 DEF IsPairing, SameUpTo
  <2>3. x.state = "wait user or check" /\ d.code = "dhkey check" /\ (Ignores(z, f) \/ Fails(z, f) \/ Completes(z, f))
    BY ONLY <1>7, <2>1 DEF AcceptsCheck
  <2>4. d.val = <<"X">> \/ d.val = f6(d.val[2], d.val[3], d.val[4], IoCap(setting.c), "C", "P")
    BY <2>3 DEF FromCentral
  <2>5. ResponderOK(z)
    <3>1. /\ x.mine = setting.p /\ x.key = <<"P", x.key[2]>>
          /\ x.method = Method(x.theirs, x.mine)
          /\ x.peer \in {<<>>, OffCurve, <<"X", 0>>} \/ x.peer \in {<<"C", r>> : r \in 1 .. c.run}
          /\ Keyed(x) /\ Agreed(x)
      BY <2>3 DEF ResponderOK
    <3>2. Keyed(z) /\ Agreed(z)
      BY ONLY <2>2, <3>1 DEF Keyed, Agreed, SameUpTo
    <3> QED
      BY ONLY <2>2, <2>3, <2>4, <3>1, <3>2 DEF ResponderOK, SameUpTo
  <2>6. z.state = "wait user or check"
    BY <2>2, <2>3
  <2>7. IsPairing(f.smp) /\ ResponderOK(f.smp) /\ f.smp.peer = z.peer /\ Sends(f.smp, f.out)
    BY ONLY PairInv, <2>2, <2>3, <2>5, <2>6, FinishOK
  <2> QED
    BY <1>7, <2>2, <2>7 DEF SameUpTo
<1> QED
  BY <1>2, <1>3, <1>4, <1>5, <1>6, <1>7, ResponderIs

(* The responder's pairing becomes y. *)
LEMMA ResponderStep ==
    ASSUME Shapes, PairInv, Reception, NEW np, Way({}, np), setting' = setting, c' = c, NEW y, p'.smp = <<y>>,
           ResponderOK(y), \A x \in np : FromPeripheral(x),
           y.peer = c.smp.key => Clear',
           \A m : Settled(m) => Settled(m)',
           \A x \in np : Checks(x) => Settled(x.val[2])' /\ y.peer = c.smp.key,
           c.smp.state \in Fresh => y.peer # c.smp.key
    PROVE  PairInv'
<1>1. PICK nc : nc = {}
  OBVIOUS
<1>2. Way(nc, np)
  BY <1>1
<1>3. OnWay("P")' \subseteq OnWay("P") \cup np
  BY <1>2, WayNext
<1>4. \A x \in nc : x.code # "public key"
  BY <1>1
<1>5. (OneKey => OneKey') /\ (Clear => Clear')
  BY <1>2, <1>4, KeyNext
<1>6. Pdus'
  <2>1. (\A x \in nc : FromCentral(x)') /\ \A x \in np : FromPeripheral(x)'
    BY <1>1 DEF FromPeripheral
  <2>2. c'.run = c.run
    OBVIOUS
  <2> QED
    BY <1>2, <2>1, <2>2, PdusNext
<1>7. CentralOK'
  BY DEF PairInv, CentralOK, Keyed, Agreed
<1>8. p'.smp[1] = y /\ (HasSmp)'
  BY DEF HasSmp
<1>9. (HasSmp => ResponderOK(p.smp[1]))'
  BY <1>8 DEF ResponderOK
<1>10. Met' <=> y.peer = c.smp.key
  BY <1>8 DEF Met
<1>11. ASSUME NEW x PROVE Checks(x)' <=> Checks(x)
  BY DEF Checks
<1>12. Once'
  BY <1>3, <1>5, <1>10, <1>11 DEF PairInv, Once, Fresh
<1>13. Answered'
  <2>1. (c.smp.state = "complete" => Settled(c.smp.mac))'
    <3>1. c.smp.state = "complete" => Settled(c.smp.mac)
      BY DEF PairInv, Answered
    <3>2. PICK m : m = c.smp.mac
      OBVIOUS
    <3>3. c.smp.state = "complete" => Settled(m)'
      BY <3>1, <3>2
    <3> QED
      BY <3>2, <3>3 DEF Settled
  <2>2. ASSUME NEW x \in OnWay("P")', Checks(x)' PROVE Settled(x.val[2])'
    BY <1>3, <1>11, <2>2 DEF PairInv, Answered
  <2> QED
    BY <2>1, <2>2 DEF Answered
<1> QED
  BY <1>6, <1>7, <1>9, <1>12, <1>13 DEF PairInv

LEMMA InKeyPdus ==
    ASSUME NEW d, IsPacket(d), d.code = "public key", d.val = c.smp.key PROVE d \in KeyPdus
<1>1. PICK b \in BOOLEAN : b = d.ok
  BY DEF IsPacket
<1>2. d = [code |-> "public key", val |-> c.smp.key, ok |-> b]
  BY ONLY IsPacket(d), d.code = "public key", d.val = c.smp.key, <1>1 DEF IsPacket
<1> QED
  BY <1>2 DEF KeyPdus

LEMMA InKeyEvents ==
    ASSUME NEW e, IsEvent(e), e.t = "pdu", e.v \in KeyPdus PROVE e \in KeyEvents
<1>1. e = Event("pdu", e.v)
  BY DEF IsEvent, Event
<1> QED
  BY <1>1 DEF KeyEvents

(* What the peripheral read is a PDU of the central. *)
LEMMA ItemP ==
    ASSUME Shapes, CanRead("P"), NEW e, e = read_packet("P").e, e.t = "pdu"
    PROVE  e.v \in OnWay("C") /\ IsPacket(e.v) /\ IsEvent(e) /\ e \in Els(wire["P"]) \cup Els(host["P"].back)
<1>1. e \in Els(wire["P"]) \cup Els(host["P"].back)
  BY Both, ShapesSide, Reading
<1>2. e \in Arriving("P") /\ Other("C") = "P"
  BY <1>1 DEF Arriving, Other
<1>3. IsMessage(e)
  BY <1>2, Both DEF Shapes, InShape
<1> QED
  BY <1>1, <1>2, <1>3 DEF OnWay, IsMessage

(* The public key is read: it was the only one. *)
LEMMA KeyRead ==
    ASSUME Shapes, PairInv, CanRead("P"), Reads("P"), NEW e, e = read_packet("P").e, e.t = "pdu",
           e.v.code = "public key", e.v.val = c.smp.key, c' = c, NEW np, Way({}, np)
    PROVE  Clear' /\ ~ Clear
<1>1. /\ IsPacket(e.v) /\ IsEvent(e) /\ e \in Els(wire["P"]) \cup Els(host["P"].back)
  BY ItemP
<1>2. PICK E : E = KeyEvents
  OBVIOUS
<1>3. e \in E
  BY <1>1, <1>2, InKeyPdus, InKeyEvents
<1>4. ~ Arrived
  BY <1>1, <1>2, <1>3, FreeEls DEF Arrived
<1>5. OneKey
  BY DEF PairInv, Once
<1>6. Gone /\ Slot(wire["P"], host["P"].back, E)
  BY <1>2, <1>4, <1>5 DEF OneKey
<1>7. Free(read_packet("P").w, E) /\ Free(read_packet("P").h.back, E)
  BY <1>3, <1>6, Both, ShapesSide, Reading
<1>8. host'["P"] = read_packet("P").h /\ wire'["P"] = read_packet("P").w
  BY Both, ReadReceived
<1>9. E = KeyEvents'
  BY <1>2 DEF KeyEvents, KeyPdus
<1>10. Arrived'
  BY <1>7, <1>8, <1>9 DEF Arrived
<1>11. Gone'
  <2>1. PICK nc : nc = {}
    OBVIOUS
  <2>2. Way(nc, np) /\ \A x \in nc : x.code # "public key"
    BY <2>1
  <2>3. Reception
    BY PeripheralReads
  <2>4. c'.smp.key = c.smp.key
    OBVIOUS
  <2> QED
    BY <1>6, <2>2, <2>3, <2>4, KeyNext
<1> QED
  BY <1>4, <1>10, <1>11 DEF Clear

LEMMA ShapesP ==
    ASSUME Shapes, Reception, NEW np, Way({}, np), \A x \in np : IsPacket(x), setting' = setting, c' = c,
           IsPeripheral(p'), NEW y, IsPairing(y), p'.smp = <<y>>
    PROVE  Shapes'
<1>1. PICK nc : nc = {}
  OBVIOUS
<1>2. Way(nc, np) /\ \A x \in nc \cup np : IsPacket(x)
  BY <1>1
<1>3. p'.smp = <<p'.smp[1]>> /\ IsPairing(p'.smp[1])
  OBVIOUS
<1>4. IsCentral(c') /\ IsPairing(c'.smp)
  BY DEF Shapes
<1> QED
  BY <1>2, <1>3, <1>4, ShapesNext

(* The responder's pairing after any step of its own. *)
LEMMA Responds ==
    ASSUME Shapes, PairInv, Reception, NEW out, tosend["P"] = <<>>, tosend' = [tosend EXCEPT !["P"] = out], air' = air,
           setting' = setting, c' = c, IsPeripheral(p'), NEW y, IsPairing(y), p'.smp = <<y>>,
           ResponderOK(y), Sends(y, out),
           \/ y.peer # c.smp.key
           \/ Clear' /\ ~ Clear
           \/ HasSmp /\ p.smp[1].peer = y.peer /\ (p.smp[1].state # "complete" \/ p.smp[1] = y)
    PROVE  Shapes' /\ PairInv'
<1>1. IsSeq(out) /\ \A x \in Els(out) : IsPacket(x) /\ FromPeripheral(x)
                                       /\ (Checks(x) => y.peer = c.smp.key /\ x.val[2] = y.mac /\ y.state = "complete")
  BY DEF Sends
<1>2. PICK np : np = Els(out)
  OBVIOUS
<1>3. Way({}, np)
  BY <1>1, <1>2, PeripheralSays
<1>4. \A x \in np : /\ IsPacket(x) /\ FromPeripheral(x)
                    /\ (Checks(x) => y.peer = c.smp.key /\ x.val[2] = y.mac /\ y.state = "complete")
  BY <1>1, <1>2
<1>5. Shapes'
  BY <1>3, <1>4, ShapesP
<1>6. Clear => Clear'
  <2>1. PICK nc : nc = {}
    OBVIOUS
  <2>2. Way(nc, np) /\ \A x \in nc : x.code # "public key"
    BY <1>3, <2>1
  <2>3. c'.smp.key = c.smp.key
    OBVIOUS
  <2> QED
    BY <2>2, <2>3, KeyNext
<1>7. p'.smp[1] = y /\ HasSmp'
  BY DEF HasSmp
<1>8. Met' <=> y.peer = c.smp.key
  BY <1>7 DEF Met
<1>9. y.peer = c.smp.key => Clear'
  <2>1. Met => Clear
    BY DEF PairInv, Once
  <2> QED
    BY <1>6, <2>1 DEF Met
<1>10. ASSUME NEW m, Settled(m) PROVE Settled(m)'
  <2>1. Clear /\ (Met => p.smp[1].state = "complete" /\ p.smp[1].mac = m)
    BY <1>10 DEF Settled
  <2>2. Met' => y.state = "complete" /\ y.mac = m
    BY <1>8, <2>1 DEF Met
  <2> QED
    BY <1>6, <1>7, <2>1, <2>2 DEF Settled
<1>11. ASSUME NEW x \in np, Checks(x) PROVE Settled(x.val[2])' /\ y.peer = c.smp.key
  <2>1. y.peer = c.smp.key /\ x.val[2] = y.mac /\ y.state = "complete"
    BY <1>4, <1>11
  <2> QED
    BY <1>7, <1>9, <2>1 DEF Settled
<1>12. c.smp.state \in Fresh => y.peer # c.smp.key
  <2>1. c.smp.state \in Fresh => Clear /\ ~ Met
    BY DEF PairInv, Once, Fresh
  <2> QED
    BY <2>1 DEF Met
<1>13. PairInv'
  <2>1. \A x \in np : FromPeripheral(x)
    BY <1>4
  <2> QED
    BY <1>3, <1>9, <1>10, <1>11, <1>12, <2>1, ResponderStep
<1> QED
  BY <1>5, <1>13

LEMMA OwnResponder ==
    ASSUME Shapes, PairInv, HasSmp PROVE IsPairing(p.smp[1]) /\ ResponderOK(p.smp[1])
  BY DEF Shapes, PairInv, HasSmp

LEMMA NewResponder ==
    ASSUME NEW n, NEW x, x = Responder(n) PROVE IsPairing(x) /\ ResponderOK(x) /\ x.peer = <<>> /\ ~ done(x)
<1>1. PICK k : k = <<"P", n>>
  OBVIOUS
<1>2. x = Pairing(setting.p, k)
  BY <1>1 DEF Responder
<1>3. IsPairing(x) /\ x.state = "idle" /\ x.mine = setting.p /\ x.key = k /\ x.peer = <<>> /\ x.check = <<>>
  BY ONLY <1>2, NewRun
<1>4. k = <<"P", k[2]>>
  BY ONLY <1>1
<1>5. ResponderOK(x)
  BY ONLY <1>3, <1>4 DEF ResponderOK
<1> QED
  BY <1>3, <1>5 DEF done

LEMMA OwnKey == ASSUME PairInv PROVE c.smp.key # <<>>
<1>1. c.smp.key = <<"C", c.run>>
  BY DEF PairInv, CentralOK
<1> QED
  BY ONLY <1>1, TwoIs

Served(d) == d.code = "request" \/ (HasSmp /\ d.code \in {"public key", "random", "dhkey check", "failed"})

LEMMA PollPairs == ASSUME Shapes, PairInv, PollsPacket PROVE Shapes' /\ PairInv'
<1>0. /\ CanRead("P") /\ Reads("P") /\ setting' = setting /\ c' = c /\ tosend["P"] = <<>> /\ air' = air /\ Reception
  BY PeripheralPolls DEF PollsPacket, PollTurn, Apart, controllers, Turn
<1>1. PICK e : e = read_packet("P").e
  OBVIOUS
<1>2. CASE ~(e.t = "pdu" /\ p.conn # 0)
  <2>1. p' = [p EXCEPT !.pc = "tail"] /\ tosend' = tosend
    BY <1>1, <1>2 DEF PollsPacket, PollTurn
  <2>2. Calm
    BY <1>0, <2>1, PcSame, CalmP
  <2> QED
    BY <2>2, CalmShapes, CalmPairs
<1>3. CASE e.t = "pdu" /\ p.conn # 0
  <2>1. PICK d : d = e.v
    OBVIOUS
  <2>2. Serve(d)
    BY <1>1, <1>3, <2>1 DEF PollsPacket, PollTurn
  <2>3. d \in OnWay("C") /\ FromCentral(d)
    BY <1>0, <1>1, <1>3, <2>1, ItemP, PdusOK
  <2>4. CASE ~ Served(d)
    <3>1. PICK out : /\ out = <<>> \/ out = <<Pdu("att response", 0)>>
                     /\ tosend' = [tosend EXCEPT !["P"] = out] /\ p' = [p EXCEPT !.pc = "tail"]
      BY <2>2, <2>4 DEF Serve, Served
    <3>2. IsSeq(out) /\ \A x \in Els(out) : IsPacket(x) /\ x.code \notin Loud
      <4>1. CASE out = <<>>
        BY <4>1, SeqEmpty
      <4>2. CASE out = <<Pdu("att response", 0)>>
        <5>1. PICK x : x = Pdu("att response", 0)
          OBVIOUS
        <5>2. IsPacket(x) /\ x.code \notin Loud
          BY ONLY <5>1 DEF IsPacket, Pdu, Loud
        <5>3. IsSeq(<<x>>) /\ Els(<<x>>) = {x}
          BY ONLY SeqOne
        <5>4. out = <<x>>
          BY ONLY <4>2, <5>1
        <5> QED
          BY ONLY <5>2, <5>3, <5>4
      <4> QED
        BY ONLY <3>1, <4>1, <4>2
    <3>3. Calm
      BY <1>0, <3>1, <3>2, SameC, PcSame, AnsweredCalm
    <3> QED
      BY <3>3, CalmShapes, CalmPairs
  <2>5. CASE Served(d)
    <3>1. PICK x : x = IF d.code = "request" THEN Responder(p.conn) ELSE p.smp[1]
      OBVIOUS
    <3>2. PICK f, y : f = responder_feed(x, d) /\ y = f.smp
      OBVIOUS
    <3>3. PICK b : /\ p' = [p EXCEPT !.pc = "tail", !.smp = <<y>>, !.prompted = b]
                   /\ tosend' = [tosend EXCEPT !["P"] = f.out]
      BY <2>2, <2>5, <3>1, <3>2 DEF Serve, Served
    <3>4. IsPairing(x) /\ ResponderOK(x)
      <4>1. CASE d.code = "request"
        BY <3>1, <4>1, NewResponder
      <4>2. CASE d.code # "request"
        BY <2>5, <3>1, <4>2, OwnResponder DEF Served
      <4> QED
        BY <4>1, <4>2
    <3>5. /\ IsPairing(y) /\ ResponderOK(y) /\ Sends(y, f.out)
          /\ \/ y = x
             \/ ~ done(x) /\ (y.peer = x.peer \/ (d.code = "public key" /\ y.peer = d.val))
      BY <2>3, <3>2, <3>4, RespondOK
    <3>6. IsPeripheral(p') /\ p'.smp = <<y>>
      BY ONLY <3>3, Shapes, PairInv, Programs DEF IsPeripheral
    <3>7. Way({}, Els(f.out))
      BY <1>0, <3>3, <3>5, PeripheralSays DEF Sends
    <3>8. \/ y.peer # c.smp.key
          \/ Clear' /\ ~ Clear
          \/ HasSmp /\ p.smp[1].peer = y.peer /\ (p.smp[1].state # "complete" \/ p.smp[1] = y)
      <4>1. CASE d.code = "request"
        <5>1. x.peer = <<>>
          BY <3>1, <4>1, NewResponder
        <5>2. y.peer = <<>>
          BY <3>5, <4>1, <5>1
        <5> QED
          BY <5>2, OwnKey
      <4>2. CASE d.code # "request" /\ (y = x \/ (~ done(x) /\ y.peer = x.peer))
        <5>1. HasSmp /\ x = p.smp[1]
          BY <2>5, <3>1, <4>2 DEF Served
        <5> QED
          BY <4>2, <5>1 DEF done
      <4>3. CASE d.code = "public key" /\ y.peer = d.val
        <5>1. CASE y.peer # c.smp.key
          BY <5>1
        <5>2. CASE y.peer = c.smp.key
          <6>1. e.v.code = "public key" /\ e.v.val = c.smp.key
            BY <2>1, <4>3, <5>2
          <6> QED
            BY <1>0, <1>1, <1>3, <3>7, <6>1, KeyRead
        <5> QED
          BY <5>1, <5>2
      <4> QED
        BY <3>5, <4>1, <4>2, <4>3
    <3> QED
      BY <1>0, <3>3, <3>5, <3>6, <3>8, Responds
  <2> QED
    BY <2>4, <2>5
<1> QED
  BY <1>2, <1>3

(* The user compares. *)
LEMMA PromptPairs == ASSUME Shapes, PairInv, Prompt PROVE Shapes' /\ PairInv'
<1>0. setting' = setting /\ c' = c /\ tosend["P"] = <<>> /\ air' = air /\ Reception
  BY PeripheralPolls DEF Prompt, Apart, controllers, Turn
<1>1. PICK x : x = p.smp[1]
  OBVIOUS
<1>2. HasSmp /\ x.state = "wait user or check"
  BY <1>1 DEF Prompt, Compares
<1>3. IsPairing(x) /\ ResponderOK(x)
  BY <1>1, <1>2, OwnResponder
<1>4. PICK z : z = [x EXCEPT !.accepted = TRUE]
  OBVIOUS
<1>5. PICK f, y : f = _finish(z) /\ y = f.smp
  OBVIOUS
<1>6. responder_user_confirm(x, TRUE) = f
  BY ONLY <1>4, <1>5 DEF responder_user_confirm
<1>7. p' = [p EXCEPT !.prompted = TRUE, !.smp = <<y>>] /\ tosend' = [tosend EXCEPT !["P"] = f.out]
  BY <1>1, <1>5, <1>6 DEF Prompt
<1>8. /\ IsPairing(z) /\ SameUpTo(x, z) /\ z.state = x.state /\ z.check = x.check
      /\ z.na = x.na /\ z.nb = x.nb /\ z.mac = x.mac /\ z.ltk = x.ltk
  BY ONLY <1>3, <1>4 DEF IsPairing, SameUpTo
<1>9. ResponderOK(z)
  BY ONLY <1>3, <1>8 DEF ResponderOK, Keyed, Agreed, SameUpTo
<1>10. Ignores(z, f) \/ Fails(z, f) \/ Completes(z, f)
  BY ONLY <1>5, FinishIs
<1>11. IsPairing(f.smp) /\ ResponderOK(f.smp) /\ f.smp.peer = z.peer /\ Sends(f.smp, f.out)
  <2>1. z.state = "wait user or check"
    BY <1>2, <1>8
  <2> QED
    BY ONLY PairInv, <1>8, <1>9, <1>10, <2>1, FinishOK
<1>12. IsPairing(y) /\ ResponderOK(y) /\ Sends(y, f.out) /\ y.peer = x.peer
  BY ONLY <1>5, <1>8, <1>11 DEF SameUpTo
<1>13. IsPeripheral(p') /\ p'.smp = <<y>>
  BY ONLY <1>7, Shapes, PairInv, Programs DEF IsPeripheral
<1> QED
  BY <1>0, <1>1, <1>2, <1>7, <1>12, <1>13, Responds

-----------------------------------------------------------------------------
(* The air, with an odd PDU in place of another.                           *)

(* What becomes of a PDU in the air. *)
Becomes(d, got) ==
    /\ IsPacket(got) /\ got.code = d.code
    /\ \/ got.val = d.val
       \/ got.code \in {"request", "response"}
       \/ got.code = "public key" /\ got.val \in {OffCurve, <<"X", 0>>}
       \/ got.code \notin {"request", "response", "public key"} /\ got.val = <<"X">>

LEMMA OddIs == ASSUME NEW d, IsPacket(d), NEW got \in {d} \cup Odd(d) PROVE Becomes(d, got)
<1>1. CASE got = d
  BY <1>1 DEF Becomes
<1>2. CASE got = [d EXCEPT !.ok = FALSE]
  BY <1>2 DEF Becomes, IsPacket
<1>3. CASE d.code \in {"request", "response"} /\ \E u : got = [d EXCEPT !.val = u]
  BY <1>3 DEF Becomes, IsPacket
<1>4. CASE d.code = "public key" /\ got \in {[d EXCEPT !.val = OffCurve], [d EXCEPT !.val = <<"X", 0>>]}
  BY <1>4 DEF Becomes, IsPacket
<1>5. CASE d.code \notin {"request", "response", "public key"} /\ got = [d EXCEPT !.val = <<"X">>]
  BY <1>5 DEF Becomes, IsPacket
<1>6. CASE d.code \in {"request", "response"}
  <2>1. PICK u, v, w : Odd(d) = {[d EXCEPT !.ok = FALSE]} \cup
                                 {[d EXCEPT !.val = u], [d EXCEPT !.val = v], [d EXCEPT !.val = w]}
    BY <1>6 DEF Odd
  <2> QED
    BY <1>1, <1>2, <1>3, <1>6, <2>1
<1>7. CASE d.code = "public key"
  <2>1. Odd(d) = {[d EXCEPT !.ok = FALSE]} \cup {[d EXCEPT !.val = OffCurve], [d EXCEPT !.val = <<"X", 0>>]}
    BY <1>7 DEF Odd
  <2> QED
    BY <1>1, <1>2, <1>4, <1>7, <2>1
<1>8. CASE d.code \notin {"request", "response", "public key"}
  <2>1. Odd(d) = {[d EXCEPT !.ok = FALSE]} \cup {[d EXCEPT !.val = <<"X">>]}
    BY <1>8 DEF Odd
  <2> QED
    BY <1>1, <1>2, <1>5, <1>8, <2>1
<1> QED
  BY <1>6, <1>7, <1>8

LEMMA BecomesFrom ==
    ASSUME Shapes, NEW d, NEW got, Becomes(d, got)
    PROVE  /\ FromCentral(d) => FromCentral(got)
           /\ FromPeripheral(d) => FromPeripheral(got)
           /\ Checks(got) => Checks(d) /\ got.val = d.val
<1>1. CASE got.val = d.val
  BY <1>1 DEF Becomes, FromCentral, FromPeripheral, Checks
<1>2. CASE got.code \in {"request", "response"}
  BY <1>2 DEF FromCentral, FromPeripheral, Checks
<1>3. CASE got.code = "public key" /\ got.val \in {OffCurve, <<"X", 0>>}
  BY <1>3 DEF FromCentral, FromPeripheral, Checks
<1>4. CASE got.code \notin {"request", "response", "public key"} /\ got.val = <<"X">>
  BY <1>4 DEF FromCentral, FromPeripheral, Checks
<1> QED
  BY <1>1, <1>2, <1>3, <1>4 DEF Becomes

(* Where everything is once a PDU d of s has come over as got. *)
Carried(s, d, got) ==
    LET o == Other(s)
    IN  /\ OnSides(wire') /\ OnSides(air') /\ tosend' = tosend /\ host' = host
        /\ setting' = setting /\ c' = c /\ p' = p
        /\ air[s] # <<>> /\ d = Head(air[s]) /\ air'[s] = Tail(air[s]) /\ air'[o] = air[o]
        /\ wire'[s] = Append(wire[s], Event("completed", 0)) /\ wire'[o] = Append(wire[o], Event("pdu", got))

LEMMA DeliverCarries ==
    ASSUME Shapes, NEW s \in Sides, Deliver(s)
    PROVE  \E d, got : Carried(s, d, got) /\ Becomes(d, got) /\ IsPacket(d)
<1>0. air[s] # <<>> /\ IsSeq(air[s]) /\ OnSides(air) /\ OnSides(wire)
  BY ShapesSide DEF Deliver
<1>1. PICK d : d = Head(air[s])
  OBVIOUS
<1>2. PICK got \in {d} \cup Odd(d) :
           wire' = [wire EXCEPT ![s] = Append(@, Event("completed", 0)), ![Other(s)] = Append(@, Event("pdu", got))]
  BY <1>1 DEF Deliver
<1>3. IsPacket(d)
  <2>1. d \in Els(air[s])
    BY <1>0, <1>1, SeqTail
  <2> QED
    BY <2>1 DEF Shapes, InShape, Leaving
<1>4. Becomes(d, got)
  BY <1>3, OddIs
<1>5. PICK n, g, t : n = Event("completed", 0) /\ g = Event("pdu", got) /\ t = Tail(air[s])
  OBVIOUS
<1>6. air' = [air EXCEPT ![s] = t] /\ tosend' = tosend /\ host' = host /\ setting' = setting /\ c' = c /\ p' = p
  BY <1>5 DEF Deliver, Hosts, programs
<1>7. OnSides(air') /\ air'[s] = t /\ air'[Other(s)] = air[Other(s)]
  BY ONLY <1>0, <1>6, s \in Sides DEF Other, OnSides, Sides
<1>8. OnSides(wire') /\ wire'[s] = Append(wire[s], n) /\ wire'[Other(s)] = Append(wire[Other(s)], g)
  BY ONLY <1>0, <1>2, <1>5, s \in Sides DEF Other, OnSides, Sides
<1>9. Carried(s, d, got)
  BY <1>0, <1>1, <1>5, <1>6, <1>7, <1>8 DEF Carried
<1> QED
  BY <1>3, <1>4, <1>9
LEMMA CarriedWay ==
    ASSUME Shapes, NEW s \in Sides, NEW d, NEW got, Carried(s, d, got), IsPacket(got)
    PROVE  /\ Shapes'
           /\ d \in OnWay(s) /\ OnWay(s)' \subseteq OnWay(s) \cup {got}
           /\ OnWay(Other(s))' \subseteq OnWay(Other(s))
<1>1. PICK o : o = Other(s)
  OBVIOUS
<1>2. o \in Sides /\ Other(o) = s /\ o # s /\ \A t \in Sides : t = s \/ t = o
  BY <1>1, Both DEF Other
<1>3. PICK n, g : n = Event("completed", 0) /\ g = Event("pdu", got)
  OBVIOUS
<1>4. IsEvent(n) /\ n.t = "completed" /\ IsEvent(g) /\ g.t = "pdu" /\ g.v = got
  BY <1>3, NoticeEvent
<1>5. /\ OnSides(wire') /\ OnSides(air') /\ tosend' = tosend /\ host' = host
      /\ setting' = setting /\ c' = c /\ p' = p
      /\ air[s] # <<>> /\ d = Head(air[s]) /\ air'[s] = Tail(air[s]) /\ air'[o] = air[o]
      /\ wire'[s] = Append(wire[s], n) /\ wire'[o] = Append(wire[o], g)
  BY <1>1, <1>3 DEF Carried
<1>6. /\ IsSeq(air'[s]) /\ d \in Els(air[s]) /\ Els(air'[s]) \subseteq Els(air[s])
      /\ IsSeq(air'[o])
  BY <1>2, <1>5, ShapesSide, SeqTail
<1>7. /\ IsSeq(wire'[s]) /\ Els(wire'[s]) = Els(wire[s]) \cup {n}
      /\ IsSeq(wire'[o]) /\ Els(wire'[o]) = Els(wire[o]) \cup {g}
  BY <1>2, <1>5, ShapesSide, SeqAppend
<1>8. /\ Leaving(s)' \subseteq Leaving(s) /\ d \in Leaving(s) /\ Leaving(o)' = Leaving(o)
      /\ Arriving(s)' = Arriving(s) \cup {n} /\ Arriving(o)' = Arriving(o) \cup {g}
  BY <1>5, <1>6, <1>7 DEF Leaving, Arriving
<1>9. ASSUME NEW t \in Sides PROVE InShape(t)'
  <2>1. /\ IsSeq(tosend[t]) /\ IsLink(host[t]) /\ IsSeq(host[t].back)
        /\ \A e \in Arriving(t) : IsMessage(e)
        /\ \A x \in Leaving(t) : IsPacket(x)
    BY DEF Shapes, InShape
  <2>2. IsMessage(n) /\ IsMessage(g)
    BY <1>4 DEF IsMessage
  <2>3. /\ \A e \in Arriving(t)' : IsMessage(e)
        /\ \A x \in Leaving(t)' : IsPacket(x)
    BY <1>2, <1>8, <2>1, <2>2
  <2> QED
    BY <1>2, <1>5, <1>6, <1>7, <2>1, <2>3 DEF InShape
<1>10. Shapes'
  <2>1. setting' \in Settings /\ OnSides(tosend') /\ OnSides(host') /\ IsCentral(c') /\ IsPairing(c'.smp)
    BY <1>5 DEF Shapes
  <2>2. IsPeripheral(p') /\ (p'.smp = <<>> \/ (p'.smp = <<p'.smp[1]>> /\ IsPairing(p'.smp[1])))
    BY <1>5 DEF Shapes
  <2> QED
    BY <1>5, <1>9, <2>1, <2>2 DEF Shapes
<1>11. d \in OnWay(s) /\ OnWay(s)' \subseteq OnWay(s) \cup {got}
  BY <1>1, <1>4, <1>8 DEF OnWay
<1>12. OnWay(o)' \subseteq OnWay(o)
  BY <1>2, <1>4, <1>8 DEF OnWay
<1> QED
  BY <1>1, <1>10, <1>11, <1>12

(* A public key that came over left at the other end, and there was no other. *)
LEMMA CarriedKey ==
    ASSUME Shapes, PairInv, NEW d, NEW got, Carried("C", d, got), Becomes(d, got), IsPacket(d)
    PROVE  OneKey' /\ (Clear => Clear')
<1>1. PICK K, E : K = KeyPdus /\ E = KeyEvents
  OBVIOUS
<1>2. PICK n, g : n = Event("completed", 0) /\ g = Event("pdu", got)
  OBVIOUS
<1>3. /\ tosend' = tosend /\ host' = host /\ c' = c
      /\ air["C"] # <<>> /\ d = Head(air["C"]) /\ air'["C"] = Tail(air["C"])
      /\ wire'["P"] = Append(wire["P"], g)
  BY <1>2 DEF Carried, Other
<1>4. K = KeyPdus' /\ E = KeyEvents'
  BY <1>1, <1>3 DEF KeyPdus, KeyEvents
<1>5. IsSeq(tosend["C"]) /\ IsSeq(air["C"]) /\ IsSeq(wire["P"]) /\ IsSeq(host["P"].back)
  BY Both, ShapesSide
<1>6. /\ Slot(tosend["C"], air["C"], K) /\ Slot(wire["P"], host["P"].back, E)
      /\ Gone \/ Arrived
      /\ Gone <=> Free(tosend["C"], K) /\ Free(air["C"], K)
      /\ Arrived <=> Free(wire["P"], E) /\ Free(host["P"].back, E)
  BY <1>1 DEF PairInv, Once, OneKey, Gone, Arrived
<1>7. Slot(tosend["C"], Tail(air["C"]), K)
  BY <1>3, <1>5, <1>6, LoneTail, FreeTail DEF Slot
<1>8. CASE got \in K
  <2>1. got.code = "public key" /\ got.val = c.smp.key
    BY <1>1, <1>8, KeyCodes
  <2>2. got.val \notin {OffCurve, <<"X", 0>>}
    <3>1. c.smp.key = <<"C", c.run>>
      BY DEF PairInv, CentralOK
    <3>2. c.smp.key[1] = "C" /\ OffCurve[1] = "off curve" /\ <<"X", 0>>[1] = "X"
      BY ONLY <3>1 DEF OffCurve
    <3> QED
      BY ONLY <2>1, <3>2
  <2>3. d.code = "public key" /\ d.val = c.smp.key
    BY ONLY <2>1, <2>2, Becomes(d, got) DEF Becomes
  <2>4. d \in K
    BY <1>1, <2>3, InKeyPdus
  <2>5. ~ Free(air["C"], K) /\ Free(Tail(air["C"]), K)
    BY <1>3, <1>5, <1>6, <2>4, LoneTail, FreeTail DEF Slot
  <2>6. Free(tosend["C"], K) /\ Free(wire["P"], E) /\ Free(host["P"].back, E) /\ ~ Gone
    BY <1>6, <2>5 DEF Slot
  <2>7. Lone(Append(wire["P"], g), E)
    BY <1>5, <2>6, FreeLone, LoneAppend
  <2>8. Slot(Append(wire["P"], g), host["P"].back, E)
    BY <2>6, <2>7, FreeLone DEF Slot
  <2>9. Gone'
    BY <1>3, <1>4, <2>5, <2>6 DEF Gone
  <2>10. OneKey'
    BY <1>3, <1>4, <1>7, <2>8, <2>9 DEF OneKey
  <2> QED
    BY <2>6, <2>10 DEF Clear
<1>9. CASE got \notin K
  <2>1. g \notin E
    <3>1. g.v = got
      BY <1>2, NoticeEvent
    <3> QED
      BY <1>1, <1>9, <3>1, KeyCodes
  <2>2. Lone(Append(wire["P"], g), E) /\ (Free(wire["P"], E) => Free(Append(wire["P"], g), E))
    BY <1>5, <1>6, <2>1, LoneAppend, FreeAppend DEF Slot
  <2>3. Slot(Append(wire["P"], g), host["P"].back, E)
    BY <1>6, <2>2 DEF Slot
  <2>4. Arrived => Arrived'
    BY <1>3, <1>4, <1>6, <2>2 DEF Arrived
  <2>5. Gone => Gone'
    BY <1>3, <1>4, <1>5, <1>6, FreeTail DEF Gone
  <2>6. OneKey'
    BY <1>3, <1>4, <1>6, <1>7, <2>3, <2>4, <2>5 DEF OneKey
  <2> QED
    BY <2>4, <2>5, <2>6 DEF Clear
<1> QED
  BY <1>8, <1>9

LEMMA CarriedOther ==
    ASSUME Shapes, PairInv, NEW d, NEW got, Carried("P", d, got)
    PROVE  OneKey' /\ (Clear => Clear')
<1>1. PICK K, E : K = KeyPdus /\ E = KeyEvents
  OBVIOUS
<1>2. PICK n : n = Event("completed", 0)
  OBVIOUS
<1>3. /\ tosend' = tosend /\ host' = host /\ c' = c /\ air'["C"] = air["C"]
      /\ wire'["P"] = Append(wire["P"], n)
  BY <1>2 DEF Carried, Other
<1>4. K = KeyPdus' /\ E = KeyEvents'
  BY <1>1, <1>3 DEF KeyPdus, KeyEvents
<1>5. IsSeq(wire["P"]) /\ OneKey
  BY Both, ShapesSide DEF PairInv, Once
<1>6. n \notin E
  <2>1. n.t = "completed"
    BY <1>2, NoticeEvent
  <2> QED
    BY <1>1, <2>1, KeyCodes
<1>7. /\ Lone(wire["P"], E) => Lone(Append(wire["P"], n), E)
      /\ Free(wire["P"], E) => Free(Append(wire["P"], n), E)
  BY <1>5, <1>6, LoneAppend, FreeAppend
<1>8. (Gone => Gone') /\ (Arrived => Arrived')
  BY <1>1, <1>3, <1>4, <1>7 DEF Gone, Arrived
<1>9. OneKey'
  BY <1>1, <1>3, <1>4, <1>5, <1>7, <1>8 DEF OneKey, Slot
<1> QED
  BY <1>8, <1>9 DEF Clear

LEMMA DeliverPairs == ASSUME Shapes, PairInv, NEW s \in Sides, Deliver(s) PROVE Shapes' /\ PairInv'
<1>1. PICK d, got : Carried(s, d, got) /\ Becomes(d, got) /\ IsPacket(d)
  BY DeliverCarries
<1>2. IsPacket(got) /\ setting' = setting /\ c' = c /\ p' = p
  BY <1>1 DEF Becomes, Carried
<1>3. /\ Shapes' /\ d \in OnWay(s) /\ OnWay(s)' \subseteq OnWay(s) \cup {got}
      /\ OnWay(Other(s))' \subseteq OnWay(Other(s))
  BY <1>1, <1>2, CarriedWay
<1>4. /\ FromCentral(d) => FromCentral(got)
      /\ FromPeripheral(d) => FromPeripheral(got)
      /\ Checks(got) => Checks(d) /\ got.val = d.val
  BY <1>1, BecomesFrom
<1>5. (s = "C" \/ s = "P") /\ Other("C") = "P" /\ Other("P") = "C"
  <2>1. Other("C") = "P" /\ Other("P") = "C"
    BY DEF Other
  <2> QED
    BY <2>1, Both
<1>6. OneKey' /\ (Clear => Clear')
  <2>1. CASE s = "C"
    BY <1>1, <2>1, CarriedKey
  <2>2. CASE s = "P"
    BY <1>1, <2>2, CarriedOther
  <2> QED
    BY <1>5, <2>1, <2>2
<1>7. Pdus'
  <2>1. (\A x \in OnWay("C")' : FromCentral(x)) /\ \A x \in OnWay("P")' : FromPeripheral(x)
    BY <1>3, <1>4, <1>5 DEF PairInv, Pdus
  <2>2. \A x : (FromCentral(x) <=> FromCentral(x)') /\ (FromPeripheral(x) <=> FromPeripheral(x)')
    BY <1>2 DEF FromCentral, FromPeripheral
  <2> QED
    BY <2>1, <2>2 DEF Pdus
<1>8. CentralOK' /\ (HasSmp => ResponderOK(p.smp[1]))'
  BY <1>2 DEF PairInv, CentralOK, ResponderOK, HasSmp
<1>9. (Met' <=> Met) /\ \A x : Checks(x)' <=> Checks(x)
  BY <1>2 DEF Met, HasSmp, Checks
<1>10. ASSUME NEW x \in OnWay("P")', Checks(x) PROVE \E y \in OnWay("P") : Checks(y) /\ y.val = x.val
  BY <1>3, <1>4, <1>5, <1>10
<1>11. Once'
  BY <1>2, <1>6, <1>9, <1>10 DEF PairInv, Once
<1>12. ASSUME NEW m, Settled(m) PROVE Settled(m)'
  BY <1>2, <1>6, <1>9, <1>12 DEF Settled
<1>13. Answered'
  <2>1. (c.smp.state = "complete" => Settled(c.smp.mac))'
    <3>1. ASSUME c.smp.state = "complete" PROVE Settled(c.smp.mac)
      BY <3>1 DEF PairInv, Answered
    <3>2. Settled(c.smp.mac) => Settled(c.smp.mac)'
      BY <1>2, <1>6, <1>9 DEF Settled
    <3> QED
      BY <1>2, <3>1, <3>2
  <2>2. ASSUME NEW x \in OnWay("P")', Checks(x)' PROVE Settled(x.val[2])'
    <3>1. PICK y \in OnWay("P") : Checks(y) /\ y.val = x.val
      BY <1>9, <1>10, <2>2
    <3>2. Settled(x.val[2])
      BY <3>1 DEF PairInv, Answered
    <3> QED
      BY <1>12, <3>2
  <2> QED
    BY <2>1, <2>2 DEF Answered
<1> QED
  BY <1>3, <1>7, <1>8, <1>11, <1>13 DEF PairInv

-----------------------------------------------------------------------------
(* The pairings: the theorem.                                              *)

LEMMA PairInit == ASSUME Init PROVE Shapes /\ PairInv
<1>1. /\ setting \in Settings /\ air = [s \in Sides |-> <<>>] /\ wire = [s \in Sides |-> <<>>]
      /\ host = [s \in Sides |-> Link] /\ tosend = [s \in Sides |-> <<>>] /\ p = Peripheral
  BY DEF Init
<1>2. PICK ltk : c = Central(1, ltk)
  BY DEF Init
<1>3. PICK y, k : y = Pairing(setting.c, k) /\ k = <<"C", 1>>
  OBVIOUS
<1>4. /\ IsCentral(c) /\ c.smp = y /\ c.run = 1 /\ c.cycle \in {0, 1}
  BY ONLY <1>2, <1>3 DEF Central, IsCentral
<1>5. IsPairing(y) /\ y.state = "idle" /\ y.mine = setting.c /\ y.key = k
  BY ONLY <1>3, NewRun
<1>6. IsPeripheral(p) /\ p.smp = <<>> /\ ~ HasSmp
  BY ONLY <1>1 DEF Peripheral, IsPeripheral, HasSmp
<1>7. IsLink(Link) /\ Link.back = <<>>
  BY DEF IsLink, Link
<1>8. ASSUME NEW s \in Sides
      PROVE  tosend[s] = <<>> /\ air[s] = <<>> /\ wire[s] = <<>> /\ IsLink(host[s]) /\ host[s].back = <<>>
  BY <1>1, <1>7
<1>9. ASSUME NEW s \in Sides PROVE InShape(s) /\ Arriving(s) = {} /\ Leaving(s) = {}
  BY <1>8, SeqEmpty DEF InShape, Arriving, Leaving
<1>10. Shapes
  <2>1. OnSides(tosend) /\ OnSides(air) /\ OnSides(wire) /\ OnSides(host)
    BY <1>1 DEF OnSides
  <2> QED
    BY <1>1, <1>4, <1>5, <1>6, <1>9, <2>1 DEF Shapes
<1>11. OnWay("C") = {} /\ OnWay("P") = {}
  <2>1. Other("C") = "P" /\ Other("P") = "C"
    BY DEF Other
  <2> QED
    BY <1>9, <2>1, Both DEF OnWay
<1>12. CentralOK
  BY <1>3, <1>4, <1>5 DEF CentralOK
<1>13. OneKey /\ Clear
  <2>1. Gone /\ Arrived
    BY <1>8, Both, SeqEmpty DEF Gone, Arrived
  <2>2. Slot(tosend["C"], air["C"], KeyPdus) /\ Slot(wire["P"], host["P"].back, KeyEvents)
    BY <1>8, Both, SeqEmpty DEF Slot
  <2> QED
    BY <2>1, <2>2 DEF OneKey, Clear
<1>14. Once /\ Answered /\ Pdus
  <2>1. ~ Met
    BY <1>6 DEF Met
  <2>2. c.smp.state # "complete"
    BY <1>4, <1>5
  <2> QED
    BY <1>11, <1>13, <2>1, <2>2 DEF Once, Answered, Pdus
<1> QED
  BY <1>6, <1>10, <1>12, <1>14 DEF PairInv

(* One step per action. *)
LEMMA PairNext == ASSUME Shapes, PairInv, [Next]_vars PROVE Shapes' /\ PairInv'
<1>1. ASSUME Calm PROVE Shapes' /\ PairInv'
  BY <1>1, CalmShapes, CalmPairs
<1>2. CASE CentralNext
  <2>1. CASE connect \/ Connecting \/ ConnectTimeout
    BY <1>1, <2>1, ConnectCalm, ConnectingCalm
  <2>2. CASE wait_security_request
    <3>1. CASE c.cycle # 0 \/ (c' = c /\ tosend' = tosend)
      BY <1>1, <2>2, <3>1, SecurityCalm
    <3>2. CASE c.cycle = 0 /\ ~(c' = c /\ tosend' = tosend)
      BY <2>2, <3>2, StartPairs
    <3> QED
      BY <3>1, <3>2
  <2>3. CASE pair
    BY <2>3, PairPairs
  <2>4. CASE \/ PairFails \/ Paired \/ wait_encryption \/ collect_keys \/ save_bond
             \/ Probing \/ _take_credit("C")
    BY <1>1, <2>4, PollersCalm
  <2>5. CASE start_encryption
    BY <1>1, <2>5, EncryptCalm
  <2>6. CASE send_keys \/ att_probe
    BY <1>1, <2>6, KeysCalm, ProbeCalm
  <2>7. CASE disconnect \/ Hanging
    BY <1>1, <2>7, HangupCalm
  <2>8. CASE send_l2cap("C") \/ NoCredit("C")
    BY <1>1, <2>8, Both, SendersCalm
  <2> QED
    BY <1>2, <2>1, <2>2, <2>3, <2>4, <2>5, <2>6, <2>7, <2>8 DEF CentralNext
<1>3. CASE Restart
  BY <1>3, RestartPairs
<1>4. CASE PeripheralNext \/ KeyboardInterrupt
  <2>1. CASE NewConn
    BY <1>1, <2>1, NewConnCalm
  <2>2. CASE ServeKeyRequest
    BY <1>1, <2>2, ServeKeyCalm
  <2>3. CASE PollsPacket
    BY <2>3, PollPairs
  <2>4. CASE Prompt
    BY <2>4, PromptPairs
  <2>5. CASE LoopEnds
    BY <1>1, <2>5, LoopEndsCalm
  <2>6. CASE PollsNothing \/ Finally \/ _take_credit("P")
    BY <1>1, <2>6, EndingCalm
  <2>7. CASE send_l2cap("P") \/ NoCredit("P")
    BY <1>1, <2>7, Both, SendersCalm
  <2>8. CASE KeyboardInterrupt
    BY <1>1, <2>8, InterruptCalm
  <2> QED
    BY <1>4, <2>1, <2>2, <2>3, <2>4, <2>5, <2>6, <2>7, <2>8 DEF PeripheralNext, poll
<1>5. CASE Connected \/ LinkLost \/ \E s \in Sides : Ends(s)
  BY <1>1, <1>5, ControllersCalm
<1>6. CASE \E s \in Sides : Deliver(s)
  BY <1>6, DeliverPairs
<1>7. CASE UNCHANGED vars
  BY <1>1, <1>7, StutterCalm
<1> QED
  BY <1>2, <1>3, <1>4, <1>5, <1>6, <1>7 DEF Next

LEMMA PairedFollows == ASSUME Shapes, PairInv PROVE PairedAlike
<1> SUFFICES ASSUME c.smp.state = "complete", HasSmp, p.smp[1].peer = c.smp.key
             PROVE  /\ p.smp[1].state = "complete"
                    /\ p.smp[1].ltk = c.smp.ltk /\ p.smp[1].method = c.smp.method
                    /\ IoCap(p.smp[1].theirs) = IoCap(c.smp.mine) /\ IoCap(c.smp.theirs) = IoCap(p.smp[1].mine)
  BY DEF PairedAlike
<1>1. PICK x, y, fc, fp : x = c.smp /\ y = p.smp[1] /\ fc = setting.c /\ fp = setting.p
  OBVIOUS
<1>2. y.state = "complete" /\ y.mac = x.mac
  BY <1>1 DEF PairInv, Answered, Settled, Met
<1>3. /\ x.mine = fc /\ x.method = Method(x.mine, x.theirs) /\ Agreed(x)
      /\ IoCap(x.theirs) = IoCap(fp)
  BY <1>1 DEF PairInv, CentralOK
<1>4. /\ y.mine = fp /\ y.method = Method(y.theirs, y.mine) /\ Agreed(y)
      /\ IoCap(y.theirs) = IoCap(fc)
  BY <1>1, <1>2 DEF PairInv, ResponderOK
<1>5. y.method = x.method
  <2>1. PICK u, v : u = x.theirs /\ v = y.theirs
    OBVIOUS
  <2>2. u.io = fp.io /\ u.mitm = fp.mitm /\ v.io = fc.io /\ v.mitm = fc.mitm
    BY ONLY <1>3, <1>4, <2>1 DEF IoCap
  <2>3. Method(fc, u) = Method(v, fp)
    BY ONLY <2>2 DEF Method
  <2> QED
    BY ONLY <1>3, <1>4, <2>1, <2>3
<1>6. y.ltk = x.ltk
  BY ONLY <1>2, <1>3, <1>4 DEF Agreed
<1> QED
  BY <1>1, <1>2, <1>3, <1>4, <1>5, <1>6

(* A pairing the central completed is complete at the responder that has   *)
(* its key, with the same long-term key and method and what the checks     *)
(* cover of each end's features as the other sent them: PairedAlike of     *)
(* feed() at both ends, whatever was lost, delayed or altered in between.  *)
THEOREM PairsAlike == Spec => []PairedAlike
<1>1. Init => Shapes /\ PairInv
  BY PairInit
<1>2. Shapes /\ PairInv /\ [Next]_vars => Shapes' /\ PairInv'
  BY PairNext
<1>3. Shapes /\ PairInv => PairedAlike
  BY PairedFollows
<1> QED
  BY <1>1, <1>2, <1>3, PTL DEF Spec

-----------------------------------------------------------------------------
(* The links: what a host hears of connections and disconnections.         *)

LEMMA LinkEvents ==
    /\ \A e \in ConnEvents : e.t = "conn" /\ e.v \in Nat
    /\ \A e \in DiscEvents : e.t = "disc" /\ e.v \in Nat
    /\ \A e : IsEvent(e) /\ e.v \in Nat => (e.t = "conn" => e \in ConnEvents) /\ (e.t = "disc" => e \in DiscEvents)
<1>1. \A e \in ConnEvents : e.t = "conn" /\ e.v \in Nat
  BY DEF ConnEvents
<1>2. \A e \in DiscEvents : e.t = "disc" /\ e.v \in Nat
  BY DEF DiscEvents
<1>3. ASSUME NEW e, IsEvent(e), e.v \in Nat, e.t = "conn" PROVE e \in ConnEvents
  <2>1. e = [t |-> "conn", v |-> e.v]
    BY <1>3 DEF IsEvent
  <2> QED
    BY <1>3, <2>1 DEF ConnEvents
<1>4. ASSUME NEW e, IsEvent(e), e.v \in Nat, e.t = "disc" PROVE e \in DiscEvents
  <2>1. e = [t |-> "disc", v |-> e.v]
    BY <1>4 DEF IsEvent
  <2> QED
    BY <1>4, <2>1 DEF DiscEvents
<1> QED
  BY <1>1, <1>2, <1>3, <1>4

Keeps(w, w2, K) == (Free(w, K) => Free(w2, K)) /\ (Lone(w, K) => Lone(w2, K))

(* A host h with w before it comes to h2 with w2 before it: what it heard  *)
(* of connections was in w and is no longer.                               *)
Heeds(w, h, w2, h2) ==
    /\ h2.handle = h.handle
    /\ \A e \in Els(w2) : e.t \in Links => e \in Els(w)
    /\ \A e \in Els(h2.back) : e.t \in Links => e \in Els(h.back) \/ (e \in Els(w) /\ e.t = "conn")
    /\ Keeps(w, w2, ConnEvents) /\ Keeps(w, w2, DiscEvents)
    /\ \/ h2.disc = h.disc
       \/ \E e \in Els(w) \cap DiscEvents : h2.disc = e.v /\ (Lone(w, DiscEvents) => Free(w2, DiscEvents))
    /\ \/ h2.newconn = h.newconn
       \/ \E e \in Els(w) \cap ConnEvents : h2.newconn = e.v /\ (Lone(w, ConnEvents) => Free(w2, ConnEvents))

LEMMA HeedsSame ==
    ASSUME NEW w, NEW h, NEW h2, h2.handle = h.handle, h2.disc = h.disc, h2.newconn = h.newconn, h2.back = h.back
    PROVE  Heeds(w, h, w, h2)
  BY DEF Heeds, Keeps

LEMMA HeedsAppend ==
    ASSUME NEW w, IsSeq(w), NEW h, NEW e, e.t \notin Links PROVE Heeds(w, h, Append(w, e), h)
<1>1. Els(Append(w, e)) = Els(w) \cup {e}
  BY SeqAppend
<1>2. PICK C, D : C = ConnEvents /\ D = DiscEvents
  OBVIOUS
<1>3. e \notin C /\ e \notin D
  BY <1>2, LinkEvents DEF Links
<1>4. Keeps(w, Append(w, e), C) /\ Keeps(w, Append(w, e), D)
  BY <1>3, FreeAppend, LoneAppend DEF Keeps
<1> QED
  BY <1>1, <1>2, <1>4 DEF Heeds

LEMMA KeepsTail ==
    ASSUME NEW w, IsSeq(w), w # <<>>, NEW K PROVE Keeps(w, Tail(w), K)
  BY FreeTail, LoneTail DEF Keeps

LEMMA EventsAre ==
    ASSUME Shapes, NEW s \in Sides, Numbered(s), NEW e \in Els(wire[s]) \cup Els(host[s].back)
    PROVE  IsEvent(e) /\ (e.t \in Links => e.v \in Nat)
<1>1. e \in Arriving(s)
  BY DEF Arriving
<1> QED
  BY <1>1 DEF Shapes, InShape, IsMessage, Numbered

LEMMA HeedsRead ==
    ASSUME Shapes, NEW s \in Sides, Numbered(s), CanRead(s)
    PROVE  LET r == read_packet(s)
           IN  /\ Heeds(wire[s], host[s], r.w, r.h) /\ IsLink(r.h)
               /\ Els(r.h.back) \subseteq Els(host[s].back)
<1>0. IsLink(host[s]) /\ IsSeq(host[s].back) /\ IsSeq(wire[s])
  BY ShapesSide
<1>1. PICK w, h : w = wire[s] /\ h = host[s]
  OBVIOUS
<1>2. PICK r : r = read_packet(s)
  OBVIOUS
<1>3. CASE h.back # <<>>
  <2>1. r.h = [h EXCEPT !.back = Tail(h.back)] /\ r.w = w
    BY <1>1, <1>2, <1>3 DEF read_packet
  <2>2. /\ IsLink(r.h) /\ r.h.back = Tail(h.back) /\ r.h.handle = h.handle
        /\ r.h.disc = h.disc /\ r.h.newconn = h.newconn
    BY <1>0, <1>1, <2>1 DEF IsLink
  <2>3. Els(Tail(h.back)) \subseteq Els(h.back)
    BY <1>0, <1>1, <1>3, SeqTail
  <2>4. Heeds(w, h, w, r.h)
    BY <2>2, <2>3 DEF Heeds, Keeps
  <2> QED
    BY <1>1, <1>2, <2>1, <2>2, <2>3, <2>4
<1>4. CASE h.back = <<>>
  <2>0. w # <<>>
    BY <1>1, <1>4 DEF CanRead
  <2>1. PICK e, t : e = Head(w) /\ t = Tail(w)
    OBVIOUS
  <2>2. r.h = _on_event(s, h, e) /\ r.w = t
    BY <1>1, <1>2, <1>4, <2>1 DEF read_packet
  <2>3. /\ IsLink(r.h) /\ r.h.back = h.back /\ r.h.handle = h.handle
        /\ r.h.disc = (IF e.t = "disc" THEN e.v ELSE h.disc)
        /\ r.h.newconn = (IF e.t = "conn" /\ s = "P" THEN e.v ELSE h.newconn)
    BY <1>0, <1>1, <2>2, OnEvent
  <2>4. e \in Els(w) /\ Els(t) \subseteq Els(w)
    BY <1>0, <1>1, <2>0, <2>1, SeqTail
  <2>5. IsEvent(e) /\ (e.t \in Links => e.v \in Nat)
    BY <1>1, <2>4, EventsAre
  <2>6. (e.t = "disc" => e \in DiscEvents) /\ (e.t = "conn" => e \in ConnEvents)
    BY <2>5, LinkEvents DEF Links
  <2>7. ASSUME NEW K PROVE Keeps(w, t, K) /\ (Lone(w, K) /\ e \in K => Free(t, K))
    BY <1>0, <1>1, <2>0, <2>1, KeepsTail, LoneTail
  <2>8. \/ r.h.disc = h.disc
        \/ \E x \in Els(w) \cap DiscEvents : r.h.disc = x.v /\ (Lone(w, DiscEvents) => Free(t, DiscEvents))
    BY <2>3, <2>4, <2>6, <2>7
  <2>9. \/ r.h.newconn = h.newconn
        \/ \E x \in Els(w) \cap ConnEvents : r.h.newconn = x.v /\ (Lone(w, ConnEvents) => Free(t, ConnEvents))
    BY <2>3, <2>4, <2>6, <2>7
  <2>10. Heeds(w, h, t, r.h)
    BY <2>3, <2>4, <2>7, <2>8, <2>9 DEF Heeds
  <2> QED
    BY <1>1, <1>2, <2>2, <2>3, <2>10
<1> QED
  BY <1>3, <1>4

LEMMA HeedsCommand ==
    ASSUME Shapes, NEW s \in Sides, Numbered(s), NEW h, IsLink(h), h.back = host[s].back,
           NEW w2, \A e \in Els(w2) : e.t \notin Links
    PROVE  Heeds(wire[s], h, w2, command(s, h))
<1>0. IsSeq(h.back) /\ IsSeq(wire[s])
  BY ShapesSide
<1>1. PICK w, r : w = wire[s] /\ r = command(s, h)
  OBVIOUS
<1>2. /\ r.handle = h.handle
      /\ \A e \in Els(r.back) : e \in Els(h.back) \/ (e \in Els(w) /\ e.t \in {"pdu", "conn"})
      /\ r.disc = h.disc \/ \E e \in Els(w) : e.t = "disc" /\ r.disc = e.v
      /\ r.newconn = h.newconn \/ (s = "P" /\ \E e \in Els(w) : e.t = "conn" /\ r.newconn = e.v)
  BY <1>0, <1>1, Commands
<1>3. ASSUME NEW e \in Els(w) PROVE (e.t = "disc" => e \in DiscEvents) /\ (e.t = "conn" => e \in ConnEvents)
  <2>1. IsEvent(e) /\ (e.t \in Links => e.v \in Nat)
    BY <1>1, EventsAre
  <2> QED
    BY <2>1, LinkEvents DEF Links
<1>4. Free(w2, ConnEvents) /\ Free(w2, DiscEvents)
  <2>1. Els(w2) \cap ConnEvents = {} /\ Els(w2) \cap DiscEvents = {}
    BY LinkEvents DEF Links
  <2>2. PICK C, D : C = ConnEvents /\ D = DiscEvents
    OBVIOUS
  <2>3. Free(w2, C) /\ Free(w2, D)
    BY <2>1, <2>2, FreeEls
  <2> QED
    BY <2>2, <2>3
<1>5. Keeps(w, w2, ConnEvents) /\ Keeps(w, w2, DiscEvents)
  BY <1>4, FreeLone DEF Keeps
<1>6. \/ r.disc = h.disc
      \/ \E e \in Els(w) \cap DiscEvents : r.disc = e.v /\ (Lone(w, DiscEvents) => Free(w2, DiscEvents))
  BY <1>2, <1>3, <1>4
<1>7. \/ r.newconn = h.newconn
      \/ \E e \in Els(w) \cap ConnEvents : r.newconn = e.v /\ (Lone(w, ConnEvents) => Free(w2, ConnEvents))
  BY <1>2, <1>3, <1>4
<1>8. Heeds(w, h, w2, r)
  BY <1>2, <1>5, <1>6, <1>7 DEF Heeds, Links
<1> QED
  BY <1>1, <1>8

LEMMA NumberedNext ==
    ASSUME NEW s, Numbered(s), NEW h, h.back = host[s].back, Heeds(wire[s], h, wire'[s], host'[s])
    PROVE  Numbered(s)'
<1> SUFFICES ASSUME NEW e \in Arriving(s)', e.t \in Links PROVE e.v \in Nat
  BY DEF Numbered
<1>1. e \in Arriving(s)
  BY DEF Heeds, Arriving
<1> QED
  BY <1>1 DEF Numbered

LEMMA PeripheralHeeds ==
    ASSUME PeripheralLink, Heeds(wire["P"], host["P"], wire'["P"], host'["P"]), conn' = conn, p'.conn = p.conn,
           "P" \in up' => "P" \in up, adv' => adv
    PROVE  PeripheralLink'
<1>1. PICK w, h, w2, h2, C, D :
          /\ w = wire["P"] /\ h = host["P"] /\ w2 = wire'["P"] /\ h2 = host'["P"]
          /\ C = ConnEvents /\ D = DiscEvents
  OBVIOUS
<1>2. /\ h2.handle = h.handle
      /\ \A e \in Els(w2) : e.t \in Links => e \in Els(w)
      /\ (Free(w, C) => Free(w2, C)) /\ (Lone(w, C) => Lone(w2, C))
      /\ (Free(w, D) => Free(w2, D)) /\ (Lone(w, D) => Lone(w2, D))
      /\ h2.disc = h.disc \/ \E e \in Els(w) \cap D : h2.disc = e.v /\ (Lone(w, D) => Free(w2, D))
      /\ h2.newconn = h.newconn \/ \E e \in Els(w) \cap C : h2.newconn = e.v /\ (Lone(w, C) => Free(w2, C))
  BY <1>1 DEF Heeds, Keeps
<1>3. /\ \A e \in Els(w) : e.t \in Links => e.v = conn
      /\ h.newconn \in {0, conn} /\ h.disc \in {0, conn} /\ h.handle \in {0, conn}
      /\ Lone(w, D) /\ Lone(w, C)
      /\ "P" \in up => Free(w, D) /\ h.disc = 0
      /\ h.disc # 0 => Free(w, D)
      /\ h.newconn # 0 => Free(w, C) /\ p.conn = 0
      /\ p.conn # 0 => Free(w, C)
      /\ adv => /\ "P" \notin up /\ Free(w, D) /\ Free(w, C)
                /\ h.newconn = 0 /\ h.disc = 0 /\ h.handle = 0 /\ p.conn = 0
  BY <1>1 DEF PeripheralLink
<1>4. (Free(w, C) <=> Els(w) \cap C = {}) /\ (Free(w, D) <=> Els(w) \cap D = {})
  BY FreeEls
<1>5. \A e \in C \cup D : e.t \in Links
  BY <1>1, LinkEvents DEF Links
<1>6. \/ h2.disc = h.disc
      \/ h2.disc = conn /\ Free(w2, D) /\ ~ Free(w, D)
  BY <1>2, <1>3, <1>4, <1>5
<1>7. \/ h2.newconn = h.newconn
      \/ h2.newconn = conn /\ Free(w2, C) /\ ~ Free(w, C)
  BY <1>2, <1>3, <1>4, <1>5
<1>8. /\ \A e \in Els(w2) : e.t \in Links => e.v = conn
      /\ h2.newconn \in {0, conn} /\ h2.disc \in {0, conn} /\ h2.handle \in {0, conn}
      /\ Lone(w2, D) /\ Lone(w2, C)
  BY <1>2, <1>3, <1>6, <1>7
<1>9. /\ "P" \in up' => Free(w2, D) /\ h2.disc = 0
      /\ h2.disc # 0 => Free(w2, D)
  BY <1>2, <1>3, <1>6
<1>10. /\ h2.newconn # 0 => Free(w2, C) /\ p'.conn = 0
       /\ p'.conn # 0 => Free(w2, C)
  BY <1>2, <1>3, <1>7
<1>11. adv' => /\ "P" \notin up' /\ Free(w2, D) /\ Free(w2, C)
               /\ h2.newconn = 0 /\ h2.disc = 0 /\ h2.handle = 0 /\ p'.conn = 0
  BY <1>2, <1>3, <1>6, <1>7
<1> QED
  BY <1>1, <1>8, <1>9, <1>10, <1>11 DEF PeripheralLink

(* Where the central may go with a host that has come from h. *)
Busy == c.pc \notin Resting
Moves(h) ==
    \/ c'.pc = c.pc /\ (c.pc \in Resting => tosend'["C"] = tosend["C"])
    \/ Busy /\ c'.pc \notin Resting
    \/ /\ ~ init' /\ c'.pc \notin Resting
       /\ Free(wire'["C"], ConnEvents) /\ Free(host'["C"].back, ConnEvents)
    \/ (Busy \/ ~ init') /\ c'.pc = "over" /\ tosend'["C"] = <<>>
    \/ Busy /\ c'.pc = "connect" /\ tosend'["C"] = <<>> /\ h.handle = 0 /\ (gaveup' \/ host'["C"].disc # 0)

Edited(h) ==
    /\ h.back = host["C"].back /\ h.disc = host["C"].disc
    /\ \/ h.handle \in {0, host["C"].handle}
       \/ ~ init' /\ c'.pc # "connect" /\ (gaveup' \/ h.handle = conn)

LEMMA CentralHeeds ==
    ASSUME CentralWaits, ~ gaveup => CentralLink, NEW h, Edited(h), Heeds(wire["C"], h, wire'["C"], host'["C"]),
           Moves(h), c'.pc = "connecting" => Els(host'["C"].back) \subseteq Els(host["C"].back),
           conn' = conn, init' => init, gaveup => gaveup', "C" \in up' => "C" \in up
    PROVE  CentralWaits' /\ (~ gaveup' => CentralLink')
<1>1. PICK w, g, w2, h2, C, D :
          /\ w = wire["C"] /\ g = host["C"] /\ w2 = wire'["C"] /\ h2 = host'["C"]
          /\ C = ConnEvents /\ D = DiscEvents
  OBVIOUS
<1>2. /\ h2.handle = h.handle
      /\ \A e \in Els(w2) : e.t \in Links => e \in Els(w)
      /\ \A e \in Els(h2.back) : e.t \in Links => e \in Els(h.back) \/ (e \in Els(w) /\ e.t = "conn")
      /\ (Free(w, C) => Free(w2, C)) /\ (Lone(w, C) => Lone(w2, C))
      /\ (Free(w, D) => Free(w2, D)) /\ (Lone(w, D) => Lone(w2, D))
      /\ h2.disc = h.disc \/ \E e \in Els(w) \cap D : h2.disc = e.v /\ (Lone(w, D) => Free(w2, D))
  BY <1>1 DEF Heeds, Keeps
<1>3. /\ h.back = g.back /\ h.disc = g.disc
      /\ h.handle \in {0, g.handle} \/ (~ init' /\ c'.pc # "connect" /\ (gaveup' \/ h.handle = conn))
  BY <1>1 DEF Edited
<1>4. /\ c.pc \in Resting => tosend["C"] = <<>>
      /\ init => c.pc = "connecting" /\ Free(w, C)
      /\ c.pc # "over" => Free(g.back, C)
      /\ \A e \in Els(g.back) : e.t # "disc"
      /\ c.pc = "connecting" => Lone(w, C)
      /\ c.pc \notin {"connecting", "over"} => Free(w, C)
  BY <1>1 DEF CentralWaits
<1>5. \A e \in C \cup D : e.t \in Links
  BY <1>1, LinkEvents DEF Links
<1>6. (Free(w, D) <=> Els(w) \cap D = {}) /\ (Free(w, C) <=> Els(w) \cap C = {})
  BY FreeEls
<1>7. Free(g.back, C) /\ Free(w, C) => Free(h2.back, C)
  <2>1. (Free(g.back, C) <=> Els(g.back) \cap C = {}) /\ (Free(h2.back, C) <=> Els(h2.back) \cap C = {})
    BY FreeEls
  <2> QED
    BY <1>2, <1>3, <1>5, <1>6, <2>1
<1>8. Busy <=> c.pc \notin Resting
  BY DEF Busy
<1>9. CentralWaits'
  <2>0. \A e \in Els(h2.back) : e.t # "disc"
    BY <1>2, <1>3, <1>4 DEF Links
  <2>1. c'.pc \in Resting => tosend'["C"] = <<>>
    BY <1>4, <1>8 DEF Moves, Resting
  <2>2. init' => c'.pc = "connecting" /\ Free(w2, C)
    BY <1>1, <1>2, <1>4, <1>8 DEF Moves, Resting
  <2>3. c'.pc = "connecting" => c.pc = "connecting"
    BY <1>8 DEF Moves, Resting
  <2>4. \/ c'.pc \notin {"connecting", "over"} => c.pc \notin {"connecting", "over"}
        \/ c'.pc \notin Resting /\ Free(w2, C) /\ Free(h2.back, C)
    BY <1>1, <1>8 DEF Moves, Resting
  <2>5. c'.pc = "connecting" => Free(h2.back, C)
    <3>1. (Free(g.back, C) <=> Els(g.back) \cap C = {}) /\ (Free(h2.back, C) <=> Els(h2.back) \cap C = {})
      BY FreeEls
    <3> QED
      BY <1>1, <1>4, <2>3, <3>1
  <2>6. c'.pc # "over" => Free(h2.back, C)
    BY <1>4, <1>7, <2>4, <2>5
  <2> QED
    BY <1>1, <1>2, <1>4, <2>0, <2>1, <2>2, <2>3, <2>4, <2>6 DEF CentralWaits, Resting
<1>10. ASSUME ~ gaveup' PROVE CentralLink'
  <2>1. /\ \A e \in Els(w) \cup Els(g.back) : e.t \in Links => e.v = conn
        /\ g.disc \in {0, conn} /\ g.handle \in {0, conn}
        /\ Lone(w, D)
        /\ "C" \in up => Free(w, D) /\ g.disc = 0
        /\ g.disc # 0 => Free(w, D)
        /\ init \/ c.pc = "connect" => "C" \notin up /\ g.handle = 0 /\ Free(w, D)
        /\ init => g.disc = 0
    BY <1>1, <1>10 DEF CentralLink, Arriving
  <2>2. \/ h2.disc = g.disc
        \/ h2.disc = conn /\ Free(w2, D) /\ ~ Free(w, D)
    BY <1>2, <1>3, <1>5, <1>6, <2>1
  <2>3. /\ \A e \in Els(w2) \cup Els(h2.back) : e.t \in Links => e.v = conn
        /\ h2.disc \in {0, conn} /\ h2.handle \in {0, conn}
        /\ Lone(w2, D)
    BY <1>2, <1>3, <1>10, <2>1, <2>2
  <2>4. /\ "C" \in up' => Free(w2, D) /\ h2.disc = 0
        /\ h2.disc # 0 => Free(w2, D)
        /\ init' => h2.disc = 0
    BY <1>2, <2>1, <2>2
  <2>5. ASSUME init' PROVE "C" \notin up' /\ h2.handle = 0 /\ Free(w2, D)
    BY <1>2, <1>3, <2>1, <2>5
  <2>6. ASSUME c'.pc = "connect" PROVE "C" \notin up' /\ h2.handle = 0 /\ Free(w2, D)
    <3>1. CASE c.pc = "connect"
      BY <1>2, <1>3, <2>1, <2>6, <3>1
    <3>2. CASE h.handle = 0 /\ h2.disc # 0
      BY <1>2, <2>4, <3>2
    <3> QED
      BY <1>1, <1>8, <1>10, <2>6, <3>1, <3>2 DEF Moves, Resting
  <2> QED
    BY <1>1, <2>3, <2>4, <2>5, <2>6 DEF CentralLink, Arriving
<1> QED
  BY <1>9, <1>10

-----------------------------------------------------------------------------
(* The links, action by action.                                            *)

Steady == /\ conn' = conn /\ (init' => init) /\ (adv' => adv) /\ (gaveup => gaveup')
          /\ ("C" \in up' => "C" \in up) /\ ("P" \in up' => "P" \in up)
HeedsP == Heeds(wire["P"], host["P"], wire'["P"], host'["P"])
HeedsC(h) == /\ Edited(h) /\ Heeds(wire["C"], h, wire'["C"], host'["C"])
             /\ c'.pc = "connecting" => Els(host'["C"].back) \subseteq Els(host["C"].back)

LEMMA LinkStep ==
    ASSUME LinkInv, Steady, HeedsP, p'.conn = p.conn, NEW h, HeedsC(h), Moves(h) PROVE LinkInv'
<1>1. PeripheralLink'
  BY PeripheralHeeds DEF LinkInv, Steady, HeedsP
<1>2. CentralWaits' /\ (~ gaveup' => CentralLink')
  BY CentralHeeds DEF LinkInv, Steady, HeedsC
<1>3. Numbered("C")' /\ Numbered("P")'
  <2>1. Numbered("P")'
    <3>1. PICK g : g = host["P"]
      OBVIOUS
    <3> QED
      BY <3>1, NumberedNext DEF LinkInv, Numbers, HeedsP
  <2>2. Numbered("C")'
    BY NumberedNext DEF LinkInv, Numbers, HeedsC, Edited
  <2> QED
    BY <2>1, <2>2
<1>4. Numbers'
  BY <1>3 DEF LinkInv, Numbers, Steady
<1> QED
  BY <1>1, <1>2, <1>4 DEF LinkInv

LEMMA HeedsEdit ==
    ASSUME NEW w, NEW w2, NEW h, NEW h2, NEW g, NEW g2, Heeds(w, h, w2, h2),
           g.disc = h.disc, g.newconn = h.newconn, g.back = h.back,
           g2.disc = h2.disc, g2.newconn = h2.newconn, g2.back = h2.back, g2.handle = g.handle
    PROVE  Heeds(w, g, w2, g2)
  BY DEF Heeds

LEMMA KeptP == ASSUME Kept("P") PROVE HeedsP
  BY HeedsSame DEF Kept, HeedsP

LEMMA KeptC == ASSUME Kept("C") PROVE HeedsC(host["C"])
  BY HeedsSame DEF Kept, HeedsC, Edited

LEMMA StillC == ASSUME Kept("C"), c' = c, tosend'["C"] = tosend["C"] PROVE HeedsC(host["C"]) /\ Moves(host["C"])
  BY KeptC DEF Moves

(* A side that reads, or looks at nothing new. *)
LEMMA PollHeedsC ==
    ASSUME Shapes, LinkInv, (CanRead("C") /\ Reads("C")) \/ UNCHANGED <<host, wire>>
    PROVE  HeedsC(host["C"]) /\ HeedsP
<1>1. CASE CanRead("C") /\ Reads("C")
  <2>1. host'["C"] = read_packet("C").h /\ wire'["C"] = read_packet("C").w /\ Kept("P")
    BY <1>1, Both, ReadReceived, CentralReads
  <2>2. /\ Heeds(wire["C"], host["C"], read_packet("C").w, read_packet("C").h)
        /\ Els(read_packet("C").h.back) \subseteq Els(host["C"].back)
    BY <1>1, Both, HeedsRead DEF LinkInv, Numbers
  <2> QED
    BY <2>1, <2>2, KeptP DEF HeedsC, Edited
<1>2. CASE UNCHANGED <<host, wire>>
  BY <1>2, KeptP, KeptC DEF Kept
<1> QED
  BY <1>1, <1>2

LEMMA PollHeedsP ==
    ASSUME Shapes, LinkInv, (CanRead("P") /\ Reads("P")) \/ UNCHANGED <<host, wire>>
    PROVE  HeedsP /\ Kept("C")
<1>1. CASE CanRead("P") /\ Reads("P")
  <2>1. host'["P"] = read_packet("P").h /\ wire'["P"] = read_packet("P").w /\ Kept("C")
    BY <1>1, Both, ReadReceived, PeripheralReads
  <2>2. Heeds(wire["P"], host["P"], read_packet("P").w, read_packet("P").h)
    BY <1>1, Both, HeedsRead DEF LinkInv, Numbers
  <2> QED
    BY <2>1, <2>2 DEF HeedsP
<1>2. CASE UNCHANGED <<host, wire>>
  BY <1>2, KeptP DEF Kept
<1> QED
  BY <1>1, <1>2

(* The actions of the central that read or look, and are not resting. *)
LEMMA PollersLink ==
    ASSUME Shapes, LinkInv, \/ pair \/ PairFails \/ Paired \/ wait_encryption \/ collect_keys \/ send_keys \/ save_bond
                            \/ att_probe \/ Probing \/ _take_credit("C") \/ NoCredit("C")
    PROVE  LinkInv'
<1>0. IsCentral(c)
  BY DEF Shapes
<1>1. Steady /\ p' = p
  <2>1. UNCHANGED <<conn, up, adv, init, gaveup>>
    BY DEF pair, PairFails, Paired, wait_encryption, collect_keys, send_keys, save_bond, att_probe, Probing,
           _take_credit, NoCredit, controllers, Quiet
  <2>2. p' = p
    <3>1. CASE NoCredit("C")
      BY <3>1 DEF NoCredit, RaisesIn
    <3>2. CASE \/ pair \/ PairFails \/ Paired \/ wait_encryption \/ collect_keys \/ send_keys \/ save_bond
               \/ att_probe \/ Probing \/ _take_credit("C")
      BY <3>2 DEF pair, PairFails, Paired, wait_encryption, collect_keys, send_keys, save_bond, att_probe, Probing,
                  _take_credit, programs, Quiet, Leaves
    <3> QED
      BY <3>1, <3>2
  <2> QED
    BY <2>1, <2>2 DEF Steady
<1>2. (CanRead("C") /\ Reads("C")) \/ UNCHANGED <<host, wire>>
  BY DEF pair, PairFails, Paired, wait_encryption, collect_keys, send_keys, save_bond, att_probe, Probing,
         _take_credit, NoCredit, Polls, Looks
<1>3. Moves(host["C"])
  <2>1. CASE pair
    <3>1. c.pc = "pairing" /\ (c' = c \/ \E x : c' = [c EXCEPT !.smp = x])
      BY <2>1 DEF pair, At
    <3>2. c'.pc = "pairing"
      BY ONLY <1>0, <3>1 DEF IsCentral
    <3> QED
      BY <3>1, <3>2 DEF Moves, Resting
  <2>2. CASE PairFails \/ Paired
    <3>1. c.pc = "pairing" /\ (c'.pc = "disconnect" \/ c'.pc = "encrypt")
      BY <1>0, <2>2 DEF PairFails, Paired, At, Hang, IsCentral
    <3> QED
      BY <3>1 DEF Moves, Resting, Busy
  <2>3. CASE wait_encryption
    <3>1. c.pc = "encwait" /\ (c'.pc = c.pc \/ \E o : Encrypted(o))
      BY <2>3 DEF wait_encryption, At
    <3>2. ASSUME NEW o, Encrypted(o) PROVE c'.pc \in {"collect", "save", "probe", "disconnect"}
      BY <1>0, <3>2 DEF Encrypted, IsCentral
    <3> QED
      BY <3>1, <3>2 DEF Moves, Resting, Busy
  <2>4. CASE collect_keys
    <3>1. c.pc = "collect" /\ (c'.pc = c.pc \/ c'.pc = "sendkeys")
      BY <1>0, <2>4 DEF collect_keys, At, GoTo, IsCentral
    <3> QED
      BY <3>1 DEF Moves, Resting, Busy
  <2>5. CASE send_keys \/ save_bond
    <3>1. c.pc \in {"sendkeys", "save", "saving"} /\ c'.pc \in {"save", "saving", "probe", "disconnect"}
      BY <1>0, <2>5 DEF send_keys, save_bond, At, GoTo, Hang, IsCentral
    <3> QED
      BY <3>1 DEF Moves, Resting, Busy
  <2>6. CASE att_probe \/ Probing
    <3>1. c.pc \in {"probe", "probing"} /\ c'.pc \in {"probing", "disconnect"}
      BY <1>0, <2>6 DEF att_probe, Probing, At, GoTo, Hang, IsCentral
    <3> QED
      BY <3>1 DEF Moves, Resting, Busy
  <2>7. CASE _take_credit("C")
    BY <2>7 DEF _take_credit, programs, Moves
  <2>8. CASE NoCredit("C")
    <3>1. tosend["C"] # <<>> /\ tosend' = [tosend EXCEPT !["C"] = <<>>] /\ c'.pc \in {"over", "disconnect"}
      BY <1>0, <2>8 DEF NoCredit, RaisesIn, IsCentral
    <3>2. tosend'["C"] = <<>>
      BY <3>1, Both, ShapesSide, AtC
    <3>3. Busy
      BY <3>1 DEF LinkInv, CentralWaits, Busy
    <3> QED
      BY <3>1, <3>2, <3>3 DEF Moves, Resting
  <2> QED
    BY <2>1, <2>2, <2>3, <2>4, <2>5, <2>6, <2>7, <2>8
<1> QED
  BY <1>1, <1>2, <1>3, PollHeedsC, LinkStep

LEMMA NoLinks == \A e \in Els(<<>>) : e.t \notin Links
  BY SeqEmpty

LEMMA CommandHeedsC ==
    ASSUME Shapes, LinkInv, NEW h, IsLink(h), Edited(h), host'["C"] = command("C", h), wire'["C"] = <<>>,
           c'.pc # "connecting"
    PROVE  HeedsC(h)
<1>1. Heeds(wire["C"], h, <<>>, command("C", h))
  BY NoLinks, Both, HeedsCommand DEF LinkInv, Numbers, Edited
<1> QED
  BY <1>1 DEF HeedsC

LEMMA EncryptLink == ASSUME Shapes, LinkInv, start_encryption PROVE LinkInv'
<1>1. PICK h : h = [host["C"] EXCEPT !.enc = "none"]
  OBVIOUS
<1>2. IsLink(h) /\ Edited(h)
  BY <1>1, Hosts0, EditEnc DEF Edited
<1>3. host'["C"] = command("C", h)
  BY <1>1, Hosts0, AtC DEF start_encryption
<1>4. /\ host'["P"] = host["P"] /\ wire'["C"] = <<>>
      /\ wire'["P"] = IF up = Sides THEN Append(wire["P"], Event("ltk request", 0)) ELSE wire["P"]
  BY EncryptReceives
<1>5. c.pc = "encrypt" /\ c'.pc = "encwait"
  BY DEF start_encryption, At, GoTo, Shapes, IsCentral
<1>6. HeedsC(h) /\ Moves(h)
  BY <1>2, <1>3, <1>4, <1>5, CommandHeedsC DEF Moves, Busy, Resting
<1>7. HeedsP
  <2>1. CASE up = Sides
    <3>1. PICK e : e = Event("ltk request", 0)
      OBVIOUS
    <3>2. e.t \notin Links
      <4>1. e.t = "ltk request"
        BY <3>1, NoticeEvent
      <4> QED
        BY <4>1 DEF Links
    <3>3. Heeds(wire["P"], host["P"], Append(wire["P"], e), host["P"])
      BY <3>2, Both, ShapesSide, HeedsAppend
    <3> QED
      BY <1>4, <2>1, <3>1, <3>3 DEF HeedsP
  <2>2. CASE up # Sides
    BY <1>4, <2>2, KeptP DEF Kept
  <2> QED
    BY <2>1, <2>2
<1>8. Steady /\ p' = p
  BY DEF start_encryption, Steady, Leaves
<1> QED
  BY <1>6, <1>7, <1>8, LinkStep

LEMMA DisconnectLink == ASSUME Shapes, LinkInv, disconnect PROVE LinkInv'
<1>1. c.pc = "disconnect" /\ c'.pc = "hanging"
  BY DEF disconnect, At, GoTo, Shapes, IsCentral
<1>2. PICK h : h = host["C"]
  OBVIOUS
<1>3. HeedsC(h)
  <2>1. CASE Dropped
    BY <1>2, <2>1, KeptC, NothingReads DEF disconnect
  <2>2. CASE ~ Dropped
    <3>1. host' = [host EXCEPT !["C"] = command("C", h)] /\ wire' = [wire EXCEPT !["C"] = <<>>]
      BY <1>2, <2>2 DEF disconnect
    <3>2. host'["C"] = command("C", h) /\ wire'["C"] = <<>>
      BY <3>1, Hosts0, AtC
    <3> QED
      BY <1>1, <1>2, <3>2, Hosts0, CommandHeedsC DEF Edited
  <2> QED
    BY <2>1, <2>2
<1>4. Moves(h)
  BY <1>1 DEF Moves, Busy, Resting
<1>5. Steady /\ p' = p /\ HeedsP
  BY DisconnectReceives, KeptP DEF disconnect, Steady, Leaves
<1> QED
  BY <1>3, <1>4, <1>5, LinkStep

LEMMA CyclesTo == ASSUME NEW d, IsCentral(d), c' = NextCycle(d) PROVE c'.pc \in {"connect", "over"}
  BY DEF NextCycle, IsCentral

LEMMA HangingLink == ASSUME Shapes, LinkInv, Hanging PROVE LinkInv'
<1>0. c.pc = "hanging" /\ tosend["C"] = <<>> /\ tosend' = tosend /\ p' = p /\ UNCHANGED controllers
  BY DEF Hanging, At, Leaves
<1>1. CASE Polls /\ UNCHANGED <<c, gaveup>>
  <2>1. HeedsC(host["C"]) /\ HeedsP
    BY <1>1, PollHeedsC DEF Polls
  <2>2. Steady /\ Moves(host["C"])
    BY <1>0, <1>1 DEF Steady, Moves, controllers
  <2> QED
    BY <1>0, <2>1, <2>2, LinkStep
<1>2. CASE /\ c' = NextCycle(c) /\ gaveup' = (gaveup \/ ~ Dropped)
           /\ host' = [host EXCEPT !["C"].handle = 0] /\ UNCHANGED wire
  <2>1. PICK g : g = [host["C"] EXCEPT !.handle = 0]
    OBVIOUS
  <2>2. /\ IsLink(g) /\ g.back = host["C"].back /\ g.handle = 0 /\ g.disc = host["C"].disc
    BY <2>1, Hosts0, EditHandle
  <2>3. host' = [host EXCEPT !["C"] = g] /\ wire' = wire
    BY <1>2, <2>1
  <2>4. host'["C"] = g /\ Kept("P")
    BY <2>2, <2>3, FieldsC
  <2>5. c'.pc \in {"connect", "over"}
    BY <1>2, CyclesTo DEF Shapes
  <2>6. HeedsC(g)
    BY <2>2, <2>3, <2>4, <2>5, HeedsSame DEF HeedsC, Edited
  <2>7. gaveup' \/ host'["C"].disc # 0
    BY <1>2, <2>2, <2>4 DEF Dropped
  <2>8. Moves(g)
    BY <1>0, <2>2, <2>5, <2>7 DEF Moves, Busy, Resting
  <2>9. Steady
    BY <1>0, <1>2 DEF Steady, controllers
  <2> QED
    BY <1>0, <2>4, <2>6, <2>8, <2>9, KeptP, LinkStep
<1> QED
  BY <1>1, <1>2 DEF Hanging

LEMMA TimeoutLink == ASSUME Shapes, LinkInv, ConnectTimeout PROVE LinkInv'
<1>1. PICK h : h = host["C"]
  OBVIOUS
<1>2. host' = [host EXCEPT !["C"] = command("C", h)] /\ wire' = [wire EXCEPT !["C"] = <<>>]
  BY <1>1 DEF ConnectTimeout
<1>3. host'["C"] = command("C", h) /\ wire'["C"] = <<>>
  BY <1>2, Hosts0, AtC
<1>4. c'.pc = "over" /\ tosend' = tosend /\ tosend["C"] = <<>> /\ ~ init'
  BY DEF ConnectTimeout, At, GoTo, Shapes, IsCentral, Leaves
<1>5. HeedsC(h) /\ Moves(h)
  BY <1>1, <1>3, <1>4, Hosts0, CommandHeedsC DEF Edited, Moves
<1>6. Steady /\ p' = p /\ HeedsP
  BY <1>4, TimeoutReceives, KeptP DEF ConnectTimeout, Steady, Leaves
<1> QED
  BY <1>5, <1>6, LinkStep

LEMMA SecurityLink == ASSUME Shapes, LinkInv, wait_security_request PROVE LinkInv'
<1>0. c.pc = "secreq" /\ tosend["C"] = <<>> /\ p' = p /\ Steady /\ HeedsP /\ IsCentral(c)
  BY SecurityReceives, KeptP DEF wait_security_request, At, Steady, controllers, Shapes
<1>1. CASE CanRead("C") /\ Reads("C") /\ UNCHANGED <<c, tosend>>
  BY <1>0, <1>1, StillC, PollHeedsC, LinkStep DEF Moves
<1>2. ASSUME NEW h, AfterSecurityRequest(h), IsLink(h), Heeds(wire["C"], host["C"], wire'["C"], h) PROVE LinkInv'
  <2>1. PICK g : /\ host' = [host EXCEPT !["C"] = g] /\ IsLink(g) /\ g.back = h.back /\ g.disc = h.disc
                 /\ g.newconn = h.newconn
                 /\ g.handle = IF c.cycle # 0 /\ h.disc # 0 THEN 0 ELSE h.handle
    BY <1>2, AfterHost
  <2>2. host'["C"] = g
    BY <2>1, Hosts0, AtC
  <2>3. PICK x, k : x = g.handle /\ k = [host["C"] EXCEPT !.handle = x]
    OBVIOUS
  <2>4. k.back = host["C"].back /\ k.handle = x /\ k.newconn = host["C"].newconn /\ k.disc = host["C"].disc
    BY <2>3, Hosts0, EditHandle
  <2>5. Heeds(wire["C"], k, wire'["C"], g)
    <3>1. PICK w, w2, b : w = wire["C"] /\ w2 = wire'["C"] /\ b = host["C"]
      OBVIOUS
    <3>2. Heeds(w, b, w2, h) /\ k.back = b.back /\ k.newconn = b.newconn /\ k.disc = b.disc /\ g.handle = k.handle
      BY <1>2, <2>3, <2>4, <3>1
    <3>3. Heeds(w, k, w2, g)
      BY ONLY <2>1, <3>2, HeedsEdit
    <3> QED
      BY <3>1, <3>3
  <2>6. h.handle = host["C"].handle
    BY <1>2 DEF Heeds
  <2>7. Edited(k)
    BY <2>1, <2>3, <2>4, <2>6 DEF Edited
  <2>8. CASE c.cycle = 0
    <3>1. c'.pc = "pairing"
      BY <1>0, <1>2, <2>8 DEF AfterSecurityRequest, IsCentral
    <3>2. HeedsC(k) /\ Moves(k)
      BY <1>0, <2>2, <2>5, <2>7, <3>1 DEF HeedsC, Moves, Busy, Resting
    <3> QED
      BY <1>0, <3>2, LinkStep
  <2>9. CASE c.cycle # 0 /\ h.disc # 0
    <3>1. PICK d : d = [c EXCEPT !.then = "cycle"]
      OBVIOUS
    <3>2. IsCentral(d) /\ c' = NextCycle(d) /\ tosend' = tosend
      BY <1>0, <1>2, <2>9, <3>1 DEF AfterSecurityRequest, IsCentral
    <3>3. c'.pc \in {"connect", "over"}
      BY <3>2, CyclesTo
    <3>4. HeedsC(k) /\ Moves(k)
      BY <1>0, <2>1, <2>2, <2>3, <2>4, <2>5, <2>7, <2>9, <3>2, <3>3 DEF HeedsC, Moves, Busy, Resting
    <3> QED
      BY <1>0, <3>4, LinkStep
  <2>10. CASE c.cycle # 0 /\ h.disc = 0
    <3>1. c'.pc = "encrypt"
      BY <1>0, <1>2, <2>10 DEF AfterSecurityRequest, GoTo, IsCentral
    <3>2. HeedsC(k) /\ Moves(k)
      BY <1>0, <2>2, <2>5, <2>7, <3>1 DEF HeedsC, Moves, Busy, Resting
    <3> QED
      BY <1>0, <3>2, LinkStep
  <2> QED
    BY <2>8, <2>9, <2>10
<1>3. CASE CanRead("C") /\ wire' = [wire EXCEPT !["C"] = read_packet("C").w] /\ AfterSecurityRequest(read_packet("C").h)
  <2>1. Heeds(wire["C"], host["C"], read_packet("C").w, read_packet("C").h) /\ IsLink(read_packet("C").h)
    BY <1>3, Both, HeedsRead DEF LinkInv, Numbers
  <2>2. wire'["C"] = read_packet("C").w
    BY <1>3, Hosts0, AtC
  <2> QED
    BY <1>2, <1>3, <2>1, <2>2
<1>4. CASE AfterSecurityRequest(host["C"]) /\ wire' = wire
  <2>1. Heeds(wire["C"], host["C"], wire["C"], host["C"])
    BY HeedsSame
  <2> QED
    BY <1>2, <1>4, <2>1, Hosts0
<1> QED
  BY <1>1, <1>3, <1>4 DEF wait_security_request, Reads

LEMMA ConnectingLink == ASSUME Shapes, LinkInv, Connecting PROVE LinkInv'
<1>0. /\ c.pc = "connecting" /\ tosend["C"] = <<>> /\ tosend' = tosend /\ p' = p /\ Steady /\ HeedsP /\ CanRead("C")
      /\ init' = init /\ gaveup' = gaveup
  BY ConnectingReceives, KeptP DEF Connecting, At, Quiet, Leaves, Steady, controllers
<1>1. PICK x, r : r = read_packet("C") /\ x = IF Item.t = "conn" THEN Item.v ELSE r.h.handle
  OBVIOUS
<1>2. PICK g : g = [r.h EXCEPT !.handle = x]
  OBVIOUS
<1>3. /\ host' = [host EXCEPT !["C"] = g] /\ wire' = [wire EXCEPT !["C"] = r.w]
  BY <1>1, <1>2 DEF Connecting
<1>4. host'["C"] = g /\ wire'["C"] = r.w
  BY <1>3, Hosts0, AtC
<1>5. /\ Heeds(wire["C"], host["C"], r.w, r.h) /\ IsLink(r.h)
      /\ Els(r.h.back) \subseteq Els(host["C"].back)
  BY <1>0, <1>1, Both, HeedsRead DEF LinkInv, Numbers
<1>6. g.back = r.h.back /\ g.handle = x /\ g.newconn = r.h.newconn /\ g.disc = r.h.disc
  BY <1>2, <1>5, EditHandle
<1>7. PICK k : k = [host["C"] EXCEPT !.handle = x]
  OBVIOUS
<1>8. k.back = host["C"].back /\ k.handle = x /\ k.newconn = host["C"].newconn /\ k.disc = host["C"].disc
  BY <1>7, Hosts0, EditHandle
<1>9. Heeds(wire["C"], k, wire'["C"], host'["C"])
  <2>1. PICK w, w2, b : w = wire["C"] /\ w2 = r.w /\ b = host["C"]
    OBVIOUS
  <2>2. PICK h : h = r.h
    OBVIOUS
  <2>3. /\ Heeds(w, b, w2, h) /\ k.back = b.back /\ k.newconn = b.newconn /\ k.disc = b.disc /\ g.handle = k.handle
        /\ g.back = h.back /\ g.newconn = h.newconn /\ g.disc = h.disc
    BY <1>5, <1>6, <1>8, <2>1, <2>2
  <2>4. Heeds(w, k, w2, g)
    BY ONLY <2>3, HeedsEdit
  <2> QED
    BY <1>4, <2>1, <2>4
<1>10. Els(host'["C"].back) \subseteq Els(host["C"].back)
  BY <1>4, <1>5, <1>6
<1>11. CASE Item.t # "conn"
  <2>1. c' = c
    BY <1>11 DEF Connecting
  <2>2. x = host["C"].handle
    BY <1>1, <1>5, <1>11 DEF Heeds
  <2>3. HeedsC(k) /\ Moves(k)
    BY <1>0, <1>8, <1>9, <1>10, <2>1, <2>2 DEF HeedsC, Edited, Moves
  <2> QED
    BY <1>0, <2>3, LinkStep
<1>12. CASE Item.t = "conn"
  <2>1. c'.pc = "secreq"
    BY <1>12 DEF Connecting, GoTo, Shapes, IsCentral
  <2>2. PICK w, b, C : w = wire["C"] /\ b = host["C"].back /\ C = ConnEvents
    OBVIOUS
  <2>3. Item = r.e /\ r.e \in Els(w) \cup Els(b)
    BY <1>0, <1>1, <2>2, Both, ShapesSide, Reading DEF Item
  <2>4. Item \in C
    <3>1. IsEvent(Item) /\ (Item.t \in Links => Item.v \in Nat)
      BY <2>2, <2>3, Both, EventsAre DEF LinkInv, Numbers
    <3> QED
      BY <1>12, <2>2, <3>1, LinkEvents DEF Links
  <2>5. Free(b, C) /\ Lone(w, C) /\ (init => Free(w, C))
    BY <1>0, <2>2 DEF LinkInv, CentralWaits
  <2>6. Item \in Els(w) /\ ~ Free(w, C)
    BY <2>3, <2>4, <2>5, FreeEls
  <2>7. Free(r.w, C) /\ Free(r.h.back, C)
    <3>1. Slot(w, b, C)
      BY <2>5, FreeLone DEF Slot
    <3> QED
      BY <1>0, <1>1, <2>2, <2>3, <2>4, <3>1, Both, ShapesSide, Reading
  <2>8. gaveup' \/ x = conn
    <3>1. ASSUME ~ gaveup PROVE Item.v = conn
      BY <1>12, <2>2, <2>6, <3>1 DEF LinkInv, CentralLink, Arriving, Links
    <3> QED
      BY <1>0, <1>1, <1>12, <3>1
  <2>9. HeedsC(k)
    BY <1>0, <1>8, <1>9, <2>1, <2>5, <2>6, <2>8 DEF HeedsC, Edited
  <2>10. Moves(k)
    BY <1>0, <1>4, <1>6, <2>1, <2>2, <2>5, <2>6, <2>7 DEF Moves, Resting
  <2> QED
    BY <1>0, <2>9, <2>10, LinkStep
<1> QED
  BY <1>11, <1>12

(* A new connection is looked for: nothing is left to hear of the last. *)
LEMMA ConnectLink == ASSUME Shapes, LinkInv, connect PROVE LinkInv'
<1>0. /\ c.pc = "connect" /\ tosend["C"] = <<>> /\ tosend' = tosend /\ p' = p /\ HeedsP
      /\ conn' = conn /\ up' = up /\ adv' = adv /\ gaveup' = gaveup
  BY ConnectReceives, KeptP DEF connect, At, Leaves
<1>1. PICK h : h = Reset(host["C"])
  OBVIOUS
<1>2. IsLink(h) /\ h.back = host["C"].back /\ h.handle = host["C"].handle /\ h.disc = 0
  BY <1>1, Hosts0, EditReset
<1>3. host'["C"] = command("C", h) /\ wire'["C"] = <<>>
  BY <1>1, Hosts0, AtC DEF connect
<1>4. PICK w, b, C, D, g : w = wire["C"] /\ b = host["C"].back /\ C = ConnEvents /\ D = DiscEvents /\ g = host'["C"]
  OBVIOUS
<1>5. Heeds(w, h, <<>>, g)
  BY <1>2, <1>3, <1>4, NoLinks, Both, HeedsCommand DEF LinkInv, Numbers
<1>6. /\ g.handle = h.handle
      /\ \A e \in Els(g.back) : e.t \in Links => e \in Els(b) \/ (e \in Els(w) /\ e.t = "conn")
      /\ g.disc = 0 \/ Els(w) \cap D # {}
  BY <1>2, <1>4, <1>5 DEF Heeds
<1>7. PeripheralLink'
  BY <1>0, PeripheralHeeds DEF LinkInv, HeedsP
<1>8. Numbers'
  <2>1. Numbered("P")'
    <3>1. PICK k : k = host["P"]
      OBVIOUS
    <3> QED
      BY <1>0, <3>1, NumberedNext DEF LinkInv, Numbers, HeedsP
  <2>2. Numbered("C")'
    BY <1>2, <1>3, <1>4, <1>5, NumberedNext DEF LinkInv, Numbers
  <2> QED
    BY <1>0, <2>1, <2>2 DEF LinkInv, Numbers
<1>9. Free(w, C) /\ Free(b, C) /\ ~ init /\ \A e \in Els(b) : e.t # "disc"
  BY <1>0, <1>4 DEF LinkInv, CentralWaits
<1>10. (Free(w, C) <=> Els(w) \cap C = {}) /\ (Free(w, D) <=> Els(w) \cap D = {}) /\ (Free(b, C) <=> Els(b) \cap C = {})
  BY FreeEls
<1>11. \A e \in C \cup D : e.t \in Links
  BY <1>4, LinkEvents DEF Links
<1>12. Free(g.back, C) /\ \A e \in Els(g.back) : e.t # "disc"
  <2>1. Els(g.back) \cap C = {}
    BY <1>6, <1>9, <1>10, <1>11
  <2>2. \A e \in Els(g.back) : e.t # "disc"
    BY <1>6, <1>9 DEF Links
  <2> QED
    BY <2>1, <2>2, FreeEls
<1>13. Lone(<<>>, C) /\ Free(<<>>, C) /\ Lone(<<>>, D) /\ Free(<<>>, D) /\ Els(<<>>) = {}
  BY SeqEmpty
<1>14. CASE "C" \in up
  <2>1. c'.pc = "over" /\ init' = init
    BY <1>14 DEF connect, GoTo, Shapes, IsCentral
  <2>2. CentralWaits'
    BY <1>0, <1>4, <1>9, <1>12, <2>1 DEF CentralWaits
  <2>3. gaveup
    BY <1>0, <1>14 DEF LinkInv, CentralLink
  <2> QED
    BY <1>0, <1>7, <1>8, <2>2, <2>3 DEF LinkInv
<1>15. CASE "C" \notin up
  <2>1. c'.pc = "connecting"
    BY <1>15 DEF connect, GoTo, Shapes, IsCentral
  <2>2. CentralWaits'
    BY <1>0, <1>3, <1>4, <1>12, <1>13, <2>1 DEF CentralWaits
  <2>3. ASSUME ~ gaveup PROVE CentralLink'
    <3>1. /\ \A e \in Els(w) \cup Els(b) : e.t \in Links => e.v = conn
          /\ Free(w, D) /\ host["C"].handle = 0
      BY <1>0, <1>4, <2>3 DEF LinkInv, CentralLink, Arriving
    <3>2. g.disc = 0 /\ g.handle = 0
      BY <1>2, <1>6, <1>10, <3>1
    <3>3. \A e \in Els(g.back) : e.t \in Links => e.v = conn
      BY <1>6, <3>1
    <3> QED
      BY <1>0, <1>3, <1>4, <1>13, <1>15, <3>2, <3>3 DEF CentralLink, Arriving
  <2> QED
    BY <1>0, <1>7, <1>8, <2>2, <2>3 DEF LinkInv
<1> QED
  BY <1>14, <1>15

LEMMA RestartLink == ASSUME Shapes, LinkInv, Restart PROVE LinkInv'
<1>1. host'["C"] = Link /\ wire'["C"] = <<>> /\ Kept("P") /\ tosend'["C"] = <<>>
  BY RestartReceives, RestartTransmits
<1>2. PICK ltk : c' = Central(c.run + 1, ltk)
  BY DEF Restart
<1>3. c'.pc = "connect"
  BY <1>2 DEF Central
<1>4. conn' = conn /\ p' = p /\ adv' = adv /\ ~ init' /\ "C" \notin up' /\ ("P" \in up' => "P" \in up)
  BY DEF Restart
<1>5. Link.back = <<>> /\ Link.disc = 0 /\ Link.handle = 0
  BY LinkIsLink
<1>6. HeedsP
  BY <1>1, KeptP
<1>7. PeripheralLink'
  BY <1>4, <1>6, PeripheralHeeds DEF LinkInv, HeedsP
<1>8. Arriving("C")' = {}
  BY <1>1, <1>5, SeqEmpty DEF Arriving
<1>9. Numbers'
  <2>1. Numbered("P")'
    <3>1. PICK k : k = host["P"]
      OBVIOUS
    <3> QED
      BY <1>6, <3>1, NumberedNext DEF LinkInv, Numbers, HeedsP
  <2>2. Numbered("C")'
    BY <1>8 DEF Numbered
  <2> QED
    BY <1>4, <2>1, <2>2 DEF LinkInv, Numbers
<1>10. PICK C, D : C = ConnEvents /\ D = DiscEvents
  OBVIOUS
<1>11. Lone(<<>>, C) /\ Free(<<>>, C) /\ Lone(<<>>, D) /\ Free(<<>>, D) /\ Els(<<>>) = {}
  BY SeqEmpty
<1>12. CentralWaits'
  BY <1>1, <1>3, <1>4, <1>5, <1>10, <1>11 DEF CentralWaits
<1>13. CentralLink'
  BY <1>1, <1>3, <1>4, <1>5, <1>8, <1>10, <1>11 DEF CentralLink
<1> QED
  BY <1>7, <1>9, <1>12, <1>13 DEF LinkInv

LEMMA SendLink == ASSUME Shapes, LinkInv, NEW s \in Sides, send_l2cap(s) PROVE LinkInv'
<1>0. /\ wire' = wire /\ (\A t \in Sides \ {s} : Kept(t)) /\ host'[s] = [host[s] EXCEPT !.credits = host[s].credits - 1]
  BY SendReceives
<1>1. c' = c /\ p' = p /\ Steady
  BY DEF send_l2cap, Steady
<1>2. /\ host'[s].back = host[s].back /\ host'[s].handle = host[s].handle
      /\ host'[s].newconn = host[s].newconn /\ host'[s].disc = host[s].disc
  <2>1. PICK x, g : x = host[s].credits - 1 /\ g = [host[s] EXCEPT !.credits = x]
    OBVIOUS
  <2> QED
    BY <1>0, <2>1, ShapesSide, EditCredits
<1>3. PICK g, g2, w : g = host[s] /\ g2 = host'[s] /\ w = wire[s]
  OBVIOUS
<1>4. Heeds(w, g, w, g2)
  BY <1>2, <1>3, HeedsSame
<1>5. CASE s = "C"
  <2>1. HeedsC(host["C"])
    BY <1>0, <1>2, <1>3, <1>4, <1>5 DEF HeedsC, Edited
  <2>2. HeedsP
    BY <1>0, <1>5, KeptP DEF Sides
  <2>3. tosend["C"] # <<>>
    BY <1>5 DEF send_l2cap
  <2>4. Moves(host["C"])
    BY <1>1, <2>3 DEF Moves, LinkInv, CentralWaits
  <2> QED
    BY <1>1, <2>1, <2>2, <2>4, LinkStep
<1>6. CASE s = "P"
  <2>1. HeedsP
    BY <1>0, <1>3, <1>4, <1>6 DEF HeedsP
  <2>2. tosend'["C"] = tosend["C"]
    BY <1>6, Both, ShapesSide, AtP DEF send_l2cap
  <2>3. Kept("C")
    BY <1>0, <1>6 DEF Sides
  <2> QED
    BY <1>1, <2>1, <2>2, <2>3, StillC, LinkStep
<1> QED
  BY <1>5, <1>6, Both

(* The peripheral's program, as long as it keeps its connection. *)
LEMMA PeripheralStays ==
    ASSUME Shapes, LinkInv, \/ PollsPacket \/ PollsNothing \/ Prompt \/ KeyboardInterrupt
                            \/ _take_credit("P") \/ NoCredit("P")
    PROVE  LinkInv'
<1>0. IsPeripheral(p) /\ OnSides(tosend)
  BY Both, ShapesSide DEF Shapes
<1>1. (CanRead("P") /\ Reads("P")) \/ UNCHANGED <<host, wire>>
  BY DEF PollsPacket, PollTurn, Prompt, PollsNothing, KeyboardInterrupt, _take_credit, NoCredit, controllers
<1>2. UNCHANGED <<conn, up, adv, init, gaveup>>
  BY DEF PollsPacket, PollTurn, Prompt, PollsNothing, KeyboardInterrupt, _take_credit, NoCredit, controllers, Apart
<1>3. Steady
  BY <1>2 DEF Steady
<1>4. c' = c
  <2>1. CASE NoCredit("P") \/ KeyboardInterrupt
    BY <2>1 DEF NoCredit, KeyboardInterrupt, RaisesIn
  <2>2. CASE PollsPacket \/ Prompt \/ PollsNothing \/ _take_credit("P")
    BY <2>2 DEF PollsPacket, PollTurn, Prompt, PollsNothing, _take_credit, Apart, programs
  <2> QED
    BY <2>1, <2>2
<1>5. tosend' = tosend \/ \E x : tosend' = [tosend EXCEPT !["P"] = x]
  <2>1. CASE PollsPacket
    BY <2>1 DEF PollsPacket, PollTurn, Serve
  <2>2. CASE Prompt \/ NoCredit("P") \/ KeyboardInterrupt \/ PollsNothing \/ _take_credit("P")
    BY <2>2 DEF Prompt, NoCredit, KeyboardInterrupt, RaisesIn, PollsNothing, _take_credit, programs
  <2> QED
    BY <2>1, <2>2
<1>6. tosend'["C"] = tosend["C"]
  <2>1. CASE tosend' = tosend
    BY <2>1
  <2>2. CASE \E x : tosend' = [tosend EXCEPT !["P"] = x]
    <3>1. PICK x : tosend' = [tosend EXCEPT !["P"] = x]
      BY <2>2
    <3> QED
      BY <1>0, <3>1, AtP
  <2> QED
    BY <1>5, <2>1, <2>2
<1>7. p'.conn = p.conn
  <2>1. CASE PollsPacket
    <3>1. \/ p' = [p EXCEPT !.pc = "tail"]
          \/ \E x, y : p' = [p EXCEPT !.pc = "tail", !.smp = <<x>>, !.prompted = y]
      <4>1. PICK e : e = read_packet("P").e
        OBVIOUS
      <4>2. CASE ~ (e.t = "pdu" /\ p.conn # 0)
        BY <2>1, <4>1, <4>2 DEF PollsPacket, PollTurn
      <4>3. CASE e.t = "pdu" /\ p.conn # 0
        <5>1. PICK d : d = e.v
          OBVIOUS
        <5>2. Serve(d)
          BY <2>1, <4>1, <4>3, <5>1 DEF PollsPacket, PollTurn
        <5>3. CASE ~ Served(d)
          BY <5>2, <5>3 DEF Serve, Served
        <5>4. CASE Served(d)
          <6>1. PICK x : x = IF d.code = "request" THEN Responder(p.conn) ELSE p.smp[1]
            OBVIOUS
          <6>2. PICK f, y : f = responder_feed(x, d) /\ y = f.smp
            OBVIOUS
          <6>3. \E b : p' = [p EXCEPT !.pc = "tail", !.smp = <<y>>, !.prompted = b]
            BY <5>2, <5>4, <6>1, <6>2 DEF Serve, Served
          <6> QED
            BY <6>3
        <5> QED
          BY <5>3, <5>4
      <4> QED
        BY <4>2, <4>3
    <3> QED
      BY ONLY <1>0, <3>1 DEF IsPeripheral
  <2>2. CASE Prompt
    <3>1. \E x : p' = [p EXCEPT !.prompted = TRUE, !.smp = x]
      BY <2>2 DEF Prompt
    <3> QED
      BY ONLY <1>0, <3>1 DEF IsPeripheral
  <2>3. CASE PollsNothing \/ KeyboardInterrupt \/ NoCredit("P")
    <3>1. PICK x : p' = [p EXCEPT !.pc = x]
      BY <2>3 DEF PollsNothing, KeyboardInterrupt, NoCredit, RaisesIn
    <3> QED
      BY ONLY <1>0, <3>1 DEF IsPeripheral
  <2>4. CASE _take_credit("P")
    BY <2>4 DEF _take_credit, programs
  <2> QED
    BY <2>1, <2>2, <2>3, <2>4
<1>8. HeedsP /\ Kept("C")
  BY <1>1, PollHeedsP
<1> QED
  BY <1>3, <1>4, <1>6, <1>7, <1>8, StillC, LinkStep

LEMMA CommandHeedsP ==
    ASSUME Shapes, LinkInv, NEW h, IsLink(h), h.back = host["P"].back, h.handle = host["P"].handle,
           h.newconn = host["P"].newconn, h.disc = host["P"].disc, host'["P"] = command("P", h),
           \A e \in Els(wire'["P"]) : e.t \notin Links
    PROVE  HeedsP
<1>1. PICK w, w2, g, g2 : w = wire["P"] /\ w2 = wire'["P"] /\ g = host["P"] /\ g2 = host'["P"]
  OBVIOUS
<1>2. Heeds(w, h, w2, g2)
  BY <1>1, Both, HeedsCommand DEF LinkInv, Numbers
<1>3. g2.handle = g.handle
  BY <1>1, <1>2 DEF Heeds
<1>4. h.back = g.back /\ h.handle = g.handle /\ h.newconn = g.newconn /\ h.disc = g.disc
  BY <1>1
<1>5. Heeds(w, g, w2, g2)
  BY ONLY <1>2, <1>3, <1>4, HeedsEdit
<1> QED
  BY <1>1, <1>5 DEF HeedsP

LEMMA FinallyLink == ASSUME Shapes, LinkInv, Finally PROVE LinkInv'
<1>1. host'["P"] = command("P", host["P"]) /\ wire'["P"] = <<>> /\ Kept("C")
  BY FinallyReceives
<1>2. HeedsP
  BY <1>1, Hosts0, NoLinks, CommandHeedsP
<1>3. c' = c /\ tosend' = tosend /\ Steady
  BY DEF Finally, Apart, Steady
<1>4. p'.conn = p.conn
  BY DEF Finally, Shapes, IsPeripheral
<1> QED
  BY <1>1, <1>2, <1>3, <1>4, StillC, LinkStep

LEMMA ServeLink == ASSUME Shapes, LinkInv, ServeKeyRequest PROVE LinkInv'
<1>1. PICK h : /\ IsLink(h) /\ h.back = host["P"].back /\ h.handle = host["P"].handle
               /\ h.newconn = host["P"].newconn /\ h.disc = host["P"].disc
               /\ host'["P"] = command("P", h)
  BY ServeReceives
<1>2. /\ host'["C"] = host["C"] /\ wire'["P"] \in {<<>>, <<Event("enc", "on")>>}
      /\ wire'["C"] = wire["C"] \/ \E v : wire'["C"] = Append(wire["C"], Event("enc", v))
  BY ServeReceives
<1>3. \A v : Event("enc", v).t \notin Links
  BY NoticeEvent DEF Links
<1>4. \A e \in Els(wire'["P"]) : e.t \notin Links
  BY <1>2, <1>3, SeqOne, SeqEmpty
<1>5. HeedsP
  BY <1>1, <1>4, CommandHeedsP
<1>6. c' = c /\ tosend' = tosend /\ p' = p /\ Steady
  BY DEF ServeKeyRequest, Apart, Steady
<1>7. HeedsC(host["C"])
  <2>1. CASE wire'["C"] = wire["C"]
    BY <1>2, <2>1, KeptC DEF Kept
  <2>2. CASE \E v : wire'["C"] = Append(wire["C"], Event("enc", v))
    <3>1. PICK e : wire'["C"] = Append(wire["C"], e) /\ e.t \notin Links
      BY <1>3, <2>2
    <3>2. Heeds(wire["C"], host["C"], Append(wire["C"], e), host["C"])
      BY <3>1, Both, ShapesSide, HeedsAppend
    <3> QED
      BY <1>2, <3>1, <3>2 DEF HeedsC, Edited
  <2> QED
    BY <1>2, <2>1, <2>2
<1>8. Moves(host["C"])
  BY <1>6 DEF Moves
<1> QED
  BY <1>5, <1>6, <1>7, <1>8, LinkStep

LEMMA DeliverLink == ASSUME Shapes, LinkInv, NEW s \in Sides, Deliver(s) PROVE LinkInv'
<1>1. PICK d, got : Carried(s, d, got)
  BY DeliverCarries
<1>2. c' = c /\ tosend' = tosend /\ p' = p /\ host' = host
  BY <1>1 DEF Carried
<1>3. Steady
  BY DEF Deliver, Hosts, Steady
<1>4. ASSUME NEW t \in Sides PROVE \E e : wire'[t] = Append(wire[t], e) /\ e.t \notin Links
  <2>1. PICK n, g : n = Event("completed", 0) /\ g = Event("pdu", got)
    OBVIOUS
  <2>2. n.t = "completed" /\ g.t = "pdu"
    BY <2>1, NoticeEvent
  <2>3. n.t \notin Links /\ g.t \notin Links
    BY <2>2 DEF Links
  <2>4. wire'[s] = Append(wire[s], n) /\ wire'[Other(s)] = Append(wire[Other(s)], g)
    BY <1>1, <2>1 DEF Carried
  <2>5. t = s \/ t = Other(s)
    BY Both DEF Other
  <2> QED
    BY <2>3, <2>4, <2>5
<1>5. ASSUME NEW t \in Sides PROVE Heeds(wire[t], host[t], wire'[t], host'[t])
  BY <1>2, <1>4, ShapesSide, HeedsAppend
<1>6. HeedsP /\ HeedsC(host["C"])
  BY <1>2, <1>5, Both DEF HeedsP, HeedsC, Edited
<1>7. Moves(host["C"])
  BY <1>2 DEF Moves
<1> QED
  BY <1>2, <1>3, <1>6, <1>7, LinkStep

LEMMA StillLink == ASSUME Shapes, LinkInv, LinkLost \/ UNCHANGED vars PROVE LinkInv'
<1>1. host' = host /\ wire' = wire /\ tosend' = tosend /\ c' = c /\ p' = p /\ UNCHANGED <<conn, up, adv, init, gaveup>>
  BY DEF LinkLost, Hosts, programs, vars, controllers
<1>2. Kept("C") /\ Kept("P") /\ Steady
  BY <1>1 DEF Kept, Steady
<1> QED
  BY <1>1, <1>2, StillC, KeptP, LinkStep

LEMMA CentralKeeps ==
    ASSUME LinkInv, Kept("C"), c' = c, tosend'["C"] = tosend["C"], conn' = conn, init' => init, gaveup => gaveup',
           "C" \in up' => "C" \in up
    PROVE  CentralWaits' /\ (~ gaveup' => CentralLink') /\ Numbered("C")'
<1>1. PICK h : h = host["C"]
  OBVIOUS
<1>2. HeedsC(h) /\ Moves(h)
  BY <1>1, StillC
<1>3. CentralWaits' /\ (~ gaveup' => CentralLink')
  BY <1>2, CentralHeeds DEF LinkInv, HeedsC
<1>4. Numbered("C")'
  BY <1>2, NumberedNext DEF LinkInv, Numbers, HeedsC, Edited
<1> QED
  BY <1>3, <1>4

LEMMA PeripheralKeeps ==
    ASSUME LinkInv, Kept("P"), conn' = conn, p'.conn = p.conn, "P" \in up' => "P" \in up, adv' => adv
    PROVE  PeripheralLink' /\ Numbered("P")'
<1>1. PICK h : h = host["P"]
  OBVIOUS
<1>2. HeedsP
  BY KeptP
<1>3. PeripheralLink'
  BY <1>2, PeripheralHeeds DEF LinkInv, HeedsP
<1>4. Numbered("P")'
  BY <1>1, <1>2, NumberedNext DEF LinkInv, Numbers, HeedsP
<1> QED
  BY <1>3, <1>4

(* What the invariant says of the peripheral, its events given names. *)
LEMMA PeripheralKnows ==
    ASSUME LinkInv, NEW w, w = wire["P"], NEW h, h = host["P"], NEW C, C = ConnEvents, NEW D, D = DiscEvents
    PROVE  /\ \A e \in Els(w) : e.t \in Links => e.v = conn
           /\ h.newconn \in {0, conn} /\ h.disc \in {0, conn} /\ h.handle \in {0, conn}
           /\ Lone(w, D) /\ Lone(w, C)
           /\ "P" \in up => Free(w, D) /\ h.disc = 0
           /\ h.disc # 0 => Free(w, D)
           /\ h.newconn # 0 => Free(w, C) /\ p.conn = 0
           /\ p.conn # 0 => Free(w, C)
           /\ adv => /\ "P" \notin up /\ Free(w, D) /\ Free(w, C)
                     /\ h.newconn = 0 /\ h.disc = 0 /\ h.handle = 0 /\ p.conn = 0
  BY DEF LinkInv, PeripheralLink

LEMMA NewConnLink == ASSUME Shapes, LinkInv, NewConn PROVE LinkInv'
<1>1. /\ Kept("C") /\ wire' = wire
      /\ host'["P"].handle = host["P"].newconn /\ host'["P"].newconn = 0 /\ host'["P"].disc = 0
  BY NewConnReceives
<1>2. c' = c /\ host["P"].newconn # 0 /\ UNCHANGED <<conn, up, adv, init, gaveup>>
  BY DEF NewConn, Apart, controllers
<1>3. tosend'["C"] = tosend["C"]
  BY Both, ShapesSide, AtP DEF NewConn, Shapes
<1>4. p'.conn = host["P"].newconn
  BY DEF NewConn, Shapes, IsPeripheral
<1>5. PICK w, h, C, D : w = wire["P"] /\ h = host["P"] /\ C = ConnEvents /\ D = DiscEvents
  OBVIOUS
<1>6. /\ \A e \in Els(w) : e.t \in Links => e.v = conn
      /\ h.newconn \in {0, conn} /\ Lone(w, D) /\ Lone(w, C) /\ Free(w, C) /\ ~ adv
      /\ "P" \in up => Free(w, D)
  BY <1>2, <1>5, PeripheralKnows
<1>7. PeripheralLink'
  BY <1>1, <1>2, <1>4, <1>5, <1>6 DEF PeripheralLink
<1>8. Numbered("P")'
  <2>1. host'["P"].back = host["P"].back
    <3>1. PICK k : k = Reset(host["P"])
      OBVIOUS
    <3>2. IsLink(k) /\ k.back = host["P"].back
      BY <3>1, Hosts0, EditReset
    <3>3. PICK g : g = [k EXCEPT !.handle = host["P"].newconn, !.newconn = 0, !.requests = 0]
      OBVIOUS
    <3>4. host' = [host EXCEPT !["P"] = g]
      BY <3>1, <3>3 DEF NewConn
    <3>5. host'["P"] = g
      BY <3>4, Hosts0, AtP
    <3>6. g.back = k.back
      BY <3>2, <3>3 DEF IsLink
    <3> QED
      BY <3>2, <3>5, <3>6
  <2> QED
    BY <1>1, <2>1 DEF LinkInv, Numbers, Numbered, Arriving
<1>9. CentralWaits' /\ (~ gaveup' => CentralLink') /\ Numbered("C")'
  BY <1>1, <1>2, <1>3, CentralKeeps
<1> QED
  BY <1>2, <1>7, <1>8, <1>9 DEF LinkInv, Numbers

LEMMA LoopEndsLink == ASSUME Shapes, LinkInv, LoopEnds PROVE LinkInv'
<1>1. Kept("C") /\ c' = c /\ tosend' = tosend /\ UNCHANGED <<conn, up, init, gaveup>>
  BY LoopEndsReceives DEF LoopEnds, LinkOver, Apart
<1>2. CentralWaits' /\ (~ gaveup' => CentralLink') /\ Numbered("C")'
  BY <1>1, CentralKeeps
<1>3. PeripheralLink' /\ Numbered("P")'
  <2>1. CASE ~ (host["P"].disc # 0 /\ p.conn # 0)
    <3>1. Kept("P") /\ adv' = adv
      BY <2>1, LoopEndsReceives
    <3>2. p'.conn = p.conn
      <4>1. \E x : p' = [p EXCEPT !.pc = "loop", !.paired = x]
        BY <2>1 DEF LoopEnds, LinkOver
      <4> QED
        BY ONLY <4>1, Shapes DEF Shapes, IsPeripheral
    <3> QED
      BY <1>1, <3>1, <3>2, PeripheralKeeps
  <2>2. CASE host["P"].disc # 0 /\ p.conn # 0
    <3>0. p'.conn = 0
      <4>1. \E x, y : p' = [p EXCEPT !.pc = x, !.conn = 0, !.smp = <<>>, !.prompted = FALSE, !.paired = FALSE,
                                     !.summary = y]
        BY <2>2 DEF LoopEnds, LinkOver
      <4> QED
        BY ONLY <4>1, Shapes DEF Shapes, IsPeripheral
    <3>1. PICK w, g, C, D : w = wire["P"] /\ g = host["P"] /\ C = ConnEvents /\ D = DiscEvents
      OBVIOUS
    <3>2. /\ \A e \in Els(w) : e.t \in Links => e.v = conn
          /\ Free(w, D) /\ Free(w, C) /\ g.newconn = 0 /\ "P" \notin up /\ ~ adv
      BY <2>2, <3>1, PeripheralKnows
    <3>3. \/ Kept("P") /\ UNCHANGED adv
          \/ \E h : /\ IsLink(h) /\ h.back = g.back /\ h.handle = 0 /\ h.disc = 0 /\ h.newconn = g.newconn
                    /\ \/ adv' = TRUE /\ host'["P"] = command("P", h) /\ wire'["P"] = <<>>
                       \/ adv' = FALSE /\ host'["P"] = h /\ wire'["P"] = w
      BY <3>1, LoopEndsReceives
    <3>4. PICK q, h2 : q = wire'["P"] /\ h2 = host'["P"]
      OBVIOUS
    <3>5. Lone(w, D) /\ Lone(w, C) /\ Lone(<<>>, D) /\ Lone(<<>>, C) /\ Free(<<>>, D) /\ Free(<<>>, C) /\ Els(<<>>) = {}
      BY <3>2, FreeLone, SeqEmpty
    <3>6. CASE Kept("P") /\ UNCHANGED adv
      <4>1. q = w /\ h2 = g
        BY <3>1, <3>4, <3>6 DEF Kept
      <4>2. /\ g.disc \in {0, conn} /\ g.handle \in {0, conn}
        BY <3>1, PeripheralKnows
      <4>3. PeripheralLink'
        BY <1>1, <3>0, <3>1, <3>2, <3>4, <3>5, <3>6, <4>1, <4>2 DEF PeripheralLink
      <4>4. Numbered("P")'
        BY <3>6 DEF Kept, LinkInv, Numbers, Numbered, Arriving
      <4> QED
        BY <4>3, <4>4
    <3>7. ASSUME NEW h, IsLink(h), h.back = g.back, h.handle = 0, h.disc = 0, h.newconn = g.newconn,
                 \/ adv' = TRUE /\ host'["P"] = command("P", h) /\ wire'["P"] = <<>>
                 \/ adv' = FALSE /\ host'["P"] = h /\ wire'["P"] = w
          PROVE  PeripheralLink' /\ Numbered("P")'
      <4>1. CASE host'["P"] = command("P", h) /\ wire'["P"] = <<>>
        <5>1. Heeds(w, h, <<>>, h2)
          BY <3>1, <3>4, <3>7, <4>1, NoLinks, Both, HeedsCommand DEF LinkInv, Numbers
        <5>2. Els(w) \cap C = {} /\ Els(w) \cap D = {}
          BY <3>2, FreeEls
        <5>3. h2.handle = 0 /\ h2.disc = 0 /\ h2.newconn = 0
          BY <3>1, <3>2, <3>7, <5>1, <5>2 DEF Heeds
        <5>4. PeripheralLink'
          BY <1>1, <3>0, <3>1, <3>2, <3>4, <3>5, <4>1, <5>3 DEF PeripheralLink
        <5>5. Numbered("P")'
          BY <3>1, <3>4, <3>7, <4>1, <5>1, NumberedNext DEF LinkInv, Numbers
        <5> QED
          BY <5>4, <5>5
      <4>2. CASE adv' = FALSE /\ host'["P"] = h /\ wire'["P"] = w
        <5>1. PeripheralLink'
          BY <1>1, <3>0, <3>1, <3>2, <3>5, <3>7, <4>2 DEF PeripheralLink
        <5>2. Numbered("P")'
          BY <3>1, <3>7, <4>2 DEF LinkInv, Numbers, Numbered, Arriving
        <5> QED
          BY <5>1, <5>2
      <4> QED
        BY <3>7, <4>1, <4>2
    <3> QED
      BY <3>3, <3>6, <3>7
  <2> QED
    BY <2>1, <2>2
<1> QED
  BY <1>1, <1>2, <1>3 DEF LinkInv, Numbers

(* What the invariant says of the central, its events given names. *)
LEMMA CentralKnows ==
    ASSUME LinkInv, NEW w, w = wire["C"], NEW h, h = host["C"], NEW C, C = ConnEvents, NEW D, D = DiscEvents
    PROVE  /\ c.pc \in Resting => tosend["C"] = <<>>
           /\ init => c.pc = "connecting" /\ Free(w, C)
           /\ \A e \in Els(h.back) : e.t # "disc"
           /\ c.pc # "over" => Free(h.back, C)
           /\ c.pc = "connecting" => Lone(w, C)
           /\ c.pc \notin {"connecting", "over"} => Free(w, C)
           /\ ~ gaveup =>
                /\ \A e \in Els(w) \cup Els(h.back) : e.t \in Links => e.v = conn
                /\ h.disc \in {0, conn} /\ h.handle \in {0, conn}
                /\ Lone(w, D)
                /\ "C" \in up => Free(w, D) /\ h.disc = 0
                /\ h.disc # 0 => Free(w, D)
                /\ init \/ c.pc = "connect" => "C" \notin up /\ h.handle = 0 /\ Free(w, D)
                /\ init => h.disc = 0
<1>1. /\ c.pc \in Resting => tosend["C"] = <<>>
      /\ init => c.pc = "connecting" /\ Free(w, C)
      /\ \A e \in Els(h.back) : e.t # "disc"
      /\ c.pc # "over" => Free(h.back, C)
      /\ c.pc = "connecting" => Lone(w, C)
      /\ c.pc \notin {"connecting", "over"} => Free(w, C)
  BY DEF LinkInv, CentralWaits
<1>2. ASSUME ~ gaveup
      PROVE  /\ \A e \in Els(w) \cup Els(h.back) : e.t \in Links => e.v = conn
             /\ h.disc \in {0, conn} /\ h.handle \in {0, conn}
             /\ Lone(w, D)
             /\ "C" \in up => Free(w, D) /\ h.disc = 0
             /\ h.disc # 0 => Free(w, D)
             /\ init \/ c.pc = "connect" => "C" \notin up /\ h.handle = 0 /\ Free(w, D)
             /\ init => h.disc = 0
  BY <1>2 DEF LinkInv, CentralLink, Arriving
<1> QED
  BY <1>1, <1>2

(* A queue with no event of a link in it. *)
LEMMA NoneOfLinks ==
    ASSUME Shapes, LinkInv, NEW s \in Sides, NEW q, q = wire[s] \/ q = host[s].back,
           Free(q, ConnEvents), Free(q, DiscEvents) \/ \A e \in Els(q) : e.t # "disc"
    PROVE  \A e \in Els(q) : e.t \notin Links
<1>1. Numbered(s)
  BY Both DEF LinkInv, Numbers
<1>2. PICK C, D : C = ConnEvents /\ D = DiscEvents
  OBVIOUS
<1>3. Els(q) \cap C = {} /\ (Els(q) \cap D = {} \/ \A e \in Els(q) : e.t # "disc")
  BY <1>2, FreeEls
<1> SUFFICES ASSUME NEW e \in Els(q), e.t \in Links PROVE FALSE
  OBVIOUS
<1>4. IsEvent(e) /\ e.v \in Nat
  BY <1>1, EventsAre
<1>5. (e.t = "conn" => e \in C) /\ (e.t = "disc" => e \in D)
  BY <1>2, <1>4, LinkEvents
<1> QED
  BY <1>3, <1>5 DEF Links

(* An event of a link arrives behind w. *)
LEMMA NumberedAppend ==
    ASSUME Shapes, LinkInv, NEW s \in Sides, NEW e, e.v \in Nat, host'[s] = host[s], wire'[s] = Append(wire[s], e)
    PROVE  Numbered(s)'
<1>1. Numbered(s)
  BY Both DEF LinkInv, Numbers
<1>2. Els(wire'[s]) = Els(wire[s]) \cup {e}
  BY ShapesSide, SeqAppend
<1> QED
  BY <1>1, <1>2 DEF Numbered, Arriving

LEMMA ConnectedLink == ASSUME Shapes, LinkInv, Connected PROVE LinkInv'
<1>1. PICK e : e = Event("conn", conn + 1)
  OBVIOUS
<1>2. host' = host /\ \A s \in Sides : wire'[s] = Append(wire[s], e)
  BY <1>1, ConnectedReceives
<1>3. adv /\ init /\ conn' = conn + 1 /\ ~ adv' /\ ~ init' /\ c' = c /\ p' = p /\ tosend' = tosend /\ gaveup' = gaveup
  BY DEF Connected, Hosts, programs
<1>4. conn \in Nat /\ conn + 1 \in Nat
  BY DEF LinkInv, Numbers
<1>5. PICK C, D : C = ConnEvents /\ D = DiscEvents
  OBVIOUS
<1>6. e.t = "conn" /\ e.v = conn + 1
  BY <1>1 DEF Event
<1>7. e \notin D
  BY <1>5, <1>6, LinkEvents
<1>8. Numbers'
  BY <1>2, <1>3, <1>4, <1>6, Both, NumberedAppend DEF Numbers
<1>9. PICK w, h, q : w = wire["P"] /\ h = host["P"] /\ q = wire'["P"]
  OBVIOUS
<1>10. PeripheralLink'
  <2>1. /\ Free(w, D) /\ Free(w, C) /\ h.newconn = 0 /\ h.disc = 0 /\ h.handle = 0 /\ p.conn = 0
    BY <1>3, <1>5, <1>9, PeripheralKnows
  <2>2. \A x \in Els(w) : x.t \notin Links
    BY <1>5, <1>9, <2>1, Both, NoneOfLinks
  <2>3. IsSeq(w) /\ q = Append(w, e)
    BY <1>2, <1>9, Both, ShapesSide
  <2>4. Els(q) = Els(w) \cup {e} /\ Lone(q, C) /\ Free(q, D) /\ Lone(q, D)
    BY <1>7, <2>1, <2>3, SeqAppend, FreeLone, LoneAppend, FreeAppend
  <2>5. \A x \in Els(q) : x.t \in Links => x.v = conn'
    BY <1>3, <1>6, <2>2, <2>4
  <2> QED
    BY <1>2, <1>3, <1>5, <1>9, <2>1, <2>4, <2>5 DEF PeripheralLink
<1>11. PICK v, g, r : v = wire["C"] /\ g = host["C"] /\ r = wire'["C"]
  OBVIOUS
<1>12. IsSeq(v) /\ r = Append(v, e)
  BY <1>2, <1>11, Both, ShapesSide
<1>13. /\ c.pc = "connecting" /\ Free(v, C) /\ tosend["C"] = <<>> /\ Free(g.back, C)
       /\ \A x \in Els(g.back) : x.t # "disc"
  BY <1>3, <1>5, <1>11, CentralKnows DEF Resting
<1>14. Lone(r, C) /\ Els(r) = Els(v) \cup {e}
  BY <1>12, <1>13, SeqAppend, FreeLone, LoneAppend
<1>15. CentralWaits'
  BY <1>2, <1>3, <1>5, <1>11, <1>13, <1>14 DEF CentralWaits
<1>16. ASSUME ~ gaveup PROVE CentralLink'
  <2>1. g.handle = 0 /\ g.disc = 0 /\ Free(v, D)
    BY <1>3, <1>5, <1>11, <1>16, CentralKnows
  <2>2. \A x \in Els(v) : x.t \notin Links
    BY <1>5, <1>11, <1>13, <2>1, Both, NoneOfLinks
  <2>3. \A x \in Els(g.back) : x.t \notin Links
    BY <1>5, <1>11, <1>13, Both, NoneOfLinks
  <2>4. Free(r, D) /\ Lone(r, D)
    BY <1>7, <1>12, <2>1, FreeAppend, FreeLone
  <2>5. \A x \in Els(r) \cup Els(g.back) : x.t \in Links => x.v = conn'
    BY <1>3, <1>6, <1>14, <2>2, <2>3
  <2> QED
    BY <1>2, <1>3, <1>5, <1>11, <1>13, <2>1, <2>4, <2>5 DEF CentralLink, Arriving
<1> QED
  BY <1>3, <1>8, <1>10, <1>15, <1>16 DEF LinkInv

LEMMA EndsLink == ASSUME Shapes, LinkInv, NEW s \in Sides, Ends(s) PROVE LinkInv'
<1>1. PICK e : e = Event("disc", conn)
  OBVIOUS
<1>2. host' = host /\ wire'[s] = Append(wire[s], e) /\ \A t \in Sides \ {s} : Kept(t)
  BY <1>1, EndsReceives
<1>3. /\ s \in up /\ up' = up \ {s} /\ UNCHANGED <<conn, adv, init, gaveup>>
      /\ c' = c /\ p' = p /\ tosend' = tosend
  BY DEF Ends, Hosts, programs
<1>4. conn \in Nat
  BY DEF LinkInv, Numbers
<1>5. PICK C, D : C = ConnEvents /\ D = DiscEvents
  OBVIOUS
<1>6. e.t = "disc" /\ e.v = conn
  BY <1>1 DEF Event
<1>7. e \notin C
  BY <1>5, <1>6, LinkEvents
<1>8. Numbered(s)'
  BY <1>2, <1>4, <1>6, NumberedAppend
<1>9. PICK w, h, q : w = wire[s] /\ h = host[s] /\ q = wire'[s]
  OBVIOUS
<1>10. IsSeq(w) /\ q = Append(w, e)
  BY <1>2, <1>9, ShapesSide
<1>11. Els(q) = Els(w) \cup {e}
  BY <1>10, SeqAppend
<1>12. (Free(w, C) => Free(q, C)) /\ (Lone(w, C) => Lone(q, C)) /\ (Free(w, D) => Lone(q, D))
  BY <1>7, <1>10, FreeAppend, LoneAppend, FreeLone
<1>13. CASE s = "P"
  <2>1. /\ \A x \in Els(w) : x.t \in Links => x.v = conn
        /\ h.newconn \in {0, conn} /\ h.handle \in {0, conn} /\ Lone(w, C)
        /\ Free(w, D) /\ h.disc = 0 /\ ~ adv
        /\ h.newconn # 0 => Free(w, C) /\ p.conn = 0
        /\ p.conn # 0 => Free(w, C)
    BY <1>3, <1>5, <1>9, <1>13, PeripheralKnows
  <2>2. \A x \in Els(q) : x.t \in Links => x.v = conn
    BY <1>6, <1>11, <2>1
  <2>3. PeripheralLink'
    BY <1>2, <1>3, <1>5, <1>9, <1>12, <1>13, <2>1, <2>2 DEF PeripheralLink
  <2>4. Kept("C")
    BY <1>2, <1>13 DEF Sides
  <2>5. CentralWaits' /\ (~ gaveup' => CentralLink') /\ Numbered("C")'
    BY <1>3, <2>4, CentralKeeps
  <2> QED
    BY <1>3, <1>4, <1>8, <1>13, <2>3, <2>5 DEF LinkInv, Numbers
<1>14. CASE s = "C"
  <2>1. Kept("P")
    BY <1>2, <1>14 DEF Sides
  <2>2. PeripheralLink' /\ Numbered("P")'
    BY <1>3, <2>1, PeripheralKeeps
  <2>3. /\ c.pc \in Resting => tosend["C"] = <<>>
        /\ init => c.pc = "connecting" /\ Free(w, C)
        /\ \A x \in Els(h.back) : x.t # "disc"
        /\ c.pc # "over" => Free(h.back, C)
        /\ c.pc = "connecting" => Lone(w, C)
        /\ c.pc \notin {"connecting", "over"} => Free(w, C)
    BY <1>5, <1>9, <1>14, CentralKnows
  <2>4. CentralWaits'
    BY <1>2, <1>3, <1>5, <1>9, <1>12, <1>14, <2>3 DEF CentralWaits
  <2>5. ASSUME ~ gaveup PROVE CentralLink'
    <3>1. /\ \A x \in Els(w) \cup Els(h.back) : x.t \in Links => x.v = conn
          /\ h.handle \in {0, conn} /\ Free(w, D) /\ h.disc = 0 /\ ~ init /\ c.pc # "connect"
      BY <1>3, <1>5, <1>9, <1>14, <2>5, CentralKnows
    <3>2. \A x \in Els(q) \cup Els(h.back) : x.t \in Links => x.v = conn
      BY <1>6, <1>11, <3>1
    <3> QED
      BY <1>2, <1>3, <1>5, <1>9, <1>12, <1>14, <3>1, <3>2 DEF CentralLink, Arriving
  <2> QED
    BY <1>3, <1>4, <1>8, <1>14, <2>2, <2>4, <2>5 DEF LinkInv, Numbers
<1> QED
  BY <1>13, <1>14, Both

-----------------------------------------------------------------------------
(* The links: the theorem.                                                 *)

LEMMA LinkInit == ASSUME Init PROVE LinkInv
<1>1. /\ conn = 0 /\ up = {} /\ adv = TRUE /\ init = FALSE /\ gaveup = FALSE /\ p = Peripheral
      /\ \A s \in Sides : wire[s] = <<>> /\ host[s] = Link /\ tosend[s] = <<>>
  BY DEF Init
<1>2. wire["C"] = <<>> /\ wire["P"] = <<>> /\ host["C"] = Link /\ host["P"] = Link /\ tosend["C"] = <<>>
  BY <1>1, Both
<1>3. PICK ltk : c = Central(1, ltk)
  BY DEF Init
<1>4. c.pc = "connect" /\ p.conn = 0
  BY <1>1, <1>3 DEF Central, Peripheral
<1>5. Link.back = <<>> /\ Link.disc = 0 /\ Link.handle = 0 /\ Link.newconn = 0
  BY DEF Link
<1>6. PICK C, D : C = ConnEvents /\ D = DiscEvents
  OBVIOUS
<1>7. Lone(<<>>, C) /\ Free(<<>>, C) /\ Lone(<<>>, D) /\ Free(<<>>, D) /\ Els(<<>>) = {}
  BY SeqEmpty
<1>8. Arriving("C") = {} /\ Arriving("P") = {}
  BY <1>2, <1>5, <1>7 DEF Arriving
<1>9. Numbers
  BY <1>1, <1>8 DEF Numbers, Numbered
<1>10. PeripheralLink
  BY <1>1, <1>2, <1>4, <1>5, <1>6, <1>7 DEF PeripheralLink
<1>11. CentralWaits
  BY <1>1, <1>2, <1>4, <1>5, <1>6, <1>7 DEF CentralWaits
<1>12. CentralLink
  BY <1>1, <1>2, <1>4, <1>5, <1>6, <1>7, <1>8 DEF CentralLink
<1> QED
  BY <1>9, <1>10, <1>11, <1>12 DEF LinkInv

(* One step per action. *)
LEMMA LinkNext == ASSUME Shapes, LinkInv, [Next]_vars PROVE LinkInv'
<1>1. CASE CentralNext
  <2>1. CASE connect \/ Connecting \/ ConnectTimeout
    BY <2>1, ConnectLink, ConnectingLink, TimeoutLink
  <2>2. CASE wait_security_request
    BY <2>2, SecurityLink
  <2>3. CASE \/ pair \/ PairFails \/ Paired \/ wait_encryption \/ collect_keys \/ send_keys \/ save_bond
             \/ att_probe \/ Probing \/ _take_credit("C") \/ NoCredit("C")
    BY <2>3, PollersLink
  <2>4. CASE start_encryption
    BY <2>4, EncryptLink
  <2>5. CASE disconnect \/ Hanging
    BY <2>5, DisconnectLink, HangingLink
  <2>6. CASE send_l2cap("C")
    BY <2>6, Both, SendLink
  <2> QED
    BY <1>1, <2>1, <2>2, <2>3, <2>4, <2>5, <2>6 DEF CentralNext
<1>2. CASE Restart
  BY <1>2, RestartLink
<1>3. CASE PeripheralNext \/ KeyboardInterrupt
  <2>1. CASE NewConn \/ ServeKeyRequest
    BY <2>1, NewConnLink, ServeLink
  <2>2. CASE \/ PollsPacket \/ PollsNothing \/ Prompt \/ KeyboardInterrupt \/ _take_credit("P") \/ NoCredit("P")
    BY <2>2, PeripheralStays
  <2>3. CASE LoopEnds \/ Finally
    BY <2>3, LoopEndsLink, FinallyLink
  <2>4. CASE send_l2cap("P")
    BY <2>4, Both, SendLink
  <2> QED
    BY <1>3, <2>1, <2>2, <2>3, <2>4 DEF PeripheralNext, poll
<1>4. CASE Connected
  BY <1>4, ConnectedLink
<1>5. CASE LinkLost \/ UNCHANGED vars
  BY <1>5, StillLink
<1>6. ASSUME NEW s \in Sides, Deliver(s) \/ Ends(s) PROVE LinkInv'
  BY <1>6, DeliverLink, EndsLink
<1> QED
  BY <1>1, <1>2, <1>3, <1>4, <1>5, <1>6 DEF Next

LEMMA DroppedFollows == ASSUME LinkInv PROVE DroppedIsOurs
<1> SUFFICES ASSUME NEW s \in Sides, host[s].handle # 0, host[s].disc # 0, ~ gaveup PROVE host[s].disc = host[s].handle
  BY DEF DroppedIsOurs
<1>1. CASE s = "C"
  BY <1>1 DEF LinkInv, CentralLink
<1>2. CASE s = "P"
  BY <1>2 DEF LinkInv, PeripheralLink
<1> QED
  BY <1>1, <1>2, Both

(* A link is taken for dropped only when the one in use was reported so,   *)
(* in any number of connections and runs, with any number of lost links,   *)
(* as long as disconnect() waited for its event.                           *)
THEOREM DropsAreOurs == Spec => []DroppedIsOurs
<1>1. Init => Shapes /\ PairInv /\ LinkInv
  BY PairInit, LinkInit
<1>2. Shapes /\ PairInv /\ LinkInv /\ [Next]_vars => Shapes' /\ PairInv' /\ LinkInv'
  BY PairNext, LinkNext
<1>3. LinkInv => DroppedIsOurs
  BY DroppedFollows
<1> QED
  BY <1>1, <1>2, <1>3, PTL DEF Spec
=============================================================================
