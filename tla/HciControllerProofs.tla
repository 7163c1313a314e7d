------------------------ MODULE HciControllerProofs ------------------------
(***************************************************************************)
(* The bridge's safety for every value of the constants: both kinds of     *)
(* host, any burst budget and stream buffer, any number of packets, events *)
(* and reopened ports.                                                     *)
(*                                                                         *)
(* One inductive invariant has three parts.  Kept: a packet host never     *)
(* parses, a closed port holds nothing, and a retained packet excludes the parser from the buffer.      *)
(* Counted: the bookkeeping of the packets to the host.  InOrder: the      *)
(* numbering of the host's packets, said of the buffer and of the packets  *)
(* still to come apart, with one case for each.                            *)
(***************************************************************************)
EXTENDS HciController, TLAPS

Kept == /\ HostPacketPending => parser = "EMPTY" /\ buf = hostPkt
        /\ ~HostUsesH4 => parser = "EMPTY"
        /\ ~Open => ~HostPacketPending /\ parser = "EMPTY"

Counted == /\ entered \in Nat /\ delivered \in Nat /\ unsendable \in Nat /\ lost \in Nat
           /\ txLeft \in Nat /\ txRoom \in Nat
           /\ NoneOverwritten

Busy == HostPacketPending \/ parser # "EMPTY"

InOrder == /\ hostIn \in Seq(Packet)
           /\ sent \in Nat /\ handled \in Nat
           /\ sent = handled + Held(Busy) + Len(hostIn)
           /\ Busy => buf.id = handled + 1
           /\ \A i \in 1 .. Len(hostIn) : hostIn[i].id = handled + Held(Busy) + i

-----------------------------------------------------------------------------
(* A pass of the transport never touches a retained packet, and a packet   *)
(* that is taken leaves the parser empty.                                  *)

(* The initial state retains nothing and parses nothing. *)
LEMMA KeptInit == Init => Kept
BY DEF Init, Kept

(* Every step keeps the buffer to one of its two users. *)
LEMMA KeptNext == Kept /\ [Next]_vars => Kept'
<1> SUFFICES ASSUME Kept, [Next]_vars PROVE Kept'
  OBVIOUS
<1> USE DEF Kept
<1>1. ASSUME NEW k \in Kind, HostSends(k) PROVE Kept'
  BY <1>1 DEF HostSends
<1>2. CASE RestArrives \/ HostReads \/ SdcReplies \/ (\E z \in Size : SdcEvent(z))
  BY <1>2 DEF RestArrives, HostReads, SdcReplies, SdcEvent, hostVars
<1>3. CASE HciControllerPortOpen
  BY <1>3 DEF HciControllerPortOpen
<1>4. CASE HciControllerPortClose
  BY <1>4 DEF HciControllerPortClose
<1>5. CASE StartPass \/ HciControllerStartPacket \/ Burst
  BY <1>5 DEF StartPass, HciControllerStartPacket, Burst, hostVars
<1>6. ASSUME NEW at, NEW next, HciIntrfTransportProcess(at, next) PROVE Kept'
  BY <1>6 DEF HciIntrfTransportProcess, TransportRuns, Feed
<1>7. ASSUME NEW at, NEW next, HciControllerHostProcess(at, next) PROVE Kept'
  <2>0. Open' = Open /\ HostUsesH4' = HostUsesH4
    BY <1>7 DEF HciControllerHostProcess
  <2>1. CASE Retry
    BY <2>0, <2>1 DEF Retry, Offer
  <2>2. CASE TakeH4
    <3>1. Open /\ HostUsesH4 /\ Open' /\ HostUsesH4'
      BY <2>0, <2>2 DEF TakeH4
    <3>2. HostPacketPending' => parser' = "EMPTY" /\ buf' = hostPkt'
      <4>1. ~HostPacketPending
        BY <2>2 DEF TakeH4
      <4>2. \/ HostPacketPending' = HostPacketPending
            \/ parser' = "EMPTY" /\ \E p : buf' = p /\ Offer(p)
        BY <2>2, Zenon DEF TakeH4
      <4>3. ASSUME NEW p, Offer(p), HostPacketPending' PROVE hostPkt' = p
        BY <4>3, Zenon DEF Offer
      <4> QED BY <4>1, <4>2, <4>3
    <3> QED BY <3>1, <3>2
  <2>3. CASE TakePacket
    BY <2>0, <2>3 DEF TakePacket, Offer
  <2>4. CASE NothingTaken
    BY <2>0, <2>4 DEF NothingTaken
  <2> QED BY <1>7, <2>1, <2>2, <2>3, <2>4 DEF HciControllerHostProcess
<1>8. ASSUME NEW at, NEW next, NEW end, HciControllerFetchPacket(at, next, end) PROVE Kept'
  BY <1>8 DEF HciControllerFetchPacket, hostVars
<1>9. CASE UNCHANGED vars
  BY <1>9 DEF vars, hostVars
<1> QED BY <1>1, <1>2, <1>3, <1>4, <1>5, <1>6, <1>7, <1>8, <1>9 DEF Next, HciControllerProcess

(* While the bridge retains a host packet for a retry, the buffer it       *)
(* shares with the parser still holds that packet (HciControllerProcess).  *)
THEOREM RetainedSafe == Spec => []RetainedIntact
<1>1. Kept => RetainedIntact
  BY DEF Kept, RetainedIntact
<1> QED BY KeptInit, KeptNext, <1>1, PTL DEF Spec

-----------------------------------------------------------------------------
(* Packets to the host.                                                    *)

(* Sending as much of left parts as there is room for counts a delivery    *)
(* exactly when none is left.                                              *)
LEMMA DrainCounts ==
    ASSUME NEW left \in Nat, txRoom \in Nat, delivered \in Nat, Drain(left)
    PROVE  /\ txLeft' \in Nat /\ txRoom' \in Nat /\ delivered' \in Nat
           /\ delivered' + Held(txLeft' # 0) = delivered + Held(left # 0)
BY DEF Drain, Held

(* Nothing has entered yet. *)
LEMMA CountedInit == Init => Counted
BY BridgeAssumption DEF Init, Counted, NoneOverwritten, Held

(* One attempt to send: the packet held moves on, or stays, or is counted. *)
LEMMA StartCounts ==
    ASSUME Counted, StartPacket, UNCHANGED <<entered, lost>> PROVE Counted'
<1> USE DEF Counted, NoneOverwritten
<1>1. CASE NotSent
  BY <1>1 DEF NotSent, txVars
<1>2. CASE ControllerPacketPending /\ Unsendable
  BY <1>2 DEF Unsendable, txVars, Held
<1>3. CASE ControllerPacketPending /\ SendPacket
  BY <1>3 DEF SendPacket, Held
<1>4. CASE ControllerPacketPending /\ SendH4
  <2>1. TxParts \in Nat /\ TxParts # 0
    BY BridgeAssumption
  <2>2. /\ txLeft' \in Nat /\ txRoom' \in Nat /\ delivered' \in Nat
        /\ delivered' + Held(txLeft' # 0) = delivered + Held(TxParts # 0)
    BY <1>4, <2>1, DrainCounts DEF SendH4
  <2>3. /\ Held(ControllerPacketPending) = 1 /\ Held(ControllerPacketPending') = 0
        /\ Held(txLeft # 0) = 0 /\ Held(TxParts # 0) = 1
    BY <1>4, <2>1 DEF SendH4, Held
  <2>4. entered' = entered /\ lost' = lost /\ unsendable' = unsendable
    BY <1>4 DEF SendH4
  <2>5. Held(txLeft' # 0) \in Nat
    BY DEF Held
  <2> QED BY <2>2, <2>3, <2>4, <2>5
<1> QED BY <1>1, <1>2, <1>3, <1>4 DEF StartPacket

(* Putting a host packet makes at most one reply, into a free slot. *)
LEMMA OfferCounts ==
    ASSUME Counted, NEW p, Offer(p), UNCHANGED <<txVars, lost>> PROVE Counted'
<1> USE DEF Counted, NoneOverwritten, txVars
<1>1. CASE UNCHANGED ctlVars
  BY <1>1 DEF ctlVars
<1>2. CASE PutLocal(p)
  BY <1>2 DEF PutLocal, Held
<1> QED BY <1>1, <1>2 DEF Offer, PutInvalid, PutSdc, Refused

(* Every step accounts for every packet that entered. *)
LEMMA CountedNext == Counted /\ [Next]_vars => Counted'
<1> SUFFICES ASSUME Counted, [Next]_vars PROVE Counted'
  OBVIOUS
<1>0. ASSUME UNCHANGED <<ctlVars, txVars, lost>> PROVE Counted'
  BY <1>0 DEF Counted, NoneOverwritten, ctlVars, txVars
<1>1. ASSUME NEW k \in Kind, HostSends(k) PROVE Counted'
  BY <1>0, <1>1 DEF HostSends
<1>2. CASE RestArrives \/ SdcReplies \/ (\E z \in Size : SdcEvent(z)) \/ StartPass
  BY <1>0, <1>2 DEF RestArrives, SdcReplies, SdcEvent, StartPass
<1>3. CASE HostReads
  BY <1>3 DEF HostReads, Counted, NoneOverwritten, ctlVars
<1>4. CASE HciControllerPortOpen
  BY <1>0, <1>4 DEF HciControllerPortOpen
<1>5. CASE HciControllerPortClose
  BY <1>5 DEF HciControllerPortClose, Counted, NoneOverwritten, Held
<1>6. ASSUME NEW at, NEW next, HciIntrfTransportProcess(at, next) PROVE Counted'
  <2>1. CASE TransportRuns
    <3>1. /\ txLeft' \in Nat /\ txRoom' \in Nat /\ delivered' \in Nat
          /\ delivered' + Held(txLeft' # 0) = delivered + Held(txLeft # 0)
      BY <1>6, <2>1, DrainCounts DEF HciIntrfTransportProcess, Counted
    <3>2. /\ entered' = entered /\ lost' = lost /\ unsendable' = unsendable
          /\ ControllerPacketPending' = ControllerPacketPending
      BY <1>6 DEF HciIntrfTransportProcess, ctlVars
    <3>3. /\ Held(ControllerPacketPending') = Held(ControllerPacketPending)
          /\ Held(ControllerPacketPending) \in Nat
          /\ Held(txLeft # 0) \in Nat /\ Held(txLeft' # 0) \in Nat
      BY <3>2 DEF Held
    <3> QED BY <3>1, <3>2, <3>3 DEF Counted, NoneOverwritten
  <2>2. CASE ~TransportRuns
    BY <1>0, <1>6, <2>2 DEF HciIntrfTransportProcess
  <2> QED BY <2>1, <2>2
<1>7. ASSUME NEW at, NEW next, HciControllerHostProcess(at, next) PROVE Counted'
  <2>1. UNCHANGED <<txVars, lost>>
    BY <1>7 DEF HciControllerHostProcess
  <2>2. CASE Retry
    BY <2>1, <2>2, OfferCounts DEF Retry
  <2>3. CASE TakeH4
    BY <1>0, <2>1, <2>3, OfferCounts DEF TakeH4
  <2>4. CASE TakePacket
    BY <2>1, <2>4, OfferCounts DEF TakePacket
  <2>5. CASE NothingTaken
    BY <1>0, <2>1, <2>5 DEF NothingTaken
  <2> QED BY <1>7, <2>2, <2>3, <2>4, <2>5 DEF HciControllerHostProcess
<1>8. ASSUME NEW at, NEW next, NEW end, HciControllerFetchPacket(at, next, end) PROVE Counted'
  BY <1>8 DEF HciControllerFetchPacket, Counted, NoneOverwritten, txVars, Held
<1>9. CASE HciControllerStartPacket
  BY <1>9, StartCounts DEF HciControllerStartPacket
<1>10. CASE Burst
  BY <1>10, StartCounts DEF Burst
<1>11. CASE UNCHANGED vars
  BY <1>0, <1>11 DEF vars
<1> QED
  BY <1>1, <1>2, <1>3, <1>4, <1>5, <1>6, <1>7, <1>8, <1>9, <1>10, <1>11
  DEF Next, HciControllerProcess

(* No packet that entered the bridge for the host is overwritten, sent     *)
(* twice or dropped unseen (HciControllerFetchPacket, StartPacket, the     *)
(* Queue functions and the stream buffer).                                 *)
THEOREM NoneOverwrittenSafe == Spec => []NoneOverwritten
<1>1. Counted => NoneOverwritten
  BY DEF Counted
<1> QED BY CountedInit, CountedNext, <1>1, PTL DEF Spec

-----------------------------------------------------------------------------
(* Packets from the host.  Numbered(q, h, b): the packets q to come have   *)
(* the numbers after h, of which the buffer holds b.                       *)

Numbered(q, h, b) == \A i \in 1 .. Len(q) : q[i].id = h + b + i

(* Nothing sent, nothing read. *)
LEMMA InOrderInit == Init => InOrder
BY DEF Init, InOrder, Busy, Held

(* InOrder of the next state, from its parts. *)
LEMMA InOrderThen ==
    ASSUME NEW b \in Nat, Held(Busy)' = b,
           hostIn' \in Seq(Packet), sent' \in Nat, handled' \in Nat,
           sent' = handled' + b + Len(hostIn'),
           Busy' => buf'.id = handled' + 1,
           Numbered(hostIn', handled', b)
    PROVE  InOrder'
BY DEF InOrder, Numbered

(* Taking the first packet: it carries the next number, the rest keep      *)
(* theirs.                                                                 *)
LEMMA TailNumbered ==
    ASSUME NEW q \in Seq(Packet), q # <<>>, NEW h \in Nat, Numbered(q, h, 0)
    PROVE  /\ Tail(q) \in Seq(Packet) /\ Len(Tail(q)) = Len(q) - 1
           /\ Head(q).id = h + 1
           /\ Numbered(Tail(q), h, 1)
           /\ Numbered(Tail(q), h + 1, 0)
<1>1. Tail(q) \in Seq(Packet) /\ Len(Tail(q)) = Len(q) - 1 /\ Len(q) \in Nat /\ Len(q) > 0
  OBVIOUS
<1>2. Head(q).id = h + 1
  BY <1>1 DEF Numbered
<1>3. \A i \in 1 .. Len(Tail(q)) : i + 1 \in 1 .. Len(q) /\ Tail(q)[i] = q[i + 1]
  BY <1>1
<1>4. \A i \in 1 .. Len(Tail(q)) : Tail(q)[i].id = h + 0 + (i + 1)
  BY <1>3 DEF Numbered
<1>5. \A i \in 1 .. Len(Tail(q)) : i \in Nat
  BY <1>1
<1> QED BY <1>1, <1>2, <1>4, <1>5 DEF Numbered

(* Flushing n packets: the rest keep their numbers. *)
LEMMA FlushNumbered ==
    ASSUME NEW q \in Seq(Packet), NEW n \in 0 .. Len(q), NEW h \in Nat, NEW b \in Nat,
           Numbered(q, h, b)
    PROVE  LET r == SubSeq(q, n + 1, Len(q)) IN
           /\ r \in Seq(Packet) /\ Len(r) = Len(q) - n
           /\ Numbered(r, h + n, b)
<1> DEFINE r == SubSeq(q, n + 1, Len(q))
<1>1. Len(q) \in Nat /\ n \in Nat
  OBVIOUS
<1>2. r \in Seq(Packet) /\ Len(r) = Len(q) - n
  BY <1>1
<1>3. \A i \in 1 .. Len(r) : n + i \in 1 .. Len(q) /\ r[i] = q[n + i]
  BY <1>1, <1>2
<1>4. \A i \in 1 .. Len(r) : r[i].id = h + b + (n + i)
  <2> HIDE DEF r
  <2> QED BY <1>3 DEF Numbered
<1>5. \A i \in 1 .. Len(r) : i \in Nat
  BY <1>1, <1>2
<1>6. Numbered(r, h + n, b)
  <2> HIDE DEF r
  <2> QED BY <1>1, <1>4, <1>5 DEF Numbered
<1> QED BY <1>2, <1>6

(* Offering the packet numbered h + 1: dealt with, or retained. *)
LEMMA OfferNumbers ==
    ASSUME NEW p, p.id = handled + 1, Offer(p)
    PROVE  \/ HostPacketPending' = FALSE /\ handled' = handled + 1
           \/ HostPacketPending' = TRUE /\ handled' = handled
BY DEF Offer

(* Reading into the buffer takes the next packet or leaves all as it is. *)
LEMMA FeedInOrder ==
    ASSUME InOrder, ~HostPacketPending, Feed, UNCHANGED <<HostPacketPending, sent, handled>>
    PROVE  InOrder'
<1>1. CASE hostIn # <<>> /\ parser = "EMPTY"
  <2>1. Numbered(hostIn, handled, 0) /\ Held(Busy) = 0
    BY <1>1 DEF InOrder, Numbered, Busy, Held
  <2>2. /\ hostIn' \in Seq(Packet) /\ Len(hostIn') = Len(hostIn) - 1
        /\ buf'.id = handled + 1
        /\ Numbered(hostIn', handled, 1)
    BY <1>1, <2>1, TailNumbered DEF Feed, InOrder
  <2>3. Busy' /\ Held(Busy)' = 1
    BY <1>1 DEF Feed, Busy, Held
  <2>4. sent' = handled' + 1 + Len(hostIn') /\ sent' \in Nat /\ handled' \in Nat
    BY <2>1, <2>2 DEF InOrder
  <2>5. handled' = handled
    OBVIOUS
  <2> QED BY <2>2, <2>3, <2>4, <2>5, InOrderThen
<1>2. CASE ~(hostIn # <<>> /\ parser = "EMPTY")
  <2>1. UNCHANGED <<buf, hostIn>>
    BY <1>2 DEF Feed
  <2>2. Busy' = Busy /\ Held(Busy)' = Held(Busy)
    BY <1>2 DEF Feed, Busy, Held
  <2> QED BY <2>1, <2>2 DEF InOrder
<1> QED BY <1>1, <1>2

(* The packet in the buffer is offered; the parser is then empty. *)
LEMMA BufferOffered ==
    ASSUME InOrder, Busy, Offer(buf), parser' = "EMPTY", UNCHANGED <<buf, hostIn, sent>>
    PROVE  InOrder'
<1>1. buf.id = handled + 1 /\ Held(Busy) = 1
  BY DEF InOrder, Held
<1>2. CASE HostPacketPending' = FALSE /\ handled' = handled + 1
  <2>1. ~Busy' /\ Held(Busy)' = 0
    BY <1>2 DEF Busy, Held
  <2>2. /\ hostIn' = hostIn /\ sent' = sent /\ handled' = handled + 1
        /\ hostIn \in Seq(Packet) /\ sent \in Nat /\ handled \in Nat
        /\ sent = handled + 1 + Len(hostIn)
    BY <1>1, <1>2 DEF InOrder
  <2>3. \A i \in 1 .. Len(hostIn) : i \in Nat /\ hostIn[i].id = handled + 1 + i
    <3> DEFINE b == Held(Busy)
    <3>1. \A i \in 1 .. Len(hostIn) : hostIn[i].id = handled + b + i
      BY DEF InOrder
    <3>2. b = 1
      BY <1>1
    <3> HIDE DEF b
    <3>3. Len(hostIn) \in Nat
      BY <2>2
    <3> QED BY <3>1, <3>2, <3>3
  <2>4. \A i \in 1 .. Len(hostIn) : hostIn[i].id = (handled + 1) + 0 + i
    BY <2>2, <2>3
  <2>5. Numbered(hostIn', handled', 0)
    BY <2>2, <2>4 DEF Numbered
  <2>6. sent' = handled' + 0 + Len(hostIn')
    BY <2>2
  <2> QED BY <2>1, <2>2, <2>5, <2>6, InOrderThen
<1>3. CASE HostPacketPending' = TRUE /\ handled' = handled
  <2>1. Busy' /\ Held(Busy)' = 1
    BY <1>3 DEF Busy, Held
  <2> QED BY <1>1, <1>3, <2>1 DEF InOrder
<1> QED BY <1>1, <1>2, <1>3, OfferNumbers

(* The next packet is read and offered at once. *)
LEMMA HeadOffered ==
    ASSUME InOrder, ~HostPacketPending, parser = "EMPTY", hostIn # <<>>,
           Offer(Head(hostIn)), buf' = Head(hostIn), hostIn' = Tail(hostIn),
           UNCHANGED <<parser, sent>>
    PROVE  InOrder'
<1>1. Numbered(hostIn, handled, 0) /\ Held(Busy) = 0
  BY DEF InOrder, Numbered, Busy, Held
<1>2. /\ hostIn' \in Seq(Packet) /\ Len(hostIn') = Len(hostIn) - 1
      /\ buf'.id = handled + 1
      /\ Numbered(hostIn', handled, 1)
      /\ Numbered(hostIn', handled + 1, 0)
  BY <1>1, TailNumbered DEF InOrder
<1>3. CASE HostPacketPending' = FALSE /\ handled' = handled + 1
  <2>1. ~Busy' /\ Held(Busy)' = 0
    BY <1>3 DEF Busy, Held
  <2>2. sent' = handled' + 0 + Len(hostIn') /\ sent' \in Nat /\ handled' \in Nat
    BY <1>1, <1>2, <1>3 DEF InOrder
  <2> QED BY <1>2, <1>3, <2>1, <2>2, InOrderThen
<1>4. CASE HostPacketPending' = TRUE /\ handled' = handled
  <2>1. Busy' /\ Held(Busy)' = 1
    BY <1>4 DEF Busy, Held
  <2>2. sent' = handled' + 1 + Len(hostIn') /\ sent' \in Nat /\ handled' \in Nat
    BY <1>1, <1>2, <1>4 DEF InOrder
  <2> QED BY <1>2, <1>4, <2>1, <2>2, InOrderThen
<1> QED BY <1>2, <1>3, <1>4, OfferNumbers

(* Every step keeps the host's packets in order. *)
LEMMA InOrderNext == Kept /\ InOrder /\ [Next]_vars => InOrder'
<1> SUFFICES ASSUME Kept, InOrder, [Next]_vars PROVE InOrder'
  OBVIOUS
<1>0. ASSUME UNCHANGED <<parser, buf, HostPacketPending, hostIn, handled, sent>> PROVE InOrder'
  <2>1. Busy' = Busy /\ Held(Busy)' = Held(Busy)
    BY <1>0 DEF Busy, Held
  <2> QED BY <1>0, <2>1 DEF InOrder
<1>1. ASSUME NEW k \in Kind, HostSends(k) PROVE InOrder'
  <2> DEFINE p == [id |-> sent + 1, kind |-> k]
  <2>1. p \in Packet /\ p.id = sent + 1
    BY DEF Packet, InOrder
  <2>2. /\ sent' = sent + 1 /\ hostIn' = Append(hostIn, p)
        /\ UNCHANGED <<parser, buf, HostPacketPending, handled>>
    BY <1>1 DEF HostSends
  <2> HIDE DEF p
  <2>3. Busy' = Busy /\ Held(Busy)' = Held(Busy) /\ Held(Busy) \in Nat
    BY <2>2 DEF Busy, Held
  <2>4. hostIn' \in Seq(Packet) /\ Len(hostIn') = Len(hostIn) + 1 /\ Len(hostIn) \in Nat
    BY <2>1, <2>2 DEF InOrder
  <2>5. ASSUME NEW i \in 1 .. Len(hostIn') PROVE hostIn'[i].id = handled + Held(Busy) + i
    <3>1. CASE i = Len(hostIn) + 1
      BY <2>1, <2>2, <2>3, <2>4, <3>1 DEF InOrder
    <3>2. CASE i \in 1 .. Len(hostIn)
      BY <2>1, <2>2, <2>4, <3>2 DEF InOrder
    <3> QED BY <2>4, <3>1, <3>2
  <2> QED BY <2>2, <2>3, <2>4, <2>5 DEF InOrder
<1>2. CASE RestArrives \/ HostReads \/ SdcReplies \/ (\E z \in Size : SdcEvent(z)) \/ StartPass
  BY <1>0, <1>2 DEF RestArrives, HostReads, SdcReplies, SdcEvent, StartPass, hostVars, envVars
<1>3. CASE HciControllerPortOpen
  <2>1. PICK n \in 0 .. Len(hostIn) : /\ hostIn' = SubSeq(hostIn, n + 1, Len(hostIn))
                                      /\ handled' = handled + n
    <3>1. Len(hostIn) \in Nat
      BY DEF InOrder
    <3>2. (IF HostUsesH4 /\ ~cut THEN 0 .. Len(hostIn) ELSE {0}) \subseteq 0 .. Len(hostIn)
      <4>1. 0 \in 0 .. Len(hostIn)
        BY <3>1
      <4> QED BY <4>1, Zenon
    <3> QED BY <1>3, <3>2, Zenon DEF HciControllerPortOpen
  <2>2. ~Busy /\ ~Busy' /\ Held(Busy) = 0 /\ Held(Busy)' = 0
    BY <1>3 DEF HciControllerPortOpen, Busy, Held, Kept
  <2>3. Numbered(hostIn, handled, 0)
    BY <2>2 DEF InOrder, Numbered
  <2>4. /\ hostIn' \in Seq(Packet) /\ Len(hostIn') = Len(hostIn) - n
        /\ Numbered(hostIn', handled', 0)
    <3>1. hostIn \in Seq(Packet) /\ handled \in Nat /\ 0 \in Nat
      BY DEF InOrder
    <3> DEFINE r == SubSeq(hostIn, n + 1, Len(hostIn))
    <3>2. r \in Seq(Packet) /\ Len(r) = Len(hostIn) - n /\ Numbered(r, handled + n, 0)
      BY <2>3, <3>1, FlushNumbered
    <3> QED BY <2>1, <3>2
  <2>5. sent' = handled' + 0 + Len(hostIn') /\ sent' \in Nat /\ handled' \in Nat
    <3>1. sent' = sent /\ handled' = handled + n
      BY <1>3, <2>1 DEF HciControllerPortOpen
    <3>2. /\ sent \in Nat /\ handled \in Nat /\ n \in Nat /\ Len(hostIn) \in Nat
          /\ sent = handled + 0 + Len(hostIn)
      BY <2>2 DEF InOrder
    <3> QED BY <2>4, <3>1, <3>2
  <2> QED BY <2>2, <2>4, <2>5, InOrderThen
<1>4. CASE HciControllerPortClose
  <2>1. ~Busy' /\ Held(Busy)' = 0 /\ hostIn' = hostIn /\ sent' = sent
    BY <1>4 DEF HciControllerPortClose, Busy, Held, envVars
  <2>2. handled' = handled + Held(Busy) /\ Held(Busy) \in Nat
    BY <1>4 DEF HciControllerPortClose, Busy, Held, InOrder
  <2>3. /\ sent' = handled' + 0 + Len(hostIn')
        /\ hostIn' \in Seq(Packet) /\ sent' \in Nat /\ handled' \in Nat
    BY <2>1, <2>2 DEF InOrder
  <2>4. Numbered(hostIn', handled', 0)
    BY <2>1, <2>2 DEF InOrder, Numbered
  <2> QED BY <2>1, <2>3, <2>4, InOrderThen
<1>5. CASE HciControllerStartPacket \/ Burst
  BY <1>0, <1>5 DEF HciControllerStartPacket, Burst, hostVars, envVars
<1>6. ASSUME NEW at, NEW next, HciIntrfTransportProcess(at, next) PROVE InOrder'
  <2>1. UNCHANGED <<HostPacketPending, sent, handled>>
    BY <1>6 DEF HciIntrfTransportProcess, envVars
  <2>2. CASE TransportRuns
    BY <1>6, <2>1, <2>2, FeedInOrder DEF HciIntrfTransportProcess, TransportRuns
  <2>3. CASE ~TransportRuns
    BY <1>0, <1>6, <2>1, <2>3 DEF HciIntrfTransportProcess
  <2> QED BY <2>2, <2>3
<1>7. ASSUME NEW at, NEW next, HciControllerHostProcess(at, next) PROVE InOrder'
  <2>0. UNCHANGED sent
    BY <1>7 DEF HciControllerHostProcess, envVars
  <2>1. CASE Retry
    BY <2>0, <2>1, BufferOffered DEF Retry, Busy, Kept
  <2>2. CASE TakeH4
    <3>1. CASE parser \in {"WHOLE", "PART"} /\ parser' = "EMPTY" /\ Offer(buf) /\ UNCHANGED <<buf, hostIn>>
      BY <2>0, <3>1, BufferOffered DEF Busy
    <3>2. CASE Feed /\ UNCHANGED <<HostPacketPending, handled>>
      BY <2>0, <2>2, <3>2, FeedInOrder DEF TakeH4
    <3>3. CASE /\ parser = "EMPTY" /\ hostIn # <<>> /\ Offer(Head(hostIn))
               /\ buf' = Head(hostIn) /\ hostIn' = Tail(hostIn) /\ UNCHANGED parser
      BY <2>0, <2>2, <3>3, HeadOffered DEF TakeH4
    <3> QED BY <2>2, <3>1, <3>2, <3>3 DEF TakeH4
  <2>3. CASE TakePacket
    BY <2>0, <2>3, HeadOffered DEF TakePacket, Kept
  <2>4. CASE NothingTaken
    BY <1>0, <2>0, <2>4 DEF NothingTaken
  <2> QED BY <1>7, <2>1, <2>2, <2>3, <2>4 DEF HciControllerHostProcess
<1>8. ASSUME NEW at, NEW next, NEW end, HciControllerFetchPacket(at, next, end) PROVE InOrder'
  BY <1>0, <1>8 DEF HciControllerFetchPacket, hostVars, envVars
<1>9. CASE UNCHANGED vars
  BY <1>0, <1>9 DEF vars, hostVars, envVars
<1> QED BY <1>1, <1>2, <1>3, <1>4, <1>5, <1>6, <1>7, <1>8, <1>9 DEF Next, HciControllerProcess

(* The numbering is HostOrder: the buffer first, then what is to come. *)
LEMMA InOrderIsHostOrder == InOrder => HostOrder
<1> SUFFICES ASSUME InOrder PROVE HostOrder
  OBVIOUS
<1>1. CASE Busy
  <2>1. HostStream = <<buf>> \o hostIn /\ Held(Busy) = 1
    BY <1>1 DEF HostStream, Busy, Held
  <2>2. hostIn \in Seq(Packet) /\ Len(hostIn) \in Nat
    BY DEF InOrder
  <2>3. Len(HostStream) = 1 + Len(hostIn)
    BY <2>1, <2>2
  <2>4. ASSUME NEW i \in 1 .. 1 + Len(hostIn) PROVE HostStream[i].id = handled + i
    <3>1. CASE i = 1
      BY <1>1, <2>1, <2>2, <3>1 DEF InOrder
    <3>2. CASE i # 1
      <4>1. i - 1 \in 1 .. Len(hostIn) /\ HostStream[i] = hostIn[i - 1]
        BY <2>1, <2>2, <3>2
      <4> QED BY <2>1, <4>1 DEF InOrder
    <3> QED BY <3>1, <3>2
  <2> QED BY <2>1, <2>3, <2>4 DEF InOrder, HostOrder
<1>2. CASE ~Busy
  <2>1. HostStream = hostIn /\ Held(Busy) = 0
    BY <1>2 DEF HostStream, Busy, Held, InOrder
  <2> QED BY <2>1 DEF InOrder, HostOrder
<1> QED BY <1>1, <1>2

(* Through every refusal, retry, cut packet and reopened port the          *)
(* controller layer is given the host's packets in order, each once        *)
(* (HciControllerHostProcess over the shared buffer).                      *)
THEOREM HostOrderSafe == Spec => []HostOrder
<1>1. Init => Kept /\ InOrder
  BY KeptInit, InOrderInit
<1>2. Kept /\ InOrder /\ [Next]_vars => (Kept /\ InOrder)'
  BY KeptNext, InOrderNext
<1>3. Kept /\ InOrder => HostOrder
  BY InOrderIsHostOrder
<1> QED BY <1>1, <1>2, <1>3, PTL DEF Spec

-----------------------------------------------------------------------------
(* Going to wait. *)

(* On a packet host an attempt that leaves the packet found no room. *)
LEMMA NotSentNoRoom ==
    ASSUME StartPacket, ControllerPacketPending', Open, ~HostUsesH4
    PROVE  txRoom' = 0
<1>1. /\ ControllerPacketPending /\ txRoom = 0 /\ UNCHANGED txVars
  BY DEF StartPacket, NotSent, Unsendable, SendH4, SendPacket
<1> QED
  BY <1>1 DEF txVars

(* A pass ends with nothing to fetch, with a packet that found no room, or *)
(* with a wake for the next one; whoever changes that while the thread     *)
(* waits wakes it.                                                         *)
LEMMA StrandedNext == NoneStranded /\ [Next]_vars => NoneStranded'
<1> SUFFICES ASSUME NoneStranded, [Next]_vars,
                    pc' = "IDLE", ~wake', Open', ~HostUsesH4'
             PROVE  \/ ~ControllerPacketPending' /\ ctlOut' = <<>>
                    \/ ControllerPacketPending' /\ txRoom' = 0
  BY DEF NoneStranded
<1>1. CASE UNCHANGED vars
  BY <1>1 DEF vars, passVars, ctlVars, txVars, sdcVars, NoneStranded
<1>2. CASE (\E k \in Kind : HostSends(k)) \/ RestArrives \/ HostReads
  BY <1>2 DEF HostSends, RestArrives, HostReads
<1>3. CASE SdcReplies \/ \E z \in Size : SdcEvent(z)
  BY <1>3 DEF SdcReplies, SdcEvent
<1>4. CASE HciControllerPortOpen \/ HciControllerPortClose
  BY <1>4 DEF HciControllerPortOpen, HciControllerPortClose
<1>5. CASE StartPass \/ HciControllerStartPacket
           \/ HciIntrfTransportProcess("RX1", "HOST1") \/ HciIntrfTransportProcess("RX2", "HOST2")
  BY <1>5 DEF StartPass, HciControllerStartPacket, HciIntrfTransportProcess, Goto
<1>6. CASE \/ HciControllerHostProcess("HOST1", "FETCH1") \/ HciControllerHostProcess("HOST2", "FETCH")
           \/ HciControllerFetchPacket("FETCH1", "START1", "RX2")
  BY <1>6 DEF HciControllerHostProcess, HciControllerFetchPacket, Goto
<1>7. CASE HciControllerFetchPacket("FETCH", "START", "IDLE")
  BY <1>7 DEF HciControllerFetchPacket, Goto
<1>8. CASE Burst
  <2>1. StartPacket /\ UNCHANGED <<Open, HostUsesH4>>
    BY <1>8 DEF Burst
  <2>2. ControllerPacketPending'
    BY <1>8 DEF Burst, BurstEnd
  <2> QED
    BY <2>1, <2>2, NotSentNoRoom
<1> QED
  BY <1>1, <1>2, <1>3, <1>4, <1>5, <1>6, <1>7, <1>8 DEF Next, HciControllerProcess

(* On a packet host HciControllerProcess never lets the thread wait        *)
(* without a wake while it holds or could fetch a packet the host has room *)
(* for: the burst limit asks for another pass.                             *)
THEOREM StrandedSafe == Spec => []NoneStranded
<1>1. Init => NoneStranded
  BY DEF Init, NoneStranded
<1> QED
  BY <1>1, StrandedNext, PTL DEF Spec
=============================================================================
