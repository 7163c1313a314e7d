---------------------- MODULE HciIntrfTransportProofs ----------------------
(***************************************************************************)
(* Two facts about the receiving side, for every stream, every split into  *)
(* reads, and every way the reads, the filter, the idle pass and the port  *)
(* interleave.                                                             *)
(*                                                                         *)
(* The parser stays within its buffer, of any size from four octets.  The  *)
(* bound is not inductive: what keeps the payload inside the buffer is the *)
(* comparison made when the header was complete, and ParserConsistent      *)
(* remembers it for each parser state.                                     *)
(*                                                                         *)
(* The parser takes the host's packets apart where the host put them       *)
(* together.  The octets taken, read and on the line are a cut of the      *)
(* joined packets; the header says where the first of them ends            *)
(* (FirstLength), so handing over a packet and giving up an oversize one   *)
(* both cut where the packet ends (TwoCuts).  A port that is not open yet  *)
(* adds what the scan for the Reset has matched and the boot text before   *)
(* it (BootText).                                                          *)
(***************************************************************************)
EXTENDS HciIntrfTransport, SequenceTheorems, WellFoundedInduction, TLAPS

ParserInv == ParserTypeOK /\ ParserConsistent

LEMMA HeaderLens ==
    \A t \in PacketType : HciH4HeaderLen[t] \in 2 .. 4
  BY DEF PacketType, HciH4HeaderLen, COMMAND, ACL, SCO, EVENT, ISO

LEMMA ElementTyped ==
    ASSUME NEW S, NEW s \in Seq(S), NEW i \in 1 .. Len(s)
    PROVE  s[i] \in S
  OBVIOUS

LEMMA ByteIsNat == \A x \in 0 .. 255 : x \in Nat
  OBVIOUS

LEMMA ThreeTyped == <<3, 12, 0>> \in Seq(0 .. 255) /\ Len(<<3, 12, 0>>) = 3
  OBVIOUS

LEMMA Le16 ==
    ASSUME NEW a \in 0 .. 255, NEW b \in 0 .. 255
    PROVE  a + 256 * b \in Nat /\ (a + 256 * b) % 16384 \in Nat
  OBVIOUS

(* A complete header announces a natural number. *)
LEMMA PayloadLens ==
    ASSUME NEW t \in PacketType, NEW h \in Seq(0 .. 255), Len(h) = HciH4HeaderLen[t]
    PROVE  HciH4PayloadLen(t, h) \in Nat
<1>1. CASE t = EVENT
  <2>1. 2 \in 1 .. Len(h)
    BY <1>1, HeaderLens
  <2>2. h[2] \in 0 .. 255
    BY <2>1, ElementTyped
  <2>3. HciH4PayloadLen(t, h) = h[2]
    BY <1>1 DEF HciH4PayloadLen
  <2> QED
    BY <2>2, <2>3, ByteIsNat
<1>2. CASE t \in {COMMAND, SCO}
  <2>1. 3 \in 1 .. Len(h)
    BY <1>2 DEF HciH4HeaderLen, PacketType, COMMAND, SCO, EVENT, ISO
  <2>2. h[3] \in 0 .. 255
    BY <2>1, ElementTyped
  <2>3. t # EVENT
    BY <1>2 DEF COMMAND, SCO, EVENT
  <2>4. HciH4PayloadLen(t, h) = h[3]
    BY <1>2, <2>3 DEF HciH4PayloadLen
  <2> QED
    BY <2>2, <2>4, ByteIsNat
<1>3. CASE t # EVENT /\ t \notin {COMMAND, SCO}
  <2>1. 3 \in 1 .. Len(h) /\ 4 \in 1 .. Len(h)
    BY <1>3 DEF HciH4HeaderLen
  <2>2. h[3] \in 0 .. 255 /\ h[4] \in 0 .. 255
    BY <2>1, ElementTyped
  <2>3. PICK a \in 0 .. 255, b \in 0 .. 255 : a = h[3] /\ b = h[4]
    BY <2>2, Zenon
  <2>4. ReadLe16(h) = a + 256 * b
    BY <2>3, Zenon DEF ReadLe16
  <2>5. a + 256 * b \in Nat /\ (a + 256 * b) % 16384 \in Nat
    BY Le16
  <2>6. \/ HciH4PayloadLen(t, h) = ReadLe16(h)
        \/ HciH4PayloadLen(t, h) = ReadLe16(h) % 16384
    BY <1>3 DEF HciH4PayloadLen
  <2> QED
    BY <2>4, <2>5, <2>6
<1> QED
  BY <1>1, <1>2, <1>3

(* Releasing the packet, which is also what a reset does. *)
LEMMA ReleaseKeeps ==
    ASSUME ParserInv, HciH4ReleasePacket
    PROVE  ParserInv'
  BY DEF ParserInv, ParserTypeOK, ParserConsistent, HciH4ReleasePacket, ParseState

LEMMA StillKeeps ==
    ASSUME ParserInv, UNCHANGED parserVars
    PROVE  ParserInv'
  BY DEF ParserInv, ParserTypeOK, ParserConsistent, parserVars

(* One octet of the feed. *)
LEMMA FeedKeeps ==
    ASSUME ParserInv, NEW o \in 0 .. 255, FeedOctet(o)
    PROVE  ParserInv'
<1> USE DEF ParserInv
<1>1. CASE FeedType(o)
  <2>1. CASE o \in PacketType
    <3>1. HciH4HeaderLen[o] \in 2 .. 4
      BY <2>1, HeaderLens
    <3>2. /\ State' = "HEADER" /\ Type' = o /\ pPacket' = <<>>
          /\ PayloadLen' = 0 /\ DropRemaining' = 0 /\ InvalidTypeCount' = InvalidTypeCount
      BY <1>1, <2>1, Zenon DEF FeedType
    <3>3. ParserTypeOK'
      BY <2>1, <3>2 DEF ParserTypeOK, ParseState
    <3>4. ParserConsistent'
      BY <2>1, <3>1, <3>2 DEF ParserConsistent
    <3> QED
      BY <3>3, <3>4
  <2>2. CASE o \notin PacketType
    <3>1. /\ InvalidTypeCount' = InvalidTypeCount + 1
          /\ State' = State /\ Type' = Type /\ pPacket' = pPacket
          /\ PayloadLen' = PayloadLen /\ DropRemaining' = DropRemaining
      BY <1>1, <2>2 DEF FeedType
    <3>2. ParserTypeOK'
      BY <3>1 DEF ParserTypeOK
    <3>3. ParserConsistent'
      BY <3>1 DEF ParserConsistent
    <3> QED
      BY <3>2, <3>3
  <2> QED
    BY <2>1, <2>2
<1>2. CASE FeedHeader(o)
  <2> DEFINE h == Append(pPacket, o)
             len == HciH4PayloadLen(Type, h)
  <2>1. Type \in PacketType /\ State = "HEADER"
    BY <1>2 DEF FeedHeader, ParserConsistent
  <2>2. h \in Seq(0 .. 255) /\ Len(h) = Len(pPacket) + 1
    BY DEF ParserTypeOK
  <2>3. HciH4HeaderLen[Type] \in 2 .. 4 /\ Len(pPacket) \in Nat
    BY <2>1, HeaderLens DEF ParserTypeOK
  <2>4. Type' = Type /\ InvalidTypeCount' = InvalidTypeCount
    BY <1>2 DEF FeedHeader
  <2>5. CASE Len(pPacket) + 1 < HciH4HeaderLen[Type]
    <3>1. /\ pPacket' = h /\ State' = State
          /\ PayloadLen' = PayloadLen /\ DropRemaining' = DropRemaining
      BY <1>2, <2>3, <2>5 DEF FeedHeader
    <3>2. ParserTypeOK'
      BY <2>2, <2>4, <3>1 DEF ParserTypeOK
    <3>3. ParserConsistent'
      BY <2>1, <2>2, <2>4, <2>5, <3>1 DEF ParserConsistent
    <3> QED
      BY <3>2, <3>3
  <2>6. CASE Len(pPacket) + 1 = HciH4HeaderLen[Type]
    <3>1. len \in Nat
      BY <2>1, <2>2, <2>6, PayloadLens
    <3>2. HeaderDone(h)
      BY <1>2, <2>3, <2>6 DEF FeedHeader
    <3>3. CASE HciH4HeaderLen[Type] + len > PacketCapacity
      <4>1. len > 0
        BY <2>3, <3>1, <3>3, CapacityAssumption
      <4>2. PayloadLen' = len /\ DropRemaining' = len /\ pPacket' = <<>> /\ State' = "DROP"
        BY <2>3, <3>1, <3>2, <3>3, <4>1, CapacityAssumption DEF HeaderDone
      <4>3. ParserTypeOK'
        BY <2>4, <3>1, <4>2 DEF ParserTypeOK, ParseState
      <4>4. ParserConsistent'
        BY <2>1, <2>4, <4>1, <4>2 DEF ParserConsistent
      <4> QED
        BY <4>3, <4>4
    <3>4. CASE HciH4HeaderLen[Type] + len <= PacketCapacity
      <4>1. /\ PayloadLen' = len /\ DropRemaining' = DropRemaining /\ pPacket' = h
            /\ State' = IF len = 0 THEN "DELIVER" ELSE "PAYLOAD"
        BY <2>3, <3>1, <3>2, <3>4, CapacityAssumption DEF HeaderDone
      <4> HIDE DEF len, h
      <4>2. ParserTypeOK'
        BY <2>2, <2>4, <3>1, <4>1 DEF ParserTypeOK, ParseState
      <4>3. ParserConsistent'
        BY <2>1, <2>2, <2>3, <2>4, <2>6, <3>1, <3>4, <4>1, CapacityAssumption DEF ParserConsistent
      <4> QED
        BY <4>2, <4>3
    <3> QED
      BY <2>3, <3>1, <3>3, <3>4, CapacityAssumption
  <2> QED
    BY <1>2, <2>5, <2>6 DEF FeedHeader
<1>3. CASE FeedPayload(o)
  <2> DEFINE total == HciH4HeaderLen[Type] + PayloadLen
  <2>1. Type \in PacketType /\ total <= PacketCapacity /\ Len(pPacket) < total
    BY <1>3 DEF FeedPayload, ParserConsistent
  <2>2. HciH4HeaderLen[Type] \in 2 .. 4 /\ Len(pPacket) \in Nat /\ PayloadLen \in Nat
    BY <2>1, HeaderLens DEF ParserTypeOK
  <2>3. /\ pPacket' = Append(pPacket, o)
        /\ State' = IF Len(pPacket) + 1 = total THEN "DELIVER" ELSE "PAYLOAD"
        /\ Type' = Type /\ PayloadLen' = PayloadLen /\ DropRemaining' = DropRemaining
        /\ InvalidTypeCount' = InvalidTypeCount
    BY <1>3 DEF FeedPayload
  <2>4. pPacket' \in Seq(0 .. 255) /\ Len(pPacket') = Len(pPacket) + 1
    BY <2>3 DEF ParserTypeOK
  <2>5. ParserTypeOK'
    BY <2>3, <2>4 DEF ParserTypeOK, ParseState
  <2>6. HciH4HeaderLen[Type] <= Len(pPacket)
    BY <1>3 DEF FeedPayload, ParserConsistent
  <2>7. ParserConsistent'
    BY <2>1, <2>2, <2>3, <2>4, <2>6, CapacityAssumption DEF ParserConsistent
  <2> QED
    BY <2>5, <2>7
<1>4. CASE FeedDrop(o)
  <2>1. CASE DropRemaining > 1
    <3>1. /\ DropRemaining' = DropRemaining - 1
          /\ State' = State /\ Type' = Type /\ pPacket' = pPacket
          /\ PayloadLen' = PayloadLen /\ InvalidTypeCount' = InvalidTypeCount
      BY <1>4, <2>1 DEF FeedDrop, ParserTypeOK
    <3>2. ParserTypeOK'
      BY <2>1, <3>1 DEF ParserTypeOK
    <3>3. ParserConsistent'
      BY <1>4, <2>1, <3>1 DEF ParserTypeOK, ParserConsistent, FeedDrop
    <3> QED
      BY <3>2, <3>3
  <2>2. CASE DropRemaining <= 1
    BY <1>4, <2>2, ReleaseKeeps DEF FeedDrop, ParserTypeOK
  <2> QED
    BY <2>1, <2>2 DEF ParserTypeOK
<1> QED
  BY <1>1, <1>2, <1>3, <1>4 DEF FeedOctet

(* The parser and the octets on their way to it. *)
Inv == /\ ParserInv
       /\ RxChunk \in Seq(Octet)
       /\ line \in Seq(Octet)

LEMMA RestTyped ==
    ASSUME NEW s \in Seq(Octet), NEW n \in 0 .. Len(s)
    PROVE  Rest(s, n) \in Seq(Octet)
  BY DEF Rest

LEMMA ReadTyped ==
    ASSUME NEW s \in Seq(Octet), NEW n \in 1 .. Len(s)
    PROVE  SubSeq(s, 1, n) \in Seq(Octet) /\ SubSeq(s, 2, n) \in Seq(Octet)
  OBVIOUS

LEMMA InitInv == Init => Inv
  BY DEF Init, ParserInit, Inv, ParserInv, ParserTypeOK, ParserConsistent, ParseState, NONE

LEMMA NextInv == Inv /\ [Next]_vars => Inv'
<1> SUFFICES ASSUME Inv, [Next]_vars PROVE Inv'
  OBVIOUS
<1> USE DEF Inv
<1>1. CASE \E p \in HostPacket : HostSends(p)
  <2>1. PICK p \in HostPacket : HostSends(p)
    BY <1>1
  <2>2. p \in Seq(Octet)
    BY TransportAssumption
  <2> QED
    BY <2>1, <2>2, StillKeeps DEF HostSends
<1>2. CASE \E o \in Garbage : GarbageArrives(o)
  BY <1>2, StillKeeps, TransportAssumption DEF GarbageArrives
<1>3. CASE InStepAgain
  BY <1>3, StillKeeps DEF InStepAgain
<1>4. CASE HciControllerPortOpen
  <2>1. CASE OpenScanning
    BY <2>1, ReleaseKeeps DEF OpenScanning, TransportClosed
  <2>2. CASE OpenKeeping
    <3>1. PICK n \in Readable : RxChunk' = SubSeq(line, 1, n) /\ line' = Rest(line, n)
      BY <2>2 DEF OpenKeeping
    <3>2. n \in 1 .. Len(line)
      BY TransportAssumption DEF Readable
    <3> QED
      BY <2>2, <3>1, <3>2, StillKeeps, RestTyped, ReadTyped DEF OpenKeeping
  <2>3. CASE OpenFlushing
    BY <2>3, ReleaseKeeps, RestTyped DEF OpenFlushing, TransportClosed
  <2> QED
    BY <1>4, <2>1, <2>2, <2>3 DEF HciControllerPortOpen
<1>5. CASE HciControllerPortClose
  BY <1>5, ReleaseKeeps DEF HciControllerPortClose, TransportClosed
<1>6. CASE HciControllerH4StartupSyncProcess
  <2>0. line # <<>>
    BY <1>6 DEF HciControllerH4StartupSyncProcess
  <2> DEFINE match == NextMatch(Head(line))
  <2>1. CASE match < Len(H4Reset)
    <3>1. Tail(line) \in Seq(Octet)
      BY <2>0
    <3>2. ~(match = Len(H4Reset))
      BY <2>1 DEF H4Reset
    <3>3. line' = Tail(line) /\ UNCHANGED <<parserVars, RxChunk>>
      BY <1>6, <3>2 DEF HciControllerH4StartupSyncProcess
    <3> QED
      BY <3>1, <3>3, StillKeeps
  <2>2. CASE match = Len(H4Reset)
    <3>1. ~(match < Len(H4Reset))
      BY <2>2 DEF H4Reset
    <3>2. PICK n \in 1 .. ChunkSize : /\ n <= Len(line)
                                     /\ RxChunk' = SubSeq(line, 2, n)
                                     /\ line' = Rest(line, n)
      BY <1>6, <3>1 DEF HciControllerH4StartupSyncProcess
    <3>3. n \in 1 .. Len(line)
      BY <3>2, TransportAssumption
    <3>4. RxChunk' \in Seq(Octet) /\ line' \in Seq(Octet)
      BY <3>2, <3>3, RestTyped, ReadTyped
    <3>5. /\ State' = "DELIVER"
          /\ Type' = COMMAND
          /\ pPacket' = Tail(H4Reset)
          /\ PayloadLen' = 0
          /\ UNCHANGED <<DropRemaining, InvalidTypeCount>>
      BY <1>6, <3>1 DEF HciControllerH4StartupSyncProcess
    <3>6. Tail(H4Reset) = <<3, 12, 0>>
      BY DEF H4Reset
    <3>7. /\ pPacket' \in Seq(0 .. 255)
          /\ Len(pPacket') = 3
      BY <3>5, <3>6, ThreeTyped
    <3>8. HciH4HeaderLen[COMMAND] = 3 /\ COMMAND \in PacketType
      BY DEF HciH4HeaderLen, PacketType, COMMAND, ACL, SCO, EVENT, ISO
    <3>9. ParserTypeOK'
      BY <3>5, <3>7, <3>8 DEF ParserInv, ParserTypeOK, ParseState
    <3>10. ParserConsistent'
      <4>1. /\ Type' \in PacketType /\ HciH4HeaderLen[Type'] = 3
            /\ State' = "DELIVER" /\ PayloadLen' = 0
        BY <3>5, <3>8
      <4>2. Len(pPacket') = 3
        BY <3>7
      <4>3. 3 + 0 <= PacketCapacity
        BY CapacityAssumption
      <4> QED
        BY <4>1, <4>2, <4>3 DEF ParserConsistent
    <3> QED
      BY <3>4, <3>9, <3>10 DEF ParserInv
  <2> QED
    BY <1>6, <2>1, <2>2 DEF HciControllerH4StartupSyncProcess
<1>7. CASE HciIntrfTransportDropPendingSuspect
  BY <1>7, ReleaseKeeps DEF HciIntrfTransportDropPendingSuspect, HciH4ParserReleasePending
<1>8. CASE FeedChunk
  <2>1. RxChunk # <<>> /\ FeedOctet(Head(RxChunk)) /\ RxChunk' = Tail(RxChunk) /\ line' = line
    BY <1>8 DEF FeedChunk
  <2>2. Head(RxChunk) \in Octet /\ Tail(RxChunk) \in Seq(Octet)
    BY <2>1
  <2>3. Head(RxChunk) \in 0 .. 255
    BY <2>2, OctetAssumption
  <2> QED
    BY <2>1, <2>2, <2>3, FeedKeeps
<1>9. CASE ReadChunk
  <2>1. PICK n \in Readable : RxChunk' = SubSeq(line, 1, n) /\ line' = Rest(line, n)
    BY <1>9 DEF ReadChunk
  <2>2. n \in 1 .. Len(line)
    BY TransportAssumption DEF Readable
  <2> QED
    BY <1>9, <2>1, <2>2, StillKeeps, RestTyped, ReadTyped DEF ReadChunk
<1>10. CASE ReadNothing
  BY <1>10, StillKeeps DEF ReadNothing
<1>11. CASE HciIntrfPacketRxData
  BY <1>11, ReleaseKeeps DEF HciIntrfPacketRxData, HciH4ParserReleasePending
<1>12. CASE PacketAccepted
  BY <1>12, StillKeeps DEF PacketAccepted
<1>13. CASE HciIntrfTransportIdle
  <2>1. CASE HciH4ParserIsMidPacket
    BY <1>13, <2>1, ReleaseKeeps DEF HciIntrfTransportIdle, TransportClosed
  <2>2. CASE ~HciH4ParserIsMidPacket
    BY <1>13, <2>2, StillKeeps DEF HciIntrfTransportIdle
  <2> QED
    BY <2>1, <2>2
<1>14. CASE UNCHANGED vars
  BY <1>14, StillKeeps DEF vars
<1> QED
  BY <1>1, <1>2, <1>3, <1>4, <1>5, <1>6, <1>7, <1>8, <1>9, <1>10, <1>11, <1>12, <1>13, <1>14 DEF Next

(* The states of the parser imply the bound on the buffer. *)
LEMMA InvBounds == Inv => WithinBuffer
<1> SUFFICES ASSUME Inv PROVE Len(pPacket) <= PacketCapacity
  BY DEF WithinBuffer
<1>1. Len(pPacket) \in Nat
  BY DEF Inv, ParserInv, ParserTypeOK
<1> QED
  BY <1>1, HeaderLens, CapacityAssumption
  DEF Inv, ParserInv, ParserTypeOK, ParserConsistent, ParseState

(* HciH4ParserFeed never writes beyond the packet buffer it was given,     *)
(* whatever the stream announces and whatever the transport does between   *)
(* two octets: the buffer is shared with the bridge, which relies on it.   *)
THEOREM BufferSafe == Spec => []WithinBuffer
<1>1. Spec => []Inv
  BY InitInv, NextInv, PTL DEF Spec
<1> QED
  BY <1>1, InvBounds, PTL

-----------------------------------------------------------------------------
(* Joining packets: what the table of Join holds. *)

(* Induction over the naturals, as a set of counterexamples with a least   *)
(* element.                                                                *)
LEMMA LeastNatural ==
    ASSUME NEW B, B \subseteq Nat, B # {}
    PROVE  \E n \in B : \A m \in B : n <= m
<1> DEFINE R == OpToRel(<, Nat)
<1>1. PICK n \in B : \A m \in B : <<m, n>> \notin R
  BY NatLessThanWellFounded, WFMin
<1>2. ASSUME NEW m \in B PROVE n <= m
  <2>1. m \in Nat /\ n \in Nat
    OBVIOUS
  <2>2. <<m, n>> \in R <=> m < n
    BY <2>1 DEF OpToRel
  <2> HIDE DEF R
  <2> QED
    BY <1>1, <2>1, <2>2
<1> QED
  BY <1>2

(* A table of the first n joins. *)
Joins(s, n, f) == f = [i \in 0 .. n |-> IF i = 0 THEN <<>> ELSE f[i - 1] \o s[i]]

LEMMA JoinsExist ==
    ASSUME NEW s, NEW n \in Nat
    PROVE  \E f : Joins(s, n, f)
<1> DEFINE B == {m \in Nat : ~ \E f : Joins(s, m, f)}
<1> SUFFICES ASSUME B # {} PROVE FALSE
  OBVIOUS
<1>1. PICK m \in B : \A k \in B : m <= k
  <2>1. B \subseteq Nat
    OBVIOUS
  <2> HIDE DEF B
  <2> QED
    BY <2>1, LeastNatural
<1>2. m # 0
  <2>1. Joins(s, 0, [i \in 0 .. 0 |-> <<>>])
    BY DEF Joins
  <2> QED
    BY <2>1
<1>3. m - 1 \in Nat /\ m - 1 \notin B
  BY <1>1, <1>2
<1>4. PICK f : Joins(s, m - 1, f)
  BY <1>3
<1> DEFINE g == [i \in 0 .. m |-> IF i < m THEN f[i] ELSE f[m - 1] \o s[m]]
           h == [i \in 0 .. m |-> IF i = 0 THEN <<>> ELSE g[i - 1] \o s[i]]
<1>5. ASSUME NEW i \in 0 .. m PROVE g[i] = h[i]
  <2>1. \A j \in 0 .. m - 1 : f[j] = IF j = 0 THEN <<>> ELSE f[j - 1] \o s[j]
    <3>1. PICK k \in Nat : k = m - 1
      BY <1>3
    <3> QED
      BY <1>4, <3>1 DEF Joins
  <2>2. i # 0 => i - 1 \in 0 .. m /\ i - 1 < m /\ i - 1 \in 0 .. m - 1
    BY <1>3
  <2>3. i < m => i \in 0 .. m - 1
    BY <1>3
  <2> QED
    BY <2>1, <2>2, <2>3, <1>2
<1>6. g = h
  BY <1>5
<1>7. Joins(s, m, g)
  <2>1. Joins(s, m, g) <=> g = h
    BY DEF Joins
  <2> QED
    BY <1>6, <2>1
<1> QED
  BY <1>7

LEMMA JoinsIs ==
    ASSUME NEW s, NEW n \in Nat, NEW f, Joins(s, n, f)
    PROVE  f[0] = <<>> /\ \A i \in 1 .. n : f[i] = f[i - 1] \o s[i]
<1>1. \A i \in 0 .. n : f[i] = IF i = 0 THEN <<>> ELSE f[i - 1] \o s[i]
  BY DEF Joins
<1>2. 0 \in 0 .. n /\ \A i \in 1 .. n : i \in 0 .. n /\ i # 0
  OBVIOUS
<1> QED
  BY <1>1, <1>2

(* The table Join looks into. *)
LEMMA JoinTable ==
    ASSUME NEW S, NEW s \in Seq(Seq(S))
    PROVE  \E f : /\ Join(s) = f[Len(s)] /\ f[0] = <<>>
                  /\ \A i \in 1 .. Len(s) : f[i] = f[i - 1] \o s[i] /\ f[i - 1] \in Seq(S) /\ f[i] \in Seq(S)
<1> DEFINE f == CHOOSE g : Joins(s, Len(s), g)
<1>1. Len(s) \in Nat
  OBVIOUS
<1>2. Joins(s, Len(s), f)
  BY <1>1, JoinsExist
<1>3. Join(s) = f[Len(s)]
  BY DEF Join, Joins
<1> HIDE DEF f
<1>4. f[0] = <<>> /\ \A i \in 1 .. Len(s) : f[i] = f[i - 1] \o s[i]
  BY <1>1, <1>2, JoinsIs
<1>5. \A i \in 0 .. Len(s) : f[i] \in Seq(S)
  <2> DEFINE B == {i \in 0 .. Len(s) : f[i] \notin Seq(S)}
  <2> SUFFICES ASSUME B # {} PROVE FALSE
    OBVIOUS
  <2>1. PICK m \in B : \A k \in B : m <= k
    <3>1. B \subseteq Nat
      BY <1>1
    <3> HIDE DEF B
    <3> QED
      BY <3>1, LeastNatural
  <2>2. m # 0
    <3>1. f[0] \in Seq(S)
      BY <1>4
    <3> QED
      BY <3>1
  <2>3. m \in 1 .. Len(s) /\ m - 1 \in 0 .. Len(s) /\ m - 1 \notin B
    <3>1. m \in 0 .. Len(s)
      OBVIOUS
    <3>2. m \in 1 .. Len(s) /\ m - 1 \in 0 .. Len(s) /\ ~(m <= m - 1)
      BY <1>1, <2>2, <3>1
    <3> HIDE DEF B
    <3> QED
      BY <2>1, <3>2
  <2>4. f[m - 1] \in Seq(S) /\ s[m] \in Seq(S)
    <3>1. s[m] \in Seq(S)
      BY <2>3, ElementOfSeq
    <3> QED
      BY <2>3, <3>1
  <2>5. f[m] = f[m - 1] \o s[m]
    BY <1>4, <2>3
  <2>6. f[m] \in Seq(S)
    BY <2>4, <2>5, ConcatProperties
  <2> QED
    BY <2>6
<1>6. \A i \in 1 .. Len(s) : i - 1 \in 0 .. Len(s) /\ i \in 0 .. Len(s)
  BY <1>1
<1>7. \A i \in 1 .. Len(s) : f[i] = f[i - 1] \o s[i] /\ f[i - 1] \in Seq(S) /\ f[i] \in Seq(S)
  BY <1>4, <1>5, <1>6
<1> QED
  BY <1>3, <1>4, <1>7
(* Joining no packets. *)
LEMMA JoinNone == Join(<<>>) = <<>>
<1>1. <<>> \in Seq(Seq(Octet)) /\ Len(<<>>) = 0
  OBVIOUS
<1> DEFINE e == <<>>
<1>2. e \in Seq(Seq(Octet)) /\ Len(e) = 0
  BY <1>1
<1> HIDE DEF e
<1>3. PICK f : Join(e) = f[Len(e)] /\ f[0] = <<>>
  BY <1>2, JoinTable
<1> QED
  BY <1>2, <1>3 DEF e

LEMMA JoinTyped ==
    ASSUME NEW S, NEW s \in Seq(Seq(S))
    PROVE  Join(s) \in Seq(S)
<1>1. PICK f : /\ Join(s) = f[Len(s)] /\ f[0] = <<>>
               /\ \A i \in 1 .. Len(s) : f[i] = f[i - 1] \o s[i] /\ f[i - 1] \in Seq(S) /\ f[i] \in Seq(S)
  BY JoinTable
<1>2. Len(s) \in Nat
  OBVIOUS
<1>3. CASE Len(s) = 0
  <2>1. <<>> \in Seq(S)
    OBVIOUS
  <2> QED
    BY ONLY <1>1, <1>3, <2>1, Zenon
<1>4. CASE Len(s) # 0
  <2>1. Len(s) \in 1 .. Len(s)
    BY <1>2, <1>4
  <2> QED
    BY <1>1, <2>1
<1> QED
  BY <1>3, <1>4

(* One packet more. *)
LEMMA JoinAppend ==
    ASSUME NEW S, NEW s \in Seq(Seq(S)), NEW p \in Seq(S)
    PROVE  Join(Append(s, p)) = Join(s) \o p
<1> DEFINE a == Append(s, p)
           l == Len(s)
<1>1. /\ a \in Seq(Seq(S)) /\ l \in Nat /\ Len(a) = l + 1 /\ a[l + 1] = p
      /\ \A i \in 1 .. l : a[i] = s[i]
  OBVIOUS
<1> HIDE DEF a
<1>2. PICK f : /\ Join(s) = f[l] /\ f[0] = <<>>
               /\ \A i \in 1 .. l : f[i] = f[i - 1] \o s[i] /\ f[i - 1] \in Seq(S) /\ f[i] \in Seq(S)
  BY JoinTable
<1>3. PICK g : /\ Join(a) = g[Len(a)] /\ g[0] = <<>>
               /\ \A i \in 1 .. Len(a) : g[i] = g[i - 1] \o a[i] /\ g[i - 1] \in Seq(S) /\ g[i] \in Seq(S)
  BY <1>1, JoinTable
<1> HIDE DEF l
<1>4. \A i \in 0 .. l : f[i] = g[i]
  <2> DEFINE B == {i \in 0 .. l : f[i] # g[i]}
  <2> SUFFICES ASSUME B # {} PROVE FALSE
    OBVIOUS
  <2>1. PICK m \in B : \A k \in B : m <= k
    <3>1. B \subseteq Nat
      BY <1>1
    <3> HIDE DEF B
    <3> QED
      BY <3>1, LeastNatural
  <2>2. m # 0
    BY <1>2, <1>3
  <2>3. m \in 1 .. l /\ m - 1 \in 0 .. l /\ m - 1 \notin B /\ m \in 1 .. l + 1
    <3>1. m \in 0 .. l
      OBVIOUS
    <3>2. m \in 1 .. l /\ m - 1 \in 0 .. l /\ ~(m <= m - 1) /\ m \in 1 .. l + 1
      BY <1>1, <2>2, <3>1
    <3> HIDE DEF B
    <3> QED
      BY <2>1, <3>2
  <2>4. f[m - 1] = g[m - 1]
    BY <2>3
  <2>5. f[m] = f[m - 1] \o s[m] /\ g[m] = g[m - 1] \o a[m] /\ a[m] = s[m]
    BY <1>1, <1>2, <1>3, <2>3
  <2>6. f[m] = g[m]
    BY <2>4, <2>5
  <2> QED
    BY <2>6
<1>5. l + 1 \in 1 .. l + 1 /\ (l + 1) - 1 = l /\ l \in 0 .. l
  BY <1>1
<1>6. g[l + 1] = g[l] \o p
  BY <1>1, <1>3, <1>5
<1> QED
  BY <1>1, <1>2, <1>3, <1>4, <1>5, <1>6 DEF a

(* The first packet comes first. *)
LEMMA JoinFirst ==
    ASSUME NEW S, NEW s \in Seq(Seq(S)), s # <<>>
    PROVE  Join(s) = s[1] \o Join(Tail(s)) /\ s[1] \in Seq(S) /\ Join(Tail(s)) \in Seq(S)
<1> DEFINE t == Tail(s)
           l == Len(t)
<1>1. /\ t \in Seq(Seq(S)) /\ l \in Nat /\ Len(s) = l + 1 /\ s[1] \in Seq(S)
      /\ \A i \in 1 .. l : t[i] = s[i + 1]
  <2>1. /\ t \in Seq(Seq(S)) /\ l \in Nat /\ Len(s) = l + 1
        /\ \A i \in 1 .. l : t[i] = s[i + 1]
    OBVIOUS
  <2>2. 1 \in 1 .. Len(s)
    BY <2>1
  <2> QED
    BY <2>1, <2>2, ElementOfSeq
<1>0. Join(t) \in Seq(S)
  BY <1>1, JoinTyped
<1> HIDE DEF t
<1>2. PICK f : /\ Join(s) = f[Len(s)] /\ f[0] = <<>>
               /\ \A i \in 1 .. Len(s) : f[i] = f[i - 1] \o s[i] /\ f[i - 1] \in Seq(S) /\ f[i] \in Seq(S)
  BY JoinTable
<1>3. PICK g : /\ Join(t) = g[l] /\ g[0] = <<>>
               /\ \A i \in 1 .. l : g[i] = g[i - 1] \o t[i] /\ g[i - 1] \in Seq(S) /\ g[i] \in Seq(S)
  BY <1>1, JoinTable
<1> HIDE DEF l
<1>4. \A i \in 0 .. l : f[i + 1] = s[1] \o g[i]
  <2> DEFINE B == {i \in 0 .. l : f[i + 1] # s[1] \o g[i]}
  <2> SUFFICES ASSUME B # {} PROVE FALSE
    OBVIOUS
  <2>1. PICK m \in B : \A k \in B : m <= k
    <3>0. 0 .. l \subseteq Nat
      BY <1>1
    <3>1. B \subseteq Nat
      BY ONLY <3>0, Zenon
    <3> HIDE DEF B
    <3> QED
      BY <3>1, LeastNatural
  <2>2. m # 0
    <3>1. 1 \in 1 .. Len(s) /\ 1 - 1 = 0
      BY <1>1
    <3>2. f[1] = <<>> \o s[1]
      BY <1>2, <3>1
    <3>3. f[1] = s[1] \o <<>>
      BY <1>1, <3>2, ConcatEmptySeq
    <3>4. f[0 + 1] = s[1] \o g[0]
      BY <1>3, <3>3
    <3> QED
      BY <3>4
  <2>3. m \in 1 .. l /\ m - 1 \in 0 .. l /\ m - 1 \notin B /\ m + 1 \in 1 .. Len(s) /\ (m + 1) - 1 = m
        /\ (m - 1) + 1 = m
    <3>1. m \in 0 .. l
      OBVIOUS
    <3>2. m \in 1 .. l /\ m - 1 \in 0 .. l /\ ~(m <= m - 1) /\ m + 1 \in 1 .. Len(s) /\ (m + 1) - 1 = m
          /\ (m - 1) + 1 = m
      BY <1>1, <2>2, <3>1
    <3> HIDE DEF B
    <3> QED
      BY <2>1, <3>2
  <2>4. f[m] = s[1] \o g[m - 1]
    BY <2>3
  <2>5. /\ f[m + 1] = f[m] \o s[m + 1] /\ g[m] = g[m - 1] \o t[m] /\ t[m] = s[m + 1]
        /\ g[m - 1] \in Seq(S)
    BY <1>1, <1>2, <1>3, <2>3
  <2>6. s[m + 1] \in Seq(S)
    BY <2>3, ElementOfSeq
  <2>7. (s[1] \o g[m - 1]) \o s[m + 1] = s[1] \o (g[m - 1] \o s[m + 1])
    <3>1. PICK x \in Seq(S), y \in Seq(S), z \in Seq(S) : x = s[1] /\ y = g[m - 1] /\ z = s[m + 1]
      BY <1>1, <2>5, <2>6
    <3>2. (x \o y) \o z = x \o (y \o z)
      BY ONLY x \in Seq(S), y \in Seq(S), z \in Seq(S), ConcatAssociative, SMTT(60)
    <3> QED
      BY ONLY <3>1, <3>2, Zenon
  <2>8. f[m + 1] = s[1] \o g[m]
    BY <2>4, <2>5, <2>7
  <2> QED
    BY <2>8
<1>5. l \in 0 .. l
  BY <1>1
<1> QED
  BY <1>0, <1>1, <1>2, <1>3, <1>4, <1>5 DEF t

-----------------------------------------------------------------------------
(* Concatenation. *)

(* Two sequences are equal when they are of one length and agree. *)
LEMMA SameSeq ==
    ASSUME NEW S, NEW s \in Seq(S), NEW t \in Seq(S), Len(s) = Len(t),
           \A i \in 1 .. Len(s) : s[i] = t[i]
    PROVE  s = t
  OBVIOUS

LEMMA RestIs ==
    ASSUME NEW S, NEW s \in Seq(S), NEW n \in 0 .. Len(s)
    PROVE  /\ Rest(s, n) \in Seq(S) /\ Len(Rest(s, n)) = Len(s) - n
           /\ \A i \in 1 .. Len(s) - n : Rest(s, n)[i] = s[n + i]
  BY DEF Rest

LEMMA ConcatIs ==
    ASSUME NEW S, NEW s \in Seq(S), NEW t \in Seq(S)
    PROVE  /\ s \o t \in Seq(S) /\ Len(s \o t) = Len(s) + Len(t) /\ Len(s) \in Nat /\ Len(t) \in Nat
           /\ \A i \in 1 .. Len(s) : (s \o t)[i] = s[i] /\ i \in 1 .. Len(s) + Len(t)
           /\ \A i \in 1 .. Len(t) : (s \o t)[Len(s) + i] = t[i] /\ Len(s) + i \in 1 .. Len(s) + Len(t)
  OBVIOUS

LEMMA RestNone ==
    ASSUME NEW S, NEW s \in Seq(S)
    PROVE  Rest(s, 0) = s
<1>1. 0 \in 0 .. Len(s) /\ Len(s) - 0 = Len(s) /\ \A i \in 1 .. Len(s) : 0 + i = i
  OBVIOUS
<1> QED
  BY <1>1, RestIs, SameSeq

(* More at the end. *)
LEMMA RestConcat ==
    ASSUME NEW S, NEW s \in Seq(S), NEW p \in Seq(S), NEW n \in 0 .. Len(s)
    PROVE  Rest(s \o p, n) = Rest(s, n) \o p
<1> DEFINE a == s \o p
           u == Rest(a, n)
           v == Rest(s, n)
           w == v \o p
<1>1. /\ a \in Seq(S) /\ Len(a) = Len(s) + Len(p) /\ Len(s) \in Nat /\ Len(p) \in Nat
      /\ \A i \in 1 .. Len(s) : a[i] = s[i]
      /\ \A i \in 1 .. Len(p) : a[Len(s) + i] = p[i]
  BY ConcatIs
<1>2. n \in 0 .. Len(a)
  BY <1>1
<1> HIDE DEF a
<1>3. u \in Seq(S) /\ Len(u) = Len(a) - n /\ \A i \in 1 .. Len(a) - n : u[i] = a[n + i]
  BY <1>1, <1>2, RestIs
<1>4. v \in Seq(S) /\ Len(v) = Len(s) - n /\ \A i \in 1 .. Len(s) - n : v[i] = s[n + i]
  BY RestIs
<1> HIDE DEF u, v
<1>5. /\ w \in Seq(S) /\ Len(w) = Len(v) + Len(p)
      /\ \A i \in 1 .. Len(v) : w[i] = v[i]
      /\ \A i \in 1 .. Len(p) : w[Len(v) + i] = p[i]
  <2>1. v \in Seq(S)
    BY <1>4
  <2> QED
    BY <2>1, ConcatIs
<1> HIDE DEF w
<1>6. Len(u) = Len(w)
  BY <1>1, <1>3, <1>4, <1>5
<1>7. ASSUME NEW i \in 1 .. Len(u) PROVE u[i] = w[i]
  <2>1. u[i] = a[n + i]
    BY <1>3
  <2>2. CASE i <= Len(s) - n
    <3>1. i \in 1 .. Len(s) - n /\ n + i \in 1 .. Len(s) /\ i \in 1 .. Len(v)
      BY <1>1, <1>4, <2>2
    <3> QED
      BY <1>1, <1>4, <1>5, <2>1, <3>1
  <2>3. CASE ~(i <= Len(s) - n)
    <3> DEFINE j == (n + i) - Len(s)
    <3>1. j \in 1 .. Len(p) /\ n + i = Len(s) + j /\ i = Len(v) + j
      BY <1>1, <1>3, <1>4, <2>3
    <3> HIDE DEF j
    <3> QED
      BY <1>1, <1>5, <2>1, <3>1
  <2> QED
    BY <2>2, <2>3
<1>8. u = w
  BY <1>3, <1>5, <1>6, <1>7, SameSeq
<1> QED
  BY <1>8 DEF u, v, w, a

(* One octet from the front of a chunk. *)
LEMMA RestTail ==
    ASSUME NEW S, NEW c \in Seq(S), NEW l \in Seq(S), c # <<>>, NEW n \in Nat, n >= 1, n <= Len(c) + Len(l)
    PROVE  Rest(c \o l, n) = Rest(Tail(c) \o l, n - 1)
<1> DEFINE a == c \o l
           b == Tail(c) \o l
           u == Rest(a, n)
           v == Rest(b, n - 1)
<1>0. /\ Tail(c) \in Seq(S) /\ Len(Tail(c)) = Len(c) - 1 /\ Len(c) \in Nat /\ Len(c) >= 1 /\ Len(l) \in Nat
      /\ \A i \in 1 .. Len(c) - 1 : Tail(c)[i] = c[i + 1]
  OBVIOUS
<1>1. /\ a \in Seq(S) /\ Len(a) = Len(c) + Len(l)
      /\ \A i \in 1 .. Len(c) : a[i] = c[i]
      /\ \A i \in 1 .. Len(l) : a[Len(c) + i] = l[i]
  BY ConcatIs
<1>2. /\ b \in Seq(S) /\ Len(b) = Len(Tail(c)) + Len(l)
      /\ \A i \in 1 .. Len(Tail(c)) : b[i] = Tail(c)[i]
      /\ \A i \in 1 .. Len(l) : b[Len(Tail(c)) + i] = l[i]
  BY <1>0, ConcatIs
<1> HIDE DEF a, b
<1>3. n \in 0 .. Len(a) /\ n - 1 \in 0 .. Len(b) /\ Len(b) - (n - 1) = Len(a) - n
  BY <1>0, <1>1, <1>2
<1>4. u \in Seq(S) /\ Len(u) = Len(a) - n /\ \A i \in 1 .. Len(a) - n : u[i] = a[n + i]
  BY <1>1, <1>3, RestIs
<1>5. v \in Seq(S) /\ Len(v) = Len(a) - n /\ \A i \in 1 .. Len(a) - n : v[i] = b[(n - 1) + i]
  BY <1>2, <1>3, RestIs
<1> HIDE DEF u, v
<1>6. ASSUME NEW i \in 1 .. Len(u) PROVE u[i] = v[i]
  <2>1. u[i] = a[n + i] /\ v[i] = b[(n - 1) + i]
    BY <1>4, <1>5
  <2>2. CASE n + i <= Len(c)
    <3>1. n + i \in 1 .. Len(c) /\ (n - 1) + i \in 1 .. Len(c) - 1 /\ ((n - 1) + i) + 1 = n + i
      BY <1>0, <2>2
    <3> QED
      BY <1>0, <1>1, <1>2, <2>1, <3>1
  <2>3. CASE ~(n + i <= Len(c))
    <3> DEFINE j == (n + i) - Len(c)
    <3>1. j \in 1 .. Len(l) /\ n + i = Len(c) + j /\ (n - 1) + i = Len(Tail(c)) + j
      BY <1>0, <1>1, <1>4, <2>3
    <3> HIDE DEF j
    <3> QED
      BY <1>1, <1>2, <2>1, <3>1
  <2> QED
    BY <2>2, <2>3
<1>7. u = v
  BY <1>4, <1>5, <1>6, SameSeq
<1> QED
  BY <1>7 DEF u, v, a, b

(* One octet goes over. *)
LEMMA Taking ==
    ASSUME NEW S, NEW x \in Seq(S), NEW c \in Seq(S), NEW l \in Seq(S), c # <<>>
    PROVE  Append(x, Head(c)) \o (Tail(c) \o l) = x \o (c \o l)
<1> DEFINE h == <<Head(c)>>
           t == Tail(c)
<1>1. Head(c) \in S /\ h \in Seq(S) /\ t \in Seq(S)
  OBVIOUS
<1>2. h \o t = c
  <2>1. /\ Len(h) = 1 /\ h[1] = c[1] /\ Len(t) = Len(c) - 1 /\ Len(c) \in Nat /\ Len(c) >= 1
        /\ \A i \in 1 .. Len(c) - 1 : t[i] = c[i + 1]
    OBVIOUS
  <2> HIDE DEF h, t
  <2> DEFINE a == h \o t
  <2>2. /\ a \in Seq(S) /\ Len(a) = 1 + Len(t) /\ a[1] = h[1]
        /\ \A i \in 1 .. Len(t) : a[1 + i] = t[i]
    <3>1. 1 \in 1 .. Len(h)
      BY <2>1
    <3> QED
      <4>1. h \in Seq(S) /\ t \in Seq(S)
        BY <1>1
      <4>2. /\ a \in Seq(S) /\ Len(a) = Len(h) + Len(t) /\ \A i \in 1 .. Len(h) : a[i] = h[i]
            /\ \A i \in 1 .. Len(t) : a[Len(h) + i] = t[i]
        BY ONLY <4>1, ConcatIs
      <4> HIDE DEF a
      <4> QED
        BY <2>1, <3>1, <4>2
  <2> HIDE DEF a
  <2>3. ASSUME NEW i \in 1 .. Len(a) PROVE a[i] = c[i]
    <3>1. CASE i = 1
      BY <2>1, <2>2, <3>1
    <3>2. CASE i # 1
      <4>1. i - 1 \in 1 .. Len(t) /\ i - 1 \in 1 .. Len(c) - 1 /\ 1 + (i - 1) = i /\ (i - 1) + 1 = i
        BY <2>1, <2>2, <3>2
      <4> QED
        BY <2>1, <2>2, <4>1
    <3> QED
      BY <3>1, <3>2
  <2>4. Len(a) = Len(c)
    BY <2>1, <2>2
  <2> QED
    BY <2>2, <2>3, <2>4, SameSeq DEF a
<1>3. Append(x, Head(c)) = x \o h
  BY <1>1, AppendIsConcat
<1> HIDE DEF h, t
<1>4. t \o l \in Seq(S)
  BY <1>1, ConcatIs
<1>5. (x \o h) \o (t \o l) = x \o (h \o (t \o l))
  <2>1. PICK m \in Seq(S) : m = t \o l
    BY <1>4
  <2>2. (x \o h) \o m = x \o (h \o m)
    <3>1. h \in Seq(S)
      BY <1>1
    <3> QED
      BY ONLY <3>1, x \in Seq(S), m \in Seq(S), ConcatAssociative, SMTT(30)
  <2> QED
    BY ONLY <2>1, <2>2, Zenon
<1>6. (h \o t) \o l = h \o (t \o l)
  BY <1>1, ConcatAssociative
<1>7. Append(x, Head(c)) \o (t \o l) = x \o (c \o l)
  BY ONLY <1>2, <1>3, <1>5, <1>6, Zenon
<1> QED
  BY <1>7 DEF t

(* What a read takes off the line is what comes first. *)
LEMMA Cut ==
    ASSUME NEW S, NEW l \in Seq(S), NEW n \in 1 .. Len(l)
    PROVE  /\ SubSeq(l, 1, n) \o Rest(l, n) = l
           /\ SubSeq(l, 2, n) \o Rest(l, n) = Rest(l, 1)
           /\ Rest(l, 1) = Tail(l)
<1>1. Len(l) \in Nat /\ n \in Nat
  OBVIOUS
<1>2. SubSeq(l, 1, n) \o SubSeq(l, n + 1, Len(l)) = SubSeq(l, 1, Len(l))
  <2>1. 1 \in 1 .. Len(l) + 1 /\ n \in 1 - 1 .. Len(l) /\ Len(l) \in n .. Len(l)
    BY <1>1
  <2> QED
    BY <2>1, ConcatAdjacentSubSeq
<1>3. SubSeq(l, 2, n) \o SubSeq(l, n + 1, Len(l)) = SubSeq(l, 2, Len(l))
  <2>1. 2 \in 1 .. Len(l) + 1 /\ n \in 2 - 1 .. Len(l) /\ Len(l) \in n .. Len(l)
    BY <1>1
  <2> QED
    BY <2>1, ConcatAdjacentSubSeq
<1>4. SubSeq(l, 1, Len(l)) = l
  OBVIOUS
<1>5. SubSeq(l, 2, Len(l)) = Tail(l) /\ 1 + 1 = 2
  OBVIOUS
<1>6. SubSeq(l, 1, n) \o Rest(l, n) = l
  BY <1>2, <1>4 DEF Rest
<1>7. Rest(l, 1) = SubSeq(l, 2, Len(l))
  BY <1>5 DEF Rest
<1>8. SubSeq(l, 2, n) \o Rest(l, n) = SubSeq(l, 2, Len(l))
  BY <1>3 DEF Rest
<1> QED
  BY <1>5, <1>6, <1>7, <1>8

(* Two ways to cut one sequence. *)
LEMMA TwoCuts ==
    ASSUME NEW S, NEW x \in Seq(S), NEW y \in Seq(S), NEW p \in Seq(S), NEW q \in Seq(S),
           x \o y = p \o q
    PROVE  /\ \A i \in 1 .. Len(x) : i <= Len(p) => x[i] = p[i]
           /\ Len(x) <= Len(p) => Len(p) - Len(x) \in 0 .. Len(y) /\ Rest(y, Len(p) - Len(x)) = q
<1> DEFINE a == x \o y
<1>1. /\ a \in Seq(S) /\ Len(a) = Len(x) + Len(y) /\ Len(x) \in Nat /\ Len(y) \in Nat
      /\ \A i \in 1 .. Len(x) : a[i] = x[i]
      /\ \A i \in 1 .. Len(y) : a[Len(x) + i] = y[i]
  BY ONLY x \in Seq(S), y \in Seq(S), ConcatIs, SMTT(60)
<1>2. /\ Len(a) = Len(p) + Len(q) /\ Len(p) \in Nat /\ Len(q) \in Nat
      /\ \A i \in 1 .. Len(p) : a[i] = p[i]
      /\ \A i \in 1 .. Len(q) : a[Len(p) + i] = q[i]
  <2> DEFINE b == p \o q
  <2>1. /\ Len(b) = Len(p) + Len(q) /\ Len(p) \in Nat /\ Len(q) \in Nat
        /\ \A i \in 1 .. Len(p) : b[i] = p[i]
        /\ \A i \in 1 .. Len(q) : b[Len(p) + i] = q[i]
    BY ConcatIs
  <2>2. a = b
    OBVIOUS
  <2> HIDE DEF a, b
  <2> QED
    BY <2>1, <2>2
<1> HIDE DEF a
<1>3. \A i \in 1 .. Len(x) : i <= Len(p) => x[i] = p[i]
  BY <1>1, <1>2
<1>4. ASSUME Len(x) <= Len(p)
      PROVE  Len(p) - Len(x) \in 0 .. Len(y) /\ Rest(y, Len(p) - Len(x)) = q
  <2> DEFINE d == Len(p) - Len(x)
             u == Rest(y, d)
  <2>1. d \in 0 .. Len(y) /\ Len(y) - d = Len(q)
    BY <1>1, <1>2, <1>4
  <2>2. u \in Seq(S) /\ Len(u) = Len(q) /\ \A i \in 1 .. Len(q) : u[i] = y[d + i]
    <3> HIDE DEF d
    <3> QED
      BY <2>1, RestIs
  <2> HIDE DEF u
  <2>3. ASSUME NEW i \in 1 .. Len(u) PROVE u[i] = q[i]
    <3>1. d + i \in 1 .. Len(y) /\ Len(x) + (d + i) = Len(p) + i /\ i \in 1 .. Len(q)
      BY <1>1, <1>2, <2>1, <2>2
    <3> HIDE DEF d
    <3> QED
      BY <1>1, <1>2, <2>2, <3>1
  <2>4. u = q
    BY <2>2, <2>3, SameSeq
  <2> QED
    BY <2>1, <2>4 DEF u
<1> QED
  BY <1>3, <1>4

-----------------------------------------------------------------------------
(* The inductive invariant behind FramesInStep. *)

TypeOK == /\ ParserInv
          /\ RxChunk \in Seq(Octet) /\ line \in Seq(Octet) /\ expect \in Seq(HostPacket)
          /\ step \in {"IN", "AFTER", "OUT"} /\ H4StartupResetMatch \in 0 .. 3
          /\ {RejectedMark, sent} \subseteq Nat

(* What the parser knows of the packet it is in. *)
HeaderTells ==
    /\ State # "DROP" => DropRemaining = 0
    /\ State \in {"PAYLOAD", "DELIVER"} => PayloadLen = HciH4PayloadLen(Type, pPacket)

(* A closed port has taken nothing but what the scan matched. *)
Closed == /\ H4StartupResetSyncActive =>
                H4StartupResetSync /\ ~Open /\ State = "TYPE" /\ RxChunk = <<>>
          /\ ~H4StartupResetSyncActive => H4StartupResetMatch = 0
          /\ step # "OUT" /\ ~Open => State = "TYPE" /\ RxChunk = <<>>

(* The host behind a UART that scans starts with a Reset. *)
ResetFirst ==
    H4StartupResetSync /\ ~Open /\ step # "OUT" =>
        IF expect = <<>> THEN sent = 0 ELSE expect[1] = H4Reset

Matched == SubSeq(H4Reset, 1, H4StartupResetMatch)

(* Before the Reset there is boot text, which the scan is in until it has  *)
(* come to the Reset.                                                      *)
BootText ==
    H4StartupResetSync /\ ~Open /\ step = "AFTER" =>
        \/ /\ \A i \in 1 .. H4StartupResetMatch : H4Reset[i] \in Garbage
           /\ \E k \in 0 .. Len(line) : /\ \A i \in 1 .. k : line[i] \in Garbage
                                        /\ Rest(line, k) = Flat
        \/ Matched \o line = Flat /\ expect # <<>>

FrameInv ==
    /\ TypeOK /\ HeaderTells /\ Closed /\ ResetFirst /\ BootText /\ FramesInStep
    /\ step = "IN" => DropRemaining <= Len(RxChunk) + Len(line)
    /\ step = "AFTER" => ~HciIntrfTransportSuspect

-----------------------------------------------------------------------------
(* The stream as octets. *)

Byte == 0 .. 255

LEMMA SeqWider ==
    ASSUME NEW S, NEW T, S \subseteq T, NEW s \in Seq(S)
    PROVE  s \in Seq(T)
  OBVIOUS

(* Only the octets of the header tell the length. *)
LEMMA HeaderEnough ==
    ASSUME NEW t \in PacketType, NEW h, NEW k, \A i \in 1 .. HciH4HeaderLen[t] : h[i] = k[i]
    PROVE  HciH4PayloadLen(t, h) = HciH4PayloadLen(t, k)
<1>0. /\ t = EVENT => HciH4HeaderLen[t] = 2
      /\ t \in {COMMAND, SCO} => HciH4HeaderLen[t] = 3
      /\ t \in {ACL, ISO} => HciH4HeaderLen[t] = 4
  BY DEF HciH4HeaderLen, PacketType, COMMAND, ACL, SCO, EVENT, ISO
<1>1. CASE t = EVENT
  <2>1. h[2] = k[2]
    BY <1>0, <1>1
  <2> QED
    BY <1>1, <2>1 DEF HciH4PayloadLen
<1>2. CASE t \in {COMMAND, SCO}
  <2>1. h[3] = k[3]
    BY <1>0, <1>2
  <2> QED
    BY <1>2, <2>1 DEF HciH4PayloadLen, COMMAND, SCO, EVENT
<1>3. CASE t \in {ACL, ISO}
  <2>1. h[3] = k[3] /\ h[4] = k[4]
    BY <1>0, <1>3
  <2>2. ReadLe16(h) = ReadLe16(k)
    BY <2>1 DEF ReadLe16
  <2> QED
    BY <1>3, <2>2 DEF HciH4PayloadLen, COMMAND, ACL, SCO, EVENT, ISO
<1> QED
  BY <1>1, <1>2, <1>3 DEF PacketType, COMMAND, ACL, SCO, EVENT, ISO

LEMMA ResetIs ==
    /\ H4Reset \in Seq(Byte) /\ Len(H4Reset) = 4
    /\ H4Reset[1] = 1 /\ H4Reset[2] = 3 /\ H4Reset[3] = 12 /\ H4Reset[4] = 0
    /\ Tail(H4Reset) = <<3, 12, 0>> /\ <<COMMAND>> \o Tail(H4Reset) = H4Reset
<1>1. /\ H4Reset \in Seq(Byte) /\ Len(H4Reset) = 4
      /\ H4Reset[1] = 1 /\ H4Reset[2] = 3 /\ H4Reset[3] = 12 /\ H4Reset[4] = 0
  BY DEF H4Reset, Byte, COMMAND
<1>2. Tail(H4Reset) = <<3, 12, 0>>
  BY DEF H4Reset
<1>3. <<1>> \o <<3, 12, 0>> = H4Reset
  <2> DEFINE u == <<1>>
             v == <<3, 12, 0>>
             a == u \o v
  <2>1. /\ u \in Seq(Byte) /\ v \in Seq(Byte) /\ Len(u) = 1 /\ Len(v) = 3
        /\ u[1] = 1 /\ v[1] = 3 /\ v[2] = 12 /\ v[3] = 0
    BY DEF Byte
  <2> HIDE DEF u, v
  <2>2. /\ a \in Seq(Byte) /\ Len(a) = Len(u) + Len(v)
        /\ \A i \in 1 .. Len(u) : a[i] = u[i]
        /\ \A i \in 1 .. Len(v) : a[Len(u) + i] = v[i]
    <3>1. u \in Seq(Byte) /\ v \in Seq(Byte)
      BY <2>1
    <3> QED
      BY ONLY <3>1, ConcatIs
  <2> HIDE DEF a
  <2>3. a[1] = 1 /\ a[1 + 1] = 3 /\ a[1 + 2] = 12 /\ a[1 + 3] = 0 /\ Len(a) = 4
    BY <2>1, <2>2
  <2>4. \A i \in 1 .. Len(a) : a[i] = H4Reset[i]
    BY <1>1, <2>3
  <2>5. a = H4Reset
    BY <1>1, <2>2, <2>3, <2>4, SameSeq
  <2> QED
    BY <2>5 DEF a, u, v
<1> QED
  BY <1>1, <1>2, <1>3 DEF COMMAND

LEMMA MatchedIs ==
    ASSUME NEW m \in 0 .. 4
    PROVE  /\ SubSeq(H4Reset, 1, m) \in Seq(Byte) /\ Len(SubSeq(H4Reset, 1, m)) = m
           /\ \A i \in 1 .. m : SubSeq(H4Reset, 1, m)[i] = H4Reset[i]
<1>1. H4Reset \in Seq(Byte) /\ Len(H4Reset) = 4
  BY ResetIs
<1>2. PICK s \in Seq(Byte) : s = H4Reset /\ Len(s) = 4
  BY <1>1
<1>3. /\ SubSeq(s, 1, m) \in Seq(Byte) /\ Len(SubSeq(s, 1, m)) = m
      /\ \A i \in 1 .. m : SubSeq(s, 1, m)[i] = s[i]
  BY <1>2
<1> QED
  BY ONLY <1>2, <1>3, Zenon

(* What is on its way, and what it is to be. *)
LEMMA StreamTyped ==
    ASSUME TypeOK
    PROVE  RxChunk \in Seq(Byte) /\ line \in Seq(Byte) /\ Taken \in Seq(Byte)
<1>1. RxChunk \in Seq(Byte) /\ line \in Seq(Byte)
  <2>1. RxChunk \in Seq(Octet) /\ line \in Seq(Octet) /\ Octet \subseteq Byte
    BY OctetAssumption DEF TypeOK, Byte
  <2> QED
    BY <2>1, SeqWider
<1>2. Taken \in Seq(Byte)
  <2>1. CASE H4StartupResetSyncActive
    <3>1. H4StartupResetMatch \in 0 .. 4
      BY DEF TypeOK
    <3> QED
      BY <2>1, <3>1, MatchedIs DEF Taken
  <2>2. CASE ~H4StartupResetSyncActive /\ State \in {"HEADER", "PAYLOAD", "DELIVER"}
    <3>1. Type \in Byte /\ pPacket \in Seq(Byte)
      BY <2>2 DEF TypeOK, ParserInv, ParserTypeOK, ParserConsistent, Byte, PacketType, COMMAND, ISO
    <3>2. <<Type>> \o pPacket \in Seq(Byte)
      BY <3>1
    <3> QED
      BY <2>2, <3>2 DEF Taken
  <2>3. CASE ~H4StartupResetSyncActive /\ State \notin {"HEADER", "PAYLOAD", "DELIVER"}
    <3>1. Taken = <<>>
      BY <2>3 DEF Taken
    <3> QED
      BY <3>1
  <2> QED
    BY <2>1, <2>2, <2>3
<1> QED
  BY <1>1, <1>2

LEMMA FlatIs ==
    ASSUME TypeOK
    PROVE  /\ Flat \in Seq(Byte) /\ expect \in Seq(Seq(Byte))
           /\ expect = <<>> => Flat = <<>>
           /\ expect # <<>> => /\ Flat = expect[1] \o Join(Tail(expect))
                               /\ expect[1] \in Seq(Byte) /\ Join(Tail(expect)) \in Seq(Byte)
                               /\ WellFormed(expect[1]) /\ Tail(expect) \in Seq(HostPacket)
<1>1. expect \in Seq(HostPacket)
  BY DEF TypeOK
<1>2. HostPacket \subseteq Seq(Byte)
  <2>1. HostPacket \subseteq Seq(Octet) /\ Octet \subseteq Byte
    BY TransportAssumption, OctetAssumption DEF Byte
  <2>2. \A p \in Seq(Octet) : p \in Seq(Byte)
    BY <2>1, SeqWider
  <2> QED
    BY ONLY <2>1, <2>2, Zenon
<1>3. expect \in Seq(Seq(Byte))
  BY <1>1, <1>2, SeqWider
<1>4. Flat \in Seq(Byte)
  BY <1>3, JoinTyped DEF Flat
<1>5. expect = <<>> => Flat = <<>>
  BY JoinNone DEF Flat
<1>6. ASSUME expect # <<>>
      PROVE  /\ Flat = expect[1] \o Join(Tail(expect))
             /\ expect[1] \in Seq(Byte) /\ Join(Tail(expect)) \in Seq(Byte)
             /\ WellFormed(expect[1]) /\ Tail(expect) \in Seq(HostPacket)
  <2>1. /\ Join(expect) = expect[1] \o Join(Tail(expect))
        /\ expect[1] \in Seq(Byte) /\ Join(Tail(expect)) \in Seq(Byte)
    BY <1>3, <1>6, JoinFirst
  <2>2. expect[1] \in HostPacket /\ Tail(expect) \in Seq(HostPacket)
    BY <1>1, <1>6
  <2>3. WellFormed(expect[1])
    BY <2>2, LineAssumption
  <2> QED
    BY <2>1, <2>2, <2>3 DEF Flat
<1> QED
  BY <1>3, <1>4, <1>5, <1>6

(* A stream that begins with a header begins with a packet of the length   *)
(* the header tells.                                                       *)
LEMMA FirstLength ==
    ASSUME TypeOK, NEW t \in PacketType, NEW h \in Seq(Byte), NEW y \in Seq(Byte),
           HciH4HeaderLen[t] <= Len(h), (<<t>> \o h) \o y = Flat
    PROVE  /\ expect # <<>>
           /\ Len(expect[1]) = 1 + HciH4HeaderLen[t] + HciH4PayloadLen(t, h)
           /\ <<t>> \o h \in Seq(Byte) /\ Len(<<t>> \o h) = 1 + Len(h)
<1> DEFINE x == <<t>> \o h
           p == expect[1]
           q == Join(Tail(expect))
<1>1. /\ x \in Seq(Byte) /\ Len(x) = 1 + Len(h) /\ x[1] = t /\ \A i \in 1 .. Len(h) : x[i + 1] = h[i]
      /\ Len(h) \in Nat
  <2>1. t \in Byte
    BY DEF PacketType, Byte, COMMAND, ISO
  <2> QED
    BY <2>1
<1>2. HciH4HeaderLen[t] \in 2 .. 4
  BY HeaderLens
<1>3. expect # <<>>
  <2>1. SUFFICES ASSUME expect = <<>> PROVE FALSE
    OBVIOUS
  <2>2. x \o y = <<>>
    BY <2>1, FlatIs
  <2> HIDE DEF x
  <2>3. Len(x \o y) = Len(x) + Len(y) /\ Len(y) \in Nat
    BY <1>1, ConcatIs
  <2>4. Len(x \o y) = 0
    BY <2>2
  <2> QED
    BY <1>1, <2>3, <2>4
<1>4. p \in Seq(Byte) /\ q \in Seq(Byte) /\ WellFormed(p) /\ Flat = p \o q
  BY <1>3, FlatIs
<1> HIDE DEF x, p, q
<1>5. Len(p) \in Nat /\ Len(p) >= 1 /\ p[1] \in PacketType /\ Len(p) > HciH4HeaderLen[p[1]]
  BY <1>4 DEF WellFormed
<1>6. \A i \in 1 .. Len(x) : i <= Len(p) => x[i] = p[i]
  <2>1. x \o y = p \o q
    BY <1>4 DEF x
  <2> QED
    BY <1>1, <1>4, <2>1, TwoCuts
<1>7. p[1] = t
  <2>1. 1 \in 1 .. Len(x)
    BY <1>1
  <2> QED
    BY <1>1, <1>5, <1>6, <2>1
<1>8. ASSUME NEW i \in 1 .. HciH4HeaderLen[t] PROVE Tail(p)[i] = h[i]
  <2>1. i + 1 \in 1 .. Len(x) /\ i + 1 <= Len(p) /\ i \in 1 .. Len(h) /\ i \in 1 .. Len(p) - 1
    BY <1>1, <1>2, <1>5, <1>7
  <2>2. Tail(p)[i] = p[i + 1]
    BY <1>4, <1>5, <2>1
  <2> QED
    BY <1>1, <1>6, <2>1, <2>2
<1>9. HciH4PayloadLen(t, Tail(p)) = HciH4PayloadLen(t, h)
  BY <1>8, HeaderEnough
<1>10. Len(p) = 1 + HciH4HeaderLen[t] + HciH4PayloadLen(t, h)
  BY <1>4, <1>7, <1>9 DEF WellFormed
<1> QED
  BY <1>1, <1>3, <1>10 DEF p, x

-----------------------------------------------------------------------------
(* Packets and octets of the host. *)

LEMMA OctetsAssociate ==
    \A x, y, z \in Seq(Byte) : (x \o y) \o z = x \o (y \o z)
<1> SUFFICES ASSUME NEW x \in Seq(Byte), NEW y \in Seq(Byte), NEW z \in Seq(Byte)
             PROVE  (x \o y) \o z = x \o (y \o z)
  OBVIOUS
<1> QED
  BY ONLY x \in Seq(Byte), y \in Seq(Byte), z \in Seq(Byte), ConcatAssociative, SMTT(60)

LEMMA TakingOctet ==
    \A x, c, l \in Seq(Byte) : c # <<>> => Append(x, Head(c)) \o (Tail(c) \o l) = x \o (c \o l)
<1> SUFFICES ASSUME NEW x \in Seq(Byte), NEW c \in Seq(Byte), NEW l \in Seq(Byte), c # <<>>
             PROVE  Append(x, Head(c)) \o (Tail(c) \o l) = x \o (c \o l)
  OBVIOUS
<1> QED
  BY ONLY x \in Seq(Byte), c \in Seq(Byte), l \in Seq(Byte), c # <<>>, Taking, SMTT(60)

LEMMA TakingOne ==
    ASSUME NEW x \in Seq(Byte), NEW c \in Seq(Byte), c # <<>>
    PROVE  Append(x, Head(c)) \o Tail(c) = x \o c
<1>1. <<>> \in Seq(Byte) /\ Tail(c) \in Seq(Byte)
  OBVIOUS
<1>2. Append(x, Head(c)) \o (Tail(c) \o <<>>) = x \o (c \o <<>>)
  BY ONLY x \in Seq(Byte), c \in Seq(Byte), c # <<>>, <1>1, TakingOctet, SMTT(30)
<1>3. Tail(c) \o <<>> = Tail(c) /\ c \o <<>> = c
  BY <1>1, ConcatEmptySeq
<1> QED
  BY ONLY <1>2, <1>3, Zenon

(* FramesInStep, with what is still to be skipped there to be skipped. *)
Framing == step = "IN" => FramesInStep /\ DropRemaining <= Len(RxChunk) + Len(line)

(* What it says where nothing is being skipped. *)
LEMMA FramesPlain ==
    ASSUME TypeOK, DropRemaining = 0
    PROVE  /\ Rest(RxChunk \o line, DropRemaining) = RxChunk \o line
           /\ DropRemaining <= Len(RxChunk) + Len(line)
<1>1. RxChunk \in Seq(Byte) /\ line \in Seq(Byte)
  BY StreamTyped
<1>2. RxChunk \o line \in Seq(Byte) /\ Len(RxChunk) \in Nat /\ Len(line) \in Nat
  BY <1>1, ConcatIs
<1>3. PICK s \in Seq(Byte) : s = RxChunk \o line
  BY <1>2
<1>4. Rest(s, 0) = s
  BY RestNone
<1>5. Rest(RxChunk \o line, DropRemaining) = RxChunk \o line
  BY ONLY <1>3, <1>4, DropRemaining = 0, Zenon
<1> QED
  BY <1>2, <1>5

(* The next octet belongs to the packet, or begins one. *)
LEMMA OctetTaken ==
    ASSUME TypeOK, step = "IN", FramesInStep, DropRemaining = 0, DropRemaining' = 0,
           RxChunk # <<>>, Taken' = Append(Taken, Head(RxChunk)),
           RxChunk' = Tail(RxChunk), line' = line, expect' = expect,
           RejectedMark' = RejectedMark, InvalidTypeCount' = InvalidTypeCount
    PROVE  Framing'
<1>1. RxChunk \in Seq(Byte) /\ line \in Seq(Byte) /\ Taken \in Seq(Byte)
  BY StreamTyped
<1>2. Taken \o (RxChunk \o line) = Flat /\ ~HciIntrfTransportSuspect
  BY FramesPlain DEF FramesInStep
<1>3. Append(Taken, Head(RxChunk)) \o (Tail(RxChunk) \o line) = Flat
  <2>1. PICK x \in Seq(Byte), c \in Seq(Byte), l \in Seq(Byte) :
           x = Taken /\ c = RxChunk /\ l = line /\ c # <<>>
    BY <1>1
  <2>2. Append(x, Head(c)) \o (Tail(c) \o l) = x \o (c \o l)
    BY ONLY <2>1, TakingOctet, SMTT(30)
  <2> QED
    BY ONLY <1>2, <2>1, <2>2, Zenon
<1>4. /\ Tail(RxChunk) \in Seq(Byte) /\ Len(Tail(RxChunk)) \in Nat /\ Len(line) \in Nat
      /\ Tail(RxChunk) \o line \in Seq(Byte)
  <2>1. Tail(RxChunk) \in Seq(Byte)
    BY <1>1
  <2> QED
    BY <1>1, <2>1, ConcatIs
<1>5. Rest(Tail(RxChunk) \o line, 0) = Tail(RxChunk) \o line
  BY <1>4, RestNone
<1>6. Taken' \o Rest(RxChunk' \o line', DropRemaining') = Flat'
  BY <1>3, <1>5 DEF Flat
<1>7. ~HciIntrfTransportSuspect' /\ DropRemaining' <= Len(RxChunk') + Len(line')
  BY <1>2, <1>4 DEF HciIntrfTransportSuspect
<1> QED
  BY <1>6, <1>7 DEF Framing, FramesInStep

(* The indicator in front of the header. *)
LEMMA HeadJoins ==
    ASSUME NEW t \in PacketType, NEW v \in Seq(Byte), NEW o \in Byte
    PROVE  Append(<<t>> \o v, o) = <<t>> \o Append(v, o)
<1>1. <<t>> \in Seq(Byte) /\ <<o>> \in Seq(Byte)
  BY DEF PacketType, Byte, COMMAND, ISO
<1>2. PICK u \in Seq(Byte), w \in Seq(Byte) : u = <<t>> /\ w = <<o>>
  BY <1>1
<1>3. u \o (v \o w) = (u \o v) \o w
  BY ONLY <1>2, v \in Seq(Byte), OctetsAssociate, SMTT(30)
<1>4. Append(v, o) = v \o w
  BY <1>2, AppendIsConcat
<1>5. Append(u \o v, o) = (u \o v) \o w
  <2>1. u \o v \in Seq(Byte)
    BY ConcatIs
  <2> QED
    BY <1>2, <2>1, AppendIsConcat
<1> QED
  BY ONLY <1>2, <1>3, <1>4, <1>5, Zenon

(* The feed. *)
LEMMA FeedFrames ==
    ASSUME TypeOK, HeaderTells, Closed, Framing, FeedChunk
    PROVE  Framing'
<1> SUFFICES ASSUME step' = "IN" PROVE Framing'
  BY DEF Framing
<1> DEFINE o == Head(RxChunk)
<1>1. /\ step = "IN" /\ RxChunk # <<>> /\ FeedOctet(o) /\ RxChunk' = Tail(RxChunk) /\ line' = line
      /\ RejectedMark' = RejectedMark /\ Open
      /\ H4StartupResetSyncActive' = H4StartupResetSyncActive
      /\ H4StartupResetMatch' = H4StartupResetMatch
      /\ expect' = IF State = "HEADER" /\ State' = "DROP" THEN Tail(expect) ELSE expect
  BY DEF FeedChunk, Reading, portVars, syncVars
<1>2. ~H4StartupResetSyncActive /\ ~H4StartupResetSyncActive'
  BY <1>1 DEF Closed
<1>3. FramesInStep /\ DropRemaining <= Len(RxChunk) + Len(line)
  BY <1>1 DEF Framing
<1>4. RxChunk \in Seq(Byte) /\ line \in Seq(Byte) /\ Taken \in Seq(Byte) /\ o \in Byte
  <2>1. RxChunk \in Seq(Byte) /\ line \in Seq(Byte) /\ Taken \in Seq(Byte)
    BY StreamTyped
  <2> QED
    BY <1>1, <2>1
<1>5. /\ State # "TYPE" => Type \in PacketType
      /\ State = "HEADER" => Len(pPacket) < HciH4HeaderLen[Type]
      /\ pPacket \in Seq(Byte)
  BY DEF TypeOK, ParserInv, ParserConsistent, ParserTypeOK, Byte
<1>6. CASE FeedType(o)
  <2>1. State = "TYPE" /\ DropRemaining = 0 /\ Taken = <<>>
    BY <1>2, <1>6 DEF FeedType, HeaderTells, Taken
  <2>2. RxChunk \o line = Flat
    <3>1. Taken \o (RxChunk \o line) = Flat
      BY <1>1, <1>3, <2>1, FramesPlain DEF FramesInStep
    <3>2. RxChunk \o line \in Seq(Byte)
      BY <1>4, ConcatIs
    <3> QED
      BY <2>1, <3>1, <3>2, ConcatEmptySeq
  <2>3. o \in PacketType
    <3>1. expect # <<>>
      <4>1. SUFFICES ASSUME expect = <<>> PROVE FALSE
        OBVIOUS
      <4>2. Len(RxChunk \o line) = 0
        BY <2>2, <4>1, FlatIs
      <4>3. Len(RxChunk \o line) = Len(RxChunk) + Len(line) /\ Len(line) \in Nat
        BY <1>4, ConcatIs
      <4>4. Len(RxChunk) \in Nat /\ Len(RxChunk) >= 1
        BY <1>1, <1>4
      <4> QED
        BY <4>2, <4>3, <4>4
    <3>2. PICK p \in Seq(Byte), q \in Seq(Byte) : Flat = p \o q /\ WellFormed(p)
      BY <3>1, FlatIs
    <3>3. RxChunk[1] = p[1]
      <4>1. 1 \in 1 .. Len(RxChunk) /\ 1 <= Len(p)
        BY <1>1, <1>4, <3>2 DEF WellFormed
      <4>2. RxChunk \o line = p \o q
        BY <2>2, <3>2
      <4> QED
        BY <1>4, <4>1, <4>2, TwoCuts
    <3>4. o = RxChunk[1]
      BY <1>1, <1>4
    <3> QED
      BY <3>2, <3>3, <3>4 DEF WellFormed
  <2>4. /\ State' = "HEADER" /\ Type' = o /\ pPacket' = <<>> /\ DropRemaining' = 0
        /\ InvalidTypeCount' = InvalidTypeCount
    BY <1>6, <2>3 DEF FeedType
  <2>5. Taken' = Append(Taken, o)
    <3>1. Taken' = <<o>> \o <<>>
      BY <1>2, <2>4 DEF Taken
    <3>2. <<o>> \o <<>> = <<o>> /\ Append(<<>>, o) = <<o>>
      BY <1>4
    <3> QED
      BY <2>1, <3>1, <3>2
  <2>6. expect' = expect
    BY <1>1, <2>1
  <2> QED
    BY <1>1, <1>3, <2>1, <2>4, <2>5, <2>6, OctetTaken
<1>7. ASSUME State \in {"HEADER", "PAYLOAD"}, State' \in {"HEADER", "PAYLOAD", "DELIVER"},
             pPacket' = Append(pPacket, o), Type' = Type, DropRemaining' = DropRemaining,
             InvalidTypeCount' = InvalidTypeCount
      PROVE  Framing'
  <2>1. DropRemaining = 0 /\ Taken = <<Type>> \o pPacket /\ Taken' = <<Type>> \o Append(pPacket, o)
    BY <1>2, <1>7 DEF HeaderTells, Taken
  <2>3. <<Type>> \o Append(pPacket, o) = Append(<<Type>> \o pPacket, o)
    BY <1>4, <1>5, <1>7, HeadJoins
  <2>4. expect' = expect
    BY <1>1, <1>7
  <2> QED
    BY <1>1, <1>3, <1>7, <2>1, <2>3, <2>4, OctetTaken
<1>8. CASE FeedPayload(o)
  BY <1>7, <1>8 DEF FeedPayload
<1>9. CASE FeedHeader(o)
  <2> DEFINE h == Append(pPacket, o)
  <2>1. /\ State = "HEADER" /\ Type \in PacketType /\ HciH4HeaderLen[Type] \in 2 .. 4
        /\ h \in Seq(Byte) /\ Len(h) = Len(pPacket) + 1 /\ Len(pPacket) \in Nat
        /\ Type' = Type /\ InvalidTypeCount' = InvalidTypeCount
    BY <1>4, <1>5, <1>9, HeaderLens DEF FeedHeader
  <2>2. CASE Len(pPacket) + 1 < HciH4HeaderLen[Type]
    <3>1. pPacket' = h /\ State' = State /\ DropRemaining' = DropRemaining
      BY <1>9, <2>1, <2>2 DEF FeedHeader
    <3> QED
      BY <1>7, <2>1, <3>1
  <2>3. CASE Len(pPacket) + 1 = HciH4HeaderLen[Type]
    <3> DEFINE len == HciH4PayloadLen(Type, h)
    <3>1. HeaderDone(h)
      BY <1>9, <2>1, <2>3 DEF FeedHeader
    <3>2. len \in Nat
      <4>1. h \in Seq(0 .. 255) /\ Len(h) = HciH4HeaderLen[Type]
        BY <2>1, <2>3 DEF Byte
      <4> QED
        BY <2>1, <4>1, PayloadLens
    <3>3. CASE HciH4HeaderLen[Type] + len <= PacketCapacity
      <4>1. /\ DropRemaining' = DropRemaining /\ pPacket' = h
            /\ State' = IF len = 0 THEN "DELIVER" ELSE "PAYLOAD"
        BY <2>1, <3>1, <3>2, <3>3, CapacityAssumption DEF HeaderDone
      <4> QED
        BY <1>7, <2>1, <4>1
    <3>4. CASE HciH4HeaderLen[Type] + len > PacketCapacity
      <4>1. len > 0
        BY <2>1, <3>2, <3>4, CapacityAssumption
      <4>2. DropRemaining' = len /\ State' = "DROP"
        BY <2>1, <3>1, <3>2, <3>4, <4>1, CapacityAssumption DEF HeaderDone
      <4> HIDE DEF h
      <4>3. DropRemaining = 0 /\ Taken = <<Type>> \o pPacket /\ Taken' = <<>> /\ expect' = Tail(expect)
        BY <1>1, <1>2, <2>1, <4>2 DEF HeaderTells, Taken
      <4> DEFINE y == Tail(RxChunk) \o line
      <4>4. Tail(RxChunk) \in Seq(Byte) /\ y \in Seq(Byte) /\ Len(y) = Len(Tail(RxChunk)) + Len(line)
        <5>1. Tail(RxChunk) \in Seq(Byte)
          BY <1>1, <1>4
        <5> QED
          BY <1>4, <5>1, ConcatIs
      <4>5. (<<Type>> \o h) \o y = Flat
        <5>1. Append(Taken, o) \o y = Taken \o (RxChunk \o line)
          <6>1. PICK x \in Seq(Byte), c \in Seq(Byte), l \in Seq(Byte) :
                   x = Taken /\ c = RxChunk /\ l = line /\ c # <<>>
            BY <1>1, <1>4
          <6>2. Append(x, Head(c)) \o (Tail(c) \o l) = x \o (c \o l)
            BY ONLY <6>1, TakingOctet, SMTT(30)
          <6> QED
            BY ONLY <6>1, <6>2, Zenon DEF y, o
        <5>2. Taken \o (RxChunk \o line) = Flat
          BY <1>1, <1>3, <4>3, FramesPlain DEF FramesInStep
        <5>3. Append(Taken, o) = <<Type>> \o h
          BY <4>3, <1>4, <1>5, <2>1, HeadJoins DEF h
        <5> QED
          BY ONLY <5>1, <5>2, <5>3, Zenon
      <4> HIDE DEF y
      <4>6. /\ expect # <<>> /\ Len(expect[1]) = 1 + HciH4HeaderLen[Type] + len
            /\ <<Type>> \o h \in Seq(Byte) /\ Len(<<Type>> \o h) = 1 + Len(h)
        <5>1. HciH4HeaderLen[Type] <= Len(h) /\ h \in Seq(Byte) /\ Type \in PacketType
          BY <2>1, <2>3
        <5> QED
          BY <4>4, <4>5, <5>1, FirstLength
      <4>7. PICK p \in Seq(Byte), q \in Seq(Byte) :
               p = expect[1] /\ q = Join(Tail(expect)) /\ Flat = p \o q
        BY <4>6, FlatIs
      <4>8. len \in 0 .. Len(y) /\ Rest(y, len) = q
        <5>1. PICK x \in Seq(Byte) : x = <<Type>> \o h
          BY <4>6
        <5>2. x \o y = p \o q
          BY ONLY <4>5, <4>7, <5>1, Zenon
        <5>3. Len(x) <= Len(p) => Len(p) - Len(x) \in 0 .. Len(y) /\ Rest(y, Len(p) - Len(x)) = q
          BY <4>4, <5>2, TwoCuts
        <5>4. Len(x) = 1 + HciH4HeaderLen[Type] /\ Len(p) = 1 + HciH4HeaderLen[Type] + len
          BY <4>6, <4>7, <5>1, <2>1, <2>3
        <5>5. Len(x) <= Len(p) /\ Len(p) - Len(x) = len
          BY <5>4, <2>1, <3>2
        <5> QED
          BY <5>3, <5>5
      <4> HIDE DEF len
      <4>9. Taken' \o Rest(RxChunk' \o line', DropRemaining') = Flat'
        <5>1. RxChunk' \o line' = y /\ Flat' = q
          BY <1>1, <4>3, <4>7 DEF y, Flat
        <5>2. <<>> \o q = q
          BY ConcatEmptySeq
        <5> QED
          BY <4>2, <4>3, <4>8, <5>1, <5>2
      <4>10. DropRemaining' <= Len(RxChunk') + Len(line')
        <5>1. Len(RxChunk') + Len(line') = Len(y) /\ Len(y) \in Nat
          BY <1>1, <4>4
        <5> QED
          BY <4>2, <4>8, <5>1
      <4>11. ~HciIntrfTransportSuspect'
        BY <1>1, <1>3, <2>1 DEF FramesInStep, HciIntrfTransportSuspect
      <4> QED
        BY <4>9, <4>10, <4>11 DEF Framing, FramesInStep
    <3> QED
      BY <2>1, <3>2, <3>3, <3>4, CapacityAssumption
  <2> QED
    BY <1>9, <2>2, <2>3 DEF FeedHeader
<1>10. CASE FeedDrop(o)
  <2>1. State = "DROP" /\ DropRemaining \in Nat /\ DropRemaining > 0
    BY <1>10 DEF FeedDrop, TypeOK, ParserInv, ParserTypeOK, ParserConsistent
  <2>2. /\ DropRemaining' = DropRemaining - 1 /\ State' \in {"TYPE", "DROP"}
        /\ InvalidTypeCount' = InvalidTypeCount
    BY <1>10, <2>1 DEF FeedDrop, HciH4ReleasePacket
  <2>3. Taken = <<>> /\ Taken' = <<>> /\ expect' = expect
    BY <1>1, <1>2, <2>1, <2>2 DEF Taken
  <2>4. Rest(RxChunk \o line, DropRemaining) = Rest(Tail(RxChunk) \o line, DropRemaining - 1)
    BY <1>1, <1>3, <1>4, <2>1, RestTail
  <2>5. Taken' \o Rest(RxChunk' \o line', DropRemaining') = Flat'
    <3>1. Taken \o Rest(RxChunk \o line, DropRemaining) = Flat
      BY <1>1, <1>3 DEF FramesInStep
    <3>2. Flat' = Flat
      BY <2>3 DEF Flat
    <3> QED
      BY <1>1, <2>2, <2>3, <2>4, <3>1, <3>2
  <2>6. DropRemaining' <= Len(RxChunk') + Len(line')
    <3>1. Len(Tail(RxChunk)) = Len(RxChunk) - 1 /\ Len(RxChunk) \in Nat /\ Len(line) \in Nat
      BY <1>1, <1>4
    <3> QED
      BY <1>1, <1>3, <2>1, <2>2, <3>1
  <2>7. ~HciIntrfTransportSuspect'
    BY <1>1, <1>3, <2>2 DEF FramesInStep, HciIntrfTransportSuspect
  <2> QED
    BY <2>5, <2>6, <2>7 DEF Framing, FramesInStep
<1> QED
  BY <1>1, <1>6, <1>8, <1>9, <1>10 DEF FeedOctet

(* A packet under way is a packet expected. *)
LEMMA UnderWay ==
    ASSUME TypeOK, HeaderTells, Framing, step = "IN", Taken # <<>>
    PROVE  expect # <<>>
<1>1. SUFFICES ASSUME expect = <<>> PROVE FALSE
  OBVIOUS
<1>2. RxChunk \in Seq(Byte) /\ line \in Seq(Byte) /\ Taken \in Seq(Byte)
  BY StreamTyped
<1>3. RxChunk \o line \in Seq(Byte) /\ Len(RxChunk \o line) = Len(RxChunk) + Len(line)
  BY <1>2, ConcatIs
<1>4. DropRemaining \in 0 .. Len(RxChunk \o line)
  <2>1. DropRemaining \in Nat /\ DropRemaining <= Len(RxChunk) + Len(line)
    BY DEF Framing, TypeOK, ParserInv, ParserTypeOK
  <2> QED
    BY <1>2, <1>3, <2>1
<1>5. Rest(RxChunk \o line, DropRemaining) \in Seq(Byte)
  BY <1>3, <1>4, RestIs
<1>6. PICK x \in Seq(Byte), y \in Seq(Byte) : x = Taken /\ y = Rest(RxChunk \o line, DropRemaining)
  BY <1>2, <1>5
<1>7. x \o y = <<>>
  <2>1. Taken \o Rest(RxChunk \o line, DropRemaining) = Flat /\ Flat = <<>>
    BY <1>1, FlatIs DEF Framing, FramesInStep
  <2> QED
    BY ONLY <1>6, <2>1, Zenon
<1>8. Len(x) > 0 /\ Len(x) \in Nat /\ Len(y) \in Nat
  BY <1>6
<1>9. Len(x \o y) = Len(x) + Len(y)
  BY ConcatIs
<1>10. Len(x \o y) = 0
  BY <1>7
<1> QED
  BY <1>8, <1>9, <1>10

(* The bridge takes a packet whole. *)
LEMMA RxDataFrames ==
    ASSUME TypeOK, HeaderTells, Closed, Framing, HciIntrfPacketRxData
    PROVE  Framing'
<1> SUFFICES ASSUME step' = "IN" PROVE Framing'
  BY DEF Framing
<1>1. /\ step = "IN" /\ Open /\ State = "DELIVER" /\ State' = "TYPE" /\ DropRemaining' = 0
      /\ InvalidTypeCount' = InvalidTypeCount /\ RejectedMark' = RejectedMark
      /\ RxChunk' = RxChunk /\ line' = line /\ expect' = Tail(expect)
      /\ H4StartupResetSyncActive' = H4StartupResetSyncActive
  BY DEF HciIntrfPacketRxData, Reading, HciH4ParserReleasePending, HciH4ParserDeliveryPending,
         HciH4ReleasePacket, portVars, syncVars
<1>2. /\ ~H4StartupResetSyncActive /\ DropRemaining = 0 /\ Taken = <<Type>> \o pPacket
      /\ Taken' = <<>> /\ PayloadLen = HciH4PayloadLen(Type, pPacket)
  BY <1>1 DEF Closed, HeaderTells, Taken
<1>3. /\ Type \in PacketType /\ pPacket \in Seq(Byte) /\ PayloadLen \in Nat
      /\ Len(pPacket) = HciH4HeaderLen[Type] + PayloadLen /\ HciH4HeaderLen[Type] <= Len(pPacket)
      /\ Len(pPacket) \in Nat
  BY <1>1 DEF TypeOK, ParserInv, ParserTypeOK, ParserConsistent, Byte
<1>4. PICK y \in Seq(Byte) : y = RxChunk \o line
  <2>1. RxChunk \in Seq(Byte) /\ line \in Seq(Byte)
    BY StreamTyped
  <2> QED
    BY <2>1, ConcatIs
<1>5. (<<Type>> \o pPacket) \o y = Flat /\ ~HciIntrfTransportSuspect
  BY <1>1, <1>2, <1>4, FramesPlain DEF Framing, FramesInStep
<1>6. /\ expect # <<>>
      /\ Len(expect[1]) = 1 + HciH4HeaderLen[Type] + HciH4PayloadLen(Type, pPacket)
      /\ <<Type>> \o pPacket \in Seq(Byte) /\ Len(<<Type>> \o pPacket) = 1 + Len(pPacket)
  BY <1>3, <1>5, FirstLength
<1>7. PICK p \in Seq(Byte), q \in Seq(Byte), x \in Seq(Byte) :
         p = expect[1] /\ q = Join(Tail(expect)) /\ Flat = p \o q /\ x = <<Type>> \o pPacket
  BY <1>6, FlatIs
<1>8. x \o y = p \o q
  BY ONLY <1>5, <1>7, Zenon
<1>9. HciH4HeaderLen[Type] \in 2 .. 4
  BY <1>3, HeaderLens
<1>10. Len(x) = Len(p)
  BY <1>2, <1>3, <1>6, <1>7, <1>9
<1>11. y = q
  <2>1. Len(x) <= Len(p) /\ Len(p) - Len(x) = 0
    BY <1>10
  <2>2. Rest(y, Len(p) - Len(x)) = q
    BY <1>8, <2>1, TwoCuts
  <2>3. Rest(y, 0) = y
    BY RestNone
  <2> QED
    BY <2>1, <2>2, <2>3
<1>12. Taken' \o Rest(RxChunk' \o line', DropRemaining') = Flat'
  <2>1. RxChunk' \o line' = y /\ Flat' = q
    BY <1>1, <1>4, <1>7 DEF Flat
  <2>2. <<>> \o q = q /\ Rest(y, 0) = y
    BY ConcatEmptySeq, RestNone
  <2> QED
    BY <1>1, <1>2, <1>11, <2>1, <2>2
<1>13. ~HciIntrfTransportSuspect' /\ DropRemaining' <= Len(RxChunk') + Len(line')
  <2>1. DropRemaining <= Len(RxChunk) + Len(line)
    BY <1>2, FramesPlain
  <2> QED
    BY <1>1, <1>2, <1>5, <2>1 DEF HciIntrfTransportSuspect
<1> QED
  BY <1>12, <1>13 DEF Framing, FramesInStep

(* The host adds a packet. *)
LEMMA SendFrames ==
    ASSUME TypeOK, Framing, NEW p \in HostPacket, HostSends(p)
    PROVE  Framing'
<1> SUFFICES ASSUME step' = "IN" PROVE Framing'
  BY DEF Framing
<1>1. /\ step = "IN" /\ line' = line \o p /\ expect' = Append(expect, p)
      /\ UNCHANGED <<RxChunk, State, Type, pPacket, DropRemaining, InvalidTypeCount, RejectedMark,
                     H4StartupResetSyncActive, H4StartupResetMatch>>
  BY DEF HostSends, parserVars, portVars, syncVars
<1>2. RxChunk \in Seq(Byte) /\ line \in Seq(Byte) /\ Taken \in Seq(Byte)
  BY StreamTyped
<1>3. p \in Seq(Byte) /\ expect \in Seq(Seq(Byte))
  <2>1. p \in Seq(Octet) /\ Octet \subseteq Byte
    BY TransportAssumption, OctetAssumption DEF Byte
  <2> QED
    BY <2>1, SeqWider, FlatIs
<1>4. Flat' = Flat \o p
  BY <1>1, <1>3, JoinAppend DEF Flat
<1>5. PICK c \in Seq(Byte), l \in Seq(Byte), x \in Seq(Byte), d \in Nat :
         c = RxChunk /\ l = line /\ x = Taken /\ d = DropRemaining
  BY <1>2 DEF TypeOK, ParserInv, ParserTypeOK
<1>6. x \o Rest(c \o l, d) = Flat /\ d <= Len(c) + Len(l) /\ ~HciIntrfTransportSuspect
  BY <1>1, <1>5 DEF Framing, FramesInStep
<1>7. PICK s \in Seq(Byte) : s = c \o l /\ Len(s) = Len(c) + Len(l)
  BY ConcatIs
<1>8. d \in 0 .. Len(s)
  BY <1>6, <1>7
<1>9. PICK r \in Seq(Byte) : r = Rest(s, d)
  BY <1>8, RestIs
<1>10. Rest(s \o p, d) = Rest(s, d) \o p
  BY <1>3, <1>8, RestConcat
<1>11. (c \o l) \o p = c \o (l \o p)
  BY ONLY <1>3, c \in Seq(Byte), l \in Seq(Byte), OctetsAssociate, SMTT(30)
<1>12. (x \o r) \o p = x \o (r \o p)
  BY ONLY <1>3, x \in Seq(Byte), r \in Seq(Byte), OctetsAssociate, SMTT(30)
<1>13. Taken' = Taken
  BY <1>1 DEF Taken
<1>14. x \o Rest(c \o (l \o p), d) = Flat \o p
  BY ONLY <1>6, <1>7, <1>9, <1>10, <1>11, <1>12, Zenon
<1>15. Taken' \o Rest(RxChunk' \o line', DropRemaining') = Flat'
  BY <1>1, <1>4, <1>5, <1>13, <1>14
<1>16. DropRemaining' <= Len(RxChunk') + Len(line')
  <2>1. Len(l \o p) = Len(l) + Len(p) /\ Len(l) \in Nat /\ Len(p) \in Nat /\ Len(c) \in Nat
    BY <1>3, ConcatIs
  <2> QED
    BY <1>1, <1>5, <1>6, <2>1
<1>17. ~HciIntrfTransportSuspect'
  BY <1>1, <1>6 DEF HciIntrfTransportSuspect
<1> QED
  BY <1>15, <1>16, <1>17 DEF Framing, FramesInStep

(* Octets move from the line to the chunk. *)
LEMMA ReadFrames ==
    ASSUME TypeOK, Framing, step = "IN", RxChunk = <<>>, NEW n \in Readable,
           RxChunk' = SubSeq(line, 1, n), line' = Rest(line, n), expect' = expect,
           Taken' = Taken, DropRemaining' = DropRemaining,
           InvalidTypeCount' = InvalidTypeCount, RejectedMark' = RejectedMark
    PROVE  Framing'
<1>1. line \in Seq(Byte) /\ n \in 1 .. Len(line)
  BY StreamTyped, TransportAssumption DEF Readable
<1>2. RxChunk' \o line' = line
  BY <1>1, Cut
<1>3. RxChunk \o line = line
  BY <1>1, ConcatEmptySeq
<1>4. Taken' \o Rest(RxChunk' \o line', DropRemaining') = Flat' /\ ~HciIntrfTransportSuspect'
  BY <1>2, <1>3 DEF Framing, FramesInStep, Flat, HciIntrfTransportSuspect
<1>5. DropRemaining' <= Len(RxChunk') + Len(line')
  <2>1. Len(SubSeq(line, 1, n)) = n /\ Len(Rest(line, n)) = Len(line) - n
    BY <1>1, RestIs
  <2>2. DropRemaining <= 0 + Len(line)
    BY DEF Framing
  <2>3. Len(line) \in Nat /\ n \in Nat /\ DropRemaining \in Nat
    BY <1>1 DEF TypeOK, ParserInv, ParserTypeOK
  <2> QED
    BY <2>1, <2>2, <2>3
<1> QED
  BY <1>4, <1>5 DEF Framing, FramesInStep

(* The scan. *)
LEMMA NextMatches ==
    ASSUME NEW o \in Byte, TypeOK
    PROVE  /\ H4StartupResetMatch \in 0 .. 3 /\ NextMatch(o) \in 0 .. H4StartupResetMatch + 1
           /\ o = H4Reset[H4StartupResetMatch + 1] => NextMatch(o) = H4StartupResetMatch + 1
           /\ o = H4Reset[1] => NextMatch(o) = 1
           /\ \/ NextMatch(o) = H4StartupResetMatch + 1 /\ o = H4Reset[H4StartupResetMatch + 1]
              \/ NextMatch(o) = 1 /\ o = H4Reset[1]
              \/ NextMatch(o) = 0
<1>1. H4StartupResetMatch \in 0 .. 3
  BY DEF TypeOK
<1>2. H4Reset[1] = 1 /\ H4Reset[2] = 3 /\ H4Reset[3] = 12 /\ H4Reset[4] = 0
  BY ResetIs
<1>3. CASE o = H4Reset[H4StartupResetMatch + 1]
  <2>1. NextMatch(o) = H4StartupResetMatch + 1
    BY <1>3 DEF NextMatch
  <2>2. o = H4Reset[1] => H4StartupResetMatch = 0
    <3>1. PICK m \in 0 .. 3 : m = H4StartupResetMatch
      BY <1>1
    <3>2. CASE m = 0
      BY <3>1, <3>2
    <3>3. CASE m = 1
      BY <1>2, <1>3, <3>1, <3>3
    <3>4. CASE m = 2
      BY <1>2, <1>3, <3>1, <3>4
    <3>5. CASE m = 3
      BY <1>2, <1>3, <3>1, <3>5
    <3> QED
      BY <3>2, <3>3, <3>4, <3>5
  <2> QED
    BY <1>1, <1>3, <2>1, <2>2
<1>4. CASE o # H4Reset[H4StartupResetMatch + 1]
  <2>1. NextMatch(o) = IF o = H4Reset[1] THEN 1 ELSE 0
    BY <1>4 DEF NextMatch
  <2> QED
    BY <1>1, <1>4, <2>1
<1> QED
  BY <1>3, <1>4

LEMMA MatchGrows ==
    ASSUME NEW m \in 0 .. 3
    PROVE  Append(SubSeq(H4Reset, 1, m), H4Reset[m + 1]) = SubSeq(H4Reset, 1, m + 1)
<1>1. PICK s \in Seq(Byte) : s = H4Reset /\ Len(s) = 4
  BY ResetIs
<1>2. Append(SubSeq(s, 1, m), s[m + 1]) = SubSeq(s, 1, m + 1)
  BY <1>1
<1> QED
  BY ONLY <1>1, <1>2, Zenon

(* In step with the Reset the scan waits for, its next octet is the next   *)
(* of the line.                                                            *)
LEMMA ScanNext ==
    ASSUME TypeOK, Matched \o line = Flat, line # <<>>, expect # <<>> => expect[1] = H4Reset
    PROVE  /\ expect # <<>> /\ Head(line) \in Byte
           /\ NextMatch(Head(line)) = H4StartupResetMatch + 1
           /\ SubSeq(H4Reset, 1, H4StartupResetMatch + 1) \o Tail(line) = Flat
<1>1. H4StartupResetMatch \in 0 .. 3 /\ H4StartupResetMatch \in 0 .. 4
  BY DEF TypeOK
<1>2. PICK m \in 0 .. 3 : m = H4StartupResetMatch
  BY <1>1
<1>3. PICK l \in Seq(Byte) : l = line
  BY StreamTyped
<1>4. Matched \in Seq(Byte) /\ Len(Matched) = H4StartupResetMatch
  BY <1>1, MatchedIs DEF Matched
<1>5. PICK x \in Seq(Byte) : x = Matched /\ Len(x) = m
  BY <1>2, <1>4
<1>6. l # <<>> /\ Len(l) \in Nat /\ Len(l) >= 1 /\ Head(l) \in Byte /\ Head(l) = l[1]
  BY <1>3
<1>7. /\ x \o l \in Seq(Byte) /\ Len(x \o l) = Len(x) + Len(l)
      /\ \A i \in 1 .. Len(l) : (x \o l)[Len(x) + i] = l[i]
  BY ConcatIs
<1>8. x \o l = Flat
  BY <1>3, <1>5
<1>9. expect # <<>>
  <2>1. SUFFICES ASSUME expect = <<>> PROVE FALSE
    OBVIOUS
  <2>2. x \o l = <<>>
    BY <1>8, <2>1, FlatIs
  <2>3. Len(x \o l) = 0
    BY <2>2
  <2> QED
    BY <1>5, <1>6, <1>7, <2>3
<1>10. PICK p \in Seq(Byte), q \in Seq(Byte) : p = H4Reset /\ Flat = p \o q /\ Len(p) = 4
  BY <1>9, FlatIs, ResetIs
<1>11. \A i \in 1 .. Len(p) : (p \o q)[i] = p[i]
  BY ConcatIs
<1>12. l[1] = p[m + 1]
  <2>1. 1 \in 1 .. Len(l) /\ m + 1 \in 1 .. Len(p)
    BY <1>6, <1>10
  <2>2. (x \o l)[m + 1] = l[1]
    BY <1>5, <1>7, <2>1
  <2>3. (p \o q)[m + 1] = p[m + 1]
    BY <1>11, <2>1
  <2>4. x \o l = p \o q
    BY ONLY <1>8, <1>10, Zenon
  <2> QED
    BY ONLY <2>2, <2>3, <2>4, Zenon
<1>13. Head(l) = H4Reset[m + 1]
  BY <1>6, <1>10, <1>12
<1>14. Append(x, Head(l)) \o Tail(l) = x \o l
  BY <1>6, TakingOne
<1>15. Append(x, Head(l)) = SubSeq(H4Reset, 1, m + 1)
  <2>1. Append(SubSeq(H4Reset, 1, m), H4Reset[m + 1]) = SubSeq(H4Reset, 1, m + 1)
    BY MatchGrows
  <2>2. x = SubSeq(H4Reset, 1, m)
    BY <1>2, <1>5 DEF Matched
  <2> QED
    BY ONLY <1>13, <2>1, <2>2, Zenon
<1>16. SubSeq(H4Reset, 1, m + 1) \o Tail(l) = Flat
  BY ONLY <1>8, <1>14, <1>15, Zenon
<1>17. NextMatch(Head(l)) = m + 1
  BY <1>2, <1>6, <1>13, NextMatches
<1> QED
  BY <1>2, <1>3, <1>6, <1>9, <1>16, <1>17

(* A closed port behind a UART that scans. *)
LEMMA ScanInStep ==
    ASSUME TypeOK, HeaderTells, Closed, Framing, step = "IN", H4StartupResetSyncActive
    PROVE  Matched \o line = Flat /\ ~HciIntrfTransportSuspect /\ DropRemaining = 0
<1>1. State = "TYPE" /\ RxChunk = <<>>
  BY DEF Closed
<1>2. DropRemaining = 0 /\ Taken = Matched
  BY <1>1 DEF HeaderTells, Taken, Matched
<1>3. Taken \o (RxChunk \o line) = Flat /\ ~HciIntrfTransportSuspect
  BY <1>2, FramesPlain DEF Framing, FramesInStep
<1>4. RxChunk \o line = line
  BY <1>1, StreamTyped, ConcatEmptySeq
<1> QED
  BY <1>2, <1>3, <1>4

(* Boot text does not end the scan. *)
LEMMA ScanEnds ==
    ASSUME TypeOK, Closed, ResetFirst, BootText, step = "AFTER", H4StartupResetSyncActive,
           line # <<>>, NextMatch(Head(line)) = 4
    PROVE  Matched \o line = Flat
<1>1. PICK l \in Seq(Byte) : l = line
  BY StreamTyped
<1>2. l # <<>> /\ Len(l) \in Nat /\ Len(l) >= 1 /\ Head(l) \in Byte /\ Head(l) = l[1]
  BY <1>1
<1>3. H4StartupResetMatch = 3 /\ l[1] = H4Reset[4]
  BY <1>1, <1>2, NextMatches
<1>4. SUFFICES ASSUME /\ \A i \in 1 .. H4StartupResetMatch : H4Reset[i] \in Garbage
                      /\ \E k \in 0 .. Len(line) : /\ \A i \in 1 .. k : line[i] \in Garbage
                                                   /\ Rest(line, k) = Flat
               PROVE  FALSE
  BY DEF BootText, Closed
<1>5. PICK k \in 0 .. Len(l) : (\A i \in 1 .. k : l[i] \in Garbage) /\ Rest(l, k) = Flat
  BY <1>1, <1>4
<1>6. CASE k = 0
  <2>1. l = Flat
    BY <1>5, <1>6, RestNone
  <2>2. expect # <<>>
    BY <1>2, <2>1, FlatIs
  <2>3. PICK p \in Seq(Byte), q \in Seq(Byte) : p = H4Reset /\ Flat = p \o q
    BY <2>2, FlatIs DEF ResetFirst, Closed
  <2>4. 1 \in 1 .. Len(p) /\ p[1] = 1
    BY <2>3, ResetIs
  <2>5. \A i \in 1 .. Len(p) : (p \o q)[i] = p[i]
    BY ConcatIs
  <2>6. l[1] = p[1]
    <3>1. (p \o q)[1] = p[1]
      BY <2>4, <2>5
    <3> QED
      BY ONLY <2>1, <2>3, <3>1, Zenon
  <2> QED
    <3>1. H4Reset[4] # H4Reset[1]
      BY ResetIs
    <3> QED
      BY ONLY <1>3, <2>3, <2>6, <3>1, Zenon
<1>7. CASE k # 0
  <2>1. 1 \in 1 .. k
    BY <1>2, <1>5, <1>7
  <2>2. H4Reset[4] \in Garbage
    BY <1>3, <1>5, <2>1
  <2>3. H4Reset[1] \in Garbage /\ H4Reset[2] \in Garbage /\ H4Reset[3] \in Garbage
    BY <1>3, <1>4
  <2> QED
    BY <2>2, <2>3, LineAssumption
<1> QED
  BY <1>6, <1>7

(* The scan goes on. *)
LEMMA ScanFrames ==
    ASSUME TypeOK, HeaderTells, Closed, ResetFirst, Framing, HciControllerH4StartupSyncProcess,
           NextMatch(Head(line)) < 4
    PROVE  Framing'
<1> SUFFICES ASSUME step' = "IN" PROVE Framing'
  BY DEF Framing
<1>0. Len(H4Reset) = 4 /\ ~(NextMatch(Head(line)) = 4)
  BY ResetIs
<1>1. /\ H4StartupResetSyncActive /\ line # <<>> /\ step = "IN" /\ expect' = expect
      /\ H4StartupResetMatch' = NextMatch(Head(line)) /\ line' = Tail(line)
      /\ H4StartupResetSyncActive' = H4StartupResetSyncActive
      /\ UNCHANGED <<RxChunk, DropRemaining, InvalidTypeCount, RejectedMark>>
  BY <1>0 DEF HciControllerH4StartupSyncProcess, parserVars
<1>2. Matched \o line = Flat /\ ~HciIntrfTransportSuspect /\ DropRemaining = 0
  BY <1>1, ScanInStep
<1>3. H4StartupResetSync /\ ~Open /\ RxChunk = <<>>
  BY <1>1 DEF Closed
<1>4. expect # <<>> => expect[1] = H4Reset
  BY <1>1, <1>3 DEF ResetFirst
<1>5. /\ NextMatch(Head(line)) = H4StartupResetMatch + 1
      /\ SubSeq(H4Reset, 1, H4StartupResetMatch + 1) \o Tail(line) = Flat
  BY <1>1, <1>2, <1>4, ScanNext
<1>6. Taken' = SubSeq(H4Reset, 1, H4StartupResetMatch + 1)
  BY <1>1, <1>5 DEF Taken
<1>7. PICK t \in Seq(Byte) : t = Tail(line)
  <2>1. line \in Seq(Byte)
    BY StreamTyped
  <2>2. Tail(line) \in Seq(Byte)
    BY <1>1, <2>1
  <2> QED
    BY <2>2
<1>8. RxChunk' \o line' = t
  BY <1>1, <1>3, <1>7, ConcatEmptySeq
<1>9. Taken' \o t = Flat'
  BY <1>1, <1>5, <1>6, <1>7 DEF Flat
<1>10. Rest(t, 0) = t
  BY RestNone
<1>11. Taken' \o Rest(RxChunk' \o line', DropRemaining') = Flat' /\ ~HciIntrfTransportSuspect'
  BY <1>1, <1>2, <1>8, <1>9, <1>10 DEF HciIntrfTransportSuspect
<1>12. DropRemaining' <= Len(RxChunk') + Len(line')
  <2>1. Len(t) \in Nat /\ Len(<<>>) = 0
    OBVIOUS
  <2> QED
    BY <1>1, <1>2, <1>3, <1>7, <2>1
<1> QED
  BY <1>11, <1>12 DEF Framing, FramesInStep

(* The scan has found the Reset. *)
LEMMA FoundFrames ==
    ASSUME TypeOK, HeaderTells, Closed, ResetFirst, BootText, Framing,
           step = "AFTER" => ~HciIntrfTransportSuspect,
           HciControllerH4StartupSyncProcess, NextMatch(Head(line)) = 4
    PROVE  Framing'
<1> SUFFICES ASSUME step' = "IN" PROVE Framing'
  BY DEF Framing
<1>0. Len(H4Reset) = 4 /\ ~(NextMatch(Head(line)) < 4)
  BY ResetIs
<1>1. /\ H4StartupResetSyncActive /\ line # <<>> /\ step # "OUT" /\ expect' = expect
      /\ State' = "DELIVER" /\ Type' = COMMAND /\ pPacket' = Tail(H4Reset)
      /\ H4StartupResetSyncActive' = FALSE
      /\ UNCHANGED <<DropRemaining, InvalidTypeCount, RejectedMark>>
  BY <1>0 DEF HciControllerH4StartupSyncProcess
<1>2. PICK n \in 1 .. ChunkSize : n <= Len(line) /\ RxChunk' = SubSeq(line, 2, n) /\ line' = Rest(line, n)
  BY <1>0 DEF HciControllerH4StartupSyncProcess
<1>3. H4StartupResetSync /\ ~Open /\ State = "TYPE" /\ DropRemaining = 0
  BY <1>1 DEF Closed, HeaderTells
<1>4. step \in {"IN", "AFTER"}
  BY <1>1 DEF TypeOK
<1>5. Matched \o line = Flat /\ ~HciIntrfTransportSuspect
  BY <1>1, <1>4, ScanInStep, ScanEnds
<1>6. expect # <<>> => expect[1] = H4Reset
  BY <1>1, <1>3 DEF ResetFirst
<1>7. /\ NextMatch(Head(line)) = H4StartupResetMatch + 1
      /\ SubSeq(H4Reset, 1, H4StartupResetMatch + 1) \o Tail(line) = Flat
  BY <1>1, <1>5, <1>6, ScanNext
<1>8. SubSeq(H4Reset, 1, 4) = H4Reset
  <2>1. PICK s \in Seq(Byte) : s = H4Reset /\ Len(s) = 4
    BY ResetIs
  <2>2. SubSeq(s, 1, 4) = s
    BY <2>1
  <2> QED
    BY ONLY <2>1, <2>2, Zenon
<1>9. Taken' = H4Reset
  <2>1. Taken' = <<COMMAND>> \o Tail(H4Reset)
    BY <1>1 DEF Taken
  <2> QED
    BY <2>1, ResetIs
<1>10. PICK l \in Seq(Byte) : l = line /\ n \in 1 .. Len(l)
  BY <1>2, StreamTyped, TransportAssumption
<1>11. RxChunk' \o line' = Tail(line)
  <2>1. SubSeq(l, 2, n) \o Rest(l, n) = Rest(l, 1) /\ Rest(l, 1) = Tail(l)
    BY <1>10, Cut
  <2> QED
    BY <1>2, <1>10, <2>1
<1>12. RxChunk' \in Seq(Byte) /\ line' \in Seq(Byte) /\ Len(RxChunk') \in Nat /\ Len(line') \in Nat
  <2>1. Rest(l, n) \in Seq(Byte) /\ SubSeq(l, 2, n) \in Seq(Byte)
    BY <1>10, RestIs
  <2> QED
    BY <1>2, <1>10, <2>1
<1>13. PICK t \in Seq(Byte) : t = Tail(line)
  <2>1. line \in Seq(Byte)
    BY StreamTyped
  <2>2. Tail(line) \in Seq(Byte)
    BY <1>1, <2>1
  <2> QED
    BY <2>2
<1>14. Rest(t, 0) = t
  BY RestNone
<1>15. Taken' \o t = Flat'
  BY <1>1, <1>7, <1>8, <1>9, <1>13 DEF Flat
<1>16. Taken' \o Rest(RxChunk' \o line', DropRemaining') = Flat' /\ ~HciIntrfTransportSuspect'
  BY <1>1, <1>3, <1>5, <1>11, <1>13, <1>14, <1>15 DEF HciIntrfTransportSuspect
<1>17. DropRemaining' <= Len(RxChunk') + Len(line')
  BY <1>1, <1>3, <1>12
<1> QED
  BY <1>16, <1>17 DEF Framing, FramesInStep

(* Opening and agreeing again. *)
LEMMA OpenFrames ==
    ASSUME TypeOK, HeaderTells, Closed, Framing, HciControllerPortOpen
    PROVE  Framing'
<1> SUFFICES ASSUME step' = "IN" PROVE Framing'
  BY DEF Framing
<1>1. ~Open /\ ~H4StartupResetSyncActive
  BY DEF HciControllerPortOpen
<1>2. line \in Seq(Byte) /\ RxChunk \in Seq(Byte)
  BY StreamTyped
<1>3. ASSUME step = "IN", DropRemaining' = 0, RxChunk' = <<>>, line' = line, expect' = expect,
             Taken' = <<>>, ~HciIntrfTransportSuspect'
      PROVE  Framing'
  <2>1. State = "TYPE" /\ RxChunk = <<>> /\ DropRemaining = 0 /\ Taken = <<>>
    BY <1>1, <1>3 DEF Closed, HeaderTells, Taken
  <2>2. Taken' \o Rest(RxChunk' \o line', DropRemaining') = Flat'
    BY <1>3, <2>1 DEF Framing, FramesInStep, Flat
  <2>3. DropRemaining' <= Len(RxChunk') + Len(line')
    BY <1>3, <2>1 DEF Framing
  <2> QED
    BY <1>3, <2>2, <2>3 DEF Framing, FramesInStep
<1>4. CASE OpenScanning
  <2>1. /\ step = "IN" /\ DropRemaining' = 0 /\ RxChunk' = <<>> /\ line' = line /\ expect' = expect
        /\ H4StartupResetSyncActive' /\ H4StartupResetMatch' = 0
        /\ InvalidTypeCount' = InvalidTypeCount /\ RejectedMark' = RejectedMark
    BY <1>4 DEF OpenScanning, TransportClosed, HciH4ReleasePacket
  <2>2. SubSeq(H4Reset, 1, 0) = <<>>
    <3>1. 0 \in 0 .. 4
      OBVIOUS
    <3>2. SubSeq(H4Reset, 1, 0) \in Seq(Byte) /\ Len(SubSeq(H4Reset, 1, 0)) = 0
      BY <3>1, MatchedIs
    <3> QED
      BY <3>2, EmptySeq
  <2>3. Taken' = <<>>
    BY <2>1, <2>2 DEF Taken
  <2>4. ~HciIntrfTransportSuspect'
    BY <2>1 DEF Framing, FramesInStep, HciIntrfTransportSuspect
  <2> QED
    BY <1>3, <2>1, <2>3, <2>4
<1>5. CASE OpenFlushing
  <2>1. PICK n \in 0 .. Len(line) : /\ line' = Rest(line, n)
                                    /\ IF n = 0 THEN UNCHANGED <<step, expect>> ELSE OutOfStep
    BY <1>5 DEF OpenFlushing
  <2>2. n = 0
    BY <2>1 DEF OutOfStep
  <2>3. line' = line /\ step = "IN" /\ expect' = expect
    BY <1>2, <2>1, <2>2, RestNone
  <2>4. /\ RxChunk' = <<>> /\ DropRemaining' = 0 /\ State' = "TYPE" /\ InvalidTypeCount' = InvalidTypeCount
        /\ RejectedMark' = InvalidTypeCount /\ H4StartupResetSyncActive' = H4StartupResetSyncActive
    BY <1>5 DEF OpenFlushing, TransportClosed, HciH4ReleasePacket, syncVars
  <2>5. Taken' = <<>> /\ ~HciIntrfTransportSuspect'
    BY <1>1, <2>4 DEF Taken, HciIntrfTransportSuspect
  <2> QED
    BY <1>3, <2>3, <2>4, <2>5
<1>6. CASE OpenKeeping
  <2>1. PICK n \in Readable : RxChunk' = SubSeq(line, 1, n) /\ line' = Rest(line, n)
    BY <1>6 DEF OpenKeeping
  <2>2. /\ step = "IN" /\ UNCHANGED <<expect, State, Type, pPacket, DropRemaining, InvalidTypeCount, RejectedMark,
                                     H4StartupResetSyncActive, H4StartupResetMatch>>
    BY <1>6 DEF OpenKeeping, parserVars, syncVars
  <2>3. RxChunk = <<>> /\ Taken' = Taken
    BY <1>1, <2>2 DEF Closed, Taken
  <2> QED
    BY <2>1, <2>2, <2>3, ReadFrames
<1> QED
  BY <1>4, <1>5, <1>6 DEF HciControllerPortOpen

LEMMA AgainFrames ==
    ASSUME TypeOK, HeaderTells, InStepAgain
    PROVE  Framing'
<1>1. /\ State' = "TYPE" /\ RxChunk' = <<>> /\ line' = <<>> /\ expect' = <<>>
      /\ ~H4StartupResetSyncActive' /\ DropRemaining' = 0 /\ ~HciIntrfTransportSuspect'
  BY DEF InStepAgain, HeaderTells, parserVars, portVars, syncVars, HciIntrfTransportSuspect
<1>2. Taken' = <<>> /\ Flat' = <<>>
  BY <1>1, JoinNone DEF Taken, Flat
<1>3. /\ <<>> \o <<>> = <<>> /\ Rest(<<>>, 0) = <<>> /\ Len(<<>>) = 0
  <2>0. <<>> \in Seq(Byte)
    OBVIOUS
  <2>1. PICK e \in Seq(Byte) : e = <<>>
    BY <2>0
  <2>2. e \o e = e /\ Rest(e, 0) = e
    BY <2>1, RestNone, ConcatEmptySeq
  <2> QED
    BY <2>1, <2>2
<1>4. Taken' \o Rest(RxChunk' \o line', DropRemaining') = Flat'
  BY <1>1, <1>2, <1>3
<1>5. DropRemaining' <= Len(RxChunk') + Len(line')
  BY <1>1, <1>3
<1> QED
  BY <1>1, <1>4, <1>5 DEF Framing, FramesInStep

(* Boot text, the host, and the scan between the two. *)
LEMMA BootSends ==
    ASSUME TypeOK, BootText, NEW p \in HostPacket, HostSends(p)
    PROVE  BootText'
<1> SUFFICES ASSUME H4StartupResetSync', ~Open', step' = "AFTER"
             PROVE  \/ /\ \A i \in 1 .. H4StartupResetMatch' : H4Reset[i] \in Garbage
                       /\ \E k \in 0 .. Len(line') : /\ \A i \in 1 .. k : line'[i] \in Garbage
                                                     /\ Rest(line', k) = Flat'
                    \/ Matched' \o line' = Flat' /\ expect' # <<>>
  BY DEF BootText
<1>1. /\ H4StartupResetSync /\ ~Open /\ step = "AFTER" /\ line' = line \o p
      /\ expect' = Append(expect, p) /\ H4StartupResetMatch' = H4StartupResetMatch
  BY DEF HostSends, portVars, syncVars
<1>2. line \in Seq(Byte) /\ expect \in Seq(Seq(Byte))
  BY StreamTyped, FlatIs
<1>3. p \in Seq(Byte)
  <2>1. p \in Seq(Octet) /\ Octet \subseteq Byte
    BY TransportAssumption, OctetAssumption DEF Byte
  <2> QED
    BY <2>1, SeqWider
<1>4. Flat' = Flat \o p
  BY <1>1, <1>2, <1>3, JoinAppend DEF Flat
<1>5. PICK l \in Seq(Byte) : l = line
  BY <1>2
<1>6. /\ Len(l \o p) = Len(l) + Len(p) /\ Len(l) \in Nat /\ Len(p) \in Nat
      /\ \A i \in 1 .. Len(l) : (l \o p)[i] = l[i]
  BY <1>3, ConcatIs
<1>7. ASSUME \A i \in 1 .. H4StartupResetMatch : H4Reset[i] \in Garbage,
             NEW k \in 0 .. Len(l), \A i \in 1 .. k : l[i] \in Garbage, Rest(l, k) = Flat
      PROVE  /\ \A i \in 1 .. H4StartupResetMatch' : H4Reset[i] \in Garbage
             /\ \E j \in 0 .. Len(line') : /\ \A i \in 1 .. j : line'[i] \in Garbage
                                           /\ Rest(line', j) = Flat'
  <2>1. Rest(l \o p, k) = Rest(l, k) \o p
    BY <1>3, RestConcat
  <2>2. Rest(line', k) = Flat'
    BY <1>1, <1>4, <1>5, <1>7, <2>1
  <2>3. k \in 0 .. Len(l \o p) /\ \A i \in 1 .. k : (l \o p)[i] \in Garbage
    <3>1. \A i \in 1 .. k : i \in 1 .. Len(l)
      BY <1>6
    <3> QED
      BY <1>6, <1>7, <3>1
  <2>4. k \in 0 .. Len(line') /\ \A i \in 1 .. k : line'[i] \in Garbage
    BY <1>1, <1>5, <2>3
  <2> QED
    BY <1>1, <1>7, <2>2, <2>4
<1>8. ASSUME Matched \o line = Flat PROVE Matched' \o line' = Flat' /\ expect' # <<>>
  <2>1. H4StartupResetMatch \in 0 .. 4
    BY DEF TypeOK
  <2>2. PICK m \in Seq(Byte) : m = Matched
    BY <2>1, MatchedIs DEF Matched
  <2>3. (m \o l) \o p = m \o (l \o p)
    BY ONLY <1>3, <1>5, <2>2, OctetsAssociate, SMTT(30)
  <2>4. Matched' = Matched
    BY <1>1 DEF Matched
  <2>5. Matched' \o line' = Flat'
    BY <1>1, <1>4, <1>5, <1>8, <2>2, <2>3, <2>4
  <2>6. expect' # <<>>
    <3>1. PICK e \in Seq(Seq(Byte)) : e = expect
      BY <1>2
    <3>2. Len(Append(e, p)) = Len(e) + 1 /\ Len(e) \in Nat
      BY <1>3
    <3>3. Append(e, p) # <<>>
      BY <3>2
    <3> QED
      BY <1>1, <3>1, <3>3
  <2> QED
    BY <2>5, <2>6
<1> QED
  BY <1>1, <1>5, <1>7, <1>8 DEF BootText

LEMMA BootGarbage ==
    ASSUME TypeOK, HeaderTells, Closed, Framing, BootText, NEW o \in Garbage, GarbageArrives(o)
    PROVE  BootText'
<1> SUFFICES ASSUME H4StartupResetSync', ~Open', step' = "AFTER"
             PROVE  /\ \A i \in 1 .. H4StartupResetMatch' : H4Reset[i] \in Garbage
                    /\ \E k \in 0 .. Len(line') : /\ \A i \in 1 .. k : line'[i] \in Garbage
                                                  /\ Rest(line', k) = Flat'
  BY DEF BootText
<1>1. /\ H4StartupResetSync /\ ~Open /\ step # "OUT" /\ expect = <<>> /\ line' = Append(line, o)
      /\ expect' = <<>> /\ H4StartupResetMatch' = H4StartupResetMatch
  BY DEF GarbageArrives, portVars, syncVars
<1>2. PICK l \in Seq(Byte), m \in 0 .. 3 : l = line /\ m = H4StartupResetMatch
  BY StreamTyped DEF TypeOK
<1>3. o \in Byte /\ Flat = <<>> /\ Flat' = <<>>
  BY <1>1, FlatIs, JoinNone, TransportAssumption, OctetAssumption DEF Flat, Byte
<1>4. /\ \A i \in 1 .. m : H4Reset[i] \in Garbage
      /\ \A i \in 1 .. Len(l) : l[i] \in Garbage
  <2>1. CASE step = "IN"
    <3>1. State = "TYPE" /\ RxChunk = <<>> /\ DropRemaining = 0
      BY <1>1 DEF Closed, HeaderTells
    <3>2. Matched \in Seq(Byte) /\ Len(Matched) = m
      <4>1. m \in 0 .. 4
        OBVIOUS
      <4> QED
        BY <1>2, <4>1, MatchedIs DEF Matched
    <3>3. Matched \o line = Flat
      <4>1. CASE H4StartupResetSyncActive
        BY <2>1, <4>1, ScanInStep
      <4>2. CASE ~H4StartupResetSyncActive
        <5>1. Taken = <<>> /\ m = 0
          BY <1>2, <3>1, <4>2 DEF Taken, Closed
        <5>2. Matched = <<>>
          BY <3>2, <5>1, EmptySeq
        <5>3. Taken \o (RxChunk \o line) = Flat
          BY <2>1, <3>1, FramesPlain DEF Framing, FramesInStep
        <5>4. RxChunk \o line = line
          BY <1>2, <3>1, ConcatEmptySeq
        <5> QED
          BY <5>1, <5>2, <5>3, <5>4
      <4> QED
        BY <4>1, <4>2
    <3>4. PICK x \in Seq(Byte) : x = Matched
      BY <3>2
    <3>5. x \o l = <<>>
      BY <1>2, <1>3, <3>3, <3>4
    <3>6. Len(x \o l) = Len(x) + Len(l) /\ Len(l) \in Nat
      BY ConcatIs
    <3>7. Len(x \o l) = 0
      BY <3>5
    <3>8. m = 0 /\ Len(l) = 0
      BY <3>2, <3>4, <3>6, <3>7
    <3> QED
      BY <3>8
  <2>2. CASE step = "AFTER"
    <3>1. PICK k \in 0 .. Len(l) : /\ \A i \in 1 .. m : H4Reset[i] \in Garbage
                                   /\ \A i \in 1 .. k : l[i] \in Garbage
                                   /\ Rest(l, k) = <<>>
      BY <1>1, <1>2, <1>3, <2>2 DEF BootText
    <3>2. Len(Rest(l, k)) = Len(l) - k /\ Len(l) \in Nat
      BY RestIs
    <3>3. Len(Rest(l, k)) = 0
      <4>1. Len(<<>>) = 0
        OBVIOUS
      <4> QED
        BY <3>1, <4>1
    <3>4. k = Len(l)
      BY <3>2, <3>3
    <3> QED
      BY <3>1, <3>4
  <2> QED
    BY <1>1, <2>1, <2>2 DEF TypeOK
<1>5. PICK a \in Seq(Byte) : /\ a = Append(l, o) /\ Len(a) = Len(l) + 1 /\ a[Len(l) + 1] = o
                             /\ \A i \in 1 .. Len(l) : a[i] = l[i]
  <2>1. /\ Append(l, o) \in Seq(Byte) /\ Len(Append(l, o)) = Len(l) + 1 /\ Append(l, o)[Len(l) + 1] = o
        /\ \A i \in 1 .. Len(l) : Append(l, o)[i] = l[i]
    BY <1>3
  <2> QED
    BY ONLY <2>1, Zenon
<1>6. \A i \in 1 .. Len(a) : a[i] \in Garbage
  <2>1. \A i \in 1 .. Len(l) + 1 : i \in 1 .. Len(l) \/ i = Len(l) + 1
    OBVIOUS
  <2> QED
    BY <1>4, <1>5, <2>1
<1>7. Len(a) \in 0 .. Len(a) /\ Rest(a, Len(a)) = <<>>
  <2>1. Len(a) \in 0 .. Len(a)
    OBVIOUS
  <2>2. Rest(a, Len(a)) \in Seq(Byte) /\ Len(Rest(a, Len(a))) = Len(a) - Len(a)
    BY <2>1, RestIs
  <2>3. Len(a) - Len(a) = 0
    OBVIOUS
  <2> QED
    BY <2>1, <2>2, <2>3, EmptySeq
<1> QED
  BY <1>1, <1>2, <1>3, <1>4, <1>5, <1>6, <1>7

LEMMA BootScan ==
    ASSUME TypeOK, Closed, ResetFirst, BootText, HciControllerH4StartupSyncProcess,
           NextMatch(Head(line)) < 4
    PROVE  BootText'
<1> SUFFICES ASSUME H4StartupResetSync', ~Open', step' = "AFTER"
             PROVE  \/ /\ \A i \in 1 .. H4StartupResetMatch' : H4Reset[i] \in Garbage
                       /\ \E k \in 0 .. Len(line') : /\ \A i \in 1 .. k : line'[i] \in Garbage
                                                     /\ Rest(line', k) = Flat'
                    \/ Matched' \o line' = Flat' /\ expect' # <<>>
  BY DEF BootText
<1>0. Len(H4Reset) = 4 /\ ~(NextMatch(Head(line)) = 4)
  BY ResetIs
<1>1. /\ H4StartupResetSyncActive /\ line # <<>> /\ step = "AFTER" /\ expect' = expect
      /\ H4StartupResetMatch' = NextMatch(Head(line)) /\ line' = Tail(line)
      /\ H4StartupResetSync /\ ~Open
  BY <1>0 DEF HciControllerH4StartupSyncProcess, Closed
<1>2. PICK l \in Seq(Byte), m \in 0 .. 3 : l = line /\ m = H4StartupResetMatch
  BY StreamTyped DEF TypeOK
<1>3. /\ l # <<>> /\ Len(l) \in Nat /\ Len(l) >= 1 /\ Head(l) \in Byte /\ Head(l) = l[1]
      /\ Tail(l) \in Seq(Byte) /\ Len(Tail(l)) = Len(l) - 1
      /\ \A i \in 1 .. Len(l) - 1 : Tail(l)[i] = l[i + 1]
  BY <1>1, <1>2
<1>4. expect # <<>> => expect[1] = H4Reset
  BY <1>1 DEF ResetFirst
<1>5. CASE Matched \o line = Flat
  <2>1. /\ expect # <<>> /\ NextMatch(Head(line)) = H4StartupResetMatch + 1
        /\ SubSeq(H4Reset, 1, H4StartupResetMatch + 1) \o Tail(line) = Flat
    BY <1>1, <1>4, <1>5, ScanNext
  <2>2. Matched' \o line' = Flat'
    BY <1>1, <2>1 DEF Matched, Flat
  <2> QED
    BY <1>1, <2>1, <2>2
<1>6. ASSUME \A i \in 1 .. m : H4Reset[i] \in Garbage,
             NEW k \in 0 .. Len(l), \A i \in 1 .. k : l[i] \in Garbage, Rest(l, k) = Flat
      PROVE  \/ /\ \A i \in 1 .. H4StartupResetMatch' : H4Reset[i] \in Garbage
                /\ \E j \in 0 .. Len(line') : /\ \A i \in 1 .. j : line'[i] \in Garbage
                                              /\ Rest(line', j) = Flat'
             \/ Matched' \o line' = Flat' /\ expect' # <<>>
  <2>1. CASE k = 0
    <3>1. l = Flat
      BY <1>6, <2>1, RestNone
    <3>2. expect # <<>>
      BY <1>3, <3>1, FlatIs
    <3>3. PICK p \in Seq(Byte), q \in Seq(Byte) : p = H4Reset /\ Flat = p \o q /\ Len(p) = 4
      BY <1>4, <3>2, FlatIs, ResetIs
    <3>4. l[1] = H4Reset[1]
      <4>1. \A i \in 1 .. Len(p) : (p \o q)[i] = p[i]
        BY ConcatIs
      <4>2. (p \o q)[1] = p[1]
        BY <3>3, <4>1
      <4> QED
        BY ONLY <3>1, <3>3, <4>2, Zenon
    <3>5. NextMatch(Head(l)) = 1
      BY <1>3, <3>4, NextMatches
    <3>6. PICK e \in Seq(Byte) : e = <<>>
      <4>1. <<>> \in Seq(Byte)
        OBVIOUS
      <4> QED
        BY <4>1
    <3>7. Append(e, Head(l)) \o Tail(l) = e \o l
      BY <1>3, TakingOne
    <3>8. e \o l = l
      BY <3>6, ConcatEmptySeq
    <3>9. Append(e, Head(l)) = SubSeq(H4Reset, 1, 1)
      <4>1. SubSeq(H4Reset, 1, 1) \in Seq(Byte) /\ Len(SubSeq(H4Reset, 1, 1)) = 1 /\ SubSeq(H4Reset, 1, 1)[1] = H4Reset[1]
        <5>1. 1 \in 0 .. 4 /\ 1 \in 1 .. 1
          OBVIOUS
        <5> QED
          BY <5>1, MatchedIs
      <4>2. Append(e, Head(l)) \in Seq(Byte) /\ Len(Append(e, Head(l))) = 1 /\ Append(e, Head(l))[1] = l[1]
        BY <1>3, <3>6
      <4>3. PICK u \in Seq(Byte), v \in Seq(Byte) :
               u = Append(e, Head(l)) /\ v = SubSeq(H4Reset, 1, 1) /\ Len(u) = 1 /\ Len(v) = 1 /\ u[1] = v[1]
        BY <3>4, <4>1, <4>2
      <4>4. u = v
        BY <4>3, SameSeq
      <4> QED
        BY <4>3, <4>4
    <3>10. Matched' \o line' = Flat'
      <4>1. Matched' = SubSeq(H4Reset, 1, 1) /\ line' = Tail(l) /\ Flat' = Flat
        BY <1>1, <1>2, <3>5 DEF Matched, Flat
      <4> QED
        BY ONLY <3>1, <3>7, <3>8, <3>9, <4>1, Zenon
    <3> QED
      BY <1>1, <3>2, <3>10
  <2>2. CASE k # 0
    <3>1. 1 \in 1 .. k /\ k - 1 \in 0 .. Len(l) - 1 /\ (Len(l) - 1) - (k - 1) = Len(l) - k
          /\ k \in Nat
      BY <1>3, <2>2
    <3>2. Head(l) \in Garbage
      BY <1>3, <1>6, <3>1
    <3>3. ASSUME NEW i \in 1 .. NextMatch(Head(l)) PROVE H4Reset[i] \in Garbage
      <4>1. \/ NextMatch(Head(l)) = m + 1 /\ Head(l) = H4Reset[m + 1]
            \/ NextMatch(Head(l)) = 1 /\ Head(l) = H4Reset[1]
            \/ NextMatch(Head(l)) = 0
        BY <1>2, <1>3, NextMatches
      <4>2. CASE NextMatch(Head(l)) = m + 1 /\ Head(l) = H4Reset[m + 1]
        <5>1. i \in 1 .. m \/ i = m + 1
          BY <4>2
        <5> QED
          BY <1>6, <3>2, <4>2, <5>1
      <4>3. CASE NextMatch(Head(l)) = 1 /\ Head(l) = H4Reset[1]
        <5>1. i = 1
          BY <4>3
        <5> QED
          BY <3>2, <4>3, <5>1
      <4>4. CASE NextMatch(Head(l)) = 0
        BY <4>4
      <4> QED
        BY <4>1, <4>2, <4>3, <4>4
    <3> DEFINE t == Tail(l)
               u == Rest(l, k)
               v == Rest(t, k - 1)
    <3>4. t \in Seq(Byte) /\ k - 1 \in 0 .. Len(t) /\ Len(t) = Len(l) - 1
          /\ \A i \in 1 .. Len(l) - 1 : t[i] = l[i + 1]
      BY <1>3, <3>1
    <3> HIDE DEF t
    <3>5. u \in Seq(Byte) /\ Len(u) = Len(l) - k /\ \A i \in 1 .. Len(l) - k : u[i] = l[k + i]
      BY RestIs
    <3>6. v \in Seq(Byte) /\ Len(v) = Len(l) - k /\ \A i \in 1 .. Len(l) - k : v[i] = t[(k - 1) + i]
      <4> DEFINE j == k - 1
      <4>1. j \in 0 .. Len(t) /\ Len(t) - j = Len(l) - k
        BY <3>1, <3>4
      <4> HIDE DEF j
      <4>2. /\ Rest(t, j) \in Seq(Byte) /\ Len(Rest(t, j)) = Len(t) - j
            /\ \A i \in 1 .. Len(t) - j : Rest(t, j)[i] = t[j + i]
        BY <3>4, <4>1, RestIs
      <4> QED
        BY ONLY <4>1, <4>2, Zenon DEF j
    <3> HIDE DEF u, v
    <3>7. u = v
      <4>1. ASSUME NEW i \in 1 .. Len(u) PROVE u[i] = v[i]
        <5>1. i \in 1 .. Len(l) - k /\ (k - 1) + i \in 1 .. Len(l) - 1 /\ ((k - 1) + i) + 1 = k + i
          BY <1>3, <3>1, <3>5
        <5> QED
          BY <3>4, <3>5, <3>6, <5>1
      <4> QED
        BY <3>5, <3>6, <4>1, SameSeq
    <3>8. Rest(t, k - 1) = Flat'
      <4>1. Flat' = Flat
        BY <1>1 DEF Flat
      <4> QED
        BY <1>6, <3>7, <4>1 DEF u, v
    <3>9. \A i \in 1 .. k - 1 : t[i] \in Garbage
      <4>1. \A i \in 1 .. k - 1 : i + 1 \in 1 .. k /\ i \in 1 .. Len(l) - 1
        BY <1>3, <3>1
      <4> QED
        BY <1>6, <3>4, <4>1
    <3>10. line' = t /\ H4StartupResetMatch' = NextMatch(Head(l))
      BY <1>1, <1>2 DEF t
    <3>11. \E j \in 0 .. Len(line') : (\A i \in 1 .. j : line'[i] \in Garbage) /\ Rest(line', j) = Flat'
      BY <3>4, <3>8, <3>9, <3>10
    <3> QED
      BY <3>3, <3>10, <3>11
  <2> QED
    BY <2>1, <2>2
<1> QED
  BY <1>1, <1>2, <1>5, <1>6 DEF BootText

(* The header of the packet stays what it was while the payload arrives. *)
LEMMA FeedTells ==
    ASSUME TypeOK, HeaderTells, NEW o \in Byte, FeedOctet(o)
    PROVE  HeaderTells'
<1>0. /\ State # "TYPE" => Type \in PacketType
      /\ State = "PAYLOAD" => HciH4HeaderLen[Type] <= Len(pPacket)
      /\ pPacket \in Seq(Byte) /\ DropRemaining \in Nat
  BY DEF TypeOK, ParserInv, ParserTypeOK, ParserConsistent, Byte
<1>1. CASE FeedType(o)
  BY <1>1 DEF FeedType, HeaderTells
<1>2. CASE FeedHeader(o)
  <2>1. State = "HEADER" /\ DropRemaining = 0 /\ Type' = Type
    BY <1>2 DEF FeedHeader, HeaderTells
  <2>2. CASE State' = "HEADER" /\ DropRemaining' = DropRemaining
    BY <2>1, <2>2 DEF HeaderTells
  <2>3. CASE HeaderDone(Append(pPacket, o))
    <3> DEFINE h == Append(pPacket, o)
               len == HciH4PayloadLen(Type, h)
    <3>1. /\ PayloadLen' = len
          /\ \/ DropRemaining' = len /\ State' = IF len = 0 THEN "TYPE" ELSE "DROP"
             \/ pPacket' = h /\ State' = (IF len = 0 THEN "DELIVER" ELSE "PAYLOAD") /\ DropRemaining' = DropRemaining
      BY <2>3 DEF HeaderDone
    <3> HIDE DEF h
    <3>2. PayloadLen' = HciH4PayloadLen(Type, h)
      BY <3>1
    <3> HIDE DEF len
    <3> QED
      BY <2>1, <3>1, <3>2 DEF HeaderTells
  <2> QED
    BY <1>2, <2>1, <2>2, <2>3 DEF FeedHeader
<1>3. CASE FeedPayload(o)
  <2>1. /\ State = "PAYLOAD" /\ State' \in {"PAYLOAD", "DELIVER"} /\ pPacket' = Append(pPacket, o)
        /\ UNCHANGED <<Type, PayloadLen, DropRemaining>>
    BY <1>3 DEF FeedPayload
  <2>2. PICK h \in Seq(Byte), t \in PacketType : h = pPacket /\ t = Type /\ HciH4HeaderLen[t] <= Len(h)
    BY <1>0, <2>1
  <2>3. \A i \in 1 .. HciH4HeaderLen[t] : Append(h, o)[i] = h[i]
    <3>1. \A i \in 1 .. HciH4HeaderLen[t] : i \in 1 .. Len(h)
      BY <2>2, HeaderLens
    <3>2. \A i \in 1 .. Len(h) : Append(h, o)[i] = h[i]
      OBVIOUS
    <3> QED
      BY <3>1, <3>2
  <2>4. HciH4PayloadLen(t, Append(h, o)) = HciH4PayloadLen(t, h)
    BY <2>3, HeaderEnough
  <2> QED
    BY <2>1, <2>2, <2>4 DEF HeaderTells
<1>4. CASE FeedDrop(o)
  BY <1>0, <1>4 DEF FeedDrop, HeaderTells, HciH4ReleasePacket
<1> QED
  BY <1>1, <1>2, <1>3, <1>4 DEF FeedOctet

LEMMA NextHeaderTells ==
    ASSUME TypeOK, HeaderTells, Closed, [Next]_vars
    PROVE  HeaderTells'
<1>1. ASSUME HciH4ReleasePacket PROVE HeaderTells'
  BY <1>1 DEF HciH4ReleasePacket, HeaderTells
<1>2. ASSUME UNCHANGED parserVars PROVE HeaderTells'
  BY <1>2 DEF parserVars, HeaderTells
<1>3. CASE FeedChunk
  <2>1. FeedOctet(Head(RxChunk)) /\ RxChunk # <<>> /\ RxChunk \in Seq(Byte)
    BY <1>3, StreamTyped DEF FeedChunk
  <2>2. Head(RxChunk) \in Byte
    BY <2>1
  <2> QED
    BY <2>1, <2>2, FeedTells
<1>4. CASE HciControllerH4StartupSyncProcess
  <2>1. CASE UNCHANGED parserVars
    BY <1>2, <2>1
  <2>2. CASE /\ State' = "DELIVER" /\ Type' = COMMAND /\ pPacket' = Tail(H4Reset) /\ PayloadLen' = 0
             /\ UNCHANGED DropRemaining /\ H4StartupResetSyncActive /\ DropRemaining = 0
    <3>1. HciH4PayloadLen(COMMAND, Tail(H4Reset)) = 0
      <4>1. Tail(H4Reset) = <<3, 12, 0>>
        BY ResetIs
      <4>2. <<3, 12, 0>>[3] = 0
        OBVIOUS
      <4>3. Tail(H4Reset)[3] = 0
        BY ONLY <4>1, <4>2, Zenon
      <4>4. ASSUME NEW h PROVE HciH4PayloadLen(COMMAND, h) = h[3]
        BY DEF HciH4PayloadLen, COMMAND, EVENT
      <4> QED
        BY ONLY <4>3, <4>4, Zenon
    <3> QED
      BY <2>2, <3>1 DEF HeaderTells
  <2>3. H4StartupResetSyncActive /\ DropRemaining = 0
    BY <1>4 DEF HciControllerH4StartupSyncProcess, Closed, HeaderTells
  <2> QED
    BY <1>4, <2>1, <2>2, <2>3 DEF HciControllerH4StartupSyncProcess
<1>5. CASE HciControllerPortOpen
  BY <1>1, <1>2, <1>5 DEF HciControllerPortOpen, OpenScanning, OpenKeeping, OpenFlushing, TransportClosed
<1>6. CASE HciIntrfTransportIdle
  BY <1>1, <1>2, <1>6 DEF HciIntrfTransportIdle, TransportClosed
<1> QED
  BY <1>1, <1>2, <1>3, <1>4, <1>5, <1>6
  DEF Next, vars, HostSends, GarbageArrives, InStepAgain, HciControllerPortClose, TransportClosed,
      HciIntrfTransportDropPendingSuspect, HciH4ParserReleasePending, ReadChunk, ReadNothing,
      HciIntrfPacketRxData, PacketAccepted

(* The scan and the port. *)
LEMMA NextClosed ==
    ASSUME TypeOK, Closed, [Next]_vars
    PROVE  Closed'
<1> USE DEF Closed
<1>0. Len(H4Reset) = 4
  BY ResetIs
<1>1. CASE \E p \in HostPacket : HostSends(p)
  BY <1>1 DEF HostSends, parserVars, portVars, syncVars
<1>2. CASE \E o \in Garbage : GarbageArrives(o)
  BY <1>2 DEF GarbageArrives, parserVars, portVars, syncVars
<1>3. CASE InStepAgain
  BY <1>3 DEF InStepAgain, parserVars, portVars, syncVars
<1>4. CASE HciControllerPortOpen
  BY <1>4 DEF HciControllerPortOpen, OpenScanning, OpenKeeping, OpenFlushing, TransportClosed,
              HciH4ReleasePacket, parserVars, syncVars
<1>5. CASE HciControllerPortClose
  BY <1>5 DEF HciControllerPortClose, TransportClosed, HciH4ReleasePacket, OutOfStep
<1>6. CASE HciControllerH4StartupSyncProcess
  <2>1. CASE Open' = TRUE /\ H4StartupResetSyncActive' = FALSE /\ H4StartupResetMatch' = 0
    BY <2>1
  <2>2. CASE /\ H4StartupResetSyncActive
             /\ UNCHANGED <<H4StartupResetSync, H4StartupResetSyncActive, Open, State, RxChunk, step>>
    BY <2>2
  <2> QED
    BY <1>6, <2>1, <2>2 DEF HciControllerH4StartupSyncProcess, parserVars
<1>7. CASE Open /\ UNCHANGED portVars
  BY <1>7 DEF portVars, syncVars
<1>8. CASE PacketAccepted
  BY <1>8 DEF PacketAccepted, parserVars, portVars, syncVars, history
<1>9. CASE HciIntrfTransportIdle
  BY <1>9 DEF HciIntrfTransportIdle, TransportClosed, HciH4ReleasePacket, parserVars, portVars, syncVars, history
<1>10. CASE UNCHANGED vars
  BY <1>10 DEF vars, parserVars, portVars, syncVars, history
<1> QED
  BY <1>1, <1>2, <1>3, <1>4, <1>5, <1>6, <1>7, <1>8, <1>9, <1>10
  DEF Next, HciIntrfTransportDropPendingSuspect, FeedChunk, ReadChunk, ReadNothing, HciIntrfPacketRxData, Reading

(* The Reset the host of a scanning UART begins with. *)
LEMMA NextResetFirst ==
    ASSUME TypeOK, Closed, ResetFirst, [Next]_vars
    PROVE  ResetFirst'
<1> USE DEF ResetFirst
<1>1. CASE \E p \in HostPacket : HostSends(p)
  <2>1. PICK p \in HostPacket : HostSends(p)
    BY <1>1
  <2> SUFFICES ASSUME H4StartupResetSync', ~Open', step' # "OUT"
               PROVE  expect' # <<>> /\ expect'[1] = H4Reset
    OBVIOUS
  <2>2. /\ H4StartupResetSync /\ ~Open /\ step # "OUT" /\ expect' = Append(expect, p)
        /\ sent = 0 => p = H4Reset
    BY <2>1 DEF HostSends, portVars, syncVars
  <2>3. PICK e \in Seq(HostPacket) : e = expect
    BY DEF TypeOK
  <2>4. /\ Append(e, p) # <<>> /\ Len(e) \in Nat
        /\ Len(e) = 0 => e = <<>> /\ Append(e, p)[1] = p
        /\ Len(e) # 0 => e # <<>> /\ Append(e, p)[1] = e[1]
    <3>1. Len(Append(e, p)) = Len(e) + 1 /\ Len(e) \in Nat
      OBVIOUS
    <3>2. Append(e, p) # <<>>
      BY <3>1
    <3> QED
      BY <3>1, <3>2
  <2> QED
    BY <2>2, <2>3, <2>4
<1>2. CASE \E o \in Garbage : GarbageArrives(o)
  BY <1>2 DEF GarbageArrives, portVars, syncVars
<1>3. CASE InStepAgain
  BY <1>3 DEF InStepAgain, portVars, syncVars
<1>4. CASE HciControllerPortOpen
  BY <1>4 DEF HciControllerPortOpen, OpenScanning, OpenKeeping, OpenFlushing, syncVars
<1>5. CASE HciControllerPortClose
  BY <1>5 DEF HciControllerPortClose, OutOfStep
<1>6. CASE HciControllerH4StartupSyncProcess
  <2>1. CASE Open' = TRUE
    BY <2>1
  <2>2. CASE UNCHANGED <<H4StartupResetSync, Open, step, expect, sent>>
    BY <2>2
  <2> QED
    BY <1>6, <2>1, <2>2 DEF HciControllerH4StartupSyncProcess, envVars
<1>7. CASE Open /\ UNCHANGED portVars
  BY <1>7 DEF portVars, syncVars
<1>8. CASE PacketAccepted
  BY <1>8 DEF PacketAccepted, portVars, syncVars, history, envVars
<1>9. CASE HciIntrfTransportIdle
  BY <1>9 DEF HciIntrfTransportIdle, portVars, syncVars, history, envVars
<1>10. CASE UNCHANGED vars
  BY <1>10 DEF vars, portVars, syncVars, history, envVars
<1> QED
  BY <1>1, <1>2, <1>3, <1>4, <1>5, <1>6, <1>7, <1>8, <1>9, <1>10
  DEF Next, HciIntrfTransportDropPendingSuspect, FeedChunk, ReadChunk, ReadNothing, HciIntrfPacketRxData, Reading

(* Boot text is only taken off the line by the scan. *)
LEMMA NextBootText ==
    ASSUME TypeOK, HeaderTells, Closed, ResetFirst, BootText, Framing,
           step = "AFTER" => ~HciIntrfTransportSuspect, [Next]_vars
    PROVE  BootText'
<1>0. Len(H4Reset) = 4
  BY ResetIs
<1>1. CASE \E p \in HostPacket : HostSends(p)
  BY <1>1, BootSends
<1>2. CASE \E o \in Garbage : GarbageArrives(o)
  BY <1>2, BootGarbage
<1>3. CASE H4StartupResetSync' => Open' \/ step' # "AFTER"
  BY <1>3 DEF BootText
<1>4. ASSUME UNCHANGED <<H4StartupResetSync, line, expect, step, H4StartupResetMatch>>, ~Open
      PROVE  BootText'
  BY <1>4 DEF BootText, Matched, Flat
<1>5. CASE HciControllerPortOpen
  <2>1. H4StartupResetMatch = 0 /\ ~Open
    BY <1>5 DEF HciControllerPortOpen, Closed
  <2> QED
    BY <1>3, <1>4, <1>5, <2>1 DEF HciControllerPortOpen, OpenScanning, OpenKeeping, OpenFlushing, syncVars
<1>6. CASE HciControllerH4StartupSyncProcess
  <2>1. CASE NextMatch(Head(line)) < 4
    BY <1>6, <2>1, BootScan
  <2>2. CASE ~(NextMatch(Head(line)) < 4)
    BY <1>0, <1>3, <1>6, <2>2 DEF HciControllerH4StartupSyncProcess
  <2> QED
    BY <2>1, <2>2
<1>7. CASE Open /\ UNCHANGED portVars
  BY <1>3, <1>7 DEF portVars, syncVars
<1>8. CASE PacketAccepted
  BY <1>3, <1>4, <1>8 DEF PacketAccepted, portVars, syncVars, history
<1>9. CASE HciIntrfTransportIdle
  BY <1>3, <1>9 DEF HciIntrfTransportIdle, history
<1>10. CASE UNCHANGED vars
  BY <1>3, <1>4, <1>10 DEF vars, portVars, syncVars, history
<1>11. CASE InStepAgain
  BY <1>3, <1>11 DEF InStepAgain
<1>12. CASE HciControllerPortClose
  BY <1>3, <1>12 DEF HciControllerPortClose, OutOfStep
<1> QED
  BY <1>1, <1>2, <1>5, <1>6, <1>7, <1>8, <1>9, <1>10, <1>11, <1>12
  DEF Next, HciIntrfTransportDropPendingSuspect, FeedChunk, ReadChunk, ReadNothing, HciIntrfPacketRxData, Reading

(* The types, the packets expected among them. *)
LEMMA NextTypeOK ==
    ASSUME TypeOK, HeaderTells, Closed, Framing, [Next]_vars
    PROVE  TypeOK'
<1>1. Inv'
  BY NextInv DEF TypeOK, Inv
<1>2. expect' \in Seq(HostPacket)
  <2>1. expect \in Seq(HostPacket) /\ <<>> \in Seq(HostPacket)
    BY DEF TypeOK
  <2>2. CASE \E p \in HostPacket : HostSends(p)
    BY <2>1, <2>2 DEF HostSends
  <2>3. CASE expect' = expect \/ expect' = <<>>
    BY <2>1, <2>3
  <2>4. ASSUME step = "IN", Open, State \in {"HEADER", "PAYLOAD", "DELIVER"}
        PROVE  Tail(expect) \in Seq(HostPacket)
    <3>1. Taken = <<Type>> \o pPacket
      BY <2>4 DEF Taken, Closed
    <3>2. PICK u \in Seq(Byte), v \in Seq(Byte) : u = <<Type>> /\ v = pPacket /\ Len(u) = 1
      <4>1. Type \in Byte /\ pPacket \in Seq(Byte)
        BY <2>4 DEF TypeOK, ParserInv, ParserTypeOK, ParserConsistent, Byte, PacketType, COMMAND, ISO
      <4>2. <<Type>> \in Seq(Byte) /\ Len(<<Type>>) = 1
        BY <4>1
      <4> QED
        BY <4>1, <4>2
    <3>3. Len(u \o v) = Len(u) + Len(v) /\ Len(v) \in Nat
      BY ConcatIs
    <3>4. u \o v # <<>>
      <4>1. Len(u \o v) # 0
        BY <3>2, <3>3
      <4> QED
        BY <4>1
    <3>5. Taken # <<>>
      BY ONLY <3>1, <3>2, <3>4, Zenon
    <3>6. expect # <<>>
      BY <2>4, <3>5, UnderWay
    <3> QED
      BY <2>1, <3>6
  <2>5. CASE FeedChunk
    BY <2>3, <2>4, <2>5 DEF FeedChunk, Reading
  <2>6. CASE HciIntrfPacketRxData
    BY <2>3, <2>4, <2>6 DEF HciIntrfPacketRxData, Reading, HciH4ParserReleasePending, HciH4ParserDeliveryPending
  <2> QED
    BY <2>2, <2>3, <2>5, <2>6
    DEF Next, vars, history, GarbageArrives, InStepAgain, HciControllerPortOpen, OpenScanning, OpenKeeping,
        OpenFlushing, OutOfStep, HciControllerPortClose, HciControllerH4StartupSyncProcess,
        HciIntrfTransportDropPendingSuspect, ReadChunk, ReadNothing, PacketAccepted, HciIntrfTransportIdle
<1>3. step' \in {"IN", "AFTER", "OUT"}
  BY DEF TypeOK, Next, vars, history, HostSends, GarbageArrives, InStepAgain, HciControllerPortOpen,
         OpenScanning, OpenKeeping, OpenFlushing, OutOfStep, HciControllerPortClose,
         HciControllerH4StartupSyncProcess, HciIntrfTransportDropPendingSuspect, FeedChunk, ReadChunk,
         ReadNothing, HciIntrfPacketRxData, PacketAccepted, HciIntrfTransportIdle
<1>4. H4StartupResetMatch' \in 0 .. 3
  <2>1. CASE H4StartupResetMatch' \in {0, H4StartupResetMatch}
    BY <2>1 DEF TypeOK
  <2>2. CASE HciControllerH4StartupSyncProcess
    <3>1. Len(H4Reset) = 4
      BY ResetIs
    <3>2. line # <<>> /\ line \in Seq(Byte)
      BY <2>2, StreamTyped DEF HciControllerH4StartupSyncProcess
    <3>3. Head(line) \in Byte
      BY <3>2
    <3>4. NextMatch(Head(line)) \in 0 .. H4StartupResetMatch + 1 /\ H4StartupResetMatch \in 0 .. 3
      BY <3>3, NextMatches
    <3>5. \/ H4StartupResetMatch' = 0
          \/ H4StartupResetMatch' = NextMatch(Head(line)) /\ NextMatch(Head(line)) < 4
      BY <2>2, <3>1 DEF HciControllerH4StartupSyncProcess
    <3> QED
      BY <3>4, <3>5
  <2> QED
    BY <2>1, <2>2
    DEF Next, vars, portVars, syncVars, HostSends, GarbageArrives, InStepAgain, HciControllerPortOpen,
        OpenScanning, OpenKeeping, OpenFlushing, HciControllerPortClose,
        HciIntrfTransportDropPendingSuspect, FeedChunk, ReadChunk,
        ReadNothing, HciIntrfPacketRxData, PacketAccepted, HciIntrfTransportIdle
<1>5. RejectedMark' \in Nat
  <2>1. RejectedMark \in Nat /\ InvalidTypeCount \in Nat
    BY DEF TypeOK, ParserInv, ParserTypeOK
  <2>2. RejectedMark' \in {RejectedMark, InvalidTypeCount}
    BY DEF Next, vars, HostSends, GarbageArrives, InStepAgain, HciControllerPortOpen,
           OpenScanning, OpenKeeping, OpenFlushing, HciControllerPortClose,
           HciControllerH4StartupSyncProcess, HciIntrfTransportDropPendingSuspect, FeedChunk, ReadChunk,
           ReadNothing, HciIntrfPacketRxData, PacketAccepted, HciIntrfTransportIdle
  <2> QED
    BY <2>1, <2>2
<1>6. sent' \in Nat
  <2>1. sent \in Nat
    BY DEF TypeOK
  <2>2. sent' \in {sent, sent + 1}
    BY DEF Next, vars, envVars, HostSends, GarbageArrives, InStepAgain, HciControllerPortOpen,
           HciControllerPortClose, HciControllerH4StartupSyncProcess, HciIntrfTransportDropPendingSuspect,
           FeedChunk, ReadChunk, ReadNothing, HciIntrfPacketRxData, PacketAccepted, HciIntrfTransportIdle
  <2> QED
    BY <2>1, <2>2
<1> QED
  BY <1>1, <1>2, <1>3, <1>4, <1>5, <1>6 DEF TypeOK, Inv

(* What comes behind boot text is not suspect. *)
LEMMA NextAfter ==
    ASSUME TypeOK, FramesInStep, step = "AFTER" => ~HciIntrfTransportSuspect, [Next]_vars
    PROVE  step' = "AFTER" => ~HciIntrfTransportSuspect'
<1> SUFFICES ASSUME step' = "AFTER" PROVE ~HciIntrfTransportSuspect'
  OBVIOUS
<1> USE DEF HciIntrfTransportSuspect
<1>1. CASE UNCHANGED <<InvalidTypeCount, RejectedMark>> /\ step # "OUT"
  <2>1. step \in {"IN", "AFTER"}
    BY <1>1 DEF TypeOK
  <2> QED
    BY <1>1, <2>1 DEF FramesInStep
<1>2. CASE RejectedMark' = InvalidTypeCount /\ InvalidTypeCount' = InvalidTypeCount
  BY <1>2
<1>3. CASE FeedChunk
  BY <1>3 DEF FeedChunk
<1>4. CASE HciControllerH4StartupSyncProcess
  <2>1. UNCHANGED <<InvalidTypeCount, RejectedMark>> /\ step # "OUT"
    BY <1>4 DEF HciControllerH4StartupSyncProcess, parserVars
  <2> QED
    BY <1>1, <2>1
<1>5. CASE HciControllerPortOpen
  BY <1>1, <1>2, <1>5
  DEF HciControllerPortOpen, OpenScanning, OpenKeeping, OpenFlushing, OutOfStep, TransportClosed,
      HciH4ReleasePacket, parserVars
<1>6. CASE HciIntrfTransportIdle
  BY <1>2, <1>6 DEF HciIntrfTransportIdle, TransportClosed, HciH4ReleasePacket, parserVars
<1> QED
  BY <1>1, <1>2, <1>3, <1>4, <1>5, <1>6
  DEF Next, vars, parserVars, history, HostSends, GarbageArrives, InStepAgain, HciControllerPortClose, OutOfStep,
      HciIntrfTransportDropPendingSuspect, HciH4ParserReleasePending, HciH4ReleasePacket, ReadChunk, ReadNothing,
      HciIntrfPacketRxData, PacketAccepted

(* The framing, step by step. *)
LEMMA NextFraming ==
    ASSUME TypeOK, HeaderTells, Closed, ResetFirst, BootText, Framing,
           step = "AFTER" => ~HciIntrfTransportSuspect, [Next]_vars
    PROVE  Framing'
<1>0. CASE step' # "IN"
  BY <1>0 DEF Framing
<1>1. CASE \E p \in HostPacket : HostSends(p)
  BY <1>1, SendFrames
<1>2. CASE \E o \in Garbage : GarbageArrives(o)
  BY <1>0, <1>2 DEF GarbageArrives
<1>3. CASE InStepAgain
  BY <1>3, AgainFrames
<1>4. CASE HciControllerPortOpen
  BY <1>4, OpenFrames
<1>5. CASE HciControllerPortClose
  BY <1>0, <1>5 DEF HciControllerPortClose, OutOfStep
<1>6. CASE HciControllerH4StartupSyncProcess
  <2>1. Len(H4Reset) = 4
    BY ResetIs
  <2>2. NextMatch(Head(line)) < 4 \/ NextMatch(Head(line)) = 4
    BY <1>6, <2>1 DEF HciControllerH4StartupSyncProcess
  <2> QED
    BY <1>6, <2>2, ScanFrames, FoundFrames
<1>7. ASSUME HciIntrfTransportSuspect, UNCHANGED step PROVE Framing'
  BY <1>7 DEF Framing, FramesInStep
<1>8. CASE FeedChunk
  BY <1>8, FeedFrames
<1>9. CASE HciIntrfPacketRxData
  BY <1>9, RxDataFrames
<1>10. CASE ReadChunk
  <2>1. PICK n \in Readable : RxChunk' = SubSeq(line, 1, n) /\ line' = Rest(line, n)
    BY <1>10 DEF ReadChunk
  <2>2. /\ RxChunk = <<>> /\ UNCHANGED <<expect, step, State, Type, pPacket, DropRemaining, InvalidTypeCount,
                                       RejectedMark, H4StartupResetSyncActive, H4StartupResetMatch>>
    BY <1>10 DEF ReadChunk, parserVars, portVars, syncVars, history
  <2>3. Taken' = Taken
    BY <2>2 DEF Taken
  <2> QED
    BY <1>0, <2>1, <2>2, <2>3, ReadFrames
<1>11. ASSUME UNCHANGED <<RxChunk, line, expect, step, State, Type, pPacket, DropRemaining, InvalidTypeCount,
                          RejectedMark, H4StartupResetSyncActive, H4StartupResetMatch>>
       PROVE  Framing'
  BY <1>11 DEF Framing, FramesInStep, Taken, Flat, HciIntrfTransportSuspect
<1>12. CASE PacketAccepted
  BY <1>11, <1>12 DEF PacketAccepted, parserVars, portVars, syncVars, history
<1>13. CASE UNCHANGED vars
  BY <1>11, <1>13 DEF vars, parserVars, portVars, syncVars, history
<1>14. CASE HciIntrfTransportDropPendingSuspect \/ ReadNothing \/ HciIntrfTransportIdle
  BY <1>7, <1>14 DEF HciIntrfTransportDropPendingSuspect, DroppedAsSuspect, ReadNothing,
                     HciIntrfTransportIdle, history
<1> QED
  BY <1>1, <1>2, <1>3, <1>4, <1>5, <1>6, <1>8, <1>9, <1>10, <1>12, <1>13, <1>14 DEF Next

LEMMA InitFrameInv == Init => FrameInv
<1> SUFFICES ASSUME Init PROVE FrameInv
  OBVIOUS
<1>1. TypeOK
  <2>1. Inv
    BY InitInv
  <2>2. expect = <<>> /\ step = "IN" /\ H4StartupResetMatch = 0 /\ RejectedMark = 0 /\ sent = 0
    BY DEF Init
  <2>3. expect \in Seq(HostPacket)
    BY <2>2
  <2> QED
    BY <2>1, <2>2, <2>3 DEF TypeOK, Inv
<1>2. HeaderTells /\ Closed /\ ResetFirst /\ BootText
  BY DEF Init, ParserInit, HeaderTells, Closed, ResetFirst, BootText
<1>3. /\ Taken = <<>> /\ RxChunk = <<>> /\ line = <<>> /\ DropRemaining = 0
      /\ ~HciIntrfTransportSuspect /\ Flat = <<>> /\ step = "IN"
  BY JoinNone DEF Init, ParserInit, Taken, Flat, HciIntrfTransportSuspect
<1>4. Rest(RxChunk \o line, DropRemaining) = RxChunk \o line /\ DropRemaining <= Len(RxChunk) + Len(line)
  BY <1>1, <1>3, FramesPlain
<1>5. <<>> \o <<>> = <<>>
  OBVIOUS
<1>6. FramesInStep
  BY <1>3, <1>4, <1>5 DEF FramesInStep
<1> QED
  BY <1>1, <1>2, <1>3, <1>4, <1>6 DEF FrameInv

LEMMA NextFrameInv == FrameInv /\ [Next]_vars => FrameInv'
<1> SUFFICES ASSUME FrameInv, [Next]_vars PROVE FrameInv'
  OBVIOUS
<1>1. /\ TypeOK /\ HeaderTells /\ Closed /\ ResetFirst /\ BootText /\ FramesInStep /\ Framing
      /\ step = "AFTER" => ~HciIntrfTransportSuspect
  BY DEF FrameInv, Framing
<1>2. TypeOK' /\ HeaderTells' /\ Closed' /\ ResetFirst'
  BY <1>1, NextTypeOK, NextHeaderTells, NextClosed, NextResetFirst
<1>3. BootText'
  BY <1>1, NextBootText
<1>4. Framing'
  BY <1>1, NextFraming
<1>5. step' = "AFTER" => ~HciIntrfTransportSuspect'
  BY <1>1, NextAfter
<1>6. FramesInStep' /\ (step' = "IN" => DropRemaining' <= Len(RxChunk') + Len(line'))
  BY <1>4 DEF Framing, FramesInStep
<1> QED
  BY <1>2, <1>3, <1>5, <1>6 DEF FrameInv

(* However the octets of the host's packets are split into reads, and      *)
(* whenever the port opens, a packet waits or the line goes idle, the      *)
(* parser and the bridge take exactly those packets: no octet is lost,     *)
(* doubled or moved from one packet to another (HciIntrfTransportProcessRx *)
(* and the scan of HciControllerH4StartupSyncProcess), and no such stream  *)
(* is held to be foreign.                                                  *)
THEOREM FramesSafe == Spec => []FramesInStep
<1>1. FrameInv => FramesInStep
  BY DEF FrameInv
<1> QED
  BY <1>1, InitFrameInv, NextFrameInv, PTL DEF Spec
=============================================================================
