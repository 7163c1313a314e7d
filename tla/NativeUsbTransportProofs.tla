---------------------- MODULE NativeUsbTransportProofs ----------------------
(***************************************************************************)
(* The native USB transport for any endpoints, any sizes and numbers of    *)
(* packets and any cut of the stream into transfers.                       *)
(***************************************************************************)
EXTENDS NativeUsbTransport, SequenceTheorems, TLAPS

---------------------------------------------------------------------------
(* What comes from a device. *)

(* A packet that was begun has at least one part. *)
LEMMA PartsTyped ==
    ASSUME TypeOK, SentInv, NEW r \in Reader, NEW n \in 1 .. sent[r].packet
    PROVE  /\ Parts(r, n) \in Nat /\ Parts(r, n) >= 1
           /\ size[r][n] \in Nat /\ (size[r][n] # TooLong => Parts(r, n) = size[r][n])
<1>1. size[r] \in Seq(Size) /\ n \in 1 .. Len(size[r])
  BY DEF TypeOK, SentInv
<1>2. size[r][n] \in Size
  BY <1>1
<1> QED
  BY <1>2, UsbAssumption DEF Parts, Size, TooLong

(* A concatenation, read from either end. *)
LEMMA TwoJoined ==
    ASSUME NEW S, NEW a \in Seq(S), NEW b \in Seq(S)
    PROVE  /\ a \o b \in Seq(S) /\ Len(a \o b) = Len(a) + Len(b)
           /\ \A i \in 1 .. Len(a) : (a \o b)[i] = a[i] /\ i \in 1 .. Len(a \o b)
           /\ \A i \in 1 .. Len(b) : (a \o b)[Len(a) + i] = b[i]
OBVIOUS

(* A stream cut short still follows. *)
LEMMA FollowsPrefix ==
    ASSUME TypeOK, SentInv, NEW r \in Reader, NEW n \in Nat,
           NEW a \in Seq(Number), NEW b \in Seq(Number), Follows(r, a \o b, n)
    PROVE  Follows(r, a, n)
<1> DEFINE c == a \o b
<1>1. /\ c \in Seq(Number) /\ Len(c) \in Nat /\ Len(a) \in Nat /\ Len(a) <= Len(c)
      /\ \A i \in 1 .. Len(a) : c[i] = a[i] /\ i \in 1 .. Len(c) /\ i \in Int
  BY TwoJoined
<1>2. sent[r].packet \in Nat /\ sent[r].parts \in Nat
  BY DEF TypeOK
<1>3. Follows(r, c, n)
  OBVIOUS
<1> HIDE DEF c
<1>4. ASSUME a # <<>> PROVE a[1] = n
  <2>1. Len(a) >= 1 /\ c # <<>>
    BY <1>1, <1>4
  <2> QED
    BY <1>1, <1>3, <2>1 DEF Follows
<1>5. ASSUME NEW i \in 1 .. Len(a) PROVE a[i] \in 1 .. sent[r].packet /\ (Begins(a, i) => Run(r, a, i))
  <2>1. a[i] = c[i] /\ i \in 1 .. Len(c) /\ c[i] \in 1 .. sent[r].packet /\ (Begins(c, i) => Run(r, c, i))
    BY <1>1, <1>3 DEF Follows
  <2>2. Parts(r, a[i]) \in Nat /\ Parts(r, a[i]) >= 1
    BY <2>1, PartsTyped
  <2>3. ASSUME Begins(a, i) PROVE Begins(c, i)
    <3>1. CASE i = 1
      BY <3>1 DEF Begins
    <3>2. CASE i # 1
      <4>1. i - 1 \in 1 .. Len(a)
        BY <3>2, <1>1
      <4> QED
        BY <4>1, <1>1, <2>3, <3>2, <2>1 DEF Begins
    <3> QED
      BY <3>1, <3>2
  <2>4. ASSUME Run(r, c, i) PROVE Run(r, a, i)
    <3> DEFINE q == Parts(r, a[i])
    <3>1. /\ \A k \in i .. Len(c) : k < i + q => c[k] = a[i]
          /\ i + q <= Len(c) => c[i + q] = a[i] + 1
          /\ a[i] = sent[r].packet => Len(c) < i + sent[r].parts
      BY <2>1, <2>4 DEF Run
    <3>2. q \in Nat /\ q >= 1
      BY <2>2
    <3> HIDE DEF q
    <3>3. \A k \in i .. Len(a) : k < i + q => a[k] = a[i]
      BY <1>1, <3>1, <3>2
    <3>4. i + q <= Len(a) => a[i + q] = a[i] + 1
      BY <1>1, <3>1, <3>2
    <3>5. a[i] = sent[r].packet => Len(a) < i + sent[r].parts
      BY <1>1, <1>2, <3>1
    <3> QED
      BY <3>3, <3>4, <3>5 DEF Run, q
  <2> QED
    BY <2>1, <2>3, <2>4
<1> QED
  BY <1>4, <1>5 DEF Follows

(* What is left when the first packet is taken. *)
LEMMA FollowsTaken ==
    ASSUME TypeOK, SentInv, NEW r \in Reader, NEW n \in Nat \ {0}, NEW b \in Seq(Number), b # <<>>,
           Follows(r, b, n), Parts(r, n) <= Len(b)
    PROVE  /\ Follows(r, SubSeq(b, Parts(r, n) + 1, Len(b)), n + 1)
           /\ UpToDate(r, b, n) => UpToDate(r, SubSeq(b, Parts(r, n) + 1, Len(b)), n + 1)
           /\ n \in 1 .. sent[r].packet /\ (n = sent[r].packet => sent[r].parts = Parts(r, n))
<1> DEFINE q == Parts(r, n)
           l == Len(b)
           d == SubSeq(b, q + 1, l)
<1>1. l \in Nat /\ l >= 1 /\ 1 \in 1 .. l /\ b[1] = n
  BY DEF Follows
<1>2. n \in 1 .. sent[r].packet /\ Run(r, b, 1)
  BY <1>1 DEF Follows, Begins
<1>3. q \in Nat /\ q >= 1 /\ q <= l
  BY <1>2, PartsTyped
<1>4. sent[r].packet \in Nat /\ sent[r].parts \in Nat /\ (n = sent[r].packet => sent[r].parts \in 1 .. q)
  <2>1. sent[r] \in [packet : Nat, parts : Nat]
    BY DEF TypeOK
  <2>2. sent[r].packet > 0 => sent[r].parts \in 1 .. Parts(r, sent[r].packet)
    BY DEF SentInv
  <2> HIDE DEF q
  <2>3. n = sent[r].packet => sent[r].parts \in 1 .. q
    BY <2>1, <2>2 DEF q
  <2> QED
    BY <2>1, <2>3
<1>5. /\ \A k \in 1 .. q : b[k] = n
      /\ q < l => b[q + 1] = n + 1
      /\ n = sent[r].packet => l < 1 + sent[r].parts
  BY <1>1, <1>2, <1>3 DEF Run
<1>6. d \in Seq(Number) /\ Len(d) = l - q /\ \A i \in 1 .. l - q : d[i] = b[q + i]
  BY <1>1, <1>3
<1>7. n = sent[r].packet => sent[r].parts = q /\ l = q
  BY <1>1, <1>3, <1>4, <1>5
<1> HIDE DEF d, q, l
<1>8. ASSUME NEW i \in 1 .. l - q
      PROVE  /\ d[i] = b[q + i] /\ q + i \in 1 .. l /\ d[i] \in 1 .. sent[r].packet
             /\ Begins(d, i) => Begins(b, q + i)
             /\ Begins(b, q + i) => Begins(d, i)
             /\ Begins(b, q + i) => Run(r, b, q + i)
             /\ Run(r, b, q + i) => Run(r, d, i)
  <2>1. d[i] = b[q + i] /\ q + i \in 1 .. l
    BY <1>1, <1>3, <1>6
  <2>2. d[i] \in 1 .. sent[r].packet /\ (Begins(b, q + i) => Run(r, b, q + i))
    BY <2>1 DEF Follows, l
  <2>3. Begins(d, i) <=> Begins(b, q + i)
    <3>1. CASE i = 1
      <4>1. b[q] = n /\ b[q + 1] = n + 1 /\ n + 1 # n
        BY <1>3, <1>5, <3>1, <1>1
      <4> QED
        BY <4>1, <3>1, <1>3 DEF Begins
    <3>2. CASE i # 1
      <4>1. i - 1 \in 1 .. l - q /\ q + i # 1 /\ d[i - 1] = b[q + (i - 1)] /\ q + (i - 1) = (q + i) - 1
        BY <3>2, <1>6, <1>3, <1>1
      <4> QED
        BY <4>1, <3>2, <2>1 DEF Begins
    <3> QED
      BY <3>1, <3>2
  <2>4. ASSUME Run(r, b, q + i) PROVE Run(r, d, i)
    <3> DEFINE z == Parts(r, d[i])
    <3>1. z \in Nat /\ z >= 1
      BY <2>2, PartsTyped
    <3>2. /\ \A k \in q + i .. l : k < q + i + z => b[k] = d[i]
          /\ q + i + z <= l => b[q + i + z] = d[i] + 1
          /\ d[i] = sent[r].packet => l < q + i + sent[r].parts
      BY <2>1, <2>4 DEF Run, l
    <3> HIDE DEF z
    <3>3. ASSUME NEW k \in i .. l - q, k < i + z PROVE d[k] = d[i]
      <4>1. k \in 1 .. l - q /\ q + k \in q + i .. l /\ q + k < q + i + z
        BY <3>3, <1>1, <1>3, <3>1
      <4> QED
        BY <4>1, <3>2, <1>6
    <3>4. ASSUME i + z <= l - q PROVE d[i + z] = d[i] + 1
      <4>1. i + z \in 1 .. l - q /\ q + i + z <= l /\ q + (i + z) = q + i + z
        BY <3>4, <1>1, <1>3, <3>1
      <4>2. b[q + i + z] = d[i] + 1 /\ d[i + z] = b[q + (i + z)]
        BY <4>1, <3>2, <1>6
      <4> QED
        BY <4>1, <4>2
    <3>5. d[i] = sent[r].packet => l - q < i + sent[r].parts
      BY <3>2, <1>1, <1>3, <1>4
    <3> QED
      BY <3>3, <3>4, <3>5, <1>6 DEF Run, z
  <2> QED
    BY <2>1, <2>2, <2>3, <2>4
<1>9. d # <<>> => d[1] = n + 1
  <2> SUFFICES ASSUME d # <<>> PROVE d[1] = n + 1
    OBVIOUS
  <2>1. 1 \in 1 .. l - q /\ q < l
    BY <1>1, <1>3, <1>6
  <2> QED
    BY <2>1, <1>5, <1>6
<1>10. Follows(r, d, n + 1)
  BY <1>6, <1>8, <1>9 DEF Follows
<1>11. ASSUME UpToDate(r, b, n) PROVE UpToDate(r, d, n + 1)
  <2>1. PICK j \in 1 .. l : Begins(b, j) /\ b[j] = sent[r].packet /\ l = j + sent[r].parts - 1
    BY <1>11 DEF UpToDate, l
  <2>2. CASE d = <<>>
    <3>1. l = q
      BY <2>2, <1>6, <1>1, <1>3
    <3>2. b[j] = n
      BY <3>1, <1>5
    <3> QED
      BY <2>2, <2>1, <3>2, <1>7, <1>4 DEF UpToDate, q
  <2>3. CASE d # <<>>
    <3>1. q < l
      BY <2>3, <1>6, <1>1, <1>3
    <3>2. b[j] # n
      BY <3>1, <2>1, <1>7, <1>1, <1>3
    <3>3. j - q \in 1 .. l - q /\ q + (j - q) = j
      BY <3>2, <1>5, <1>1, <1>3
    <3>4. d[j - q] = sent[r].packet /\ Begins(d, j - q)
      BY <3>3, <1>8, <2>1
    <3>5. l - q = (j - q) + sent[r].parts - 1
      <4>1. PICK e \in Nat : e = sent[r].parts
        BY <1>4
      <4>2. l = j + e - 1 /\ j \in Nat
        BY <2>1, <4>1, <1>1
      <4> QED
        BY <4>1, <4>2, <1>1, <1>3
    <3> QED
      BY <2>3, <3>3, <3>4, <3>5, <1>6 DEF UpToDate
  <2> QED
    BY <2>2, <2>3
<1> QED
  BY <1>2, <1>7, <1>10, <1>11 DEF d, q, l

---------------------------------------------------------------------------
(* The types. *)

(* A packet is taken out of what a reader has. *)
LEMMA TakeTyped ==
    ASSUME TypeOK, SentInv, NEW r \in Reader, NEW b \in Seq(Number), NEW place \in ReaderPlace,
           _take_complete(r, b, place), \A i \in 1 .. Len(b) : b[i] \in 1 .. sent[r].packet
    PROVE  /\ pc' \in [Reader -> ReaderPlace] /\ buffer' \in [Reader -> Seq(Number)]
           /\ frame' \in [Reader -> Nat]
<1>1. CASE /\ Goes(r, place) /\ buffer' = [buffer EXCEPT ![r] = b] /\ UNCHANGED frame
  BY <1>1 DEF TypeOK, Goes
<1>2. CASE /\ Goes(r, "error") /\ buffer' = [buffer EXCEPT ![r] = <<>>] /\ UNCHANGED frame
  <2>1. "error" \in ReaderPlace /\ <<>> \in Seq(Number)
    BY DEF ReaderPlace
  <2>2. pc' = [pc EXCEPT ![r] = "error"]
    BY <1>2 DEF Goes
  <2> QED
    BY <1>2, <2>1, <2>2 DEF TypeOK
<1>3. CASE /\ b # <<>> /\ size[r][Head(b)] # TooLong /\ Len(b) >= size[r][Head(b)]
           /\ Goes(r, "have") /\ frame' = [frame EXCEPT ![r] = Head(b)]
           /\ buffer' = [buffer EXCEPT ![r] = SubSeq(b, size[r][Head(b)] + 1, Len(b))]
  <2>1. Head(b) \in Number /\ Head(b) = b[1] /\ 1 \in 1 .. Len(b)
    BY <1>3
  <2>2. size[r][Head(b)] \in Nat /\ size[r][Head(b)] >= 1
    BY <2>1, <1>3, PartsTyped
  <2> DEFINE z == size[r][Head(b)]
  <2> HIDE DEF z
  <2>3. z \in Nat /\ Len(b) \in Nat => SubSeq(b, z + 1, Len(b)) \in Seq(Number)
    OBVIOUS
  <2>4. SubSeq(b, size[r][Head(b)] + 1, Len(b)) \in Seq(Number)
    BY <2>2, <2>3 DEF z
  <2>5. pc' \in [Reader -> ReaderPlace]
    BY <1>3 DEF TypeOK, Goes, ReaderPlace
  <2>6. buffer' \in [Reader -> Seq(Number)]
    BY <1>3, <2>4 DEF TypeOK
  <2>7. frame' \in [Reader -> Nat]
    BY <1>3, <2>1 DEF TypeOK, Number
  <2> QED
    BY <2>5, <2>6, <2>7
<1> QED
  BY <1>1, <1>2, <1>3 DEF _take_complete

(* What a step of the device is, and that it keeps SentInv. *)
LEMMA DeviceStep ==
    ASSUME TypeOK, SentInv, NEW r \in Reader, DeviceSends(r)
    PROVE  /\ TypeOK' /\ SentInv'
           /\ ~gone /\ wire'[r] = Append(wire[r], sent'[r].packet) /\ sent'[r].packet \in Number
           /\ \/ /\ sent[r].packet > 0 /\ sent[r].parts < Parts(r, sent[r].packet)
                 /\ sent'[r].packet = sent[r].packet /\ sent'[r].parts = sent[r].parts + 1
              \/ /\ sent[r].packet > 0 => sent[r].parts = Parts(r, sent[r].packet)
                 /\ sent'[r].packet = sent[r].packet + 1 /\ sent'[r].parts = 1
           /\ \A m \in 1 .. sent[r].packet :
                 size'[r][m] = size[r][m] /\ Parts(r, m)' = Parts(r, m)
           /\ \A q \in Reader \ {r} : size'[q] = size[q] /\ sent'[q] = sent[q] /\ wire'[q] = wire[q]
           /\ UNCHANGED <<gone, readerVars, queueVars, mainVars>>
<1> DEFINE s == sent[r]
           more == s.packet > 0 /\ s.parts < Parts(r, s.packet)
           n == IF more THEN s.packet ELSE s.packet + 1
<1>1. /\ ~gone
      /\ \/ more /\ UNCHANGED size
         \/ ~more /\ \E z \in Size : size' = [size EXCEPT ![r] = Append(@, z)]
      /\ sent' = [sent EXCEPT ![r] = [packet |-> n, parts |-> IF more THEN s.parts + 1 ELSE 1]]
      /\ wire' = [wire EXCEPT ![r] = Append(@, n)]
      /\ UNCHANGED <<gone, readerVars, queueVars, mainVars>>
  BY DEF DeviceSends
<1>2. s \in [packet : Nat, parts : Nat] /\ size[r] \in Seq(Size) /\ s.packet = Len(size[r])
  BY DEF TypeOK, SentInv
<1>3. s.packet > 0 => s.parts \in 1 .. Parts(r, s.packet) /\ Parts(r, s.packet) \in Nat
  <2>1. ASSUME s.packet > 0 PROVE s.packet \in 1 .. sent[r].packet
    BY <2>1, <1>2
  <2> QED
    BY <2>1, PartsTyped DEF SentInv
<1>4. n \in Number /\ s.packet \in Nat /\ s.parts \in Nat
  BY <1>2 DEF Number
<1>5. sent'[r].packet = n /\ sent'[r].parts = (IF more THEN s.parts + 1 ELSE 1)
      /\ wire'[r] = Append(wire[r], n)
      /\ \A q \in Reader \ {r} : size'[q] = size[q] /\ sent'[q] = sent[q] /\ wire'[q] = wire[q]
  BY <1>1 DEF TypeOK
<1>6. \A m \in 1 .. s.packet : size'[r][m] = size[r][m] /\ Parts(r, m)' = Parts(r, m)
  <2>1. \A m \in 1 .. s.packet : size'[r][m] = size[r][m]
    <3>1. CASE UNCHANGED size
      BY <3>1
    <3>2. ASSUME NEW z \in Size, size' = [size EXCEPT ![r] = Append(@, z)]
          PROVE  \A m \in 1 .. s.packet : size'[r][m] = size[r][m]
      <4>1. size'[r] = Append(size[r], z)
        BY <3>2 DEF TypeOK
      <4> QED
        BY <4>1, <1>2
    <3> QED
      BY <3>1, <3>2, <1>1
  <2> QED
    BY <2>1 DEF Parts
<1>7. TypeOK'
  <2>1. size' \in [Reader -> Seq(Size)]
    <3>1. ASSUME NEW z \in Size, size' = [size EXCEPT ![r] = Append(@, z)] PROVE size' \in [Reader -> Seq(Size)]
      <4>1. Append(size[r], z) \in Seq(Size)
        BY <1>2
      <4> QED
        BY <3>1, <4>1 DEF TypeOK
    <3> QED
      BY <3>1, <1>1 DEF TypeOK
  <2>2. wire' \in [Reader -> Seq(Number)]
    <3>1. wire[r] \in Seq(Number)
      BY DEF TypeOK
    <3>2. Append(wire[r], n) \in Seq(Number)
      BY <3>1, <1>4
    <3> QED
      BY <3>2, <1>1 DEF TypeOK
  <2>3. sent' \in [Reader -> [packet : Nat, parts : Nat]]
    <3>1. n \in Nat /\ (IF more THEN s.parts + 1 ELSE 1) \in Nat
      BY <1>4 DEF Number
    <3> HIDE DEF n, more
    <3>2. [packet |-> n, parts |-> IF more THEN s.parts + 1 ELSE 1] \in [packet : Nat, parts : Nat]
      BY <3>1
    <3> QED
      BY <3>2, <1>1 DEF TypeOK
  <2> QED
    BY <1>1, <2>1, <2>2, <2>3 DEF TypeOK, readerVars, queueVars, mainVars
<1>8. SentInv'
  <2>1. sent'[r].packet = Len(size'[r])
    <3>1. CASE more /\ UNCHANGED size
      BY <3>1, <1>2, <1>5
    <3>2. ASSUME ~more, NEW z \in Size, size' = [size EXCEPT ![r] = Append(@, z)]
          PROVE  sent'[r].packet = Len(size'[r])
      <4>1. size'[r] = Append(size[r], z)
        BY <3>2 DEF TypeOK
      <4> QED
        BY <4>1, <3>2, <1>2, <1>5
    <3> QED
      BY <3>1, <3>2, <1>1
  <2>2. sent'[r].packet > 0 => sent'[r].parts \in 1 .. Parts(r, sent[r].packet)'
    <3>1. CASE more
      <4>1. s.packet \in 1 .. s.packet /\ sent'[r].packet = s.packet
        BY <3>1, <1>4, <1>5
      <4>2. Parts(r, sent[r].packet)' = Parts(r, s.packet)
        BY <4>1, <1>6 DEF Parts
      <4> QED
        BY <3>1, <4>2, <1>3, <1>4, <1>5
    <3>2. CASE ~more
      <4>0. n \in Number /\ n = Len(size'[r])
        BY <2>1, <1>4, <1>5
      <4>1. size'[r] \in Seq(Size) /\ n \in 1 .. Len(size'[r])
        <5> HIDE DEF n
        <5>1. size'[r] \in Seq(Size)
          BY <1>7 DEF TypeOK
        <5> QED
          BY <4>0, <5>1 DEF Number
      <4>2. size'[r][n] \in Size
        BY <4>1
      <4>3. sent'[r].packet = n
        BY <1>5
      <4> HIDE DEF n
      <4>4. Parts(r, sent[r].packet)' \in Nat /\ Parts(r, sent[r].packet)' >= 1
        BY <4>2, <4>3, UsbAssumption DEF Parts, Size, TooLong
      <4> QED
        BY <4>4, <3>2, <1>5
    <3> QED
      BY <3>1, <3>2
  <2>3. ASSUME NEW q \in Reader \ {r}
        PROVE  /\ sent'[q].packet = Len(size'[q])
               /\ sent'[q].packet > 0 => sent'[q].parts \in 1 .. Parts(q, sent[q].packet)'
    BY <1>5 DEF SentInv, Parts
  <2> QED
    BY <2>1, <2>2, <2>3 DEF SentInv
<1>9. \/ /\ s.packet > 0 /\ s.parts < Parts(r, s.packet)
         /\ sent'[r].packet = s.packet /\ sent'[r].parts = s.parts + 1
      \/ /\ s.packet > 0 => s.parts = Parts(r, s.packet)
         /\ sent'[r].packet = s.packet + 1 /\ sent'[r].parts = 1
  BY <1>3, <1>4, <1>5
<1> QED
  BY <1>1, <1>4, <1>5, <1>6, <1>7, <1>8, <1>9

(* What the device sends next follows what it sent. *)
LEMMA FollowsSent ==
    ASSUME TypeOK, SentInv, NEW r \in Reader, DeviceSends(r),
           NEW n \in Nat \ {0}, NEW b \in Seq(Number), Follows(r, b, n), UpToDate(r, b, n),
           NEW m, m = sent'[r].packet
    PROVE  Follows(r, Append(b, m), n)' /\ UpToDate(r, Append(b, m), n)'
<1> DEFINE g == sent[r].packet
           t == sent[r].parts
           t1 == sent'[r].parts
           l == Len(b)
           a == Append(b, m)
<1>1. /\ TypeOK' /\ SentInv' /\ m \in Number
      /\ \A i \in 1 .. g : Parts(r, i)' = Parts(r, i)
      /\ \/ g > 0 /\ t < Parts(r, g) /\ m = g /\ t1 = t + 1
         \/ (g > 0 => t = Parts(r, g)) /\ m = g + 1 /\ t1 = 1
  BY DeviceStep
<1>2. g \in Nat /\ t \in Nat /\ t1 \in Nat /\ l \in Nat /\ m \in Nat /\ m >= 1
  <2>1. sent[r] \in [packet : Nat, parts : Nat] /\ sent'[r] \in [packet : Nat, parts : Nat]
    BY <1>1 DEF TypeOK
  <2> QED
    BY <1>1, <2>1 DEF Number
<1>3. /\ a \in Seq(Number) /\ Len(a) = l + 1 /\ a[l + 1] = m /\ a # <<>>
      /\ \A i \in 1 .. l : a[i] = b[i]
      /\ b = <<>> <=> l = 0
  BY <1>1
<1>4. \A i \in 1 .. g : Parts(r, i) \in Nat /\ Parts(r, i) >= 1
  BY PartsTyped
<1>5. \A i \in 1 .. l : b[i] \in 1 .. g /\ (Begins(b, i) => Run(r, b, i))
  BY DEF Follows
<1>6. l > 0 => b[1] = n
  BY <1>3 DEF Follows
<1>7. IF l = 0 THEN g = n - 1 /\ (n > 1 => t = Parts(r, n - 1))
      ELSE \E i \in 1 .. l : Begins(b, i) /\ b[i] = g /\ l = i + t - 1
  BY <1>3 DEF UpToDate
<1>8. m \in 1 .. sent'[r].packet
  BY <1>2
<1>9. g > 0 => t \in 1 .. Parts(r, g)
  BY DEF SentInv
<1>10. Parts(r, m)' \in Nat /\ Parts(r, m)' >= 1
  <2>1. size'[r] \in Seq(Size) /\ m \in 1 .. Len(size'[r])
    BY <1>1, <1>8 DEF TypeOK, SentInv
  <2>2. size'[r][m] \in Size
    BY <2>1
  <2> QED
    BY <2>2, UsbAssumption DEF Parts, Size, TooLong
<1> HIDE DEF g, t, t1, l, a
<1>11. CASE l = 0
  <2>1. m = n /\ t1 = 1
    <3>1. CASE g = 0
      BY <3>1, <1>11, <1>7, <1>1, <1>2
    <3>2. CASE g # 0
      <4>1. n - 1 = g /\ n > 1
        BY <3>2, <1>11, <1>7, <1>2
      <4>2. t = Parts(r, g)
        BY <4>1, <1>11, <1>7
      <4> QED
        BY <4>1, <4>2, <1>1, <1>2
    <3> QED
      BY <3>1, <3>2
  <2>2. Len(a) = 1 /\ a[1] = m
    BY <1>3, <1>11
  <2>3. Run(r, a, 1)'
    <3>1. \A k \in 1 .. Len(a) : k < 1 + Parts(r, a[1])' => a[k] = a[1]
      BY <2>2
    <3>2. ~ (1 + Parts(r, m)' <= Len(a))
      BY <2>2, <1>10
    <3>3. Len(a) < 1 + t1
      BY <2>1, <2>2
    <3> QED
      BY <2>2, <3>1, <3>2, <3>3 DEF Run, t1, a
  <2>4. ASSUME NEW i \in 1 .. Len(a) PROVE i = 1
    BY <2>2
  <2>5. Follows(r, Append(b, m), n)'
    BY <2>1, <2>2, <2>3, <2>4, <1>8 DEF Follows, a
  <2>6. UpToDate(r, Append(b, m), n)'
    <3>1. 1 \in 1 .. Len(a) /\ Begins(a, 1) /\ a[1] = sent'[r].packet /\ Len(a) = 1 + sent'[r].parts - 1
      BY <2>1, <2>2 DEF Begins, t1
    <3> QED
      BY <3>1, <1>3 DEF UpToDate, Begins, a
  <2> QED
    BY <2>5, <2>6
<1>12. CASE l > 0
  <2>1. PICK j \in 1 .. l : Begins(b, j) /\ b[j] = g /\ l = j + t - 1
    BY <1>12, <1>7
  <2>2. g > 0 /\ Parts(r, g) \in Nat /\ t >= 1 /\ t <= Parts(r, g) /\ g \in 1 .. g
    BY <2>1, <1>5, <1>2, <1>1, <1>4, <1>9
  <2>3. \A k \in j .. l : b[k] = g
    <3>1. Run(r, b, j)
      BY <2>1, <1>5
    <3>2. \A k \in j .. l : k < j + Parts(r, g) => b[k] = g
      BY <3>1, <2>1 DEF Run, l
    <3> QED
      BY <3>2, <2>1, <2>2, <1>2
  <2>4. \A i \in 1 .. l : Begins(b, i) /\ b[i] = g => i = j
    <3> SUFFICES ASSUME NEW i \in 1 .. l, Begins(b, i), b[i] = g PROVE i = j
      OBVIOUS
    <3>1. l < i + t
      BY <1>5 DEF Run, l, g, t
    <3>2. ~ (i > j)
      <4> SUFFICES ASSUME i > j PROVE FALSE
        OBVIOUS
      <4>1. i - 1 \in j .. l /\ i # 1
        BY <1>2
      <4> QED
        BY <4>1, <2>3 DEF Begins
    <3> QED
      BY <3>1, <3>2, <2>1, <1>2
  <2>5. b[l] = g /\ l \in 1 .. l
    BY <2>3, <2>1, <1>2
  <2>6. \A i \in 1 .. l : Begins(a, i) <=> Begins(b, i)
    BY <1>3, <1>2 DEF Begins
  <2>7. ASSUME NEW i \in 1 .. l, Begins(b, i) PROVE Run(r, a, i)'
    <3> DEFINE q == Parts(r, b[i])
    <3>1. b[i] \in 1 .. g /\ a[i] = b[i] /\ Run(r, b, i)
      BY <2>7, <1>5, <1>3
    <3>2. q \in Nat /\ q >= 1 /\ Parts(r, b[i])' = q
      BY <3>1, <1>1, <1>4
    <3>3. /\ \A k \in i .. l : k < i + q => b[k] = b[i]
          /\ i + q <= l => b[i + q] = b[i] + 1
          /\ b[i] = g => l < i + t
      BY <3>1 DEF Run, l, g, t
    <3>4. b[i] = g => i = j /\ q = Parts(r, g)
      BY <2>4, <2>7
    <3> HIDE DEF q
    <3>5. ASSUME l + 1 < i + q PROVE m = b[i]
      <4>1. l \in i .. l /\ l < i + q
        BY <3>5, <1>2, <3>2
      <4>2. b[i] = g
        BY <4>1, <3>3, <2>5
      <4>3. t < Parts(r, g)
        BY <4>2, <3>4, <3>5, <2>1, <1>2, <2>2
      <4> QED
        BY <4>2, <4>3, <1>1, <2>2
    <3>6. ASSUME i + q = l + 1 PROVE m = b[i] + 1
      <4>1. l \in i .. l /\ l < i + q
        BY <3>6, <1>2, <3>2
      <4>2. b[i] = g
        BY <4>1, <3>3, <2>5
      <4>3. t = Parts(r, g)
        BY <4>2, <3>4, <3>6, <2>1, <1>2, <2>2
      <4> QED
        BY <4>2, <4>3, <1>1, <2>2
    <3>7. ASSUME NEW k \in i .. Len(a), k < i + q PROVE a[k] = a[i]
      <4>1. CASE k = l + 1
        BY <4>1, <3>7, <3>5, <3>1, <1>3
      <4>2. CASE k # l + 1
        <5>1. k \in i .. l /\ k \in 1 .. l
          BY <4>2, <1>3, <1>2
        <5> QED
          BY <5>1, <3>7, <3>3, <3>1, <1>3
      <4> QED
        BY <4>1, <4>2
    <3>8. ASSUME i + q <= Len(a) PROVE a[i + q] = a[i] + 1
      <4>1. CASE i + q = l + 1
        BY <4>1, <3>6, <3>1, <1>3
      <4>2. CASE i + q # l + 1
        <5>1. i + q <= l + 1 /\ i \in Int /\ i >= 1
          BY <3>8, <1>3
        <5>2. i + q <= l /\ i + q \in 1 .. l
          BY <4>2, <5>1, <1>2, <3>2
        <5> QED
          BY <5>2, <3>3, <3>1, <1>3
      <4> QED
        BY <4>1, <4>2
    <3>9. a[i] = m => Len(a) < i + t1
      <4> SUFFICES ASSUME b[i] = m PROVE l + 1 < i + t1
        BY <3>1, <1>3
      <4>1. m = g /\ t1 = t + 1
        BY <3>1, <1>1, <1>2
      <4> QED
        BY <4>1, <3>3, <1>2
    <3> QED
      BY <3>1, <3>2, <3>7, <3>8, <3>9 DEF Run, t1, a
  <2>8. ASSUME Begins(a, l + 1) PROVE m = g + 1 /\ t1 = 1 /\ Run(r, a, l + 1)'
    <3>1. a[l] = g /\ l + 1 # 1 /\ (l + 1) - 1 = l
      BY <2>5, <1>3, <1>2, <1>12
    <3>2. m # g
      BY <3>1, <2>8, <1>3 DEF Begins
    <3>3. m = g + 1 /\ t1 = 1
      BY <3>2, <1>1
    <3>4. \A k \in l + 1 .. Len(a) : a[k] = a[l + 1]
      <4>1. \A k \in l + 1 .. Len(a) : k = l + 1
        BY <1>3, <1>2
      <4> QED
        BY <4>1
    <3>5. ~ (l + 1 + Parts(r, m)' <= Len(a))
      BY <1>3, <1>2, <1>10
    <3>6. Len(a) < l + 1 + t1
      BY <1>3, <1>2, <3>3
    <3> QED
      BY <3>3, <3>4, <3>5, <3>6, <1>3 DEF Run, a, t1
  <2>9. a[1] = n
    BY <1>3, <1>6, <1>12, <1>2
  <2>10. ASSUME NEW i \in 1 .. Len(a) PROVE a[i] \in 1 .. m /\ (Begins(a, i) => Run(r, a, i)')
    <3>1. CASE i = l + 1
      BY <3>1, <2>8, <1>3, <1>2
    <3>2. CASE i # l + 1
      <4>1. i \in 1 .. l
        BY <3>2, <1>3, <1>2
      <4>2. a[i] \in 1 .. g
        BY <4>1, <1>3, <1>5
      <4>3. m >= g
        BY <1>1, <1>2
      <4> QED
        BY <4>1, <4>2, <4>3, <2>6, <2>7, <1>2
    <3> QED
      BY <3>1, <3>2
  <2>11. Follows(r, Append(b, m), n)'
    BY <2>9, <2>10 DEF Follows, Begins, a
  <2>12. UpToDate(r, Append(b, m), n)'
    <3>1. CASE m = g /\ t1 = t + 1
      <4>1. j \in 1 .. Len(a) /\ Begins(a, j) /\ a[j] = sent'[r].packet /\ Len(a) = j + sent'[r].parts - 1
        BY <3>1, <2>1, <2>6, <1>3, <1>2 DEF t1
      <4> QED
        BY <4>1, <1>3 DEF UpToDate, Begins, a
    <3>2. CASE m = g + 1 /\ t1 = 1
      <4>1. (l + 1) - 1 = l /\ a[l] = g /\ a[l + 1] = m /\ m # g
        BY <3>2, <2>5, <1>3, <1>2
      <4>2. l + 1 \in 1 .. Len(a) /\ Begins(a, l + 1) /\ a[l + 1] = sent'[r].packet
            /\ Len(a) = (l + 1) + sent'[r].parts - 1
        BY <3>2, <4>1, <1>3, <1>2 DEF t1, Begins
      <4> QED
        BY <4>2, <1>3 DEF UpToDate, Begins, a
    <3> QED
      BY <3>1, <3>2, <1>1
  <2> QED
    BY <2>11, <2>12
<1> QED
  BY <1>11, <1>12, <1>2

---------------------------------------------------------------------------
(* What reached the caller. *)

(* A packet that goes to the caller, or is prefetched, keeps its place. *)
LEMMA Moved ==
    ASSUME NEW S, NEW x \in Seq(S), NEW y \in Seq(S), NEW z \in Seq(S)
    PROVE  /\ y # <<>> => Append(x, Head(y)) \o Tail(y) \o z = x \o y \o z
           /\ y = <<>> /\ z # <<>> =>
                /\ Append(x, Head(z)) \o y \o Tail(z) = x \o y \o z
                /\ x \o <<Head(z)>> \o Tail(z) = x \o y \o z
<1>1. ASSUME NEW u \in Seq(S), u # <<>>
      PROVE  /\ Append(x, Head(u)) \o Tail(u) = x \o u
             /\ x \o <<Head(u)>> \o Tail(u) = x \o u
  <2>1. Head(u) \in S /\ Tail(u) \in Seq(S) /\ <<Head(u)>> \in Seq(S)
    BY <1>1
  <2>2. <<Head(u)>> \o Tail(u) = u
    BY <1>1, <2>1, SeqEqual
  <2>3. Append(x, Head(u)) = x \o <<Head(u)>>
    BY <2>1, AppendIsConcat
  <2>4. (x \o <<Head(u)>>) \o Tail(u) = x \o (<<Head(u)>> \o Tail(u))
    BY <2>1, ConcatAssociative, SMTT(30)
  <2> QED
    BY <2>2, <2>3, <2>4
<1>2. ASSUME y = <<>> PROVE x \o y = x
  BY <1>2, ConcatEmptySeq
<1>3. ASSUME y = <<>>, z # <<>> PROVE Append(x, Head(z)) \o y = Append(x, Head(z))
  <2>1. Append(x, Head(z)) \in Seq(S)
    BY <1>3
  <2> QED
    BY <2>1, <1>3, ConcatEmptySeq
<1>4. ASSUME y # <<>> PROVE Append(x, Head(y)) \o Tail(y) \o z = x \o y \o z
  BY <1>1, <1>4
<1>5. ASSUME y = <<>>, z # <<>>
      PROVE  /\ Append(x, Head(z)) \o y \o Tail(z) = x \o y \o z
             /\ x \o <<Head(z)>> \o Tail(z) = x \o y \o z
  BY <1>1, <1>2, <1>3, <1>5
<1> QED
  BY <1>4, <1>5

(* What is added at the end comes last. *)
LEMMA AppendedLast ==
    ASSUME NEW S, NEW x \in Seq(S), NEW y \in Seq(S), NEW e \in S
    PROVE  x \o Append(y, e) = Append(x \o y, e)
<1>1. x \o y \in Seq(S) /\ <<e>> \in Seq(S)
  OBVIOUS
<1>2. Append(y, e) = y \o <<e>> /\ Append(x \o y, e) = (x \o y) \o <<e>>
  BY <1>1, AppendIsConcat
<1> QED
  BY <1>1, <1>2, ConcatAssociative

(* A packet that is queued comes last. *)
LEMMA QueuedLast ==
    ASSUME NEW S, NEW x \in Seq(S), NEW y \in Seq(S), NEW z \in Seq(S), NEW e \in S
    PROVE  x \o y \o Append(z, e) = Append(x \o y \o z, e)
<1>1. x \o y \in Seq(S)
  OBVIOUS
<1> QED
  BY <1>1, AppendedLast

(* A begun packet keeps its size, and a whole one stays whole. *)
LEMMA WholeKept ==
    ASSUME TypeOK, SentInv, NEW r \in Reader, NEW n \in Number, Whole(r, n),
           \/ \E q \in Reader : DeviceSends(q)
           \/ UNCHANGED <<size, sent>>
    PROVE  Whole(r, n)' /\ size'[r][n] = size[r][n]
<1>1. CASE UNCHANGED <<size, sent>>
  BY <1>1 DEF Whole
<1>2. ASSUME NEW q \in Reader, DeviceSends(q) PROVE Whole(r, n)' /\ size'[r][n] = size[r][n]
  <2>1. CASE r # q
    <3>1. size'[r] = size[r] /\ sent'[r] = sent[r]
      BY <1>2, <2>1, DeviceStep
    <3> QED
      BY <3>1 DEF Whole
  <2>2. CASE r = q
    <3>1. sent[r].packet \in Nat /\ n \in Nat /\ n >= 1
      BY DEF TypeOK, Number
    <3>2. sent[r] = [packet |-> n, parts |-> size[r][n]] => sent[r].packet = n /\ sent[r].parts = size[r][n]
      OBVIOUS
    <3>3. n \in 1 .. sent[r].packet
      BY <3>1, <3>2 DEF Whole
    <3>4. size'[r][n] = size[r][n]
      BY <3>3, <1>2, <2>2, DeviceStep
    <3>5. sent'[r].packet > n \/ (sent'[r].packet = sent[r].packet /\ sent[r].packet > n)
      <4>1. CASE sent[r].packet > n
        BY <4>1, <3>1, <1>2, <2>2, DeviceStep
      <4>2. CASE sent[r] = [packet |-> n, parts |-> size[r][n]]
        <5>1. sent[r].packet = n /\ sent[r].parts = size[r][n] /\ size[r][n] # TooLong => ~(sent[r].parts < Parts(r, sent[r].packet))
          BY <4>2, <3>2, <3>3, PartsTyped
        <5>2. sent[r].packet > 0 /\ sent[r].parts >= 1
          BY <4>2, <3>1, <3>2, <3>3, PartsTyped DEF SentInv
        <5>3. ~(sent[r].parts < Parts(r, sent[r].packet))
          BY <5>1, <5>2, <3>2, <4>2 DEF TooLong
        <5> QED
          BY <5>3, <3>1, <3>2, <4>2, <1>2, <2>2, DeviceStep
      <4> QED
        BY <4>1, <4>2 DEF Whole
    <3> QED
      BY <3>4, <3>5 DEF Whole
  <2> QED
    BY <2>1, <2>2
<1> QED
  BY <1>1, <1>2

---------------------------------------------------------------------------
(* The steps of a reader. *)

(* A step that moves no part of the stream of r leaves it in step. *)
LEMMA StepSame ==
    ASSUME NEW r \in Reader, buffer'[r] = buffer[r], wire'[r] = wire[r],
           size'[r] = size[r], sent'[r] = sent[r], gone' = gone, NEW m \in Nat
    PROVE  InStep(r, m)' <=> InStep(r, m)
<1>1. Coming(r)' = Coming(r)
  BY DEF Coming
<1>2. Follows(r, Coming(r), m)' <=> Follows(r, Coming(r), m)
  BY <1>1 DEF Follows, Run, Parts, Begins
<1>3. UpToDate(r, Coming(r), m)' <=> UpToDate(r, Coming(r), m)
  BY <1>1 DEF UpToDate, Parts, Begins
<1> QED
  BY <1>2, <1>3 DEF InStep

(* Such a step keeps the invariant of r, unless it takes the reader back   *)
(* to the stream or to a packet.                                           *)
LEMMA StreamStill ==
    ASSUME NEW r \in Reader, NEW n \in Nat, ReaderInv(r, n),
           buffer'[r] = buffer[r], wire'[r] = wire[r], frame'[r] = frame[r],
           size'[r] = size[r], sent'[r] = sent[r], gone' = gone,
           Numbers(r)' = Numbers(r), BeforeReselect' => BeforeReselect,
           BeforeReselect' /\ pc'[r] \in {"unborn", "check", "submit", "transfer"}
             => pc[r] \in {"unborn", "check", "submit", "transfer"},
           pc'[r] = "have" => pc[r] = "have",
           pc'[r] = "publish" => pc[r] = "publish" \/ (BeforeReselect /\ pc[r] = "have")
    PROVE  ReaderInv(r, n)'
<1>1. n + 1 \in Nat /\ n + 2 \in Nat
  OBVIOUS
<1>2. /\ InStep(r, n + 1)' <=> InStep(r, n + 1)
      /\ InStep(r, n + 2)' <=> InStep(r, n + 2)
  BY <1>1, StepSame
<1>3. Whole(r, n + 1)' <=> Whole(r, n + 1)
  BY DEF Whole
<1> QED
  BY <1>2, <1>3 DEF ReaderInv

(* What is left behind the first k. *)
LEMMA CutBehind ==
    ASSUME NEW S, NEW s \in Seq(S), NEW k \in 0 .. Len(s)
    PROVE  /\ SubSeq(s, k + 1, Len(s)) \in Seq(S)
           /\ Len(SubSeq(s, k + 1, Len(s))) = Len(s) - k
           /\ \A i \in 1 .. Len(s) - k : SubSeq(s, k + 1, Len(s))[i] = s[k + i]
  OBVIOUS

(* The stream goes on with the packet being taken, by its parts in b and   *)
(* those still on the wire in w.                                           *)
LEMMA StreamTaken ==
    ASSUME TypeOK, SentInv, NEW r \in Reader, NEW n \in Nat, Numbers(r) = 1 .. n,
           NEW b \in Seq(Number), NEW w \in Seq(Number), Coming(r) = b \o w, InStep(r, n + 1),
           NEW place \in {"check", "submit"}, _take_complete(r, b, place),
           wire'[r] = w, UNCHANGED <<size, sent, gone>>, Arrived' = Arrived
    PROVE  ReaderInv(r, n)'
<1> DEFINE a == b \o w
<1>1. /\ a \in Seq(Number) /\ Len(a) = Len(b) + Len(w) /\ Len(b) \in Nat /\ Len(w) \in Nat
      /\ \A i \in 1 .. Len(b) : a[i] = b[i]
  BY TwoJoined
<1>2. Follows(r, a, n + 1) /\ (~gone => UpToDate(r, a, n + 1))
  BY DEF InStep
<1>3. Numbers(r)' = 1 .. n
  BY DEF Numbers
<1>4. buffer' \in [Reader -> Seq(Number)] /\ buffer \in [Reader -> Seq(Number)]
      /\ pc \in [Reader -> ReaderPlace] /\ frame \in [Reader -> Nat]
  <2>1. \A i \in 1 .. Len(b) : b[i] \in 1 .. sent[r].packet
    <3>1. \A i \in 1 .. Len(a) : a[i] \in 1 .. sent[r].packet
      BY <1>2 DEF Follows
    <3> HIDE DEF a
    <3>2. \A i \in 1 .. Len(b) : i \in 1 .. Len(a)
      BY <1>1
    <3> QED
      BY <1>1, <3>1, <3>2
  <2>2. place \in ReaderPlace
    BY DEF ReaderPlace
  <2> QED
    BY <2>1, <2>2, TakeTyped DEF TypeOK
<1>5. ASSUME NEW m \in Nat, Follows(r, Coming(r)', m), ~gone => UpToDate(r, Coming(r)', m)
      PROVE  InStep(r, m)'
  BY <1>5 DEF InStep, Follows, UpToDate, Run, Parts, Begins
<1> HIDE DEF a
<1>6. CASE Goes(r, place) /\ buffer' = [buffer EXCEPT ![r] = b]
  <2>1. pc'[r] = place /\ buffer'[r] = b
    BY <1>4, <1>6 DEF Goes
  <2>2. Coming(r)' = a
    BY <2>1 DEF Coming, a
  <2>3. InStep(r, n + 1)'
    BY <2>2, <1>2, <1>5
  <2> QED
    BY <2>1, <2>3, <1>3 DEF ReaderInv
<1>7. CASE Goes(r, "error")
  <2>1. pc'[r] = "error"
    BY <1>4, <1>7 DEF Goes
  <2> QED
    BY <2>1, <1>3 DEF ReaderInv
<1>8. CASE /\ b # <<>> /\ size[r][Head(b)] # TooLong /\ Len(b) >= size[r][Head(b)]
           /\ Goes(r, "have") /\ frame' = [frame EXCEPT ![r] = Head(b)]
           /\ buffer' = [buffer EXCEPT ![r] = SubSeq(b, size[r][Head(b)] + 1, Len(b))]
  <2> DEFINE z == size[r][n + 1]
  <2>1. Head(b) = a[1] /\ a # <<>> /\ Len(b) >= 1
    BY <1>1, <1>8
  <2>2. a[1] = n + 1 /\ n + 1 \in 1 .. sent[r].packet
    BY <1>1, <1>2, <2>1 DEF Follows
  <2>3. z # TooLong /\ z = Parts(r, n + 1) /\ z \in Nat /\ z >= 1 /\ z <= Len(b) /\ Len(b) <= Len(a)
    <3>1. z # TooLong /\ z <= Len(b)
      BY <1>8, <2>1, <2>2
    <3>2. z = Parts(r, n + 1) /\ z \in Nat /\ z >= 1
      <4>1. Parts(r, n + 1) \in Nat /\ Parts(r, n + 1) >= 1 /\ (z # TooLong => Parts(r, n + 1) = z)
        BY <2>2, PartsTyped
      <4> QED
        BY <4>1, <3>1
    <3> QED
      BY <3>1, <3>2, <1>1
  <2>4. pc'[r] = "have" /\ frame'[r] = n + 1 /\ buffer'[r] = SubSeq(b, z + 1, Len(b))
    BY <1>4, <1>8, <2>1, <2>2 DEF Goes
  <2> HIDE DEF z
  <2>5. SubSeq(b, z + 1, Len(b)) \o w = SubSeq(a, z + 1, Len(a))
    <3> DEFINE u == SubSeq(b, z + 1, Len(b))
               v == SubSeq(a, z + 1, Len(a))
    <3>1. u \in Seq(Number) /\ Len(u) = Len(b) - z /\ \A i \in 1 .. Len(b) - z : u[i] = b[z + i]
      <4>1. z \in 0 .. Len(b)
        BY <2>3, <1>1
      <4> QED
        BY <4>1, CutBehind
    <3>2. v \in Seq(Number) /\ Len(v) = Len(a) - z /\ \A i \in 1 .. Len(a) - z : v[i] = a[z + i]
      <4>1. z \in 0 .. Len(a) /\ a \in Seq(Number)
        BY <2>3, <1>1
      <4> HIDE DEF a
      <4> QED
        BY <4>1, CutBehind
    <3> HIDE DEF u, v
    <3>3. /\ u \o w \in Seq(Number) /\ Len(u \o w) = Len(a) - z
          /\ \A i \in 1 .. Len(a) - z : (u \o w)[i] = IF i <= Len(u) THEN u[i] ELSE w[i - Len(u)]
      <4>1. Len(u) + Len(w) = Len(a) - z
        BY <3>1, <1>1, <2>3
      <4>2. /\ u \o w \in Seq(Number) /\ Len(u \o w) = Len(u) + Len(w)
            /\ \A i \in 1 .. Len(u) + Len(w) : (u \o w)[i] = IF i <= Len(u) THEN u[i] ELSE w[i - Len(u)]
        BY <3>1, ConcatProperties
      <4> QED
        BY <4>1, <4>2
    <3>4. \A i \in 1 .. Len(a) : a[i] = IF i <= Len(b) THEN b[i] ELSE w[i - Len(b)]
      BY <1>1, ConcatProperties DEF a
    <3>5. ASSUME NEW i \in 1 .. Len(a) - z PROVE (u \o w)[i] = v[i]
      <4>1. z + i \in 1 .. Len(a) /\ i \in Int
        BY <2>3, <1>1
      <4>2. CASE i <= Len(u)
        <5>1. i \in 1 .. Len(b) - z /\ z + i <= Len(b)
          BY <4>1, <4>2, <3>1, <2>3, <1>1
        <5> QED
          BY <5>1, <4>1, <4>2, <3>1, <3>2, <3>3, <3>4
      <4>3. CASE ~(i <= Len(u))
        <5>1. ~(z + i <= Len(b)) /\ (z + i) - Len(b) = i - Len(u)
          BY <4>1, <4>3, <3>1, <2>3, <1>1
        <5> QED
          BY <5>1, <4>1, <4>3, <3>2, <3>3, <3>4
      <4> QED
        BY <4>2, <4>3
    <3>6. u \o w = v
      BY <3>2, <3>3, <3>5, SeqEqual
    <3> QED
      BY <3>6 DEF u, v
  <2>6. Coming(r)' = SubSeq(a, z + 1, Len(a))
    BY <2>4, <2>5 DEF Coming
  <2>7. /\ Follows(r, SubSeq(a, z + 1, Len(a)), n + 2)
        /\ ~gone => UpToDate(r, SubSeq(a, z + 1, Len(a)), n + 2)
        /\ n + 1 = sent[r].packet => sent[r].parts = z
    <3>1. n + 1 \in Nat \ {0} /\ (n + 1) + 1 = n + 2 /\ Parts(r, n + 1) <= Len(a)
      BY <2>3, <1>1
    <3> QED
      BY <3>1, <2>1, <2>3, <1>1, <1>2, FollowsTaken
  <2>8. InStep(r, n + 2)'
    BY <2>6, <2>7, <1>5
  <2>9. Whole(r, n + 1)
    <3>1. sent[r] \in [packet : Nat, parts : Nat]
      BY DEF TypeOK
    <3> QED
      BY <3>1, <2>2, <2>7 DEF Whole, z
  <2>10. Whole(r, n + 1)' /\ size'[r][n + 1] # TooLong
    BY <2>9, <2>3 DEF Whole, z
  <2> QED
    BY <2>4, <2>8, <2>10, <1>3 DEF ReaderInv
<1> QED
  BY <1>6, <1>7, <1>8 DEF _take_complete

(* A transfer moves the first parts of the wire into the buffer. *)
LEMMA Transferred ==
    ASSUME NEW S, NEW a \in Seq(S), NEW w \in Seq(S), NEW k \in 1 .. Len(w)
    PROVE  /\ a \o SubSeq(w, 1, k) \in Seq(S) /\ SubSeq(w, k + 1, Len(w)) \in Seq(S)
           /\ (a \o SubSeq(w, 1, k)) \o SubSeq(w, k + 1, Len(w)) = a \o w
<1> DEFINE x == SubSeq(w, 1, k)
           y == SubSeq(w, k + 1, Len(w))
<1>1. x \in Seq(S) /\ y \in Seq(S) /\ Len(w) \in Nat
  OBVIOUS
<1>2. x \o y = w
  <2>1. x \o y = SubSeq(w, 1, Len(w))
    <3>1. 1 \in 1 .. Len(w) + 1 /\ k \in 1 - 1 .. Len(w) /\ Len(w) \in k .. Len(w)
      BY <1>1
    <3> QED
      BY <3>1, ConcatAdjacentSubSeq
  <2>2. SubSeq(w, 1, Len(w)) = w
    BY <1>1
  <2> QED
    BY <2>1, <2>2
<1> HIDE DEF x, y
<1>3. a \o x \in Seq(S)
  BY <1>1, ConcatProperties
<1>4. (a \o x) \o y = a \o (x \o y)
  BY <1>1, ConcatAssociative, SMTT(30)
<1>5. a \o x \in Seq(S) /\ y \in Seq(S) /\ (a \o x) \o y = a \o w
  BY <1>1, <1>2, <1>3, <1>4, Zenon
<1> QED
  BY <1>5, Zenon DEF x, y

(* Parts of begun packets, wherever they are moved. *)
LEMMA NumberedParts ==
    ASSUME NEW g \in Nat, NEW a \in Seq(Number), NEW b \in Seq(Number)
    PROVE  /\ (\A i \in 1 .. Len(a \o b) : (a \o b)[i] \in 1 .. g)
                <=> (\A i \in 1 .. Len(a) : a[i] \in 1 .. g) /\ (\A i \in 1 .. Len(b) : b[i] \in 1 .. g)
<1> DEFINE c == a \o b
<1>1. /\ Len(c) = Len(a) + Len(b) /\ Len(a) \in Nat /\ Len(b) \in Nat
      /\ \A i \in 1 .. Len(a) + Len(b) : c[i] = IF i <= Len(a) THEN a[i] ELSE b[i - Len(a)]
  BY ConcatProperties
<1> HIDE DEF c
<1>2. ASSUME \A i \in 1 .. Len(c) : c[i] \in 1 .. g, NEW i \in 1 .. Len(a) PROVE a[i] \in 1 .. g
  BY <1>1, <1>2
<1>3. ASSUME \A i \in 1 .. Len(c) : c[i] \in 1 .. g, NEW i \in 1 .. Len(b) PROVE b[i] \in 1 .. g
  <2>1. Len(a) + i \in 1 .. Len(c) /\ ~(Len(a) + i <= Len(a)) /\ (Len(a) + i) - Len(a) = i
    BY <1>1
  <2> QED
    BY <1>1, <1>3, <2>1
<1>4. ASSUME \A i \in 1 .. Len(a) : a[i] \in 1 .. g, \A i \in 1 .. Len(b) : b[i] \in 1 .. g,
             NEW i \in 1 .. Len(c)
      PROVE  c[i] \in 1 .. g
  <2>1. CASE i <= Len(a)
    BY <2>1, <1>1, <1>4
  <2>2. CASE ~(i <= Len(a))
    <3>1. i - Len(a) \in 1 .. Len(b)
      BY <2>2, <1>1
    <3> QED
      BY <3>1, <2>2, <1>1, <1>4
  <2> QED
    BY <2>1, <2>2
<1> QED
  BY <1>2, <1>3, <1>4 DEF c

(* Taking a packet keeps the rest of b. *)
LEMMA TakeNumbered ==
    ASSUME TypeOK, SentInv, NEW r \in Reader, NEW b \in Seq(Number), NEW place \in ReaderPlace,
           _take_complete(r, b, place), \A i \in 1 .. Len(b) : b[i] \in 1 .. sent[r].packet
    PROVE  /\ \A i \in 1 .. Len(buffer'[r]) : buffer'[r][i] \in 1 .. sent[r].packet
           /\ \A q \in Reader \ {r} : buffer'[q] = buffer[q] /\ pc'[q] = pc[q] /\ frame'[q] = frame[q]
<1>1. CASE /\ Goes(r, place) /\ buffer' = [buffer EXCEPT ![r] = b] /\ UNCHANGED frame
  <2>1. buffer'[r] = b
    BY <1>1 DEF TypeOK
  <2> QED
    BY <1>1, <2>1 DEF TypeOK, Goes
<1>2. CASE /\ Goes(r, "error") /\ buffer' = [buffer EXCEPT ![r] = <<>>] /\ UNCHANGED frame
  <2>1. buffer'[r] = <<>>
    BY <1>2 DEF TypeOK
  <2> QED
    BY <1>2, <2>1 DEF TypeOK, Goes
<1>3. CASE /\ b # <<>> /\ size[r][Head(b)] # TooLong /\ Len(b) >= size[r][Head(b)]
           /\ Goes(r, "have") /\ frame' = [frame EXCEPT ![r] = Head(b)]
           /\ buffer' = [buffer EXCEPT ![r] = SubSeq(b, size[r][Head(b)] + 1, Len(b))]
  <2> DEFINE z == size[r][Head(b)]
  <2>1. Head(b) = b[1] /\ 1 \in 1 .. Len(b)
    BY <1>3
  <2>2. z \in Nat /\ z >= 1 /\ z <= Len(b)
    BY <2>1, <1>3, PartsTyped
  <2>3. buffer'[r] = SubSeq(b, z + 1, Len(b))
    BY <1>3 DEF TypeOK
  <2> HIDE DEF z
  <2>4. Len(buffer'[r]) = Len(b) - z /\ \A i \in 1 .. Len(b) - z : buffer'[r][i] = b[z + i] /\ z + i \in 1 .. Len(b)
    BY <2>2, <2>3
  <2> QED
    BY <1>3, <2>4 DEF TypeOK, Goes
<1> QED
  BY <1>1, <1>2, <1>3 DEF _take_complete

(* What _take_complete is applied to. *)
LEMMA TransferTyped ==
    ASSUME TypeOK, SentInv, Numbered, NEW r \in Reader, NEW k \in 1 .. Len(wire[r])
    PROVE  /\ buffer[r] \in Seq(Number) /\ wire[r] \in Seq(Number)
           /\ buffer[r] \o SubSeq(wire[r], 1, k) \in Seq(Number)
           /\ SubSeq(wire[r], k + 1, Len(wire[r])) \in Seq(Number)
           /\ Coming(r) = (buffer[r] \o SubSeq(wire[r], 1, k)) \o SubSeq(wire[r], k + 1, Len(wire[r]))
           /\ \A i \in 1 .. Len(buffer[r] \o SubSeq(wire[r], 1, k)) :
                 (buffer[r] \o SubSeq(wire[r], 1, k))[i] \in 1 .. sent[r].packet
           /\ \A i \in 1 .. Len(SubSeq(wire[r], k + 1, Len(wire[r]))) :
                 SubSeq(wire[r], k + 1, Len(wire[r]))[i] \in 1 .. sent[r].packet
<1>1. buffer[r] \in Seq(Number) /\ wire[r] \in Seq(Number) /\ sent[r].packet \in Nat
  BY DEF TypeOK
<1> DEFINE b == buffer[r]
           w == wire[r]
           x == b \o SubSeq(w, 1, k)
           y == SubSeq(w, k + 1, Len(w))
<1>2. x \in Seq(Number) /\ y \in Seq(Number) /\ x \o y = b \o w
  <2>1. \A u, v \in Seq(Number) : \A j \in 1 .. Len(v) :
           /\ u \o SubSeq(v, 1, j) \in Seq(Number) /\ SubSeq(v, j + 1, Len(v)) \in Seq(Number)
           /\ (u \o SubSeq(v, 1, j)) \o SubSeq(v, j + 1, Len(v)) = u \o v
    BY Transferred
  <2> QED
    BY ONLY <1>1, <2>1, k \in 1 .. Len(wire[r]), Zenon
<1>3. /\ \A i \in 1 .. Len(b) : b[i] \in 1 .. sent[r].packet
      /\ \A i \in 1 .. Len(w) : w[i] \in 1 .. sent[r].packet
  BY DEF Numbered
<1> HIDE DEF b, w, x, y
<1>4. /\ \A i \in 1 .. Len(x) : x[i] \in 1 .. sent[r].packet
      /\ \A i \in 1 .. Len(y) : y[i] \in 1 .. sent[r].packet
  <2>1. \A i \in 1 .. Len(b \o w) : (b \o w)[i] \in 1 .. sent[r].packet
    BY <1>1, <1>3, NumberedParts DEF b, w
  <2>2. \A i \in 1 .. Len(x \o y) : (x \o y)[i] \in 1 .. sent[r].packet
    BY <2>1, <1>2
  <2> QED
    BY <2>2, <1>1, <1>2, NumberedParts
<1> QED
  BY <1>1, <1>2, <1>4 DEF b, w, x, y, Coming

---------------------------------------------------------------------------
(* The invariant, step by step. *)

(* A step that leaves the stream alone keeps what is said of it. *)
LEMMA SentStill ==
    ASSUME SentInv, Numbered, UNCHANGED <<size, sent, buffer, wire>>
    PROVE  SentInv' /\ Numbered'
BY DEF SentInv, Numbered, Parts

(* The steps of a reader but for those that take from the stream. *)
LEMMA ReaderTyped ==
    ASSUME TypeOK, SentInv, Numbered, NEW r \in Reader, frame[r] \in Number \/ pc[r] # "publish",
           \/ ReaderSubmits(r) \/ TransferFails(r) \/ ReaderLooksAgain(r)
           \/ _queue_reader_packet(r) \/ _fail_reader(r)
    PROVE  TypeOK' /\ SentInv' /\ Numbered'
<1>1. CASE ReaderSubmits(r) \/ TransferFails(r) \/ ReaderLooksAgain(r)
  <2>1. UNCHANGED <<size, sent, buffer, wire>>
    BY <1>1 DEF ReaderSubmits, TransferFails, ReaderLooksAgain, deviceVars
  <2>2. TypeOK'
    BY <1>1 DEF TypeOK, ReaderSubmits, TransferFails, ReaderLooksAgain, Goes, ReaderPlace,
                deviceVars, queueVars, mainVars
  <2> QED
    BY <2>1, <2>2, SentStill
<1>2. CASE _queue_reader_packet(r)
  <2>1. UNCHANGED <<size, sent, buffer, wire>>
    BY <1>2 DEF _queue_reader_packet, deviceVars
  <2>2. [reader |-> r, packet |-> frame[r]] \in [reader : Reader, packet : Number]
    BY <1>2 DEF _queue_reader_packet
  <2>3. _reader_packets' \in Seq([reader : Reader, packet : Number])
    <3>1. _reader_packets \in Seq([reader : Reader, packet : Number])
      BY DEF TypeOK
    <3> QED
      BY <3>1, <2>2, <1>2 DEF _queue_reader_packet
  <2>4. TypeOK'
    BY <1>2, <2>3 DEF TypeOK, _queue_reader_packet, Goes, ReaderPlace, Notify, deviceVars
  <2> QED
    BY <2>1, <2>4, SentStill
<1>3. CASE _fail_reader(r)
  <2>1. UNCHANGED <<size, sent, buffer, wire>>
    BY <1>3 DEF _fail_reader, deviceVars
  <2>2. TypeOK'
    BY <1>3 DEF TypeOK, _fail_reader, Goes, ReaderPlace, Notify, deviceVars
  <2> QED
    BY <2>1, <2>2, SentStill
<1> QED
  BY <1>1, <1>2, <1>3

(* The steps that take from the stream. *)
LEMMA TakerTyped ==
    ASSUME TypeOK, SentInv, Numbered, NEW r \in Reader, ReaderChecks(r) \/ TransferCompletes(r)
    PROVE  TypeOK' /\ SentInv' /\ Numbered'
<1>1. buffer[r] \in Seq(Number) /\ wire[r] \in Seq(Number)
      /\ \A i \in 1 .. Len(buffer[r]) : buffer[r][i] \in 1 .. sent[r].packet
  BY DEF TypeOK, Numbered
<1>2. {"check", "submit", "done"} \subseteq ReaderPlace
  BY DEF ReaderPlace
<1>3. CASE ReaderChecks(r) /\ _reader_stop /\ Goes(r, "done") /\ UNCHANGED <<buffer, frame>>
  <2>1. TypeOK'
    BY <1>3 DEF ReaderChecks, TypeOK, Goes, ReaderPlace, deviceVars, queueVars, mainVars
  <2> QED
    BY <1>3, <2>1, SentStill DEF ReaderChecks, deviceVars
<1>4. CASE ReaderChecks(r) /\ _take_complete(r, buffer[r], "submit")
  <2>1. /\ pc' \in [Reader -> ReaderPlace] /\ buffer' \in [Reader -> Seq(Number)]
        /\ frame' \in [Reader -> Nat]
    BY <1>1, <1>2, <1>4, TakeTyped
  <2>2. /\ \A i \in 1 .. Len(buffer'[r]) : buffer'[r][i] \in 1 .. sent[r].packet
        /\ \A q \in Reader \ {r} : buffer'[q] = buffer[q]
    BY <1>1, <1>2, <1>4, TakeNumbered
  <2>3. UNCHANGED <<deviceVars, queueVars, mainVars>>
    BY <1>4 DEF ReaderChecks
  <2>4. TypeOK'
    BY <2>1, <2>3 DEF TypeOK, deviceVars, queueVars, mainVars
  <2>5. SentInv'
    BY <2>3 DEF SentInv, Parts, deviceVars
  <2>6. Numbered'
    BY <2>2, <2>3 DEF Numbered, deviceVars
  <2> QED
    BY <2>4, <2>5, <2>6
<1>5. CASE TransferCompletes(r)
  <2>1. PICK k \in 1 .. Len(wire[r]) :
            /\ wire' = [wire EXCEPT ![r] = SubSeq(@, k + 1, Len(@))]
            /\ _take_complete(r, buffer[r] \o SubSeq(wire[r], 1, k), "check")
    BY <1>5 DEF TransferCompletes
  <2>2. UNCHANGED <<size, sent, gone, queueVars, mainVars>>
    BY <1>5 DEF TransferCompletes
  <2> DEFINE x == buffer[r] \o SubSeq(wire[r], 1, k)
             y == SubSeq(wire[r], k + 1, Len(wire[r]))
  <2>3. /\ x \in Seq(Number) /\ y \in Seq(Number)
        /\ \A i \in 1 .. Len(x) : x[i] \in 1 .. sent[r].packet
        /\ \A i \in 1 .. Len(y) : y[i] \in 1 .. sent[r].packet
    BY TransferTyped
  <2>4. _take_complete(r, x, "check") /\ wire' = [wire EXCEPT ![r] = y]
    BY <2>1
  <2> HIDE DEF x, y
  <2>5. /\ pc' \in [Reader -> ReaderPlace] /\ buffer' \in [Reader -> Seq(Number)]
        /\ frame' \in [Reader -> Nat]
    BY <1>2, <2>3, <2>4, TakeTyped
  <2>6. /\ \A i \in 1 .. Len(buffer'[r]) : buffer'[r][i] \in 1 .. sent[r].packet
        /\ \A q \in Reader \ {r} : buffer'[q] = buffer[q]
    BY <1>2, <2>3, <2>4, TakeNumbered
  <2>7. wire' \in [Reader -> Seq(Number)] /\ wire'[r] = y /\ \A q \in Reader \ {r} : wire'[q] = wire[q]
    BY <2>3, <2>4 DEF TypeOK
  <2>8. TypeOK'
    BY <2>2, <2>5, <2>7 DEF TypeOK, queueVars, mainVars
  <2>9. SentInv'
    BY <2>2 DEF SentInv, Parts
  <2>10. Numbered'
    BY <2>2, <2>3, <2>6, <2>7 DEF Numbered
  <2> QED
    BY <2>8, <2>9, <2>10
<1> QED
  BY <1>3, <1>4, <1>5 DEF ReaderChecks

(* The device, the caller and close. *)
LEMMA OthersTyped ==
    ASSUME TypeOK, SentInv, Numbered,
           \/ \E r \in Reader : DeviceSends(r)
           \/ Unplug \/ _start_readers \/ Reads \/ has_pending_input \/ Close \/ Closes
    PROVE  TypeOK' /\ SentInv' /\ Numbered'
<1>1. ASSUME NEW r \in Reader, DeviceSends(r) PROVE TypeOK' /\ SentInv' /\ Numbered'
  <2>1. /\ TypeOK' /\ SentInv' /\ wire'[r] = Append(wire[r], sent'[r].packet)
        /\ buffer' = buffer /\ sent'[r].packet \in Number
        /\ sent'[r].packet \in {sent[r].packet, sent[r].packet + 1}
        /\ \A q \in Reader \ {r} : sent'[q] = sent[q] /\ wire'[q] = wire[q]
    BY <1>1, DeviceStep DEF readerVars
  <2>2. /\ wire[r] \in Seq(Number) /\ sent[r].packet \in Nat
        /\ \A b \in {buffer[r], wire[r]} : \A i \in 1 .. Len(b) : b[i] \in 1 .. sent[r].packet
    BY DEF TypeOK, Numbered
  <2> DEFINE g == sent[r].packet
             h == sent'[r].packet
             w == wire[r]
             b == buffer[r]
  <2>3. /\ w \in Seq(Number) /\ g \in Nat /\ h \in Nat /\ h >= 1 /\ g <= h
        /\ \A i \in 1 .. Len(w) : w[i] \in 1 .. g
        /\ \A i \in 1 .. Len(b) : b[i] \in 1 .. g
    BY <2>1, <2>2 DEF Number
  <2> HIDE DEF g, h, w, b
  <2>4. \A i \in 1 .. Len(Append(w, h)) : Append(w, h)[i] \in 1 .. h
    BY <2>3
  <2>5. \A i \in 1 .. Len(b) : b[i] \in 1 .. h
    BY <2>3
  <2>6. \A c \in {buffer'[r], wire'[r]} : \A i \in 1 .. Len(c) : c[i] \in 1 .. sent'[r].packet
    BY <2>1, <2>4, <2>5 DEF g, h, w, b
  <2>7. \A q \in Reader \ {r} : \A c \in {buffer'[q], wire'[q]} : \A i \in 1 .. Len(c) : c[i] \in 1 .. sent'[q].packet
    BY <2>1 DEF Numbered
  <2> QED
    BY <2>1, <2>6, <2>7 DEF Numbered
<1>2. CASE Unplug
  <2>1. TypeOK' /\ SentInv'
    BY <1>2 DEF Unplug, TypeOK, SentInv, Parts, readerVars, queueVars, mainVars
  <2>2. Numbered'
    BY <1>2 DEF Unplug, Numbered, readerVars
  <2> QED
    BY <2>1, <2>2
<1>3. CASE _start_readers \/ ReadRaises \/ ReadWaits \/ ReadTimesOut \/ Close \/ StopSet \/ Release
  <2>1. UNCHANGED <<size, sent, buffer, wire>>
    BY <1>3 DEF _start_readers, ReadRaises, ReadWaits, ReadTimesOut, Close, StopSet, Release,
                deviceVars, readerVars
  <2>2. TypeOK'
    BY <1>3 DEF TypeOK, _start_readers, ReadRaises, ReadWaits, ReadTimesOut, Close, StopSet, Release,
                deviceVars, readerVars, queueVars, MainPlace, ReaderPlace
  <2> QED
    BY <2>1, <2>2, SentStill
<1>4. CASE ReadReturns \/ has_pending_input
  <2>1. UNCHANGED <<size, sent, buffer, wire>>
    BY <1>4 DEF ReadReturns, has_pending_input, deviceVars, readerVars
  <2> DEFINE S == [reader : Reader, packet : Number]
  <2>2. returned \in Seq(S) /\ _prefetched \in Seq(S) /\ _reader_packets \in Seq(S)
    BY DEF TypeOK
  <2> HIDE DEF S
  <2>3. \A q \in Seq(S) : q # <<>> =>
            Tail(q) \in Seq(S) /\ <<Head(q)>> \in Seq(S) /\ Append(returned, Head(q)) \in Seq(S)
    BY <2>2
  <2>4. returned' \in Seq(S) /\ _prefetched' \in Seq(S) /\ _reader_packets' \in Seq(S)
    <3>1. CASE has_pending_input
      BY <3>1, <2>2, <2>3 DEF has_pending_input
    <3>2. CASE ReadReturns /\ NextFrom = "prefetched"
      <4>1. _prefetched # <<>>
        BY <3>2 DEF NextFrom, None
      <4> QED
        BY <4>1, <3>2, <2>2, <2>3 DEF ReadReturns
    <3>3. CASE ReadReturns /\ NextFrom = "queue"
      <4>1. _reader_packets # <<>>
        BY <3>3 DEF NextFrom, None
      <4> QED
        BY <4>1, <3>3, <2>2, <2>3 DEF ReadReturns
    <3> QED
      BY <1>4, <3>1, <3>2, <3>3 DEF ReadReturns
  <2>5. TypeOK'
    BY <1>4, <2>4 DEF TypeOK, S, ReadReturns, has_pending_input, deviceVars, readerVars
  <2> QED
    BY <2>1, <2>5, SentStill
<1>5. CASE Reselect
  <2>1. TypeOK'
    <3>1. main' \in MainPlace
      BY <1>5 DEF Reselect, MainPlace
    <3>2. pc' \in [Reader -> ReaderPlace] /\ wire' \in [Reader -> Seq(Number)]
      <4>1. CASE gone
        BY <4>1, <1>5 DEF Reselect, TypeOK
      <4>2. CASE ~gone
        <5>1. /\ pc' = [r \in Reader |-> IF pc[r] = "transfer" THEN "error" ELSE pc[r]]
              /\ wire' = [r \in Reader |-> <<>>]
          BY <4>2, <1>5 DEF Reselect
        <5>2. \A r \in Reader : (IF pc[r] = "transfer" THEN "error" ELSE pc[r]) \in ReaderPlace
          BY DEF TypeOK, ReaderPlace
        <5>3. <<>> \in Seq(Number)
          OBVIOUS
        <5> QED
          BY <5>1, <5>2, <5>3
      <4> QED
        BY <4>1, <4>2
    <3> QED
      BY <1>5, <3>1, <3>2 DEF Reselect, TypeOK, queueVars
  <2>2. SentInv'
    BY <1>5 DEF Reselect, SentInv, Parts
  <2>3. Numbered'
    BY <1>5 DEF Reselect, Numbered
  <2> QED
    BY <2>1, <2>2, <2>3
<1> QED
  BY <1>1, <1>2, <1>3, <1>4, <1>5 DEF Reads, Closes

(* What reached the caller changes only when a reader queues a packet. *)
LEMMA ArrivedStep ==
    ASSUME TypeOK, [Next]_vars, \A r \in Reader : pc[r] = "publish" => frame[r] \in Number
    PROVE  /\ Arrived \in Seq([reader : Reader, packet : Number])
           /\ \/ Arrived' = Arrived /\ ~(\E r \in Reader : _queue_reader_packet(r))
              \/ \E r \in Reader : _queue_reader_packet(r) /\ Arrived' = Append(Arrived, Packet(r, frame[r]))
<1> DEFINE S == [reader : Reader, packet : Number]
<1>1. returned \in Seq(S) /\ _prefetched \in Seq(S) /\ _reader_packets \in Seq(S)
  BY DEF TypeOK
<1>2. \A r \in Reader : pc[r] = "publish" => Packet(r, frame[r]) \in S
  BY DEF Packet
<1> HIDE DEF S
<1>3. Arrived \in Seq(S)
  BY <1>1 DEF Arrived
<1>4. ASSUME NEW r \in Reader, _queue_reader_packet(r) PROVE Arrived' = Append(Arrived, Packet(r, frame[r]))
  <2>1. Packet(r, frame[r]) \in S
    BY <1>2, <1>4 DEF _queue_reader_packet
  <2>2. /\ returned' = returned /\ _prefetched' = _prefetched
        /\ _reader_packets' = Append(_reader_packets, Packet(r, frame[r]))
    BY <1>4 DEF _queue_reader_packet, Packet
  <2> QED
    BY <1>1, <2>1, <2>2, QueuedLast DEF Arrived
<1>5. ASSUME ReadReturns \/ has_pending_input PROVE Arrived' = Arrived
  <2>1. CASE has_pending_input
    <3>1. /\ _prefetched = <<>> /\ _reader_packets # <<>> /\ returned' = returned
          /\ _prefetched' = <<Head(_reader_packets)>> /\ _reader_packets' = Tail(_reader_packets)
      BY <2>1 DEF has_pending_input
    <3> QED
      BY <1>1, <3>1, Moved, SMTT(30) DEF Arrived
  <2>2. CASE ReadReturns /\ NextFrom = "prefetched"
    <3>1. _prefetched # <<>>
      BY <2>2 DEF NextFrom, None
    <3>2. /\ returned' = Append(returned, Head(_prefetched)) /\ _prefetched' = Tail(_prefetched)
          /\ _reader_packets' = _reader_packets
      BY <2>2 DEF ReadReturns
    <3> QED
      BY <1>1, <3>1, <3>2, Moved DEF Arrived
  <2>3. CASE ReadReturns /\ NextFrom = "queue"
    <3>1. _prefetched = <<>> /\ _reader_packets # <<>>
      BY <2>3 DEF NextFrom, None
    <3>2. /\ returned' = Append(returned, Head(_reader_packets)) /\ _prefetched' = _prefetched
          /\ _reader_packets' = Tail(_reader_packets)
      BY <2>3 DEF ReadReturns
    <3> QED
      BY <1>1, <3>1, <3>2, Moved DEF Arrived
  <2> QED
    BY <1>5, <2>1, <2>2, <2>3 DEF ReadReturns
<1>6. ASSUME UNCHANGED <<returned, _prefetched, _reader_packets>> PROVE Arrived' = Arrived
  BY <1>6 DEF Arrived
<1>7. ASSUME NEW r \in Reader,
             \/ DeviceSends(r) \/ ReaderChecks(r) \/ ReaderSubmits(r) \/ TransferCompletes(r)
             \/ TransferFails(r) \/ ReaderLooksAgain(r) \/ _fail_reader(r)
      PROVE  Arrived' = Arrived
  <2>1. UNCHANGED <<returned, _prefetched, _reader_packets>>
    BY <1>7 DEF DeviceSends, ReaderChecks, ReaderSubmits, TransferCompletes, TransferFails,
                ReaderLooksAgain, _fail_reader, mainVars, queueVars
  <2> QED
    BY <2>1, <1>6
<1>8. ASSUME \/ Unplug \/ _start_readers \/ ReadRaises \/ ReadWaits \/ ReadTimesOut \/ Close
             \/ StopSet \/ Reselect \/ Release \/ UNCHANGED vars
      PROVE  Arrived' = Arrived
  <2>1. UNCHANGED <<returned, _prefetched, _reader_packets>>
    BY <1>8 DEF Unplug, _start_readers, ReadRaises, ReadWaits, ReadTimesOut, Close, StopSet, Reselect,
                Release, vars, mainVars, queueVars
  <2> QED
    BY <2>1, <1>6
<1> QED
  BY <1>3, <1>4, <1>5, <1>7, <1>8 DEF S, Next, ReaderSteps, Reads, Closes

(* A reader queues the next packet of its endpoint. *)
LEMMA NumbersQueued ==
    ASSUME NEW r \in Reader, NEW m \in Number,
           NEW a \in Seq([reader : Reader, packet : Number]), Arrived = a,
           Arrived' = Append(a, Packet(r, m))
    PROVE  /\ Numbers(r)' = Numbers(r) \cup {m}
           /\ \A q \in Reader \ {r} : Numbers(q)' = Numbers(q)
<1> DEFINE l == Len(a)
           b == Append(a, Packet(r, m))
<1>1. l \in Nat /\ Len(b) = l + 1 /\ b[l + 1] = Packet(r, m) /\ \A i \in 1 .. l : b[i] = a[i]
  OBVIOUS
<1>2. \A q \in Reader, n \in Number : Packet(q, n) = Packet(r, m) <=> q = r /\ n = m
  BY DEF Packet
<1>3. /\ \A q \in Reader : Numbers(q) = {n \in Number : \E i \in 1 .. l : a[i] = Packet(q, n)}
      /\ \A q \in Reader : Numbers(q)' = {n \in Number : \E i \in 1 .. l + 1 : b[i] = Packet(q, n)}
  BY <1>1 DEF Numbers, Packet
<1> HIDE DEF l, b
<1>4. ASSUME NEW q \in Reader, NEW n \in Number
      PROVE  (\E i \in 1 .. l + 1 : b[i] = Packet(q, n))
                <=> (\E i \in 1 .. l : a[i] = Packet(q, n)) \/ (q = r /\ n = m)
  <2>1. \A i \in 1 .. l : i \in 1 .. l + 1
    BY <1>1
  <2>2. \A i \in 1 .. l + 1 : i \in 1 .. l \/ i = l + 1
    BY <1>1
  <2>3. l + 1 \in 1 .. l + 1
    BY <1>1
  <2> QED
    BY <1>1, <1>2, <2>1, <2>2, <2>3
<1>5. ASSUME NEW n PROVE n \in Numbers(r)' <=> n \in Numbers(r) \cup {m}
  BY <1>3, <1>4
<1>6. ASSUME NEW q \in Reader \ {r}, NEW n PROVE n \in Numbers(q)' <=> n \in Numbers(q)
  BY <1>3, <1>4
<1>7. Numbers(r)' = Numbers(r) \cup {m}
  BY <1>5
<1>8. ASSUME NEW q \in Reader \ {r} PROVE Numbers(q)' = Numbers(q)
  BY <1>6
<1> QED
  BY <1>7, <1>8

(* The main thread does not go back, and it stops the readers first. *)
LEMMA MainStep ==
    ASSUME TypeOK, [Next]_vars, main \notin {"open", "use", "stop"} => _reader_stop
    PROVE  /\ BeforeReselect' => BeforeReselect
           /\ main' \notin {"open", "use", "stop"} => _reader_stop'
<1>1. ASSUME NEW r \in Reader, DeviceSends(r) \/ ReaderSteps(r)
      PROVE  main' = main /\ (_reader_stop => _reader_stop')
  BY <1>1 DEF DeviceSends, ReaderSteps, ReaderChecks, ReaderSubmits, TransferCompletes, TransferFails,
              ReaderLooksAgain, _queue_reader_packet, _fail_reader, queueVars, mainVars
<1>2. CASE \/ Unplug \/ _start_readers \/ Reads \/ has_pending_input \/ Close \/ Closes \/ UNCHANGED vars
  BY <1>2 DEF Unplug, _start_readers, Reads, ReadReturns, ReadRaises, ReadWaits, ReadTimesOut, Reading,
              has_pending_input, Close, Closes, StopSet, Reselect, Release, vars, queueVars, mainVars,
              BeforeReselect
<1> QED
  BY <1>1, <1>2 DEF Next, BeforeReselect

(* A reader's own steps. *)
LEMMA ReaderKeeps ==
    ASSUME Inv, NEW r \in Reader, ReaderSteps(r), NEW n \in Nat, ReaderInv(r, n)
    PROVE  \E k \in Nat : ReaderInv(r, k)'
<1> USE DEF BeforeReselect
<1>1. TypeOK /\ SentInv /\ Numbered /\ (~BeforeReselect => _reader_stop)
  BY DEF Inv
<1>2. pc \in [Reader -> ReaderPlace] /\ buffer[r] \in Seq(Number) /\ wire[r] \in Seq(Number)
  BY <1>1 DEF TypeOK
<1>3. CASE ReaderChecks(r) /\ _reader_stop
  <2>1. /\ pc'[r] = "done" /\ UNCHANGED <<buffer, frame, size, sent, gone, wire, main>>
        /\ UNCHANGED <<returned, _prefetched, _reader_packets>>
    BY <1>2, <1>3 DEF ReaderChecks, Goes, deviceVars, mainVars, queueVars
  <2>2. Numbers(r)' = Numbers(r)
    BY <2>1 DEF Numbers, Arrived
  <2>3. ReaderInv(r, n)'
    BY <2>1, <2>2, StreamStill
  <2> QED
    BY <2>3
<1>4. CASE ReaderChecks(r) /\ ~_reader_stop
  <2>1. /\ _take_complete(r, buffer[r], "submit") /\ UNCHANGED <<size, sent, gone, wire, main>>
        /\ UNCHANGED <<returned, _prefetched, _reader_packets>>
    BY <1>4 DEF ReaderChecks, deviceVars, mainVars, queueVars
  <2>2. Arrived' = Arrived
    BY <2>1 DEF Arrived
  <2>3. Numbers(r) = 1 .. n /\ InStep(r, n + 1)
    BY <1>1, <1>4 DEF ReaderChecks, ReaderInv
  <2>4. ReaderInv(r, n)'
    BY <1>1, <1>2, <2>1, <2>2, <2>3, StreamTaken DEF Coming
  <2> QED
    BY <2>4
<1>5. CASE TransferCompletes(r)
  <2>1. PICK k \in 1 .. Len(wire[r]) :
            /\ wire' = [wire EXCEPT ![r] = SubSeq(@, k + 1, Len(@))]
            /\ _take_complete(r, buffer[r] \o SubSeq(wire[r], 1, k), "check")
    BY <1>5 DEF TransferCompletes
  <2>2. /\ pc[r] = "transfer" /\ UNCHANGED <<size, sent, gone, main>>
        /\ UNCHANGED <<returned, _prefetched, _reader_packets>>
    BY <1>5 DEF TransferCompletes, mainVars, queueVars
  <2>3. Arrived' = Arrived
    BY <2>2 DEF Arrived
  <2>4. Numbers(r) = 1 .. n /\ Numbers(r)' = 1 .. n
    BY <2>3 DEF Numbers, ReaderInv
  <2>5. CASE BeforeReselect
    <3> DEFINE x == buffer[r] \o SubSeq(wire[r], 1, k)
               y == SubSeq(wire[r], k + 1, Len(wire[r]))
    <3>1. InStep(r, n + 1)
      BY <2>2, <2>5 DEF ReaderInv
    <3>2. x \in Seq(Number) /\ y \in Seq(Number) /\ Coming(r) = x \o y
      BY <1>1, TransferTyped
    <3>3. _take_complete(r, x, "check") /\ wire'[r] = y
      BY <1>1, <2>1 DEF TypeOK
    <3> HIDE DEF x, y
    <3>4. ReaderInv(r, n)'
      BY <1>1, <2>2, <2>3, <2>4, <3>1, <3>2, <3>3, StreamTaken
    <3> QED
      BY <3>4
  <2>6. CASE ~BeforeReselect
    <3>1. pc'[r] \in {"check", "error", "have"} /\ ~BeforeReselect'
      BY <1>2, <2>1, <2>2, <2>6 DEF _take_complete, Goes
    <3>2. ReaderInv(r, n)'
      BY <2>4, <3>1 DEF ReaderInv
    <3> QED
      BY <3>2
  <2> QED
    BY <2>5, <2>6
<1>6. CASE ReaderSubmits(r) \/ TransferFails(r) \/ ReaderLooksAgain(r) \/ _fail_reader(r)
  <2>1. /\ UNCHANGED <<buffer, frame, size, sent, gone, wire, main>>
        /\ UNCHANGED <<returned, _prefetched, _reader_packets>>
    BY <1>6 DEF ReaderSubmits, TransferFails, ReaderLooksAgain, _fail_reader,
                deviceVars, mainVars, queueVars
  <2>2. Numbers(r)' = Numbers(r)
    BY <2>1 DEF Numbers, Arrived
  <2>3. /\ pc'[r] \in {"unborn", "check", "submit", "transfer"}
             => pc[r] \in {"unborn", "check", "submit", "transfer"}
        /\ pc'[r] = "have" => pc[r] = "have"
        /\ pc'[r] = "publish" => pc[r] = "publish" \/ (~_reader_stop /\ pc[r] = "have")
    BY <1>2, <1>6 DEF ReaderSubmits, TransferFails, ReaderLooksAgain, _fail_reader, Goes
  <2>4. ReaderInv(r, n)'
    BY <1>1, <2>1, <2>2, <2>3, StreamStill
  <2> QED
    BY <2>4
<1>7. CASE _queue_reader_packet(r)
  <2>1. /\ UNCHANGED <<buffer, frame, size, sent, gone, wire, main>> /\ pc[r] = "publish" /\ pc'[r] = "check"
        /\ _reader_packets' = Append(_reader_packets, Packet(r, frame[r]))
        /\ UNCHANGED <<returned, _prefetched>>
    BY <1>2, <1>7 DEF _queue_reader_packet, Goes, Packet, deviceVars
  <2>2. /\ Numbers(r) = 1 .. n /\ (BeforeReselect => InStep(r, n + 2)) /\ frame[r] = n + 1 /\ n + 1 \in Number
        /\ n + 1 \in Nat /\ n + 2 \in Nat /\ (n + 1) + 1 = n + 2
    BY <2>1 DEF ReaderInv, Number
  <2>3. Arrived \in Seq([reader : Reader, packet : Number]) /\ Arrived' = Append(Arrived, Packet(r, n + 1))
    <3> DEFINE S == [reader : Reader, packet : Number]
    <3>1. returned \in Seq(S) /\ _prefetched \in Seq(S) /\ _reader_packets \in Seq(S) /\ Packet(r, n + 1) \in S
      BY <1>1, <2>2 DEF TypeOK, Packet
    <3> HIDE DEF S
    <3>2. Arrived \in Seq(S)
      BY <3>1 DEF Arrived
    <3>3. Arrived' = Append(Arrived, Packet(r, n + 1))
      BY <2>1, <2>2, <3>1, QueuedLast DEF Arrived
    <3> QED
      BY <3>2, <3>3 DEF S
  <2>4. Numbers(r)' = 1 .. n + 1
    <3>1. Numbers(r)' = Numbers(r) \cup {n + 1}
      BY <2>2, <2>3, NumbersQueued
    <3> QED
      BY <2>2, <3>1
  <2>5. BeforeReselect' => InStep(r, n + 2)'
    BY <2>1, <2>2, StepSame
  <2>6. ReaderInv(r, n + 1)'
    BY <2>1, <2>2, <2>4, <2>5 DEF ReaderInv
  <2> QED
    BY <2>2, <2>6
<1> QED
  BY <1>3, <1>4, <1>5, <1>6, <1>7 DEF ReaderSteps

(* The device sends, is unplugged, or has its endpoints rebuilt. *)
LEMMA DeviceKeeps ==
    ASSUME Inv, NEW r \in Reader, NEW n \in Nat, ReaderInv(r, n),
           DeviceSends(r) \/ Unplug \/ Reselect
    PROVE  ReaderInv(r, n)'
<1> USE DEF BeforeReselect
<1>1. TypeOK /\ SentInv /\ Numbered
  BY DEF Inv
<1>2. /\ buffer[r] \in Seq(Number) /\ wire[r] \in Seq(Number) /\ Coming(r) \in Seq(Number)
      /\ n + 1 \in Nat \ {0} /\ n + 2 \in Nat \ {0} /\ n + 1 \in Number
  BY <1>1 DEF TypeOK, Coming, Number
<1>3. CASE DeviceSends(r)
  <2>1. /\ ~gone /\ wire'[r] = Append(wire[r], sent'[r].packet) /\ sent'[r].packet \in Number
        /\ UNCHANGED <<gone, readerVars, queueVars, mainVars>>
    BY <1>1, <1>3, DeviceStep
  <2>2. Numbers(r)' = Numbers(r)
    BY <2>1 DEF Numbers, Arrived, queueVars, mainVars
  <2> DEFINE m == sent'[r].packet
  <2>3. m \in Number /\ Coming(r)' = Append(Coming(r), m)
    <3>1. m \in Number /\ buffer'[r] = buffer[r] /\ wire'[r] = Append(wire[r], m)
      BY <2>1 DEF readerVars
    <3> HIDE DEF m
    <3>2. \A x, y \in Seq(Number) : x \o Append(y, m) = Append(x \o y, m)
      BY <3>1, AppendedLast
    <3>3. buffer[r] \o Append(wire[r], m) = Append(buffer[r] \o wire[r], m)
      BY <1>2, <3>2, Zenon
    <3> QED
      BY <3>1, <3>3 DEF Coming
  <2>4. ASSUME NEW k \in Nat \ {0}, InStep(r, k) PROVE InStep(r, k)'
    <3>1. Follows(r, Coming(r), k) /\ UpToDate(r, Coming(r), k)
      BY <2>1, <2>4 DEF InStep
    <3> DEFINE b == Coming(r)
    <3>2. PICK c \in Seq(Number) : c = b
      BY <1>2
    <3>3. PICK d : d = m
      OBVIOUS
    <3>4. PICK e : e = Append(c, d) /\ Follows(r, e, k)' /\ UpToDate(r, e, k)'
      <4>1. Follows(r, Append(c, d), k)' /\ UpToDate(r, Append(c, d), k)'
        BY <1>1, <1>3, <3>1, <3>2, <3>3, FollowsSent
      <4> QED
        BY <4>1
    <3>5. Coming(r)' = e
      BY <2>3, <3>2, <3>3, <3>4
    <3>6. Follows(r, Coming(r), k)'
      <4>1. Follows(r, e, k)'
        BY <3>4
      <4> QED
        BY <4>1, <3>5, Zenon DEF Follows, Run, Parts, Begins
    <3>7. UpToDate(r, Coming(r), k)'
      BY <3>4, <3>5 DEF UpToDate, Parts, Begins
    <3> QED
      BY <3>6, <3>7 DEF InStep
  <2>5. Whole(r, n + 1) => Whole(r, n + 1)' /\ size'[r][n + 1] = size[r][n + 1]
    BY <1>1, <1>2, <1>3, WholeKept
  <2>6. UNCHANGED <<main, pc, frame>>
    BY <2>1 DEF readerVars, mainVars
  <2> QED
    BY <1>2, <2>2, <2>4, <2>5, <2>6 DEF ReaderInv
<1>4. CASE Unplug
  <2>1. /\ gone' = TRUE /\ wire'[r] = <<>>
        /\ UNCHANGED <<size, sent, readerVars, queueVars, mainVars>>
    BY <1>4 DEF Unplug
  <2>2. Numbers(r)' = Numbers(r)
    BY <2>1 DEF Numbers, Arrived, queueVars, mainVars
  <2>3. Coming(r)' = buffer[r]
    <3>1. Coming(r)' = buffer[r] \o <<>>
      BY <2>1 DEF Coming, readerVars
    <3> QED
      BY <1>2, <3>1, ConcatEmptySeq
  <2>4. ASSUME NEW k \in Nat, InStep(r, k) PROVE InStep(r, k)'
    <3>1. Follows(r, buffer[r], k)
      BY <1>1, <1>2, <2>4, FollowsPrefix DEF InStep, Coming
    <3>2. Follows(r, Coming(r), k)'
      BY <2>1, <2>3, <3>1 DEF Follows, Run, Parts, Begins
    <3> QED
      BY <2>1, <3>2 DEF InStep
  <2>5. Whole(r, n + 1)' <=> Whole(r, n + 1)
    BY <2>1 DEF Whole
  <2>6. UNCHANGED <<main, pc, frame, size>>
    BY <2>1 DEF readerVars, mainVars
  <2> QED
    BY <1>2, <2>2, <2>4, <2>5, <2>6 DEF ReaderInv
<1>5. CASE Reselect
  <2>1. ~BeforeReselect' /\ UNCHANGED <<size, sent, frame, returned, _prefetched, _reader_packets>>
    BY <1>5 DEF Reselect, queueVars
  <2>2. pc'[r] = "publish" => pc[r] = "publish"
    BY <1>5 DEF Reselect
  <2>3. Numbers(r)' = Numbers(r)
    BY <2>1 DEF Numbers, Arrived
  <2>4. Whole(r, n + 1)' <=> Whole(r, n + 1)
    BY <2>1 DEF Whole
  <2> QED
    BY <2>1, <2>2, <2>3, <2>4 DEF ReaderInv
<1> QED
  BY <1>3, <1>4, <1>5

(* Steps of the others. *)
LEMMA OthersKeep ==
    ASSUME Inv, NEW r \in Reader, NEW n \in Nat, ReaderInv(r, n), [Next]_vars,
           \/ \E q \in Reader \ {r} : DeviceSends(q) \/ ReaderSteps(q)
           \/ _start_readers \/ Reads \/ has_pending_input \/ Close \/ StopSet \/ Release
           \/ UNCHANGED vars
    PROVE  ReaderInv(r, n)'
<1>1. TypeOK /\ SentInv /\ Numbered
  BY DEF Inv
<1>2. BeforeReselect' => BeforeReselect
  BY <1>1, MainStep DEF Inv
<1>3. Numbers(r)' = Numbers(r)
  <2>1. ASSUME NEW q \in Reader, pc[q] = "publish" PROVE frame[q] \in Number
    <3>1. PICK k \in Nat : ReaderInv(q, k)
      BY DEF Inv
    <3> QED
      BY <2>1, <3>1 DEF ReaderInv, Number
  <2>2. /\ Arrived \in Seq([reader : Reader, packet : Number])
        /\ \/ Arrived' = Arrived /\ ~(\E q \in Reader : _queue_reader_packet(q))
           \/ \E q \in Reader : _queue_reader_packet(q) /\ Arrived' = Append(Arrived, Packet(q, frame[q]))
    BY <1>1, <2>1, ArrivedStep
  <2>3. CASE Arrived' = Arrived
    BY <2>3 DEF Numbers
  <2>4. ASSUME NEW q \in Reader, _queue_reader_packet(q), Arrived' = Append(Arrived, Packet(q, frame[q]))
        PROVE  Numbers(r)' = Numbers(r)
    <3>1. frame[q] \in Number
      BY <2>1, <2>4 DEF _queue_reader_packet
    <3>2. q # r
      <4>1. pc[q] = "publish" /\ pc'[q] = "check" /\ _reader_packets' # _reader_packets
        <5>1. _reader_packets \in Seq([reader : Reader, packet : Number])
          BY <1>1 DEF TypeOK
        <5>2. Len(_reader_packets') = Len(_reader_packets) + 1 /\ Len(_reader_packets) \in Nat
          BY <2>4, <5>1 DEF _queue_reader_packet
        <5> QED
          BY <1>1, <2>4, <5>2 DEF _queue_reader_packet, TypeOK, Goes
      <4>2. ASSUME NEW z \in Reader \ {r}, DeviceSends(z) \/ ReaderSteps(z) PROVE pc'[r] = pc[r]
        BY <1>1, <4>2 DEF TypeOK, DeviceSends, ReaderSteps, ReaderChecks, ReaderSubmits, TransferCompletes,
                  TransferFails, ReaderLooksAgain, _queue_reader_packet, _fail_reader,
                  _take_complete, Goes, readerVars
      <4>3. ASSUME \/ _start_readers \/ Reads \/ has_pending_input \/ Close \/ StopSet \/ Release
                   \/ UNCHANGED vars
            PROVE  \/ UNCHANGED pc
                   \/ UNCHANGED _reader_packets
        BY <4>3 DEF _start_readers, Reads, ReadReturns, ReadRaises, ReadWaits, ReadTimesOut,
                    has_pending_input, Close, StopSet, Release, vars, readerVars, queueVars
      <4> QED
        BY <4>1, <4>2, <4>3
    <3> QED
      BY <2>2, <2>4, <3>1, <3>2, NumbersQueued
  <2> QED
    BY <2>2, <2>3, <2>4
<1>4. ASSUME NEW q \in Reader \ {r}, ReaderSteps(q)
      PROVE  /\ pc'[r] = pc[r] /\ buffer'[r] = buffer[r] /\ frame'[r] = frame[r] /\ wire'[r] = wire[r]
             /\ UNCHANGED <<size, sent, gone>>
  BY <1>1, <1>4 DEF TypeOK, ReaderSteps, ReaderChecks, ReaderSubmits, TransferCompletes,
            TransferFails, ReaderLooksAgain, _queue_reader_packet, _fail_reader,
            _take_complete, Goes, deviceVars
<1>5. ASSUME NEW q \in Reader \ {r}, DeviceSends(q)
      PROVE  /\ UNCHANGED <<pc, buffer, frame, gone>>
             /\ wire'[r] = wire[r] /\ size'[r] = size[r] /\ sent'[r] = sent[r]
  BY <1>1, <1>5, DeviceStep DEF readerVars
<1>6. ASSUME Reads \/ has_pending_input \/ Close \/ StopSet \/ Release \/ UNCHANGED vars
      PROVE  UNCHANGED <<pc, buffer, frame, gone, wire, size, sent>>
  BY <1>6 DEF Reads, ReadReturns, ReadRaises, ReadWaits, ReadTimesOut, has_pending_input, Close,
              StopSet, Release, vars, readerVars, deviceVars
<1>7. CASE _start_readers
  <2>1. UNCHANGED <<buffer, frame, gone, wire, size, sent>> /\ pc'[r] = "check"
    BY <1>7 DEF _start_readers, deviceVars
  <2>2. pc[r] = "unborn"
    BY <1>7 DEF _start_readers, Inv
  <2> QED
    BY <1>2, <1>3, <2>1, <2>2, StreamStill
<1> QED
  BY <1>2, <1>3, <1>4, <1>5, <1>6, <1>7, StreamStill

(* The order of what reached the caller. *)
LEMMA OrderStep ==
    ASSUME Inv, [Next]_vars
    PROVE  EndpointOrder'
<1>1. TypeOK /\ SentInv /\ EndpointOrder
  BY DEF Inv
<1>2. ASSUME NEW q \in Reader, pc[q] = "publish"
      PROVE  \E k \in Nat : /\ ReaderInv(q, k) /\ frame[q] = k + 1 /\ k + 1 \in Number
                            /\ size[q][k + 1] # TooLong /\ Whole(q, k + 1)
  BY <1>2 DEF Inv, ReaderInv, Number
<1>3. /\ Arrived \in Seq([reader : Reader, packet : Number])
      /\ \/ Arrived' = Arrived
         \/ \E q \in Reader : _queue_reader_packet(q) /\ Arrived' = Append(Arrived, Packet(q, frame[q]))
  <2>1. \A q \in Reader : pc[q] = "publish" => frame[q] \in Number
    BY <1>2
  <2> QED
    BY <1>1, <2>1, ArrivedStep
<1>4. (\E q \in Reader : DeviceSends(q)) \/ UNCHANGED <<size, sent>>
  <2>1. ASSUME NEW q \in Reader, ReaderSteps(q) PROVE UNCHANGED <<size, sent>>
    BY <2>1 DEF ReaderSteps, ReaderChecks, ReaderSubmits, TransferCompletes, TransferFails,
                ReaderLooksAgain, _queue_reader_packet, _fail_reader, deviceVars
  <2>2. ASSUME \/ Unplug \/ _start_readers \/ Reads \/ has_pending_input \/ Close \/ Closes \/ UNCHANGED vars
        PROVE  UNCHANGED <<size, sent>>
    BY <2>2 DEF Unplug, _start_readers, Reads, ReadReturns, ReadRaises, ReadWaits, ReadTimesOut,
                has_pending_input, Close, Closes, StopSet, Reselect, Release, vars, deviceVars
  <2> QED
    BY <2>1, <2>2 DEF Next
<1> DEFINE a == Arrived
           l == Len(a)
<1>5. l \in Nat /\ \A i \in 1 .. l : a[i].reader \in Reader /\ a[i].packet \in Number
  <2>1. a \in Seq([reader : Reader, packet : Number])
    BY <1>3
  <2>2. \A S : \A s \in Seq(S) : Len(s) \in Nat /\ \A i \in 1 .. Len(s) : s[i] \in S
    OBVIOUS
  <2>3. l \in Nat /\ \A i \in 1 .. l : a[i] \in [reader : Reader, packet : Number]
    BY ONLY <2>1, <2>2, Zenon
  <2> QED
    BY <2>3
<1>6. ASSUME NEW i \in 1 .. l
      PROVE  /\ \A m \in 1 .. a[i].packet - 1 : \E j \in 1 .. i - 1 : a[j] = Packet(a[i].reader, m)
             /\ \A j \in 1 .. i - 1 : a[j] # a[i]
             /\ size'[a[i].reader][a[i].packet] # TooLong
             /\ \/ sent'[a[i].reader].packet > a[i].packet
                \/ sent'[a[i].reader] = [packet |-> a[i].packet,
                                         parts |-> size'[a[i].reader][a[i].packet]]
  <2> DEFINE r == a[i].reader
             n == a[i].packet
  <2>1. /\ \A m \in 1 .. n - 1 : \E j \in 1 .. i - 1 : a[j] = Packet(r, m)
        /\ \A j \in 1 .. i - 1 : a[j] # a[i]
        /\ size[r][n] # TooLong /\ Whole(r, n)
    BY <1>1 DEF EndpointOrder
  <2>2. PICK z \in Reader, k \in Number : z = r /\ k = n
    BY <1>5
  <2>3. Whole(z, k) /\ size[z][k] # TooLong
    BY <2>1, <2>2
  <2>4. Whole(z, k)' /\ size'[z][k] # TooLong
    BY <1>1, <1>4, <2>3, WholeKept
  <2>5. size'[r][n] # TooLong /\ (sent'[r].packet > n \/ sent'[r] = [packet |-> n, parts |-> size'[r][n]])
    BY <2>2, <2>4 DEF Whole
  <2> QED
    BY <2>1, <2>5
<1>7. CASE Arrived' = Arrived
  BY <1>6, <1>7 DEF EndpointOrder, Packet, Whole
<1>8. ASSUME NEW q \in Reader, _queue_reader_packet(q), Arrived' = Append(Arrived, Packet(q, frame[q]))
      PROVE  EndpointOrder'
  <2>1. PICK k \in Nat : /\ ReaderInv(q, k) /\ frame[q] = k + 1 /\ k + 1 \in Number
                         /\ size[q][k + 1] # TooLong /\ Whole(q, k + 1)
    BY <1>2, <1>8 DEF _queue_reader_packet
  <2>2. Whole(q, k + 1)' /\ size'[q][k + 1] # TooLong
    BY <1>1, <1>4, <2>1, WholeKept
  <2>3. ASSUME NEW m \in 1 .. k PROVE \E j \in 1 .. l : a[j] = Packet(q, m)
    BY <2>1 DEF ReaderInv, Numbers
  <2>4. ASSUME NEW j \in 1 .. l PROVE a[j] # Packet(q, k + 1)
    <3>1. k + 1 \notin Numbers(q)
      BY <2>1 DEF ReaderInv
    <3> QED
      BY <2>1, <3>1 DEF Numbers
  <2> DEFINE b == Append(a, Packet(q, k + 1))
  <2>5. /\ Arrived' = b /\ Len(b) = l + 1 /\ b[l + 1] = Packet(q, k + 1)
        /\ \A i \in 1 .. l : b[i] = a[i]
    BY <1>3, <1>8, <2>1
  <2>6. Packet(q, k + 1).reader = q /\ Packet(q, k + 1).packet = k + 1
    BY DEF Packet
  <2> HIDE DEF a, l, b
  <2>7. ASSUME NEW i \in 1 .. l + 1
        PROVE  /\ \A m \in 1 .. b[i].packet - 1 : \E j \in 1 .. i - 1 : b[j] = Packet(b[i].reader, m)
               /\ \A j \in 1 .. i - 1 : b[j] # b[i]
               /\ size'[b[i].reader][b[i].packet] # TooLong
               /\ \/ sent'[b[i].reader].packet > b[i].packet
                  \/ sent'[b[i].reader] = [packet |-> b[i].packet,
                                           parts |-> size'[b[i].reader][b[i].packet]]
    <3>1. CASE i = l + 1
      <4>1. b[i].reader = q /\ b[i].packet = k + 1 /\ (k + 1) - 1 = k /\ i - 1 = l
        BY <3>1, <2>5, <2>6, <1>5
      <4>2. ASSUME NEW m \in 1 .. k PROVE \E j \in 1 .. l : b[j] = Packet(q, m)
        BY <2>3, <2>5
      <4>3. ASSUME NEW j \in 1 .. l PROVE b[j] # b[i]
        BY <2>4, <2>5, <3>1
      <4>4. /\ size'[q][k + 1] # TooLong
            /\ sent'[q].packet > k + 1 \/ sent'[q] = [packet |-> k + 1, parts |-> size'[q][k + 1]]
        BY <2>2 DEF Whole
      <4> QED
        BY <4>1, <4>2, <4>3, <4>4
    <3>2. CASE i # l + 1
      <4>1. i \in 1 .. l /\ \A j \in 1 .. i - 1 : j \in 1 .. l
        BY <3>2, <1>5
      <4>2. b[i] = a[i] /\ \A j \in 1 .. i - 1 : b[j] = a[j]
        BY <4>1, <2>5
      <4>3. /\ \A m \in 1 .. a[i].packet - 1 : \E j \in 1 .. i - 1 : b[j] = Packet(a[i].reader, m)
        <5>1. ASSUME NEW m \in 1 .. a[i].packet - 1
              PROVE  \E j \in 1 .. i - 1 : b[j] = Packet(a[i].reader, m)
          <6>1. PICK j \in 1 .. i - 1 : a[j] = Packet(a[i].reader, m)
            BY <4>1, <1>6
          <6> QED
            BY <6>1, <4>2
        <5> QED
          BY <5>1
      <4>4. \A j \in 1 .. i - 1 : b[j] # a[i]
        BY <4>1, <4>2, <1>6
      <4>5. /\ size'[a[i].reader][a[i].packet] # TooLong
            /\ \/ sent'[a[i].reader].packet > a[i].packet
               \/ sent'[a[i].reader] = [packet |-> a[i].packet,
                                        parts |-> size'[a[i].reader][a[i].packet]]
        BY <4>1, <1>6
      <4> QED
        BY <4>2, <4>3, <4>4, <4>5
    <3> QED
      BY <3>1, <3>2
  <2> QED
    BY <2>5, <2>7 DEF EndpointOrder, Packet, Whole
<1> QED
  BY <1>3, <1>7, <1>8

(* The invariant holds at first. *)
LEMMA InitInv == Init => Inv
<1> SUFFICES ASSUME Init PROVE Inv
  OBVIOUS
<1>1. TypeOK
  <2>1. \A S : <<>> \in Seq(S)
    OBVIOUS
  <2>2. /\ size \in [Reader -> Seq(Size)] /\ wire \in [Reader -> Seq(Number)]
        /\ buffer \in [Reader -> Seq(Number)]
    BY <2>1 DEF Init
  <2>3. {returned, _prefetched, _reader_packets} \subseteq Seq([reader : Reader, packet : Number])
    BY <2>1 DEF Init
  <2>4. /\ pc \in [Reader -> ReaderPlace] /\ main \in MainPlace /\ _reader_error \in Reader \cup {None}
        /\ sent \in [Reader -> [packet : Nat, parts : Nat]] /\ frame \in [Reader -> Nat]
    BY DEF Init, ReaderPlace, MainPlace
  <2>5. {gone, asleep, _reader_stop} \subseteq BOOLEAN
    BY DEF Init
  <2> QED
    BY <2>2, <2>3, <2>4, <2>5 DEF TypeOK
<1>2. SentInv /\ Numbered
  BY DEF Init, SentInv, Numbered
<1>3. Arrived = <<>>
  BY DEF Init, Arrived
<1>4. EndpointOrder
  BY <1>3 DEF EndpointOrder
<1>5. ASSUME NEW r \in Reader PROVE ReaderInv(r, 0)
  <2>1. Coming(r) = <<>> /\ Numbers(r) = {}
    BY <1>3 DEF Init, Coming, Numbers
  <2>2. pc[r] = "unborn" /\ sent[r].packet = 0
    BY DEF Init
  <2>3. InStep(r, 1)
    BY <2>1, <2>2 DEF InStep, Follows, UpToDate
  <2> QED
    BY <2>1, <2>2, <2>3 DEF ReaderInv
<1> QED
  BY <1>1, <1>2, <1>4, <1>5 DEF Init, Inv

(* The invariant is kept. *)
LEMMA InvStep == Inv /\ [Next]_vars => Inv'
<1> SUFFICES ASSUME Inv, [Next]_vars PROVE Inv'
  OBVIOUS
<1>1. TypeOK /\ SentInv /\ Numbered
  BY DEF Inv
<1>2. TypeOK' /\ SentInv' /\ Numbered'
  <2>1. ASSUME NEW r \in Reader, ReaderSteps(r) PROVE TypeOK' /\ SentInv' /\ Numbered'
    <3>1. PICK k \in Nat : ReaderInv(r, k)
      BY DEF Inv
    <3>2. frame[r] \in Number \/ pc[r] # "publish"
      BY <3>1 DEF ReaderInv, Number
    <3> QED
      BY <1>1, <2>1, <3>2, ReaderTyped, TakerTyped DEF ReaderSteps
  <2>2. ASSUME UNCHANGED vars PROVE TypeOK' /\ SentInv' /\ Numbered'
    <3>1. UNCHANGED <<size, sent, buffer, wire>>
      BY <2>2 DEF vars, deviceVars, readerVars
    <3>2. TypeOK'
      BY <1>1, <2>2 DEF TypeOK, vars, deviceVars, readerVars, queueVars, mainVars
    <3> QED
      BY <1>1, <3>1, <3>2, SentStill
  <2> QED
    BY <1>1, <2>1, <2>2, OthersTyped DEF Next
<1>3. main' \notin {"open", "use", "stop"} => _reader_stop'
  BY <1>1, MainStep DEF Inv
<1>4. main' = "open" => \A r \in Reader : pc'[r] = "unborn"
  <2> SUFFICES ASSUME main' = "open" PROVE \A r \in Reader : pc'[r] = "unborn"
    OBVIOUS
  <2>1. main = "open"
    <3>1. ASSUME NEW r \in Reader, DeviceSends(r) \/ ReaderSteps(r) PROVE main' = main
      BY <3>1 DEF DeviceSends, ReaderSteps, ReaderChecks, ReaderSubmits, TransferCompletes, TransferFails,
                  ReaderLooksAgain, _queue_reader_packet, _fail_reader, mainVars
    <3>2. CASE \/ Unplug \/ _start_readers \/ Reads \/ has_pending_input \/ Close \/ Closes \/ UNCHANGED vars
      BY <3>2 DEF Unplug, _start_readers, Reads, ReadReturns, ReadRaises, ReadWaits, ReadTimesOut,
                  has_pending_input, Close, Closes, StopSet, Reselect, Release, vars, mainVars
    <3> QED
      BY <3>1, <3>2 DEF Next
  <2>2. \A r \in Reader : pc[r] = "unborn"
    BY <2>1 DEF Inv
  <2>3. ASSUME NEW r \in Reader, ReaderSteps(r) PROVE FALSE
    BY <2>2, <2>3 DEF ReaderSteps, ReaderChecks, ReaderSubmits, TransferCompletes, TransferFails,
                ReaderLooksAgain, _queue_reader_packet, _fail_reader
  <2>4. UNCHANGED pc
    BY <2>1, <2>3 DEF Next, DeviceSends, Unplug, _start_readers, Reads, ReadReturns, ReadRaises, ReadWaits,
              ReadTimesOut, Reading, has_pending_input, Close, Closes, StopSet, Reselect, Release, vars,
              readerVars
  <2> QED
    BY <2>2, <2>4
<1>5. ASSUME NEW r \in Reader PROVE \E k \in Nat : ReaderInv(r, k)'
  <2>1. PICK n \in Nat : ReaderInv(r, n)
    BY DEF Inv
  <2>2. CASE ReaderSteps(r)
    BY <2>1, <2>2, ReaderKeeps
  <2>3. CASE DeviceSends(r) \/ Unplug \/ Reselect
    BY <2>1, <2>3, DeviceKeeps
  <2>4. CASE \/ \E q \in Reader \ {r} : DeviceSends(q) \/ ReaderSteps(q)
             \/ _start_readers \/ Reads \/ has_pending_input \/ Close \/ StopSet \/ Release
             \/ UNCHANGED vars
    BY <2>1, <2>4, OthersKeep
  <2> QED
    BY <2>2, <2>3, <2>4 DEF Next, Closes
<1> QED
  BY <1>2, <1>3, <1>4, <1>5, OrderStep DEF Inv

(* _take_complete, _queue_reader_packet, read_packet and has_pending_input *)
(* give the caller the packets of each endpoint whole and in order, none   *)
(* twice and none left out, wherever transfers cut them, whichever reader  *)
(* fails and whenever the device goes or the caller closes.                *)
THEOREM OrderSafe == Spec => []EndpointOrder
<1>1. Inv => EndpointOrder
  BY DEF Inv
<1> QED
  BY InitInv, InvStep, <1>1, PTL DEF Spec
=============================================================================
