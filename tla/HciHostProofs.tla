--------------------------- MODULE HciHostProofs ----------------------------
(***************************************************************************)
(* The Hci class of the Python host for any commands, any number of        *)
(* packets, any window and any sequence of waits and timeouts.             *)
(***************************************************************************)
EXTENDS HciHost, FiniteSetTheorems, WellFoundedInduction, NaturalsInduction, TLAPS

---------------------------------------------------------------------------
(* What the operations on a queue do to its packets. *)

LEMMA QueueEmpty ==
    /\ <<>> \in Seq(HciPacket) /\ Len(<<>>) = 0
    /\ Numbers(<<>>) = {} /\ ToSet(<<>>) = {} /\ Once(<<>>) /\ InOrder(<<>>)
BY DEF Numbers, ToSet, Once, InOrder

LEMMA QueueAppend ==
    ASSUME NEW s \in Seq(HciPacket), NEW p \in HciPacket
    PROVE  /\ Append(s, p) \in Seq(HciPacket) /\ Len(Append(s, p)) = Len(s) + 1
           /\ Numbers(Append(s, p)) = Numbers(s) \cup {p.n}
           /\ ToSet(Append(s, p)) = ToSet(s) \cup {p}
           /\ Once(s) /\ p.n \notin Numbers(s) => Once(Append(s, p))
           /\ InOrder(s) /\ Before(Numbers(s), {p.n}) => InOrder(Append(s, p))
<1> DEFINE a == Append(s, p)
           l == Len(s)
<1>1. /\ a \in Seq(HciPacket) /\ Len(a) = l + 1 /\ l \in Nat
      /\ \A i \in 1 .. l : a[i] = s[i] /\ i \in 1 .. l + 1
      /\ a[l + 1] = p /\ l + 1 \in 1 .. l + 1
      /\ \A i \in 1 .. l + 1 : i \in 1 .. l \/ i = l + 1
      /\ DOMAIN a = 1 .. l + 1 /\ DOMAIN s = 1 .. l
  OBVIOUS
<1> HIDE DEF a, l
<1>2. Numbers(a) = Numbers(s) \cup {p.n}
  <2>1. Numbers(a) = {a[i].n : i \in 1 .. l + 1} /\ Numbers(s) = {s[i].n : i \in 1 .. l}
    BY <1>1 DEF Numbers, l
  <2> QED
    BY <1>1, <2>1
<1>3. ToSet(a) = ToSet(s) \cup {p}
  BY <1>1 DEF ToSet
<1>4. Once(s) /\ p.n \notin Numbers(s) => Once(a)
  BY <1>1 DEF Once, Numbers, l
<1>5. InOrder(s) /\ Before(Numbers(s), {p.n}) => InOrder(a)
  BY <1>1 DEF InOrder, Before, Numbers, l
<1> QED
  BY <1>1, <1>2, <1>3, <1>4, <1>5 DEF a, l

LEMMA QueueTail ==
    ASSUME NEW s \in Seq(HciPacket), s # <<>>
    PROVE  /\ Tail(s) \in Seq(HciPacket) /\ Len(Tail(s)) = Len(s) - 1
           /\ Head(s) \in HciPacket /\ Head(s) \in ToSet(s) /\ Head(s).n \in Numbers(s)
           /\ ToSet(Tail(s)) \subseteq ToSet(s)
           /\ Once(s) => Once(Tail(s)) /\ Numbers(Tail(s)) = Numbers(s) \ {Head(s).n}
           /\ InOrder(s) => InOrder(Tail(s)) /\ Before({Head(s).n}, Numbers(Tail(s)))
<1> DEFINE a == Tail(s)
           l == Len(a)
<1>1. /\ a \in Seq(HciPacket) /\ l \in Nat /\ Len(s) = l + 1
      /\ \A i \in 1 .. l : a[i] = s[i + 1] /\ i + 1 \in 1 .. l + 1 /\ i + 1 # 1
      /\ Head(s) = s[1] /\ s[1] \in HciPacket /\ 1 \in 1 .. l + 1
      /\ \A i \in 1 .. l + 1 : i = 1 \/ (i - 1 \in 1 .. l /\ a[i - 1] = s[i])
      /\ DOMAIN s = 1 .. l + 1 /\ DOMAIN a = 1 .. l
  OBVIOUS
<1> HIDE DEF a, l
<1>2. Numbers(a) = {a[i].n : i \in 1 .. l} /\ Numbers(s) = {s[i].n : i \in 1 .. l + 1}
  BY <1>1 DEF Numbers, l
<1>3. Head(s) \in ToSet(s) /\ Head(s).n \in Numbers(s) /\ ToSet(a) \subseteq ToSet(s)
  <2>1. ToSet(s) = {s[i] : i \in 1 .. l + 1} /\ ToSet(a) = {a[i] : i \in 1 .. l}
    BY <1>1 DEF ToSet
  <2>2. ASSUME NEW i \in 1 .. l PROVE a[i] \in ToSet(s)
    BY <1>1, <2>1
  <2> QED
    BY <1>1, <1>2, <2>1, <2>2
<1>4. ASSUME Once(s) PROVE Once(a)
  BY <1>1, <1>4 DEF Once, l
<1>5. ASSUME Once(s) PROVE Numbers(a) = Numbers(s) \ {Head(s).n}
  <2>1. \A i \in 1 .. l : a[i].n # s[1].n
    BY <1>1, <1>5 DEF Once
  <2> QED
    BY <1>1, <1>2, <2>1
<1>6. ASSUME InOrder(s) PROVE InOrder(a) /\ Before({Head(s).n}, Numbers(a))
  <2>1. \A i, j \in 1 .. l + 1 : i < j => s[i].n < s[j].n
    BY <1>1, <1>6 DEF InOrder
  <2>2. ASSUME NEW i \in 1 .. l, NEW j \in 1 .. l, i < j PROVE a[i].n < a[j].n
    <3>1. i + 1 \in 1 .. l + 1 /\ j + 1 \in 1 .. l + 1 /\ i + 1 < j + 1
      BY <1>1, <2>2
    <3> QED
      BY <1>1, <2>1, <3>1
  <2>3. ASSUME NEW i \in 1 .. l PROVE Head(s).n < a[i].n
    <3>1. i + 1 \in 1 .. l + 1 /\ 1 < i + 1
      BY <1>1
    <3> QED
      BY <1>1, <2>1, <3>1
  <2>4. InOrder(a)
    BY <2>2 DEF InOrder, l
  <2> QED
    BY <1>2, <2>3, <2>4 DEF Before
<1> QED
  BY <1>1, <1>3, <1>4, <1>5, <1>6 DEF a, l

LEMMA QueueConcat ==
    ASSUME NEW s \in Seq(HciPacket), NEW t \in Seq(HciPacket)
    PROVE  /\ s \o t \in Seq(HciPacket) /\ Len(s \o t) = Len(s) + Len(t)
           /\ Numbers(s \o t) = Numbers(s) \cup Numbers(t)
           /\ ToSet(s \o t) = ToSet(s) \cup ToSet(t)
           /\ Once(s) /\ Once(t) /\ Numbers(s) \cap Numbers(t) = {} => Once(s \o t)
           /\ InOrder(s) /\ InOrder(t) /\ Before(Numbers(s), Numbers(t)) => InOrder(s \o t)
<1> DEFINE a == s \o t
           k == Len(s)
           l == Len(t)
<1>1. /\ a \in Seq(HciPacket) /\ Len(a) = k + l /\ k \in Nat /\ l \in Nat
      /\ \A i \in 1 .. k : a[i] = s[i] /\ i \in 1 .. k + l
      /\ \A i \in 1 .. l : a[k + i] = t[i] /\ k + i \in 1 .. k + l
      /\ \A i \in 1 .. k + l : i \in 1 .. k \/ (i - k \in 1 .. l /\ a[i] = t[i - k])
      /\ DOMAIN a = 1 .. k + l /\ DOMAIN s = 1 .. k /\ DOMAIN t = 1 .. l
  OBVIOUS
<1> HIDE DEF a, k, l
<1>2. /\ Numbers(a) = {a[i].n : i \in 1 .. k + l}
      /\ Numbers(s) = {s[i].n : i \in 1 .. k} /\ Numbers(t) = {t[i].n : i \in 1 .. l}
  BY <1>1 DEF Numbers, k, l
<1>3. Numbers(a) = Numbers(s) \cup Numbers(t)
  BY <1>1, <1>2
<1>4. ToSet(a) = ToSet(s) \cup ToSet(t)
  <2>1. /\ ToSet(a) = {a[i] : i \in 1 .. k + l}
        /\ ToSet(s) = {s[i] : i \in 1 .. k} /\ ToSet(t) = {t[i] : i \in 1 .. l}
    BY <1>1 DEF ToSet
  <2> QED
    BY <1>1, <2>1
<1>5. ASSUME Once(s), Once(t), Numbers(s) \cap Numbers(t) = {} PROVE Once(a)
  <2> SUFFICES ASSUME NEW i \in 1 .. k + l, NEW j \in 1 .. k + l, a[i].n = a[j].n PROVE i = j
    BY <1>1 DEF Once
  <2>1. CASE i \in 1 .. k /\ j \in 1 .. k
    BY <1>1, <1>5, <2>1 DEF Once, k
  <2>2. CASE i \notin 1 .. k /\ j \notin 1 .. k
    <3>1. i - k \in 1 .. l /\ j - k \in 1 .. l /\ t[i - k].n = t[j - k].n
      BY <1>1, <2>2
    <3>2. i - k = j - k
      BY <1>5, <3>1 DEF Once, l
    <3> QED
      BY <1>1, <3>2
  <2>3. CASE (i \in 1 .. k) # (j \in 1 .. k)
    <3>1. \A m \in 1 .. k : a[m].n \in Numbers(s)
      BY <1>1, <1>2
    <3>2. \A m \in 1 .. k + l : m \notin 1 .. k => a[m].n \in Numbers(t)
      BY <1>1, <1>2
    <3> QED
      BY <1>5, <2>3, <3>1, <3>2
  <2> QED
    BY <2>1, <2>2, <2>3
<1>6. ASSUME InOrder(s), InOrder(t), Before(Numbers(s), Numbers(t)) PROVE InOrder(a)
  <2> SUFFICES ASSUME NEW i \in 1 .. k + l, NEW j \in 1 .. k + l, i < j PROVE a[i].n < a[j].n
    BY <1>1 DEF InOrder
  <2>1. CASE i \in 1 .. k /\ j \in 1 .. k
    BY <1>1, <1>6, <2>1 DEF InOrder, k
  <2>2. CASE i \notin 1 .. k
    <3>1. i - k \in 1 .. l /\ j - k \in 1 .. l /\ i - k < j - k
          /\ a[i] = t[i - k] /\ a[j] = t[j - k]
      BY <1>1, <2>2
    <3> QED
      BY <1>6, <3>1 DEF InOrder, l
  <2>3. CASE i \in 1 .. k /\ j \notin 1 .. k
    <3>1. a[i].n \in Numbers(s) /\ a[j].n \in Numbers(t)
      BY <1>1, <1>2, <2>3
    <3> QED
      BY <1>6, <3>1 DEF Before
  <2> QED
    BY <2>1, <2>2, <2>3
<1> QED
  BY <1>1, <1>3, <1>4, <1>5, <1>6 DEF a, k, l

---------------------------------------------------------------------------
(* Types. *)

(* The packet a controller sends. *)
Sent(kind, c, done) == [n |-> arrived + 1, kind |-> kind, opcode |-> c.opcode, id |-> c.id,
                        done |-> done]

LEMMA SendsTyped ==
    ASSUME TypeOK, NEW c, NEW kind \in {"answer", "terminal", "event"}, NEW done \in Nat,
           c \in busy \/ c = Idle, Sends(kind, c, done)
    PROVE  /\ Sent(kind, c, done) \in HciPacket
           /\ wire' = Append(wire, Sent(kind, c, done)) /\ wire' \in Seq(HciPacket)
           /\ arrived' = arrived + 1
<1>1. c.opcode \in Opcode \cup {None} /\ c.id \in Nat
  BY DEF TypeOK, Waiting, Idle
<1>2. Sent(kind, c, done) \in HciPacket
  BY <1>1 DEF Sent, HciPacket, TypeOK
<1>3. wire' = Append(wire, Sent(kind, c, done)) /\ arrived' = arrived + 1
  BY DEF Sends, Sent
<1> QED
  BY <1>2, <1>3, QueueAppend DEF TypeOK

(* The packet the host reads. *)
LEMMA TakeTyped ==
    ASSUME TypeOK, Take
    PROVE  /\ Packet \in HciPacket
           /\ wire' \in Seq(HciPacket) /\ Rest \in Seq(HciPacket)
           /\ acl_credits' \in Int
<1>1. CASE pending # <<>>
  BY <1>1, QueueTail DEF TypeOK, Take, on_event, Packet, Rest
<1>2. CASE pending = <<>>
  <2>1. wire # <<>>
    BY <1>2 DEF Take, HasPacket
  <2>2. Head(wire) \in HciPacket /\ Tail(wire) \in Seq(HciPacket)
    BY <2>1, QueueTail DEF TypeOK
  <2>3. Head(wire).done \in Nat
    BY <2>2 DEF HciPacket
  <2> QED
    BY <1>2, <2>2, <2>3 DEF TypeOK, Take, on_event, Packet, Rest
<1> QED
  BY <1>1, <1>2

LEMMA PutBackTyped ==
    ASSUME TypeOK, NEW rest \in Seq(HciPacket), PutBack(rest)
    PROVE  pending' \in Seq(HciPacket) /\ deferred' = <<>> /\ deferred' \in Seq(HciPacket)
BY QueueConcat, QueueEmpty DEF TypeOK, PutBack

LEMMA TypeStep == TypeOK /\ [Next]_vars => TypeOK'
<1> SUFFICES ASSUME TypeOK, [Next]_vars PROVE TypeOK'
  OBVIOUS
<1> USE DEF hostVars, history, controllerVars
<1>1. ASSUME NEW c \in busy, Answers(c) PROVE TypeOK'
  <2>0. Sends("answer", c, 0)
    BY <1>1 DEF Answers
  <2>1. wire' \in Seq(HciPacket) /\ arrived' \in Nat
    <3>1. wire' \in Seq(HciPacket) /\ arrived' = arrived + 1
      BY <2>0, SendsTyped
    <3> QED
      BY <3>1 DEF TypeOK
  <2>2. [c EXCEPT !.what = "procedure"] \in Waiting({"command", "procedure"})
    BY DEF TypeOK, Waiting
  <2>3. busy' \subseteq Waiting({"command", "procedure"})
    BY <1>1, <2>2 DEF Answers, TypeOK
  <2> QED
    BY <1>1, <2>1, <2>3 DEF Answers, TypeOK
<1>2. ASSUME NEW c \in busy, Terminates(c) PROVE TypeOK'
  <2>0. Sends("terminal", c, 0)
    BY <1>2 DEF Terminates
  <2>1. wire' \in Seq(HciPacket) /\ arrived' \in Nat
    <3>1. wire' \in Seq(HciPacket) /\ arrived' = arrived + 1
      BY <2>0, SendsTyped
    <3> QED
      BY <3>1 DEF TypeOK
  <2> QED
    BY <1>2, <2>1 DEF Terminates, TypeOK
<1>3. CASE Completes
  <2>1. PICK k \in 1 .. held : Sends("event", Idle, k) /\ held' = held - k
    BY <1>3 DEF Completes
  <2>2. k \in Nat /\ held' \in Nat
    BY <2>1 DEF TypeOK
  <2>3. wire' \in Seq(HciPacket) /\ arrived' \in Nat
    <3>1. wire' \in Seq(HciPacket) /\ arrived' = arrived + 1
      BY <2>1, <2>2, SendsTyped
    <3> QED
      BY <3>1 DEF TypeOK
  <2> QED
    BY <1>3, <2>2, <2>3 DEF Completes, TypeOK
<1>4. CASE Disconnects
  <2>0. Sends("event", Idle, 0)
    BY <1>4 DEF Disconnects
  <2>1. wire' \in Seq(HciPacket) /\ arrived' \in Nat
    <3>1. wire' \in Seq(HciPacket) /\ arrived' = arrived + 1
      BY <2>0, SendsTyped
    <3> QED
      BY <3>1 DEF TypeOK
  <2> QED
    BY <1>4, <2>1 DEF Disconnects, TypeOK
<1>5. CASE read_packet
  <2>1. returned' \in Seq(HciPacket)
    BY <1>5, TakeTyped, QueueAppend DEF read_packet, TypeOK
  <2> QED
    BY <1>5, <2>1, TakeTyped DEF read_packet, TypeOK
<1>6. CASE _poll_ready_events
  <2>1. Head(wire) \in HciPacket /\ wire' \in Seq(HciPacket)
    BY <1>6, QueueTail DEF _poll_ready_events, TypeOK
  <2>2. pending' \in Seq(HciPacket)
    BY <1>6, <2>1, QueueAppend DEF _poll_ready_events, TypeOK
  <2>3. acl_credits' \in Int
    <3>1. Head(wire).done \in Nat
      BY <2>1 DEF HciPacket
    <3> QED
      BY <1>6, <3>1 DEF _poll_ready_events, TypeOK
  <2> QED
    BY <1>6, <2>1, <2>2, <2>3 DEF _poll_ready_events, TypeOK
<1>7. CASE send_acl
  BY <1>7 DEF send_acl, TypeOK
<1>8. ASSUME NEW op \in Opcode, command(op) PROVE TypeOK'
  <2>1. doing' \in Waiting({"command", "procedure"})
    BY <1>8 DEF command, TypeOK, Waiting
  <2>2. stale' \in BOOLEAN
    BY <1>8 DEF command, TypeOK
  <2> QED
    BY <1>8, <2>1, <2>2 DEF command, TypeOK
<1>9. CASE Ends
  <2>1. pending' \in Seq(HciPacket) /\ deferred' \in Seq(HciPacket)
    BY <1>9, TakeTyped, PutBackTyped DEF Ends
  <2>2. doing \in Waiting({"command", "procedure"})
    BY <1>9 DEF Ends, TypeOK
  <2>3. doing' \in Waiting({"command", "procedure"}) \cup {Idle}
    BY <1>9, <2>2 DEF Ends, Waiting
  <2>4. [packet |-> Packet, by |-> doing.id] \in [packet : HciPacket, by : Nat]
    BY <1>9, <2>2, TakeTyped DEF Ends, Waiting
  <2>5. taken' \subseteq [packet : HciPacket, by : Nat]
    BY <1>9, <2>4 DEF Ends, TypeOK
  <2>6. IsFiniteSet(taken')
    BY <1>9, FS_AddElement DEF Ends, TypeOK
  <2> QED
    BY <1>9, <2>1, <2>3, <2>5, <2>6, TakeTyped DEF Ends, TypeOK
<1>10. CASE Defers
  <2>1. deferred' \in Seq(HciPacket)
    BY <1>10, TakeTyped, QueueAppend DEF Defers, TypeOK
  <2> QED
    BY <1>10, <2>1, TakeTyped DEF Defers, TypeOK
<1>11. CASE TimesOut
  <2>1. pending' \in Seq(HciPacket) /\ deferred' \in Seq(HciPacket)
    BY <1>11, PutBackTyped DEF TimesOut, TypeOK
  <2> QED
    BY <1>11, <2>1 DEF TimesOut, TypeOK
<1>12. CASE ReadFails
  <2>1. dropped' \in Seq(HciPacket) /\ deferred' \in Seq(HciPacket)
    BY <1>12, QueueConcat, QueueEmpty DEF ReadFails, TypeOK
  <2> QED
    BY <1>12, <2>1 DEF ReadFails, TypeOK
<1>13. CASE UNCHANGED vars
  BY <1>13 DEF vars, TypeOK
<1> QED
  BY <1>1, <1>2, <1>3, <1>4, <1>5, <1>6, <1>7, <1>8, <1>9, <1>10, <1>11, <1>12, <1>13 DEF Next

---------------------------------------------------------------------------
(* The window. *)

(* Induction over the naturals, as a set of counterexamples with a least   *)
(* element.                                                                *)
LEMMA LeastNatural ==
    ASSUME NEW B, B \subseteq Nat, B # {}
    PROVE  \E n \in B : \A m \in B : n <= m
<1> DEFINE R == OpToRel(<, Nat)
<1>1. PICK n \in B : \A m \in B : <<m, n>> \notin R
  BY NatLessThanWellFounded, WFMin
<1>2. ASSUME NEW m \in B PROVE n <= m
  <2>1. m \in Nat /\ n \in Nat
    OBVIOUS
  <2>2. <<m, n>> \in R <=> m < n
    BY <2>1 DEF OpToRel
  <2> HIDE DEF R
  <2> QED
    BY <1>1, <2>1, <2>2
<1> QED
  BY <1>2

(* A table of what the first packets return, one entry for each count. *)
Totals(s, n, f) == f = [i \in 0 .. n |-> IF i = 0 THEN 0 ELSE f[i - 1] + s[i].done]

LEMMA TotalsExist ==
    ASSUME NEW s, NEW n \in Nat
    PROVE  \E f : Totals(s, n, f)
<1> DEFINE B == {m \in Nat : ~ \E f : Totals(s, m, f)}
<1> SUFFICES ASSUME B # {} PROVE FALSE
  OBVIOUS
<1>1. PICK m \in B : \A k \in B : m <= k
  <2>1. B \subseteq Nat
    OBVIOUS
  <2> HIDE DEF B
  <2> QED
    BY <2>1, LeastNatural
<1>2. m # 0
  <2>1. Totals(s, 0, [i \in 0 .. 0 |-> 0])
    BY DEF Totals
  <2> QED
    BY <2>1
<1>3. m - 1 \in Nat /\ m - 1 \notin B
  BY <1>1, <1>2
<1>4. PICK f : Totals(s, m - 1, f)
  BY <1>3
<1> DEFINE g == [i \in 0 .. m |-> IF i < m THEN f[i] ELSE f[m - 1] + s[m].done]
           h == [i \in 0 .. m |-> IF i = 0 THEN 0 ELSE g[i - 1] + s[i].done]
<1>5. ASSUME NEW i \in 0 .. m PROVE g[i] = h[i]
  <2>1. \A j \in 0 .. m - 1 : f[j] = IF j = 0 THEN 0 ELSE f[j - 1] + s[j].done
    <3>1. PICK k \in Nat : k = m - 1
      BY <1>3
    <3> QED
      BY <1>4, <3>1 DEF Totals
  <2>2. i # 0 => i - 1 \in 0 .. m /\ i - 1 < m /\ i - 1 \in 0 .. m - 1
    BY <1>3
  <2>3. i < m => i \in 0 .. m - 1
    BY <1>3
  <2> QED
    BY <2>1, <2>2, <2>3, <1>2
<1>6. g = h
  BY <1>5
<1>7. Totals(s, m, g)
  <2>1. Totals(s, m, g) <=> g = h
    BY DEF Totals
  <2> QED
    BY <1>6, <2>1
<1> QED
  BY <1>7

(* The table Done looks into. *)
LEMMA DoneTable ==
    ASSUME NEW s \in Seq(HciPacket)
    PROVE  \E f : /\ Done(s) = f[Len(s)] /\ f[0] = 0
                  /\ \A i \in 1 .. Len(s) : f[i] = f[i - 1] + s[i].done
                  /\ \A i \in 0 .. Len(s) : f[i] \in Nat
<1> DEFINE f == CHOOSE g : Totals(s, Len(s), g)
           l == Len(s)
<1>1. l \in Nat /\ \A i \in 1 .. l : s[i] \in HciPacket
  OBVIOUS
<1>2. Totals(s, l, f)
  BY <1>1, TotalsExist
<1>3. Done(s) = f[l]
  BY DEF Done, Totals
<1>4. \A i \in 1 .. l : s[i].done \in Nat
  BY <1>1 DEF HciPacket
<1> HIDE DEF f, l
<1>5. \A i \in 0 .. l : f[i] = IF i = 0 THEN 0 ELSE f[i - 1] + s[i].done
  BY <1>2 DEF Totals
<1>6. f[0] = 0 /\ \A i \in 1 .. l : f[i] = f[i - 1] + s[i].done
  <2>1. 0 \in 0 .. l /\ \A i \in 1 .. l : i \in 0 .. l /\ i # 0
    BY <1>1
  <2> QED
    BY <1>5, <2>1
<1>7. \A i \in 0 .. l : f[i] \in Nat
  <2> DEFINE B == {i \in 0 .. l : f[i] \notin Nat}
  <2> SUFFICES ASSUME B # {} PROVE FALSE
    OBVIOUS
  <2>1. PICK m \in B : \A k \in B : m <= k
    <3>1. B \subseteq Nat
      BY <1>1
    <3> HIDE DEF B
    <3> QED
      BY <3>1, LeastNatural
  <2>2. m \in 0 .. l /\ m # 0
    BY <1>6
  <2>3. m \in 1 .. l /\ m - 1 \in 0 .. l /\ ~(m <= m - 1)
    BY <1>1, <2>2
  <2>4. m - 1 \notin B
    <3> HIDE DEF B
    <3> QED
      BY <2>1, <2>3
  <2> QED
    BY <1>4, <1>6, <2>3, <2>4
<1> QED
  BY <1>3, <1>6, <1>7 DEF l

LEMMA DoneEmpty == Done(<<>>) = 0
<1>1. <<>> \in Seq(HciPacket) /\ Len(<<>>) = 0
  OBVIOUS
<1> DEFINE e == <<>>
<1>2. e \in Seq(HciPacket) /\ Len(e) = 0
  BY <1>1
<1> HIDE DEF e
<1>3. Done(e) = 0
  BY <1>2, DoneTable
<1> QED
  BY <1>3 DEF e

LEMMA DoneType ==
    ASSUME NEW s \in Seq(HciPacket)
    PROVE  Done(s) \in Nat
<1>1. Len(s) \in Nat /\ Len(s) \in 0 .. Len(s)
  OBVIOUS
<1> QED
  BY <1>1, DoneTable

(* Two tables that step alike, from entries k apart, stay k apart. *)
LEMMA TablesApart ==
    ASSUME NEW n \in Nat, NEW k \in Nat, NEW f, NEW g,
           f[0] = g[0] + k,
           \A i \in 0 .. n : g[i] \in Nat /\ f[i] \in Nat,
           \A i \in 1 .. n : f[i] - f[i - 1] = g[i] - g[i - 1]
    PROVE  f[n] = g[n] + k
<1> DEFINE B == {i \in 0 .. n : f[i] # g[i] + k}
<1>1. ASSUME B # {} PROVE FALSE
  <2>1. PICK m \in B : \A j \in B : m <= j
    <3>1. B \subseteq Nat
      OBVIOUS
    <3> HIDE DEF B
    <3> QED
      BY <1>1, <3>1, LeastNatural
  <2>2. m \in 0 .. n /\ m # 0 /\ f[m] # g[m] + k
    BY <2>1
  <2>3. m \in 1 .. n /\ m - 1 \in 0 .. n /\ ~(m <= m - 1)
    BY <2>2
  <2>4. f[m - 1] = g[m - 1] + k
    BY <2>1, <2>3
  <2>5. /\ f[m] - f[m - 1] = g[m] - g[m - 1]
        /\ f[m] \in Nat /\ f[m - 1] \in Nat /\ g[m] \in Nat /\ g[m - 1] \in Nat
    BY <2>2, <2>3
  <2> QED
    BY <2>2, <2>4, <2>5
<1> QED
  BY <1>1

LEMMA DoneAppend ==
    ASSUME NEW s \in Seq(HciPacket), NEW p \in HciPacket
    PROVE  Done(s) \in Nat /\ Done(Append(s, p)) = Done(s) + p.done
<1> DEFINE a == Append(s, p)
           l == Len(s)
<1>1. /\ l \in Nat /\ a \in Seq(HciPacket) /\ Len(a) = l + 1
      /\ a[l + 1] = p /\ \A i \in 1 .. l : a[i] = s[i] /\ s[i] \in HciPacket
  OBVIOUS
<1>2. PICK f : /\ Done(s) = f[l] /\ f[0] = 0
               /\ \A i \in 1 .. l : f[i] = f[i - 1] + s[i].done
               /\ \A i \in 0 .. l : f[i] \in Nat
  BY DoneTable
<1> HIDE DEF a
<1>3. PICK g : /\ Done(a) = g[l + 1] /\ g[0] = 0
               /\ \A i \in 1 .. l + 1 : g[i] = g[i - 1] + a[i].done
               /\ \A i \in 0 .. l + 1 : g[i] \in Nat
  <2>1. PICK m : m = Len(a)
    OBVIOUS
  <2>2. \E g : /\ Done(a) = g[m] /\ g[0] = 0
               /\ \A i \in 1 .. m : g[i] = g[i - 1] + a[i].done
               /\ \A i \in 0 .. m : g[i] \in Nat
    BY <1>1, <2>1, DoneTable, Zenon
  <2>3. m = l + 1
    BY <1>1, <2>1
  <2> QED
    BY <2>2, <2>3, Zenon
<1> HIDE DEF l
<1>4. \A i \in 1 .. l : s[i].done \in Nat /\ a[i].done = s[i].done
  BY <1>1 DEF HciPacket
<1>5. g[l] = f[l]
  <2>1. g[0] = f[0] + 0
    BY <1>2, <1>3
  <2>2. \A i \in 0 .. l : f[i] \in Nat /\ g[i] \in Nat
    BY <1>1, <1>2, <1>3
  <2>3. \A i \in 1 .. l : g[i] - g[i - 1] = f[i] - f[i - 1]
    <3> SUFFICES ASSUME NEW i \in 1 .. l PROVE g[i] - g[i - 1] = f[i] - f[i - 1]
      OBVIOUS
    <3>1. i \in 1 .. l + 1 /\ i - 1 \in 0 .. l /\ i \in 0 .. l /\ i - 1 \in 0 .. l + 1
      BY <1>1
    <3>2. g[i] = g[i - 1] + a[i].done /\ f[i] = f[i - 1] + s[i].done
      BY <3>1, <1>2, <1>3, Zenon
    <3>3. /\ g[i - 1] \in Nat /\ f[i - 1] \in Nat
          /\ s[i].done \in Nat /\ a[i].done = s[i].done
      BY <3>1, <2>2, <1>4, Zenon
    <3> QED
      BY ONLY <3>2, <3>3
  <2>4. l \in Nat /\ 0 \in Nat
    BY <1>1
  <2>5. g[l] = f[l] + 0
    BY ONLY <2>1, <2>2, <2>3, <2>4, TablesApart, ZenonT(40)
  <2> QED
    BY <1>1, <1>2, <2>5
<1>6. l + 1 \in 1 .. l + 1 /\ l \in 0 .. l /\ l + 1 - 1 = l
  BY <1>1
<1>7. Done(s) \in Nat /\ Done(a) = Done(s) + p.done
  BY <1>1, <1>2, <1>3, <1>5, <1>6
<1> QED
  BY <1>7 DEF a

LEMMA DoneTail ==
    ASSUME NEW s \in Seq(HciPacket), s # <<>>
    PROVE  Done(Tail(s)) \in Nat /\ Done(s) = Head(s).done + Done(Tail(s))
<1> DEFINE a == Tail(s)
           l == Len(a)
<1>1. /\ l \in Nat /\ a \in Seq(HciPacket) /\ Len(s) = l + 1
      /\ Head(s) = s[1] /\ \A i \in 1 .. l : a[i] = s[i + 1] /\ a[i] \in HciPacket
      /\ s[1] \in HciPacket
  OBVIOUS
<1> HIDE DEF a
<1>2. PICK g : /\ Done(a) = g[l] /\ g[0] = 0
               /\ \A i \in 1 .. l : g[i] = g[i - 1] + a[i].done
               /\ \A i \in 0 .. l : g[i] \in Nat
  BY <1>1, DoneTable
<1>3. PICK f : /\ Done(s) = f[l + 1] /\ f[0] = 0
               /\ \A i \in 1 .. l + 1 : f[i] = f[i - 1] + s[i].done
               /\ \A i \in 0 .. l + 1 : f[i] \in Nat
  <2>1. PICK m : m = Len(s)
    OBVIOUS
  <2>2. \E f : /\ Done(s) = f[m] /\ f[0] = 0
               /\ \A i \in 1 .. m : f[i] = f[i - 1] + s[i].done
               /\ \A i \in 0 .. m : f[i] \in Nat
    BY <2>1, DoneTable, Zenon
  <2>3. m = l + 1
    BY <1>1, <2>1
  <2> QED
    BY <2>2, <2>3, Zenon
<1> HIDE DEF l
<1>4. s[1].done \in Nat /\ \A i \in 1 .. l : a[i].done \in Nat /\ a[i].done = s[i + 1].done
  BY <1>1 DEF HciPacket
<1>5. f[l + 1] = g[l] + s[1].done
  <2> DEFINE h == [i \in 0 .. l |-> f[i + 1]]
  <2>1. h[0] = g[0] + s[1].done
    <3>1. 1 \in 1 .. l + 1 /\ 1 - 1 = 0 /\ 0 + 1 = 1 /\ 0 \in 0 .. l
      BY <1>1
    <3> QED
      BY <1>2, <1>3, <1>4, <3>1
  <2>2. \A i \in 0 .. l : g[i] \in Nat /\ h[i] \in Nat
    BY <1>1, <1>2, <1>3
  <2>3. \A i \in 1 .. l : h[i] - h[i - 1] = g[i] - g[i - 1]
    <3> SUFFICES ASSUME NEW i \in 1 .. l PROVE h[i] - h[i - 1] = g[i] - g[i - 1]
      OBVIOUS
    <3>1. i + 1 \in 1 .. l + 1 /\ i + 1 - 1 \in 0 .. l + 1 /\ i + 1 \in 0 .. l + 1 /\ i \in 0 .. l /\ i - 1 \in 0 .. l
      BY <1>1
    <3>2. f[i + 1] = f[i + 1 - 1] + s[i + 1].done /\ f[i + 1 - 1] \in Nat /\ f[i + 1] \in Nat
      BY <3>1, <1>3
    <3>3. g[i] = g[i - 1] + s[i + 1].done /\ g[i - 1] \in Nat /\ s[i + 1].done \in Nat
      BY <3>1, <1>2, <1>4
    <3>4. h[i] = f[i + 1] /\ h[i - 1] = f[i + 1 - 1]
      <4>1. i - 1 + 1 = i + 1 - 1
        OBVIOUS
      <4> QED
        BY <3>1, <4>1
    <3> QED
      BY <3>2, <3>3, <3>4
  <2>4. h[l] = f[l + 1]
    BY <1>1
  <2> HIDE DEF h
  <2>5. h[l] = g[l] + s[1].done
    <3>1. PICK k \in Nat : k = s[1].done
      BY <1>4
    <3>2. l \in Nat /\ h[0] = g[0] + k
      BY <1>1, <2>1, <3>1
    <3>3. h[l] = g[l] + k
      BY ONLY k \in Nat, <3>2, <2>2, <2>3, TablesApart, Zenon
    <3> QED
      BY <3>1, <3>3
  <2> QED
    BY <2>4, <2>5
<1>6. l \in 0 .. l
  BY <1>1
<1>7. Done(a) \in Nat /\ Done(s) = Head(s).done + Done(a)
  BY <1>1, <1>2, <1>3, <1>4, <1>5, <1>6
<1> QED
  BY <1>7 DEF a

(* An event is counted when it leaves the port, in a read or a wait: what  *)
(* the counter gains is what the wire loses.                               *)
LEMMA TakeCounts ==
    ASSUME TypeOK, Take
    PROVE  \E k \in Nat : acl_credits' = acl_credits + k /\ Done(wire') = Done(wire) - k
<1>0. wire \in Seq(HciPacket) /\ Done(wire) \in Nat /\ acl_credits \in Int
  BY DoneType DEF TypeOK
<1>1. CASE pending # <<>>
  <2>1. acl_credits' = acl_credits + 0 /\ Done(wire') = Done(wire) - 0
    BY <1>0, <1>1 DEF Take, on_event
  <2> QED
    BY <2>1
<1>2. CASE pending = <<>>
  <2>1. wire # <<>> /\ acl_credits' = acl_credits + Head(wire).done /\ wire' = Tail(wire)
    BY <1>2 DEF Take, HasPacket, on_event, Packet
  <2>2. PICK k \in Nat : k = Head(wire).done
    BY <1>0, <2>1, QueueTail DEF HciPacket
  <2>3. Done(wire') \in Nat /\ Done(wire) = k + Done(wire')
    BY <1>0, <2>1, <2>2, DoneTail
  <2>4. Done(wire') = Done(wire) - k
    BY <2>3
  <2> QED
    BY <2>1, <2>2, <2>4
<1> QED
  BY <1>1, <1>2

LEMMA CreditsStep == TypeOK /\ CreditsCounted /\ [Next]_vars => CreditsCounted'
<1> SUFFICES ASSUME TypeOK, CreditsCounted, [Next]_vars PROVE CreditsCounted'
  OBVIOUS
<1> USE DEF hostVars, history, controllerVars, CreditsCounted
<1>0. /\ held \in Nat /\ lost \in Nat /\ acl_credits \in Int /\ Window \in Nat /\ Done(wire) \in Nat
      /\ wire \in Seq(HciPacket)
  <2>1. wire \in Seq(HciPacket)
    BY DEF TypeOK
  <2>2. Done(wire) \in Nat
    BY <2>1, DoneType
  <2> QED
    BY <2>1, <2>2, HostAssumption DEF TypeOK, HostAssumption
<1>a. ASSUME NEW c, NEW kind \in {"answer", "terminal", "event"}, NEW done \in Nat,
             c \in busy \/ c = Idle, Sends(kind, c, done)
      PROVE  Done(wire') = Done(wire) + done
  <2>1. Sent(kind, c, done) \in HciPacket /\ wire' = Append(wire, Sent(kind, c, done))
    BY <1>a, SendsTyped
  <2>2. Done(wire') = Done(wire) + Sent(kind, c, done).done
    BY <1>0, <2>1, DoneAppend
  <2> QED
    BY <2>2 DEF Sent
<1>1. ASSUME NEW c \in busy, Answers(c) PROVE CreditsCounted'
  <2>1. Done(wire') = Done(wire) + 0
    BY <1>1, <1>a DEF Answers
  <2> QED
    BY <1>0, <1>1, <2>1 DEF Answers
<1>2. ASSUME NEW c \in busy, Terminates(c) PROVE CreditsCounted'
  <2>1. Done(wire') = Done(wire) + 0
    BY <1>2, <1>a DEF Terminates
  <2> QED
    BY <1>0, <1>2, <2>1 DEF Terminates
<1>3. CASE Completes
  <2>1. PICK k \in 1 .. held : Sends("event", Idle, k) /\ held' = held - k
    BY <1>3 DEF Completes
  <2>2. k \in Nat
    BY <1>0, <2>1
  <2>3. Done(wire') = Done(wire) + k
    BY <1>a, <2>1, <2>2
  <2> QED
    BY <1>0, <1>3, <2>1, <2>2, <2>3 DEF Completes
<1>4. CASE Disconnects
  <2>1. Done(wire') = Done(wire) + 0
    BY <1>4, <1>a DEF Disconnects
  <2> QED
    BY <1>0, <1>4, <2>1 DEF Disconnects
<1>5. CASE read_packet \/ Ends \/ Defers
  <2>1. Take /\ UNCHANGED <<held, lost>>
    BY <1>5 DEF read_packet, Ends, Defers
  <2>2. PICK k \in Nat : acl_credits' = acl_credits + k /\ Done(wire') = Done(wire) - k
    BY <2>1, TakeCounts
  <2> QED
    BY <1>0, <2>1, <2>2
<1>6. CASE _poll_ready_events
  <2>1. PICK k \in Nat : k = Head(wire).done
    BY <1>0, <1>6, QueueTail DEF _poll_ready_events, HciPacket
  <2>2. Done(wire') \in Nat /\ Done(wire) = k + Done(wire')
    BY <1>0, <1>6, <2>1, DoneTail DEF _poll_ready_events
  <2>3. Done(wire') = Done(wire) - k
    BY <2>2
  <2>4. acl_credits' = acl_credits + k /\ held' = held /\ lost' = lost
    BY <1>6, <2>1 DEF _poll_ready_events
  <2> QED
    BY <1>0, <2>3, <2>4
<1>7. CASE send_acl
  BY <1>0, <1>7 DEF send_acl
<1>8. ASSUME NEW op \in Opcode, command(op) PROVE CreditsCounted'
  BY <1>0, <1>8 DEF command
<1>9. CASE TimesOut \/ ReadFails
  BY <1>0, <1>9 DEF TimesOut, ReadFails
<1>10. CASE UNCHANGED vars
  BY <1>10 DEF vars
<1> QED
  BY <1>1, <1>2, <1>3, <1>4, <1>5, <1>6, <1>7, <1>8, <1>9, <1>10 DEF Next

---------------------------------------------------------------------------
(* No packet is lost or read twice. *)

(* What a step does to the queues, as far as Placed is concerned. *)
LEMMA PlacedMove ==
    ASSUME TypeOK, Placed, UNCHANGED <<taken, arrived>>,
           Once(wire'), Once(pending'), Once(deferred'), Once(returned'), Once(dropped'),
           Apart(Numbers(wire'), Numbers(pending'), Numbers(deferred'), Numbers(returned'), Numbers(dropped'),
                 NumbersTaken, arrived),
           Len(wire') + Len(pending') + Len(deferred') + Len(returned') + Len(dropped')
              = Len(wire) + Len(pending) + Len(deferred) + Len(returned) + Len(dropped)
    PROVE  Placed'
<1>1. NumbersTaken' = NumbersTaken
  BY DEF NumbersTaken
<1>2. Len(wire') + Len(pending') + Len(deferred') + Len(returned') + Len(dropped') + Cardinality(taken') = arrived'
  <2>1. PICK m : m = Len(wire) + Len(pending) + Len(deferred) + Len(returned) + Len(dropped)
    OBVIOUS
  <2>2. m + Cardinality(taken) = arrived
    BY <2>1 DEF Placed
  <2>3. Len(wire') + Len(pending') + Len(deferred') + Len(returned') + Len(dropped') = m
    BY <2>1
  <2> QED
    BY <2>2, <2>3
<1> QED
  BY <1>1, <1>2 DEF Placed

(* The packet the host reads, wherever it comes from. *)
LEMMA TakePlaced ==
    ASSUME TypeOK, Placed, Take
    PROVE  /\ Packet.n \in Numbers(wire) \cup Numbers(pending)
           /\ Numbers(wire') = Numbers(wire) \ {Packet.n}
           /\ Numbers(Rest) = Numbers(pending) \ {Packet.n}
           /\ Once(wire') /\ Once(Rest)
           /\ Len(wire') + Len(Rest) = Len(wire) + Len(pending) - 1
<1>0. wire \in Seq(HciPacket) /\ pending \in Seq(HciPacket) /\ Once(wire) /\ Once(pending)
      /\ Numbers(wire) \cap Numbers(pending) = {}
  BY DEF TypeOK, Placed, Apart
<1>1. CASE pending # <<>>
  <2>1. Packet = Head(pending) /\ Rest = Tail(pending) /\ wire' = wire
    BY <1>1 DEF Take, Packet, Rest
  <2>2. /\ Packet.n \in Numbers(pending) /\ Once(Rest)
        /\ Numbers(Rest) = Numbers(pending) \ {Packet.n} /\ Len(Rest) = Len(pending) - 1
    BY <1>0, <1>1, <2>1, QueueTail
  <2> QED
    BY <1>0, <2>1, <2>2
<1>2. CASE pending = <<>>
  <2>1. Packet = Head(wire) /\ Rest = <<>> /\ wire' = Tail(wire) /\ wire # <<>>
    BY <1>2 DEF Take, Packet, Rest, HasPacket
  <2>2. /\ Packet.n \in Numbers(wire) /\ Once(wire')
        /\ Numbers(wire') = Numbers(wire) \ {Packet.n} /\ Len(wire') = Len(wire) - 1
    BY <1>0, <2>1, QueueTail
  <2> QED
    BY <1>0, <1>2, <2>1, <2>2, QueueEmpty
<1> QED
  BY <1>1, <1>2

LEMMA SendsPlaced ==
    ASSUME TypeOK, Placed, NEW c, NEW kind \in {"answer", "terminal", "event"}, NEW done \in Nat,
           c \in busy \/ c = Idle, Sends(kind, c, done),
           UNCHANGED <<pending, deferred, returned, dropped, taken>>
    PROVE  Placed'
<1> DEFINE p == Sent(kind, c, done)
<1>1. p \in HciPacket /\ wire' = Append(wire, p) /\ arrived' = arrived + 1 /\ p.n = arrived + 1
  BY SendsTyped DEF Sent
<1> HIDE DEF p
<1>2. wire \in Seq(HciPacket) /\ arrived \in Nat /\ IsFiniteSet(taken)
  BY DEF TypeOK
<1>3. arrived + 1 \notin 1 .. arrived /\ 1 .. arrived + 1 = (1 .. arrived) \cup {arrived + 1}
  BY <1>2
<1>4. p.n \notin Numbers(wire)
  BY <1>1, <1>3 DEF Placed, Apart
<1>5. Once(wire') /\ Numbers(wire') = Numbers(wire) \cup {arrived + 1} /\ Len(wire') = Len(wire) + 1
  <2>1. Once(wire)
    BY DEF Placed
  <2>2. /\ Once(Append(wire, p)) /\ Numbers(Append(wire, p)) = Numbers(wire) \cup {p.n}
        /\ Len(Append(wire, p)) = Len(wire) + 1
    BY <1>1, <1>2, <1>4, <2>1, QueueAppend
  <2> QED
    BY <1>1, <2>2
<1>6. Apart(Numbers(wire'), Numbers(pending), Numbers(deferred), Numbers(returned), Numbers(dropped),
            NumbersTaken, arrived + 1)
  BY <1>3, <1>5 DEF Placed, Apart
<1>7. NumbersTaken' = NumbersTaken
  BY DEF NumbersTaken
<1>8. Len(wire') + Len(pending) + Len(deferred) + Len(returned) + Len(dropped) + Cardinality(taken) = arrived + 1
  <2>1. Len(wire) + Len(pending) + Len(deferred) + Len(returned) + Len(dropped) + Cardinality(taken) = arrived
    BY DEF Placed
  <2>2. Len(wire) \in Nat /\ Len(pending) \in Nat /\ Len(deferred) \in Nat /\ Len(returned) \in Nat
        /\ Len(dropped) \in Nat /\ Cardinality(taken) \in Nat
    BY FS_CardinalityType DEF TypeOK
  <2> QED
    BY <1>5, <2>1, <2>2
<1> QED
  BY <1>1, <1>5, <1>6, <1>7, <1>8 DEF Placed

(* The number of queued packets, as the steps change it. *)
LEMMA Lengths ==
    ASSUME TypeOK
    PROVE  /\ Len(wire) \in Nat /\ Len(pending) \in Nat /\ Len(deferred) \in Nat
           /\ Len(returned) \in Nat /\ Len(dropped) \in Nat /\ Cardinality(taken) \in Nat
BY FS_CardinalityType DEF TypeOK

LEMMA PlacedStep == TypeOK /\ Placed /\ [Next]_vars => Placed'
<1> SUFFICES ASSUME TypeOK, Placed, [Next]_vars PROVE Placed'
  OBVIOUS
<1> USE DEF hostVars, history, controllerVars
<1>0. /\ wire \in Seq(HciPacket) /\ pending \in Seq(HciPacket) /\ deferred \in Seq(HciPacket)
      /\ returned \in Seq(HciPacket) /\ dropped \in Seq(HciPacket)
  BY DEF TypeOK
<1>a. Once(wire) /\ Once(pending) /\ Once(deferred) /\ Once(returned) /\ Once(dropped)
  BY DEF Placed
<1>b. Apart(Numbers(wire), Numbers(pending), Numbers(deferred), Numbers(returned), Numbers(dropped),
            NumbersTaken, arrived)
  BY DEF Placed
<1>1. ASSUME NEW c \in busy, Answers(c) PROVE Placed'
  BY <1>1, SendsPlaced DEF Answers
<1>2. ASSUME NEW c \in busy, Terminates(c) PROVE Placed'
  BY <1>2, SendsPlaced DEF Terminates
<1>3. CASE Completes
  <2>1. PICK k \in 1 .. held : Sends("event", Idle, k)
    BY <1>3 DEF Completes
  <2>2. k \in Nat
    BY DEF TypeOK
  <2>3. UNCHANGED <<pending, deferred, returned, dropped, taken>>
    BY <1>3 DEF Completes
  <2> QED
    BY <2>1, <2>2, <2>3, SendsPlaced
<1>4. CASE Disconnects
  BY <1>4, SendsPlaced DEF Disconnects
<1>5. CASE read_packet
  <2>1. Take /\ pending' = Rest /\ returned' = Append(returned, Packet)
        /\ UNCHANGED <<deferred, dropped, taken, arrived>>
    BY <1>5 DEF read_packet
  <2>2. Packet.n \notin Numbers(returned)
    BY <1>b, <2>1, TakePlaced DEF Apart
  <2>3. /\ Once(returned') /\ Numbers(returned') = Numbers(returned) \cup {Packet.n}
        /\ Len(returned') = Len(returned) + 1
    BY <1>0, <1>a, <2>1, <2>2, TakeTyped, QueueAppend
  <2>4. Apart(Numbers(wire'), Numbers(pending'), Numbers(deferred'), Numbers(returned'), Numbers(dropped'),
              NumbersTaken, arrived)
    BY <1>b, <2>1, <2>3, TakePlaced DEF Apart
  <2>5. Len(wire') + Len(pending') + Len(deferred') + Len(returned') + Len(dropped')
              = Len(wire) + Len(pending) + Len(deferred) + Len(returned) + Len(dropped)
    BY <2>1, <2>3, TakePlaced, Lengths
  <2>6. Once(wire') /\ Once(pending') /\ Once(deferred') /\ Once(dropped')
    BY <1>a, <2>1, TakePlaced
  <2> QED
    BY <2>1, <2>3, <2>4, <2>5, <2>6, PlacedMove
<1>6. CASE _poll_ready_events
  <2>1. /\ wire # <<>> /\ wire' = Tail(wire) /\ pending' = Append(pending, Head(wire))
        /\ UNCHANGED <<deferred, returned, dropped, taken, arrived>>
    BY <1>6 DEF _poll_ready_events
  <2>2. /\ Head(wire) \in HciPacket /\ Head(wire).n \in Numbers(wire) /\ Once(wire')
        /\ Numbers(wire') = Numbers(wire) \ {Head(wire).n} /\ Len(wire') = Len(wire) - 1
    BY <1>0, <1>a, <2>1, QueueTail
  <2>3. Head(wire).n \notin Numbers(pending)
    BY <1>b, <2>2 DEF Apart
  <2>4. /\ Once(pending') /\ Numbers(pending') = Numbers(pending) \cup {Head(wire).n}
        /\ Len(pending') = Len(pending) + 1
    BY <1>0, <1>a, <2>1, <2>2, <2>3, QueueAppend
  <2>5. Apart(Numbers(wire'), Numbers(pending'), Numbers(deferred'), Numbers(returned'), Numbers(dropped'),
              NumbersTaken, arrived)
    BY <1>b, <2>1, <2>2, <2>4 DEF Apart
  <2>6. Len(wire') + Len(pending') + Len(deferred') + Len(returned') + Len(dropped')
              = Len(wire) + Len(pending) + Len(deferred) + Len(returned) + Len(dropped)
    BY <2>1, <2>2, <2>4, Lengths
  <2> QED
    BY <1>a, <2>1, <2>2, <2>4, <2>5, <2>6, PlacedMove
<1>7. CASE send_acl \/ (\E op \in Opcode : command(op)) \/ UNCHANGED vars
  <2>1. UNCHANGED <<wire, pending, deferred, returned, dropped, taken, arrived>>
    BY <1>7 DEF send_acl, command, vars
  <2> QED
    BY <2>1 DEF Placed, NumbersTaken
<1>8. ASSUME NEW rest \in Seq(HciPacket), Once(rest), Numbers(rest) \cap Numbers(deferred) = {},
             PutBack(rest)
      PROVE  /\ Once(pending') /\ Numbers(pending') = Numbers(rest) \cup Numbers(deferred)
             /\ Len(pending') = Len(rest) + Len(deferred)
             /\ deferred' = <<>> /\ Once(deferred') /\ Numbers(deferred') = {} /\ Len(deferred') = 0
  <2>1. deferred' = <<>> /\ (pending' = rest \o deferred \/ pending' = deferred \o rest)
    BY <1>8 DEF PutBack
  <2>2. Len(rest) \in Nat /\ Len(deferred) \in Nat
    BY <1>0
  <2>3. CASE pending' = rest \o deferred
    BY <1>0, <1>a, <1>8, <2>1, <2>2, <2>3, QueueConcat, QueueEmpty
  <2>4. CASE pending' = deferred \o rest
    <3>1. Numbers(deferred) \cap Numbers(rest) = {}
      BY <1>8
    <3>2. /\ Once(pending') /\ Numbers(pending') = Numbers(deferred) \cup Numbers(rest)
          /\ Len(pending') = Len(deferred) + Len(rest)
      BY <1>0, <1>a, <1>8, <2>4, <3>1, QueueConcat
    <3> QED
      BY <2>1, <2>2, <3>2, QueueEmpty
  <2> QED
    BY <2>1, <2>3, <2>4
<1>9. CASE Ends
  <2> DEFINE t == [packet |-> Packet, by |-> doing.id]
  <2>1. Take /\ PutBack(Rest) /\ taken' = taken \cup {t} /\ UNCHANGED <<returned, dropped, arrived>>
    BY <1>9 DEF Ends
  <2>2. t.packet = Packet
    OBVIOUS
  <2> HIDE DEF t
  <2>3. /\ Packet.n \in Numbers(wire) \cup Numbers(pending)
        /\ Numbers(wire') = Numbers(wire) \ {Packet.n}
        /\ Numbers(Rest) = Numbers(pending) \ {Packet.n}
        /\ Once(wire') /\ Once(Rest)
    BY <2>1, TakePlaced
  <2>4. Numbers(Rest) \cap Numbers(deferred) = {}
    BY <1>b, <2>3 DEF Apart
  <2>5. /\ Once(pending') /\ Numbers(pending') = Numbers(Rest) \cup Numbers(deferred)
        /\ Len(pending') = Len(Rest) + Len(deferred)
        /\ Once(deferred') /\ Numbers(deferred') = {} /\ Len(deferred') = 0
    BY <1>8, <2>1, <2>3, <2>4, TakeTyped
  <2>6. NumbersTaken' = NumbersTaken \cup {Packet.n}
    BY <2>1, <2>2 DEF NumbersTaken
  <2>7. Packet.n \notin NumbersTaken
    BY <1>b, <2>3 DEF Apart
  <2>8. t \notin taken /\ \A u \in taken : u.packet.n # Packet.n
    BY <2>2, <2>7 DEF NumbersTaken
  <2>9. \A x, y \in taken' : x.packet.n = y.packet.n => x = y
    BY <2>1, <2>2, <2>8 DEF Placed
  <2>10. Apart(Numbers(wire'), Numbers(pending'), Numbers(deferred'), Numbers(returned'), Numbers(dropped'),
               NumbersTaken', arrived')
    BY <1>b, <2>1, <2>3, <2>5, <2>6, <2>7 DEF Apart
  <2>11. Cardinality(taken') = Cardinality(taken) + 1
    BY <2>1, <2>8, FS_AddElement DEF TypeOK
  <2>12. Len(wire') + Len(pending') + Len(deferred') + Len(returned') + Len(dropped') + Cardinality(taken') = arrived'
    <3>1. Len(wire') + Len(Rest) = Len(wire) + Len(pending) - 1
      BY <2>1, TakePlaced
    <3>2. Len(wire) + Len(pending) + Len(deferred) + Len(returned) + Len(dropped) + Cardinality(taken) = arrived
      BY DEF Placed
    <3>3. Len(wire') \in Nat /\ Len(Rest) \in Nat /\ arrived \in Nat
      BY <2>1, TakeTyped DEF TypeOK
    <3>4. returned' = returned /\ dropped' = dropped /\ arrived' = arrived
      BY <2>1
    <3> QED
      BY <2>5, <2>11, <3>1, <3>2, <3>3, <3>4, Lengths
  <2> QED
    BY <1>a, <2>1, <2>3, <2>5, <2>9, <2>10, <2>12 DEF Placed
<1>10. CASE Defers
  <2>1. Take /\ pending' = Rest /\ deferred' = Append(deferred, Packet)
        /\ UNCHANGED <<returned, dropped, taken, arrived>>
    BY <1>10 DEF Defers
  <2>2. Packet.n \notin Numbers(deferred)
    BY <1>b, <2>1, TakePlaced DEF Apart
  <2>3. /\ Once(deferred') /\ Numbers(deferred') = Numbers(deferred) \cup {Packet.n}
        /\ Len(deferred') = Len(deferred) + 1
    BY <1>0, <1>a, <2>1, <2>2, TakeTyped, QueueAppend
  <2>4. Apart(Numbers(wire'), Numbers(pending'), Numbers(deferred'), Numbers(returned'), Numbers(dropped'),
              NumbersTaken, arrived)
    BY <1>b, <2>1, <2>3, TakePlaced DEF Apart
  <2>5. Len(wire') + Len(pending') + Len(deferred') + Len(returned') + Len(dropped')
              = Len(wire) + Len(pending) + Len(deferred) + Len(returned) + Len(dropped)
    BY <2>1, <2>3, TakePlaced, Lengths
  <2>6. Once(wire') /\ Once(pending') /\ Once(returned') /\ Once(dropped')
    BY <1>a, <2>1, TakePlaced
  <2> QED
    BY <2>1, <2>3, <2>4, <2>5, <2>6, PlacedMove
<1>11. CASE TimesOut
  <2>1. PutBack(pending) /\ UNCHANGED <<wire, returned, dropped, taken, arrived>>
    BY <1>11 DEF TimesOut
  <2>2. Numbers(pending) \cap Numbers(deferred) = {}
    BY <1>b DEF Apart
  <2>3. /\ Once(pending') /\ Numbers(pending') = Numbers(pending) \cup Numbers(deferred)
        /\ Len(pending') = Len(pending) + Len(deferred)
        /\ Once(deferred') /\ Numbers(deferred') = {} /\ Len(deferred') = 0
    BY <1>0, <1>a, <1>8, <2>1, <2>2
  <2>4. Apart(Numbers(wire'), Numbers(pending'), Numbers(deferred'), Numbers(returned'), Numbers(dropped'),
              NumbersTaken, arrived)
    BY <1>b, <2>1, <2>3 DEF Apart
  <2>5. Len(wire') + Len(pending') + Len(deferred') + Len(returned') + Len(dropped')
              = Len(wire) + Len(pending) + Len(deferred) + Len(returned) + Len(dropped)
    BY <2>1, <2>3, Lengths
  <2> QED
    BY <1>a, <2>1, <2>3, <2>4, <2>5, PlacedMove
<1>12. CASE ReadFails
  <2>1. /\ dropped' = dropped \o deferred /\ deferred' = <<>>
        /\ UNCHANGED <<wire, pending, returned, taken, arrived>>
    BY <1>12 DEF ReadFails
  <2>2. Numbers(dropped) \cap Numbers(deferred) = {}
    BY <1>b DEF Apart
  <2>3. /\ Once(dropped') /\ Numbers(dropped') = Numbers(dropped) \cup Numbers(deferred)
        /\ Len(dropped') = Len(dropped) + Len(deferred)
    BY <1>0, <1>a, <2>1, <2>2, QueueConcat
  <2>4. Once(deferred') /\ Numbers(deferred') = {} /\ Len(deferred') = 0
    BY <2>1, QueueEmpty
  <2>5. Apart(Numbers(wire'), Numbers(pending'), Numbers(deferred'), Numbers(returned'), Numbers(dropped'),
              NumbersTaken, arrived)
    BY <1>b, <2>1, <2>3, <2>4 DEF Apart
  <2>6. Len(wire') + Len(pending') + Len(deferred') + Len(returned') + Len(dropped')
              = Len(wire) + Len(pending) + Len(deferred) + Len(returned) + Len(dropped)
    BY <2>1, <2>3, <2>4, Lengths
  <2> QED
    BY <1>a, <2>1, <2>3, <2>4, <2>5, <2>6, PlacedMove
<1> QED
  BY <1>1, <1>2, <1>3, <1>4, <1>5, <1>6, <1>7, <1>9, <1>10, <1>11, <1>12 DEF Next

---------------------------------------------------------------------------
(* Waits end with their own packets, and the others stay in order. *)

(* The packet read comes after what was read and before what was not. *)
LEMMA TakeOrdered ==
    ASSUME TypeOK, Placed, Ordered, Take
    PROVE  /\ InOrder(wire') /\ InOrder(Rest)
           /\ Before({Packet.n}, Numbers(Rest) \cup Numbers(wire'))
           /\ Before(Numbers(Rest), Numbers(wire'))
           /\ Before(Numbers(returned) \cup Numbers(deferred), {Packet.n})
           /\ Numbers(Rest) \subseteq Numbers(pending) /\ Numbers(wire') \subseteq Numbers(wire)
<1>0. wire \in Seq(HciPacket) /\ pending \in Seq(HciPacket) /\ Once(wire) /\ Once(pending)
  BY DEF TypeOK, Placed
<1>1. /\ InOrder(wire) /\ InOrder(pending)
      /\ Before(Numbers(returned), Numbers(deferred) \cup Numbers(pending) \cup Numbers(wire))
      /\ Before(Numbers(deferred), Numbers(pending) \cup Numbers(wire))
      /\ Before(Numbers(pending), Numbers(wire))
  BY DEF Ordered
<1>2. CASE pending # <<>>
  <2>1. Packet = Head(pending) /\ Rest = Tail(pending) /\ wire' = wire
    BY <1>2 DEF Take, Packet, Rest
  <2>2. /\ Packet.n \in Numbers(pending) /\ InOrder(Rest)
        /\ Numbers(Rest) \subseteq Numbers(pending) /\ Before({Packet.n}, Numbers(Rest))
    BY <1>0, <1>1, <1>2, <2>1, QueueTail
  <2> QED
    BY <1>1, <2>1, <2>2 DEF Before
<1>3. CASE pending = <<>>
  <2>1. Packet = Head(wire) /\ Rest = <<>> /\ wire' = Tail(wire) /\ wire # <<>>
    BY <1>3 DEF Take, Packet, Rest, HasPacket
  <2>2. /\ Packet.n \in Numbers(wire) /\ InOrder(wire')
        /\ Numbers(wire') \subseteq Numbers(wire) /\ Before({Packet.n}, Numbers(wire'))
    BY <1>0, <1>1, <2>1, QueueTail
  <2>3. Numbers(Rest) = {} /\ InOrder(Rest)
    BY <2>1, QueueEmpty
  <2> QED
    BY <1>1, <2>2, <2>3 DEF Before
<1> QED
  BY <1>2, <1>3

(* Where it was. *)
LEMMA TakeFrom ==
    ASSUME TypeOK, Take
    PROVE  /\ ToSet(wire') \subseteq ToSet(wire) /\ ToSet(Rest) \subseteq ToSet(pending)
           /\ Packet \in ToSet(wire) \cup ToSet(pending)
           /\ pending # <<>> => Packet \in ToSet(pending)
           /\ pending = <<>> => Rest = <<>>
<1>0. wire \in Seq(HciPacket) /\ pending \in Seq(HciPacket)
  BY DEF TypeOK
<1>1. CASE pending # <<>>
  BY <1>0, <1>1, QueueTail DEF Take, Packet, Rest
<1>2. CASE pending = <<>>
  <2>1. Packet = Head(wire) /\ Rest = <<>> /\ wire' = Tail(wire) /\ wire # <<>>
    BY <1>2 DEF Take, Packet, Rest, HasPacket
  <2> QED
    BY <1>0, <1>2, <2>1, QueueTail
<1> QED
  BY <1>1, <1>2

(* A packet the controller sends comes last, and is the sender's. *)
LEMMA SendsFresh ==
    ASSUME TypeOK, Placed, Ordered, Own,
           NEW c, NEW kind \in {"answer", "terminal", "event"}, NEW done \in Nat,
           (c \in busy /\ kind # "event") \/ (c = Idle /\ kind = "event"), Sends(kind, c, done),
           UNCHANGED <<pending, deferred, returned, doing>>,
           \A b \in busy' : \E d \in busy : d.opcode = b.opcode /\ d.id = b.id
    PROVE  Ordered' /\ Own'
<1> DEFINE p == Sent(kind, c, done)
<1>1. p \in HciPacket /\ wire' = Append(wire, p) /\ p.n = arrived + 1
      /\ p.kind = kind /\ p.opcode = c.opcode /\ p.id = c.id
  BY SendsTyped DEF Sent
<1> HIDE DEF p
<1>2. wire \in Seq(HciPacket) /\ arrived \in Nat
  BY DEF TypeOK
<1>3. Numbers(wire) \cup Numbers(pending) \cup Numbers(deferred) \cup Numbers(returned) \subseteq 1 .. arrived
  BY DEF Placed, Apart
<1>4. Before(Numbers(wire) \cup Numbers(pending) \cup Numbers(deferred) \cup Numbers(returned), {p.n})
  BY <1>1, <1>2, <1>3 DEF Before
<1>5. /\ InOrder(wire') /\ Numbers(wire') = Numbers(wire) \cup {p.n}
      /\ ToSet(wire') = ToSet(wire) \cup {p}
  <2>1. InOrder(wire) /\ Before(Numbers(wire), {p.n})
    BY <1>4 DEF Ordered, Before
  <2> QED
    BY <1>1, <1>2, <2>1, QueueAppend
<1>6. Ordered'
  BY <1>4, <1>5 DEF Ordered, Before
<1>7. Own'
  <2> SUFFICES ASSUME doing # Idle PROVE Own'
    BY DEF Own
  <2>1. \A b \in busy' : b.opcode = doing.opcode => b.id = doing.id
    BY DEF Own
  <2>2. p.kind # "event" /\ p.opcode = doing.opcode => p.id = doing.id
    BY <1>1 DEF Own
  <2> QED
    BY <1>5, <2>1, <2>2 DEF Own, Concerns
<1> QED
  BY <1>6, <1>7

(* What PutBack leaves in the queue: an answer found in it would come      *)
(* before what was deferred.                                               *)
LEMMA PutBackOrdered ==
    ASSUME TypeOK, NEW rest \in Seq(HciPacket), PutBack(rest), InOrder(rest), InOrder(deferred),
           Before(Numbers(deferred), Numbers(rest)), doing.what = "command" => rest = <<>>
    PROVE  /\ InOrder(pending') /\ Numbers(pending') = Numbers(deferred) \cup Numbers(rest)
           /\ ToSet(pending') = ToSet(deferred) \cup ToSet(rest)
           /\ deferred' = <<>>
<1>0. deferred \in Seq(HciPacket)
  BY DEF TypeOK
<1>1. pending' = deferred \o rest /\ deferred' = <<>>
  <2>1. CASE doing.what = "command"
    <3>1. rest \o deferred = deferred /\ deferred \o rest = deferred
      BY <1>0, <2>1
    <3> QED
      BY <2>1, <3>1 DEF PutBack
  <2>2. CASE doing.what # "command"
    BY <2>2 DEF PutBack
  <2> QED
    BY <2>1, <2>2
<1> QED
  BY <1>0, <1>1, QueueConcat

LEMMA FreshStep ==
    TypeOK /\ Placed /\ Fresh /\ (doing = Idle => deferred = <<>>) /\ [Next]_vars => Fresh'
<1> SUFFICES ASSUME TypeOK, Placed, Fresh, doing = Idle => deferred = <<>>, [Next]_vars,
                    ~stale'
             PROVE  Ordered' /\ Own' /\ \A t \in taken' : t.packet.id = t.by
  BY DEF Fresh
<1> USE DEF hostVars, history, controllerVars
<1>0. /\ wire \in Seq(HciPacket) /\ pending \in Seq(HciPacket) /\ deferred \in Seq(HciPacket)
      /\ returned \in Seq(HciPacket)
  BY DEF TypeOK
<1>a. ~stale
  BY DEF Next, Answers, Terminates, Completes, Disconnects, read_packet, _poll_ready_events,
         send_acl, command, Ends, Defers, TimesOut, ReadFails, vars
<1>b. Ordered /\ Own /\ \A t \in taken : t.packet.id = t.by
  BY <1>a DEF Fresh
<1>c. /\ InOrder(returned) /\ InOrder(deferred) /\ InOrder(pending) /\ InOrder(wire)
      /\ Before(Numbers(returned), Numbers(deferred) \cup Numbers(pending) \cup Numbers(wire))
      /\ Before(Numbers(deferred), Numbers(pending) \cup Numbers(wire))
      /\ Before(Numbers(pending), Numbers(wire))
  BY <1>b DEF Ordered
<1>1. ASSUME NEW c \in busy, Answers(c) PROVE Ordered' /\ Own' /\ UNCHANGED taken
  <2>1. \A b \in busy' : \E d \in busy : d.opcode = b.opcode /\ d.id = b.id
    <3>1. [c EXCEPT !.what = "procedure"].opcode = c.opcode
          /\ [c EXCEPT !.what = "procedure"].id = c.id
      BY DEF TypeOK, Waiting
    <3> QED
      BY <1>1, <3>1 DEF Answers
  <2>2. Sends("answer", c, 0) /\ UNCHANGED <<pending, deferred, returned, doing, taken>>
    BY <1>1 DEF Answers
  <2> QED
    BY <1>b, <2>1, <2>2, SendsFresh
<1>2. ASSUME NEW c \in busy, Terminates(c) PROVE Ordered' /\ Own' /\ UNCHANGED taken
  <2>1. \A b \in busy' : \E d \in busy : d.opcode = b.opcode /\ d.id = b.id
    BY <1>2 DEF Terminates
  <2>2. Sends("terminal", c, 0) /\ UNCHANGED <<pending, deferred, returned, doing, taken>>
    BY <1>2 DEF Terminates
  <2> QED
    BY <1>b, <2>1, <2>2, SendsFresh
<1>3. CASE Completes \/ Disconnects
  <2>1. PICK k \in Nat : Sends("event", Idle, k)
    BY <1>3 DEF Completes, Disconnects, TypeOK
  <2>2. UNCHANGED <<pending, deferred, returned, doing, taken, busy>>
    BY <1>3 DEF Completes, Disconnects
  <2>3. Ordered' /\ Own'
    BY <1>b, <2>1, <2>2, SendsFresh
  <2> QED
    BY <1>b, <2>2, <2>3
<1>5. CASE read_packet
  <2>1. /\ doing = Idle /\ Take /\ pending' = Rest /\ returned' = Append(returned, Packet)
        /\ UNCHANGED <<deferred, taken, doing>> /\ deferred = <<>>
    BY <1>5 DEF read_packet
  <2>2. Own'
    BY <2>1 DEF Own
  <2>3. Before(Numbers(returned), {Packet.n})
    BY <1>b, <2>1, TakeOrdered DEF Before
  <2>4. InOrder(returned') /\ Numbers(returned') = Numbers(returned) \cup {Packet.n}
    BY <1>0, <1>c, <2>1, <2>3, TakeTyped, QueueAppend
  <2>5. Numbers(deferred') = {} /\ InOrder(deferred')
    BY <2>1, QueueEmpty
  <2>6. Ordered'
    BY <1>b, <1>c, <2>1, <2>4, <2>5, TakeOrdered DEF Ordered, Before
  <2> QED
    BY <1>b, <2>1, <2>2, <2>6
<1>6. CASE _poll_ready_events
  <2>1. /\ doing = Idle /\ wire # <<>> /\ wire' = Tail(wire) /\ pending' = Append(pending, Head(wire))
        /\ UNCHANGED <<deferred, returned, taken, doing>>
    BY <1>6 DEF _poll_ready_events
  <2>2. /\ Head(wire) \in HciPacket /\ Head(wire).n \in Numbers(wire) /\ InOrder(wire')
        /\ Numbers(wire') = Numbers(wire) \ {Head(wire).n} /\ Before({Head(wire).n}, Numbers(wire'))
    <3>1. Once(wire)
      BY DEF Placed
    <3> QED
      BY <1>0, <1>c, <2>1, <3>1, QueueTail
  <2>3. Before(Numbers(pending), {Head(wire).n})
    BY <1>c, <2>2 DEF Before
  <2>4. InOrder(pending') /\ Numbers(pending') = Numbers(pending) \cup {Head(wire).n}
    BY <1>0, <1>c, <2>1, <2>2, <2>3, QueueAppend
  <2>5. Ordered'
    BY <1>c, <2>1, <2>2, <2>4 DEF Ordered, Before
  <2>6. Own'
    BY <2>1 DEF Own
  <2> QED
    BY <1>b, <2>1, <2>5, <2>6
<1>7. CASE send_acl \/ UNCHANGED vars
  <2>1. UNCHANGED <<wire, pending, deferred, returned, taken, doing, busy>>
    BY <1>7 DEF send_acl, vars
  <2> QED
    BY <1>b, <2>1 DEF Ordered, Own, Concerns
<1>8. ASSUME NEW op \in Opcode, command(op)
      PROVE  Ordered' /\ Own' /\ UNCHANGED taken
  <2>1. /\ UNCHANGED <<wire, pending, deferred, returned, taken>> /\ deferred = <<>>
        /\ doing'.opcode = op /\ busy' = busy \cup {doing'} /\ ~Open(op)
    BY <1>8 DEF command
  <2>2. Ordered'
    BY <1>b, <2>1 DEF Ordered
  <2>3. \A p \in ToSet(wire) \cup ToSet(pending) \cup ToSet(deferred) : p.opcode # op
    BY <1>0, <2>1, QueueConcat, QueueEmpty DEF Open
  <2>4. \A c \in busy : c.opcode # op
    BY <2>1 DEF Open
  <2>5. Own'
    BY <2>1, <2>3, <2>4 DEF Own, Concerns
  <2> QED
    BY <2>1, <2>2, <2>5
<1>9. CASE Ends
  <2> DEFINE t == [packet |-> Packet, by |-> doing.id]
  <2>1. /\ doing # Idle /\ Take /\ Matches(Packet) /\ PutBack(Rest) /\ taken' = taken \cup {t}
        /\ UNCHANGED <<returned, busy>>
    BY <1>9 DEF Ends
  <2>2. Concerns(Packet)
    BY <2>1 DEF Matches, Concerns
  <2>3. Packet.id = doing.id
    BY <1>b, <2>1, <2>2, TakeFrom DEF Own
  <2>4. \A u \in taken' : u.packet.id = u.by
    BY <1>b, <2>1, <2>3
  <2>5. doing.what = "command" => Rest = <<>>
    BY <1>b, <2>1, <2>2, TakeFrom DEF Own
  <2>6. /\ InOrder(wire') /\ InOrder(Rest) /\ Before(Numbers(Rest), Numbers(wire'))
        /\ Numbers(Rest) \subseteq Numbers(pending) /\ Numbers(wire') \subseteq Numbers(wire)
    BY <1>b, <2>1, TakeOrdered
  <2>7. Before(Numbers(deferred), Numbers(Rest))
    BY <1>c, <2>6 DEF Before
  <2>8. /\ InOrder(pending') /\ Numbers(pending') = Numbers(deferred) \cup Numbers(Rest)
        /\ ToSet(pending') = ToSet(deferred) \cup ToSet(Rest)
        /\ deferred' = <<>>
    BY <1>c, <2>1, <2>5, <2>6, <2>7, TakeTyped, PutBackOrdered
  <2>9. Numbers(deferred') = {} /\ InOrder(deferred') /\ ToSet(deferred') = {}
    BY <2>8, QueueEmpty
  <2>10. Ordered'
    BY <1>c, <2>1, <2>6, <2>8, <2>9 DEF Ordered, Before
  <2>11. Own'
    <3> SUFFICES ASSUME doing' # Idle PROVE Own'
      BY DEF Own
    <3>1. doing' = [doing EXCEPT !.what = "procedure"] /\ doing \in Waiting({"command", "procedure"})
      BY <1>9 DEF Ends, TypeOK
    <3>2. doing'.opcode = doing.opcode /\ doing'.id = doing.id /\ doing'.what = "procedure"
      BY <3>1 DEF Waiting
    <3>3. ToSet(wire') \cup ToSet(pending') \cup ToSet(deferred')
             \subseteq ToSet(wire) \cup ToSet(pending) \cup ToSet(deferred)
      BY <2>1, <2>8, <2>9, TakeFrom
    <3> QED
      BY <1>b, <2>1, <3>2, <3>3 DEF Own, Concerns
  <2> QED
    BY <2>4, <2>10, <2>11
<1>10. CASE Defers
  <2>1. /\ doing # Idle /\ Take /\ ~Matches(Packet)
        /\ pending' = Rest /\ deferred' = Append(deferred, Packet)
        /\ UNCHANGED <<returned, taken, doing, busy>>
    BY <1>10 DEF Defers
  <2>2. Before(Numbers(deferred), {Packet.n})
    BY <1>b, <2>1, TakeOrdered DEF Before
  <2>3. /\ InOrder(deferred') /\ Numbers(deferred') = Numbers(deferred) \cup {Packet.n}
        /\ ToSet(deferred') = ToSet(deferred) \cup {Packet}
    BY <1>0, <1>c, <2>1, <2>2, TakeTyped, QueueAppend
  <2>4. Ordered'
    BY <1>b, <1>c, <2>1, <2>3, TakeOrdered DEF Ordered, Before
  <2>5. /\ ToSet(wire') \cup ToSet(pending') \cup ToSet(deferred')
             \subseteq ToSet(wire) \cup ToSet(pending) \cup ToSet(deferred)
        /\ ToSet(pending') \subseteq ToSet(pending)
    BY <2>1, <2>3, TakeFrom
  <2>6. Own'
    BY <1>b, <2>1, <2>5 DEF Own, Concerns
  <2> QED
    BY <1>b, <2>1, <2>4, <2>6
<1>11. CASE TimesOut
  <2>1. pending = <<>> /\ PutBack(pending) /\ doing' = Idle /\ UNCHANGED <<wire, returned, taken>>
    BY <1>11 DEF TimesOut
  <2>2. Numbers(pending) = {}
    BY <2>1, QueueEmpty
  <2>3. InOrder(pending') /\ Numbers(pending') = Numbers(deferred) \cup Numbers(pending)
        /\ deferred' = <<>>
    BY <1>0, <1>c, <2>1, <2>2, PutBackOrdered DEF Before
  <2>4. Numbers(deferred') = {} /\ InOrder(deferred')
    BY <2>3, QueueEmpty
  <2>5. Ordered'
    BY <1>c, <2>1, <2>2, <2>3, <2>4 DEF Ordered, Before
  <2>6. Own'
    BY <2>1 DEF Own
  <2> QED
    BY <1>b, <2>1, <2>5, <2>6
<1>12. CASE ReadFails
  <2>1. deferred' = <<>> /\ doing' = Idle /\ UNCHANGED <<wire, pending, returned, taken>>
    BY <1>12 DEF ReadFails
  <2>2. Numbers(deferred') = {} /\ InOrder(deferred')
    BY <2>1, QueueEmpty
  <2>3. Ordered'
    BY <1>c, <2>1, <2>2 DEF Ordered, Before
  <2>4. Own'
    BY <2>1 DEF Own
  <2> QED
    BY <1>b, <2>1, <2>3, <2>4
<1> QED
  BY <1>b, <1>1, <1>2, <1>3, <1>5, <1>6, <1>7, <1>8, <1>9, <1>10, <1>11, <1>12 DEF Next

---------------------------------------------------------------------------

(* Nothing is deferred between two waits. *)
LEMMA IdleStep ==
    (doing = Idle => deferred = <<>>) /\ [Next]_vars => (doing = Idle => deferred = <<>>)'
<1> SUFFICES ASSUME doing = Idle => deferred = <<>>, [Next]_vars
             PROVE  (doing = Idle => deferred = <<>>)'
  OBVIOUS
<1> USE DEF hostVars
<1>1. ASSUME NEW op \in Opcode, command(op) PROVE doing' # Idle
  BY <1>1 DEF command, Idle
<1>2. CASE Ends \/ TimesOut \/ ReadFails
  BY <1>2 DEF Ends, TimesOut, ReadFails, PutBack
<1>3. CASE Defers
  BY <1>3 DEF Defers
<1>4. CASE \/ \E c \in busy : Answers(c) \/ Terminates(c)
           \/ Completes \/ Disconnects \/ read_packet \/ _poll_ready_events \/ send_acl
           \/ UNCHANGED vars
  BY <1>4 DEF Answers, Terminates, Completes, Disconnects, read_packet, _poll_ready_events,
              send_acl, vars
<1> QED
  BY <1>1, <1>2, <1>3, <1>4 DEF Next

LEMMA InitInv == Init => Inv
<1> SUFFICES ASSUME Init PROVE Inv
  OBVIOUS
<1> USE DEF Init
<1>1. IsFiniteSet(taken) /\ Cardinality(taken) = 0
  BY FS_EmptySet
<1>2. TypeOK
  <2>1. acl_credits \in Int /\ {arrived, held, lost, commands, acls} \subseteq Nat
    BY HostAssumption DEF HostAssumption
  <2>2. stale \in BOOLEAN
    OBVIOUS
  <2>3. {wire, pending, deferred, returned, dropped} \subseteq Seq(HciPacket)
    BY QueueEmpty
  <2> QED
    BY <1>1, <2>1, <2>2, <2>3 DEF TypeOK
<1>3. Numbers(wire) = {} /\ Numbers(pending) = {} /\ Numbers(deferred) = {} /\ Numbers(returned) = {}
      /\ Numbers(dropped) = {} /\ ToSet(wire) = {} /\ ToSet(pending) = {} /\ ToSet(deferred) = {}
      /\ NumbersTaken = {}
  BY QueueEmpty DEF NumbersTaken
<1>4. Placed
  <2>1. Apart({}, {}, {}, {}, {}, {}, 0)
    BY DEF Apart
  <2>2. Len(wire) + Len(pending) + Len(deferred) + Len(returned) + Len(dropped)
          + Cardinality(taken) = arrived
    BY <1>1, QueueEmpty
  <2> QED
    BY <1>3, <2>1, <2>2, QueueEmpty DEF Placed
<1>5. CreditsCounted
  BY DoneEmpty, HostAssumption DEF CreditsCounted, HostAssumption
<1>6. Fresh
  BY <1>3, QueueEmpty DEF Fresh, Ordered, Own, Before
<1> QED
  BY <1>2, <1>4, <1>5, <1>6 DEF Inv

(* Inv is an invariant. *)
LEMMA InvSafe == Spec => []Inv
<1>1. Inv /\ [Next]_vars => Inv'
  BY TypeStep, PlacedStep, CreditsStep, FreshStep, IdleStep DEF Inv
<1> QED
  BY InitInv, <1>1, PTL DEF Spec

(* Whatever waits give up or fail and whatever the host defers and puts    *)
(* back, every packet the port delivered is in one queue, with the caller, *)
(* with the wait it ended, or was deferred by a wait the port failed       *)
(* under, once.                                                            *)
THEOREM PacketsSafe == Spec => []NoneLost
<1>1. Inv => NoneLost
  <2> SUFFICES ASSUME Inv PROVE NoneLost
    OBVIOUS
  <2>0. /\ wire \in Seq(HciPacket) /\ pending \in Seq(HciPacket) /\ deferred \in Seq(HciPacket)
        /\ returned \in Seq(HciPacket) /\ dropped \in Seq(HciPacket)
    BY DEF Inv, TypeOK
  <2> DEFINE a   == wire \o pending
             b   == a \o deferred
             d   == b \o returned
             all == d \o dropped
  <2>1. a \in Seq(HciPacket) /\ Numbers(a) = Numbers(wire) \cup Numbers(pending)
        /\ Len(a) = Len(wire) + Len(pending)
    BY <2>0, QueueConcat
  <2> HIDE DEF a
  <2>2. b \in Seq(HciPacket) /\ Numbers(b) = Numbers(a) \cup Numbers(deferred)
        /\ Len(b) = Len(a) + Len(deferred)
    BY <2>0, <2>1, QueueConcat
  <2> HIDE DEF b
  <2>3. d \in Seq(HciPacket) /\ Numbers(d) = Numbers(b) \cup Numbers(returned)
        /\ Len(d) = Len(b) + Len(returned)
    BY <2>0, <2>2, QueueConcat
  <2> HIDE DEF d
  <2>4. Numbers(all) = Numbers(d) \cup Numbers(dropped) /\ Len(all) = Len(d) + Len(dropped)
    BY <2>0, <2>3, QueueConcat
  <2> HIDE DEF all
  <2>5. Len(all) = Len(wire) + Len(pending) + Len(deferred) + Len(returned) + Len(dropped)
    BY <2>1, <2>2, <2>3, <2>4
  <2>6. Len(all) + Cardinality(taken) = arrived
    BY <2>5 DEF Inv, Placed
  <2>7. Numbers(all) \cup NumbersTaken = 1 .. arrived
    BY <2>1, <2>2, <2>3, <2>4 DEF Inv, Placed, Apart
  <2>8. all = wire \o pending \o deferred \o returned \o dropped
    BY DEF all, a, b, d
  <2> QED
    BY <2>6, <2>7, <2>8 DEF NoneLost, Numbers, NumbersTaken
<1> QED
  BY InvSafe, <1>1, PTL

(* on_event counts each Number Of Completed Packets once, however often    *)
(* its packet is queued, deferred and read again: the credits and the      *)
(* packets out make up the window.                                         *)
THEOREM CreditsSafe == Spec => []CreditsCounted
<1>1. Inv => CreditsCounted
  BY DEF Inv
<1> QED
  BY InvSafe, <1>1, PTL

(* As long as no command is sent with an older one of its opcode open, the *)
(* caller is given the packets in the order they came in, and each wait    *)
(* ends with its own answer or terminal event, whatever commands gave up.  *)
THEOREM WaitsSafe == Spec => []FreshWaits
<1>1. Inv => FreshWaits
  <2> SUFFICES ASSUME Inv, ~stale
               PROVE  /\ InOrder(returned \o deferred \o pending)
                      /\ \A t \in taken : t.packet.id = t.by
    BY DEF FreshWaits
  <2>1. Ordered /\ \A t \in taken : t.packet.id = t.by
    BY DEF Inv, Fresh
  <2>2. /\ InOrder(returned) /\ InOrder(deferred) /\ InOrder(pending)
        /\ Before(Numbers(returned), Numbers(deferred))
        /\ Before(Numbers(returned) \cup Numbers(deferred), Numbers(pending))
    BY <2>1 DEF Ordered, Before
  <2>3. returned \in Seq(HciPacket) /\ deferred \in Seq(HciPacket) /\ pending \in Seq(HciPacket)
    BY DEF Inv, TypeOK
  <2> DEFINE a == returned \o deferred
  <2>4. a \in Seq(HciPacket) /\ InOrder(a) /\ Numbers(a) = Numbers(returned) \cup Numbers(deferred)
    BY <2>2, <2>3, QueueConcat
  <2> HIDE DEF a
  <2>5. InOrder(a \o pending)
    BY <2>2, <2>3, <2>4, QueueConcat
  <2> QED
    BY <2>1, <2>5 DEF a
<1> QED
  BY InvSafe, <1>1, PTL
=============================================================================
