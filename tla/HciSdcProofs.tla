---------------------------- MODULE HciSdcProofs ----------------------------
(***************************************************************************)
(* Proofs about HciSdc, for every table, every set of handles and opcodes, *)
(* every build option and every bound: sums, the command path, the types,  *)
(* then the inductive invariant Inv part by part (advertising family,      *)
(* hold, delayed completion, answers of a reset and of a connection,       *)
(* links, tracking table, credits), the theorems it gives and the          *)
(* refinement of HciCommandFlow.                                           *)
(***************************************************************************)
EXTENDS HciSdc, FiniteSetTheorems, TLAPS

(***************************************************************************)
(* The sums of the model (SumFunction and SumFunctionOnSet of module       *)
(* Functions, which fold a function in an unspecified order over a finite  *)
(* set).                                                                   *)
(***************************************************************************)

Pick(s) == CHOOSE x \in s : TRUE

(* g is a table of the fold of f over the subsets of T. *)
Sums(f, T, g) == g = [s \in SUBSET T |-> IF s = {} THEN 0 ELSE f[Pick(s)] + g[s \ {Pick(s)}]]

(* The sum is an entry of such a table, if there is one. *)
LEMMA SumUnfold ==
    ASSUME NEW f, NEW T
    PROVE  SumFunctionOnSet(f, T) = (CHOOSE g : Sums(f, T, g))[T]
BY DEF SumFunctionOnSet, FoldFunctionOnSet, MapThenFoldSet, Sums, Pick

(* Induction over the subsets of a finite set, as a set of counterexamples *)
(* with a least element.                                                   *)
LEMMA SubsetMin ==
    ASSUME NEW S, IsFiniteSet(S), NEW B, B \subseteq SUBSET S, B # {}
    PROVE  \E t \in B : \A u \in B : u \subseteq t => u = t
<1>1. IsWellFoundedOn(StrictSubsetOrdering(S), SUBSET S)
  BY FS_StrictSubsetOrderingWellFounded, FS_FiniteSubsetsOfFinite
<1>2. PICK t \in B : \A u \in B : <<u, t>> \notin StrictSubsetOrdering(S)
  BY <1>1, WFMin
<1> QED
  BY <1>2 DEF StrictSubsetOrdering

(* The step of that induction: Pick takes an element away. *)
LEMMA PickRemoves ==
    ASSUME NEW s, s # {}
    PROVE  Pick(s) \in s /\ s \ {Pick(s)} \subseteq s /\ s \ {Pick(s)} # s
BY DEF Pick

(* Two tables agree where both are defined. *)
LEMMA SumsAgree ==
    ASSUME NEW f, NEW S, NEW T, IsFiniteSet(T), NEW g, NEW h, T \subseteq S,
           Sums(f, S, g), Sums(f, T, h)
    PROVE  \A s \in SUBSET T : h[s] = g[s]
<1> DEFINE B == {s \in SUBSET T : h[s] # g[s]}
<1> SUFFICES ASSUME B # {} PROVE FALSE
  OBVIOUS
<1>0. B \subseteq SUBSET T
  OBVIOUS
<1>1. PICK t \in B : \A u \in B : u \subseteq t => u = t
  <2> HIDE DEF B
  <2> QED
    BY <1>0, SubsetMin
<1>2. /\ h[t] = IF t = {} THEN 0 ELSE f[Pick(t)] + h[t \ {Pick(t)}]
      /\ g[t] = IF t = {} THEN 0 ELSE f[Pick(t)] + g[t \ {Pick(t)}]
  BY DEF Sums
<1>3. t # {} => t \ {Pick(t)} \in SUBSET T /\ t \ {Pick(t)} \notin B
  BY <1>1, PickRemoves
<1> QED
  BY <1>2, <1>3

(* There is a table. *)
LEMMA SumsExist ==
    ASSUME NEW f, NEW S, IsFiniteSet(S)
    PROVE  \E g : Sums(f, S, g)
<1> DEFINE B == {s \in SUBSET S : ~ \E g : Sums(f, s, g)}
<1> SUFFICES ASSUME B # {} PROVE FALSE
  OBVIOUS
<1>0. B \subseteq SUBSET S
  OBVIOUS
<1>1. PICK t \in B : \A u \in B : u \subseteq t => u = t
  <2> HIDE DEF B
  <2> QED
    BY <1>0, SubsetMin
<1> DEFINE Fold(s) == CHOOSE g : Sums(f, s, g)
           G(s)    == Fold(s)[s]
           g       == [s \in SUBSET t |-> IF s = {} THEN 0 ELSE f[Pick(s)] + G(s \ {Pick(s)})]
<1>2. ASSUME NEW s \in SUBSET t, s # t PROVE Sums(f, s, Fold(s))
  BY <1>1, <1>2
<1>3. ASSUME NEW s \in SUBSET t, s # t PROVE G(s) = g[s]
  <2>1. G(s) = IF s = {} THEN 0 ELSE f[Pick(s)] + Fold(s)[s \ {Pick(s)}]
    <3>1. Sums(f, s, Fold(s))
      BY <1>2, <1>3
    <3> HIDE DEF Fold
    <3> QED
      BY <3>1 DEF Sums
  <2>2. ASSUME s # {} PROVE Fold(s)[s \ {Pick(s)}] = G(s \ {Pick(s)})
    <3> DEFINE u == s \ {Pick(s)}
    <3>1. u \subseteq s /\ u \in SUBSET t /\ u # t
      BY <1>3, <2>2, PickRemoves
    <3>2. IsFiniteSet(u)
      BY <3>1, FS_Subset
    <3>3. Sums(f, s, Fold(s)) /\ Sums(f, u, Fold(u))
      BY <1>2, <1>3, <3>1
    <3> HIDE DEF u, Fold
    <3>4. \A v \in SUBSET u : Fold(u)[v] = Fold(s)[v]
      BY <3>1, <3>2, <3>3, SumsAgree
    <3> QED
      BY <3>4 DEF u
  <2> QED
    BY <2>1, <2>2
<1>4. Sums(f, t, g)
  <2>1. ASSUME NEW s \in SUBSET t, s # {} PROVE G(s \ {Pick(s)}) = g[s \ {Pick(s)}]
    BY <1>3, <2>1, PickRemoves
  <2> HIDE DEF G
  <2> QED
    BY <2>1 DEF Sums
<1> QED
  BY <1>4

---------------------------------------------------------------------------

(* The sum over no index is 0. *)
LEMMA SumEmpty ==
    ASSUME NEW f
    PROVE  SumFunctionOnSet(f, {}) = 0
<1>1. IsFiniteSet({})
  BY FS_EmptySet
<1>2. PICK g : g = CHOOSE h : Sums(f, {}, h)
  OBVIOUS
<1>3. Sums(f, {}, g)
  BY <1>1, <1>2, SumsExist
<1> QED
  BY <1>2, <1>3, SumUnfold DEF Sums

(* The sum over a set is an index and the sum over the others: first for   *)
(* the index Pick takes.                                                   *)
LEMMA SumPick ==
    ASSUME NEW f, NEW S, IsFiniteSet(S), S # {}
    PROVE  SumFunctionOnSet(f, S) = f[Pick(S)] + SumFunctionOnSet(f, S \ {Pick(S)})
<1> DEFINE R == S \ {Pick(S)}
<1>1. R \subseteq S /\ IsFiniteSet(R)
  BY PickRemoves, FS_Subset
<1>2. PICK g : g = CHOOSE h : Sums(f, S, h)
  OBVIOUS
<1>3. PICK r : r = CHOOSE h : Sums(f, R, h)
  OBVIOUS
<1> HIDE DEF R
<1>4. Sums(f, S, g) /\ Sums(f, R, r)
  BY <1>1, <1>2, <1>3, SumsExist
<1>5. r[R] = g[R]
  BY <1>1, <1>4, SumsAgree
<1>6. g[S] = f[Pick(S)] + g[R]
  BY <1>4 DEF Sums, R
<1>7. SumFunctionOnSet(f, S) = g[S] /\ SumFunctionOnSet(f, R) = r[R]
  BY <1>2, <1>3, SumUnfold
<1> QED
  BY <1>5, <1>6, <1>7 DEF R

(* A sum of integers is an integer, a sum of naturals a natural. *)
LEMMA SumType ==
    ASSUME NEW S, IsFiniteSet(S), NEW f
    PROVE  /\ (\A x \in S : f[x] \in Int) => SumFunctionOnSet(f, S) \in Int
           /\ (\A x \in S : f[x] \in Nat) => SumFunctionOnSet(f, S) \in Nat
<1>1. ASSUME NEW N, N = Int \/ N = Nat, \A x \in S : f[x] \in N
      PROVE  SumFunctionOnSet(f, S) \in N
  <2> DEFINE B == {s \in SUBSET S : SumFunctionOnSet(f, s) \notin N}
  <2> SUFFICES ASSUME B # {} PROVE FALSE
    OBVIOUS
  <2>0. B \subseteq SUBSET S
    OBVIOUS
  <2>1. PICK t \in B : \A u \in B : u \subseteq t => u = t
    <3> HIDE DEF B
    <3> QED
      BY <2>0, SubsetMin
  <2>2. t # {}
    BY <1>1, SumEmpty
  <2>3. IsFiniteSet(t)
    BY FS_Subset
  <2>4. SumFunctionOnSet(f, t \ {Pick(t)}) \in N /\ f[Pick(t)] \in N
    BY <1>1, <2>1, <2>2, PickRemoves
  <2> QED
    BY <1>1, <2>2, <2>3, <2>4, SumPick
<1> QED
  BY <1>1

(* The same for any index: the order of a sum of integers is immaterial.   *)
LEMMA SumRemove ==
    ASSUME NEW S, IsFiniteSet(S), NEW f, \A x \in S : f[x] \in Int, NEW a \in S
    PROVE  SumFunctionOnSet(f, S) = f[a] + SumFunctionOnSet(f, S \ {a})
<1> DEFINE F(s) == SumFunctionOnSet(f, s)
           B == {s \in SUBSET S : \E b \in s : F(s) # f[b] + F(s \ {b})}
<1> SUFFICES ASSUME B # {} PROVE FALSE
  OBVIOUS
<1>0. B \subseteq SUBSET S
  OBVIOUS
<1>1. PICK t \in B : \A u \in B : u \subseteq t => u = t
  <2> HIDE DEF B
  <2> QED
    BY <1>0, SubsetMin
<1>2. PICK b \in t : F(t) # f[b] + F(t \ {b})
  OBVIOUS
<1>a. \A s \in SUBSET S : IsFiniteSet(s) /\ F(s) \in Int
  BY FS_Subset, SumType
<1> DEFINE p == Pick(t)
<1> HIDE DEF F
<1>3. t # {} /\ F(t) = f[p] + F(t \ {p}) /\ p \in t
  BY <1>a, <1>2, SumPick, PickRemoves DEF F
<1> HIDE DEF p
<1>4. p # b
  BY <1>2, <1>3
<1>5. t \ {p} \notin B /\ t \ {b} \notin B
  BY <1>1, <1>2, <1>3
<1>6. F(t \ {p}) = f[b] + F((t \ {p}) \ {b})
  BY <1>2, <1>3, <1>4, <1>5
<1>7. F(t \ {b}) = f[p] + F((t \ {b}) \ {p})
  BY <1>2, <1>3, <1>4, <1>5
<1>8. (t \ {p}) \ {b} = (t \ {b}) \ {p}
  OBVIOUS
<1>9. f[b] \in Int /\ f[p] \in Int /\ F((t \ {b}) \ {p}) \in Int
  BY <1>a, <1>2, <1>3
<1>10. F(t) = f[p] + (f[b] + F((t \ {b}) \ {p}))
  BY <1>3, <1>6, <1>8
<1>11. f[b] + F(t \ {b}) = f[b] + (f[p] + F((t \ {b}) \ {p}))
  BY <1>7
<1> HIDE DEF B
<1> QED
  BY <1>2, <1>9, <1>10, <1>11

---------------------------------------------------------------------------

(* Functions that agree on the indices have the same sum. *)
LEMMA SumEqual ==
    ASSUME NEW S, IsFiniteSet(S), NEW f, NEW g, \A x \in S : f[x] = g[x]
    PROVE  SumFunctionOnSet(f, S) = SumFunctionOnSet(g, S)
<1> DEFINE F(s) == SumFunctionOnSet(f, s)
           G(s) == SumFunctionOnSet(g, s)
           B == {s \in SUBSET S : F(s) # G(s)}
<1> SUFFICES ASSUME B # {} PROVE FALSE
  OBVIOUS
<1>0. B \subseteq SUBSET S
  OBVIOUS
<1>1. PICK t \in B : \A u \in B : u \subseteq t => u = t
  <2> HIDE DEF B
  <2> QED
    BY <1>0, SubsetMin
<1>2. IsFiniteSet(t)
  BY FS_Subset
<1>3. t # {}
  BY SumEmpty
<1>4. /\ F(t) = f[Pick(t)] + F(t \ {Pick(t)})
      /\ G(t) = g[Pick(t)] + G(t \ {Pick(t)})
  BY <1>2, <1>3, SumPick
<1>5. F(t \ {Pick(t)}) = G(t \ {Pick(t)}) /\ Pick(t) \in S
  BY <1>1, <1>3, PickRemoves
<1> HIDE DEF F, G
<1> QED
  BY <1>4, <1>5

(* The sum of nothing but zeros. *)
LEMMA SumZero ==
    ASSUME NEW S, IsFiniteSet(S), NEW f, \A x \in S : f[x] = 0
    PROVE  SumFunctionOnSet(f, S) = 0
<1> DEFINE F(s) == SumFunctionOnSet(f, s)
           B == {s \in SUBSET S : F(s) # 0}
<1> SUFFICES ASSUME B # {} PROVE FALSE
  OBVIOUS
<1>0. B \subseteq SUBSET S
  OBVIOUS
<1>1. PICK t \in B : \A u \in B : u \subseteq t => u = t
  <2> HIDE DEF B
  <2> QED
    BY <1>0, SubsetMin
<1>2. IsFiniteSet(t)
  BY FS_Subset
<1>3. t # {}
  BY SumEmpty
<1>4. F(t) = f[Pick(t)] + F(t \ {Pick(t)})
  BY <1>2, <1>3, SumPick
<1>5. F(t \ {Pick(t)}) = 0 /\ Pick(t) \in S
  BY <1>1, <1>3, PickRemoves
<1> HIDE DEF F
<1> QED
  BY <1>4, <1>5

(* The sum of a pointwise difference. *)
LEMMA SumMinus ==
    ASSUME NEW S, IsFiniteSet(S), NEW f, NEW g, NEW d,
           \A x \in S : f[x] \in Int /\ g[x] \in Int /\ d[x] = f[x] - g[x]
    PROVE  SumFunctionOnSet(d, S) = SumFunctionOnSet(f, S) - SumFunctionOnSet(g, S)
<1> DEFINE F(s) == SumFunctionOnSet(f, s)
           G(s) == SumFunctionOnSet(g, s)
           D(s) == SumFunctionOnSet(d, s)
           B == {s \in SUBSET S : D(s) # F(s) - G(s)}
<1> SUFFICES ASSUME B # {} PROVE FALSE
  OBVIOUS
<1>0. B \subseteq SUBSET S
  OBVIOUS
<1>1. PICK t \in B : \A u \in B : u \subseteq t => u = t
  <2> HIDE DEF B
  <2> QED
    BY <1>0, SubsetMin
<1>2. IsFiniteSet(t)
  BY FS_Subset
<1>3. t # {}
  <2>1. F({}) = 0 /\ G({}) = 0 /\ D({}) = 0
    BY SumEmpty
  <2>2. D(t) # F(t) - G(t)
    OBVIOUS
  <2> HIDE DEF F, G, D, B
  <2> QED
    BY <2>1, <2>2
<1> DEFINE p == Pick(t)
           r == t \ {p}
<1>4. /\ F(t) = f[p] + F(r)
      /\ G(t) = g[p] + G(r)
      /\ D(t) = d[p] + D(r)
  BY <1>2, <1>3, SumPick
<1>5. D(r) = F(r) - G(r) /\ p \in S /\ r \subseteq S
  BY <1>1, <1>3, PickRemoves
<1>6. IsFiniteSet(r)
  BY <1>5, FS_Subset
<1>7. F(r) \in Int /\ G(r) \in Int
  BY <1>5, <1>6, SumType
<1>8. D(t) # F(t) - G(t)
  OBVIOUS
<1> HIDE DEF F, G, D, p, r, B
<1> QED
  BY <1>4, <1>5, <1>7, <1>8

(* A smaller function has a smaller sum. *)
LEMMA SumMonotone ==
    ASSUME NEW S, IsFiniteSet(S), NEW f, NEW g,
           \A x \in S : f[x] \in Int /\ g[x] \in Int /\ f[x] <= g[x]
    PROVE  SumFunctionOnSet(f, S) <= SumFunctionOnSet(g, S)
<1> DEFINE d == [x \in S |-> g[x] - f[x]]
<1>1. \A x \in S : d[x] \in Nat /\ d[x] = g[x] - f[x]
  OBVIOUS
<1> HIDE DEF d
<1>2. SumFunctionOnSet(d, S) \in Nat
  BY <1>1, SumType
<1>3. SumFunctionOnSet(d, S) = SumFunctionOnSet(g, S) - SumFunctionOnSet(f, S)
  BY <1>1, SumMinus
<1>4. SumFunctionOnSet(f, S) \in Int /\ SumFunctionOnSet(g, S) \in Int
  BY SumType
<1> QED
  BY <1>2, <1>3, <1>4

(* Two functions that agree but in one place. *)
LEMMA SumExcept ==
    ASSUME NEW S, IsFiniteSet(S), NEW f, NEW g, NEW a \in S,
           \A x \in S : f[x] \in Int /\ g[x] \in Int,
           \A x \in S : x # a => f[x] = g[x]
    PROVE  SumFunctionOnSet(g, S) = SumFunctionOnSet(f, S) - f[a] + g[a]
<1>1. IsFiniteSet(S \ {a})
  BY FS_Subset
<1>2. SumFunctionOnSet(f, S \ {a}) = SumFunctionOnSet(g, S \ {a})
  BY <1>1, SumEqual
<1>3. SumFunctionOnSet(f, S \ {a}) \in Int
  BY <1>1, SumType
<1>4. SumFunctionOnSet(f, S) = f[a] + SumFunctionOnSet(f, S \ {a})
  BY SumRemove
<1>5. SumFunctionOnSet(g, S) = g[a] + SumFunctionOnSet(g, S \ {a})
  BY SumRemove
<1> QED
  BY <1>2, <1>3, <1>4, <1>5

(* A natural is not larger than a sum of naturals it is part of. *)
LEMMA SumBounds ==
    ASSUME NEW S, IsFiniteSet(S), NEW f, \A x \in S : f[x] \in Nat, NEW a \in S
    PROVE  f[a] <= SumFunctionOnSet(f, S)
<1>1. IsFiniteSet(S \ {a})
  BY FS_Subset
<1>2. SumFunctionOnSet(f, S \ {a}) \in Nat
  BY <1>1, SumType
<1>3. SumFunctionOnSet(f, S) = f[a] + SumFunctionOnSet(f, S \ {a})
  BY SumRemove
<1> QED
  BY <1>2, <1>3

---------------------------------------------------------------------------
(* Sums over a queue: what an element adds at the end, and what is left    *)
(* when the first goes.                                                    *)

LEMMA SumAppend ==
    ASSUME NEW n \in Nat, NEW f, \A i \in 1 .. n + 1 : f[i] \in Int
    PROVE  SumFunctionOnSet(f, 1 .. n + 1) = SumFunctionOnSet(f, 1 .. n) + f[n + 1]
<1>1. IsFiniteSet(1 .. n + 1) /\ IsFiniteSet(1 .. n)
  BY FS_Interval
<1>2. (1 .. n + 1) \ {n + 1} = 1 .. n /\ n + 1 \in 1 .. n + 1
  OBVIOUS
<1>3. SumFunctionOnSet(f, 1 .. n + 1) = f[n + 1] + SumFunctionOnSet(f, 1 .. n)
  BY <1>1, <1>2, SumRemove
<1>4. SumFunctionOnSet(f, 1 .. n) \in Int
  <2>1. \A i \in 1 .. n : f[i] \in Int
    OBVIOUS
  <2> QED
    BY <1>1, <2>1, SumType
<1> QED
  BY <1>2, <1>3, <1>4

LEMMA SumTail ==
    ASSUME NEW n \in Nat, NEW f, \A i \in 1 .. n + 1 : f[i] \in Int,
           NEW g, \A i \in 1 .. n : g[i] = f[i + 1]
    PROVE  SumFunctionOnSet(f, 1 .. n + 1) = f[1] + SumFunctionOnSet(g, 1 .. n)
<1> DEFINE F(s) == SumFunctionOnSet(f, s)
           G(s) == SumFunctionOnSet(g, s)
           Up(s) == {i + 1 : i \in s}
           B == {s \in SUBSET (1 .. n) : G(s) # F(Up(s))}
<1>a. IsFiniteSet(1 .. n + 1) /\ IsFiniteSet(1 .. n)
  BY FS_Interval
<1>1. ASSUME B # {} PROVE FALSE
  <2>0. B \subseteq SUBSET (1 .. n)
    OBVIOUS
  <2>1. PICK t \in B : \A u \in B : u \subseteq t => u = t
    <3>1. PICK I : I = 1 .. n
      OBVIOUS
    <3>2. IsFiniteSet(I) /\ B \subseteq SUBSET I /\ B # {}
      BY <1>1, <1>a, <2>0, <3>1
    <3> HIDE DEF B
    <3> QED
      BY <3>2, SubsetMin
  <2> DEFINE p == Pick(t)
             r == t \ {p}
  <2>2. t # {}
    <3>1. Up({}) = {}
      OBVIOUS
    <3> QED
      BY <3>1, SumEmpty
  <2>3. p \in t /\ r \in SUBSET (1 .. n) /\ r \notin B /\ t \subseteq 1 .. n
    BY <2>1, <2>2, PickRemoves
  <2>4. IsFiniteSet(t)
    BY <1>a, <2>3, FS_Subset
  <2>5. G(t) = g[p] + G(r)
    BY <2>2, <2>4, SumPick
  <2>6. /\ Up(t) \subseteq 1 .. n + 1
        /\ p + 1 \in Up(t)
        /\ Up(t) \ {p + 1} = Up(r)
    <3> HIDE DEF p, B
    <3> QED
      BY <2>3
  <2>7. IsFiniteSet(Up(t))
    BY <1>a, <2>6, FS_Subset
  <2>8. F(Up(t)) = f[p + 1] + F(Up(r))
    <3> HIDE DEF Up, p, r
    <3>1. \A x \in Up(t) : f[x] \in Int
      BY <2>6
    <3> QED
      BY <2>6, <2>7, <3>1, SumRemove
  <2>9. G(r) = F(Up(r)) /\ g[p] = f[p + 1] /\ G(t) # F(Up(t))
    BY <2>3
  <2> HIDE DEF F, G, Up, p, r, B
  <2> QED
    BY <2>5, <2>8, <2>9
<1>2. G(1 .. n) = F(Up(1 .. n))
  BY <1>1
<1>3. Up(1 .. n) = (1 .. n + 1) \ {1}
  <2>1. ASSUME NEW x \in (1 .. n + 1) \ {1} PROVE x \in Up(1 .. n)
    <3>1. x - 1 \in 1 .. n /\ x = (x - 1) + 1
      OBVIOUS
    <3> QED
      BY <3>1
  <2> QED
    BY <2>1
<1>4. F(1 .. n + 1) = f[1] + F((1 .. n + 1) \ {1})
  <2>1. PICK I : I = 1 .. n + 1
    OBVIOUS
  <2>2. IsFiniteSet(I) /\ 1 \in I /\ \A x \in I : f[x] \in Int
    BY <1>a, <2>1
  <2>3. SumFunctionOnSet(f, I) = f[1] + SumFunctionOnSet(f, I \ {1})
    BY <2>2, SumRemove
  <2> QED
    BY <2>1, <2>3
<1> QED
  BY <1>2, <1>3, <1>4

---------------------------------------------------------------------------
(* The same for functions whose domain is that of a sequence. *)

(* The sum of a sequence of numbers. *)
LEMMA SumNat ==
    ASSUME NEW n \in Nat, NEW f, DOMAIN f = 1 .. n, \A i \in 1 .. n : f[i] \in Nat
    PROVE  SumFunction(f) \in Nat
<1>1. IsFiniteSet(1 .. n)
  BY FS_Interval
<1>2. SumFunctionOnSet(f, 1 .. n) \in Nat
  BY <1>1, SumType
<1> QED
  BY <1>2 DEF SumFunction

(* An element is appended. *)
LEMMA SumGrows ==
    ASSUME NEW n \in Nat, NEW f, NEW g, DOMAIN f = 1 .. n, DOMAIN g = 1 .. n + 1,
           \A i \in 1 .. n : f[i] = g[i], \A i \in 1 .. n + 1 : g[i] \in Nat
    PROVE  SumFunction(f) \in Nat /\ SumFunction(g) = SumFunction(f) + g[n + 1]
<1>a. IsFiniteSet(1 .. n)
  BY FS_Interval
<1>1. \A i \in 1 .. n : f[i] \in Nat
  <2>1. \A i \in 1 .. n : i \in 1 .. n + 1
    OBVIOUS
  <2> QED
    BY <2>1
<1>2. SumFunctionOnSet(f, 1 .. n) = SumFunctionOnSet(g, 1 .. n)
  BY <1>a, SumEqual
<1>3. SumFunctionOnSet(g, 1 .. n + 1) = SumFunctionOnSet(g, 1 .. n) + g[n + 1]
  <2>1. \A i \in 1 .. n + 1 : g[i] \in Int
    OBVIOUS
  <2> QED
    BY <2>1, SumAppend
<1>4. SumFunction(f) \in Nat
  BY <1>1, SumNat
<1> QED
  BY <1>2, <1>3, <1>4 DEF SumFunction

(* The first element goes. *)
LEMMA SumShrinks ==
    ASSUME NEW n \in Nat, NEW f \in [1 .. n + 1 -> Nat], NEW g \in [1 .. n -> Nat],
           \A i \in 1 .. n : g[i] = f[i + 1]
    PROVE  SumFunction(g) \in Nat /\ SumFunction(f) = f[1] + SumFunction(g)
<1>1. /\ DOMAIN f = 1 .. n + 1 /\ DOMAIN g = 1 .. n
      /\ \A i \in 1 .. n : g[i] \in Nat
  OBVIOUS
<1>2. SumFunctionOnSet(f, 1 .. n + 1) = f[1] + SumFunctionOnSet(g, 1 .. n)
  <2>1. \A i \in 1 .. n + 1 : f[i] \in Int
    OBVIOUS
  <2> QED
    BY <2>1, SumTail
<1>3. SumFunction(g) \in Nat
  BY <1>1, SumNat
<1> QED
  BY <1>1, <1>2, <1>3 DEF SumFunction

---------------------------------------------------------------------------

(* Taking the invariant across a command: it starts with nothing pending.  *)
LEMMA PutCommandKeepsOneCredit ==
    ASSUME OneCommandCredit, PutCommandPacket
    PROVE  OneCommandCredit'
<1> USE DEF OneCommandCredit, CommandTurn, NoResponse, DelayedCommandPending,
            Commands!EventPending, Compat!EventPending
<1>1. PICK cmd \in CommandPacket :
          \/ PutCommandRejected(cmd)
          \/ PutCommandRefused(cmd)
          \/ \E status \in HandlerStatus :
                \/ PutCompatCommand(cmd, status)
                \/ PutReset(cmd, status)
                \/ PutReadBufferSize(cmd, status)
                \/ PutCommand(cmd, status)
                \/ PutDelayedCommand(cmd, status)
  BY DEF PutCommandPacket
<1>2. CASE PutCommandRejected(cmd)
  BY <1>2 DEF PutCommandRejected
<1>3. CASE PutCommandRefused(cmd)
  BY <1>3 DEF PutCommandRefused
<1>4. ASSUME NEW status \in HandlerStatus, PutCompatCommand(cmd, status)
      PROVE  OneCommandCredit'
  BY <1>4 DEF PutCompatCommand
<1>5. ASSUME NEW status \in HandlerStatus, PutReset(cmd, status)
      PROVE  OneCommandCredit'
  BY <1>5 DEF PutReset, EnterHandler
<1>6. ASSUME NEW status \in HandlerStatus, PutReadBufferSize(cmd, status)
      PROVE  OneCommandCredit'
  BY <1>6 DEF PutReadBufferSize, EnterHandler
<1>7. ASSUME NEW status \in HandlerStatus, PutCommand(cmd, status)
      PROVE  OneCommandCredit'
  BY <1>7 DEF PutCommand, EnterHandler
<1>8. ASSUME NEW status \in HandlerStatus, PutDelayedCommand(cmd, status)
      PROVE  OneCommandCredit'
  BY <1>8 DEF PutDelayedCommand, EnterHandler
<1>9. QED
  BY <1>1, <1>2, <1>3, <1>4, <1>5, <1>6, <1>7, <1>8

(* A poll of the controller keeps it: a response is fetched only when no   *)
(* delayed completion is pending.                                          *)
LEMMA RxKeepsOneCredit ==
    ASSUME OneCommandCredit, Rx
    PROVE  OneCommandCredit'
<1> USE DEF OneCommandCredit, NoResponse, DelayedCommandPending,
            Commands!EventPending, Compat!EventPending, Commands!NoEvent, Compat!NoEvent
<1>1. ASSUME NEW t \in PacketType, RxHeld(t) PROVE OneCommandCredit'
  BY <1>1 DEF RxHeld, cmdVars
<1>2. ASSUME NEW t \in PacketType, RxResponse(t) PROVE OneCommandCredit'
  BY <1>2 DEF RxResponse, Commands!HciCmdDispatchGet, Compat!HciCmdDispatchGet
<1>3. ASSUME NEW t \in PacketType, HciSdcBuildCreditEvent(t) PROVE OneCommandCredit'
  BY <1>3 DEF HciSdcBuildCreditEvent, cmdVars
<1>4. ASSUME NEW t \in PacketType, RxQueue(t) PROVE OneCommandCredit'
  BY <1>4 DEF RxQueue, QueueTurn
<1>5. CASE RxBad
  BY <1>5 DEF RxBad, QueueTurn
<1>6. CASE RxEmpty
  BY <1>6 DEF RxEmpty, QueueTurn
<1>7. QED
  BY <1>1, <1>2, <1>3, <1>4, <1>5, <1>6 DEF Rx

(* A link whose end is masked goes, and says nothing. *)
LEMMA MaskedQuiet ==
    ASSUME SdcEndsMasked
    PROVE  \E h \in Handle :
              /\ sdcLinks' = sdcLinks \ {h} /\ sdcBuffered' = [sdcBuffered EXCEPT ![h] = 0]
              /\ hostUntold' = hostUntold \union {h}
              /\ UNCHANGED <<cmdVars, creditVars, aclVars, outVars,
                             sdcQueue, sdcCreating, sdcDelayed, sdcFamilies,
                             hostLinks, hostInFlight, hostResetting, hostCreating>>
BY DEF SdcEndsMasked, SdcDisconnectMasked

(* Every other step leaves the command path alone. *)
LEMMA OthersKeepCommandPath ==
    ASSUME PutAclPacket \/ SdcStep \/ SdcEndsMasked \/ HostReceives
    PROVE  UNCHANGED cmdVars
<1>1. CASE PutAclPacket
  BY <1>1 DEF PutAclPacket, PutAclOversize, PutAclOverLimit, PutAclError, PutAcl, PutAclAgain
<1>2. CASE SdcStep
  BY <1>2 DEF SdcStep, SdcConnect, SdcCompletes, SdcDisconnect, SdcDisconnectFails,
              SdcDelayedCompletes, SdcData, SdcQueues
<1>3. CASE HostReceives
  BY <1>3 DEF HostReceives
<1>4. CASE SdcEndsMasked
  BY <1>4, MaskedQuiet
<1>5. QED
  BY <1>1, <1>2, <1>3, <1>4

(* HciSdcPutPacket and HciSdcGetPacket never let two commands be           *)
(* unanswered at a time, across both dispatchers and the delayed           *)
(* completion, whatever the tables and the build options are.              *)
THEOREM CommandCreditSafe == Spec => []OneCommandCredit
<1>1. Init => OneCommandCredit
  BY DEF Init, OneCommandCredit, NoResponse, DelayedCommandPending,
         Commands!EventPending, Compat!EventPending,
         Compat!HciCmdDispatchInit, Compat!NoEvent
<1>2. OneCommandCredit /\ [Next]_vars => OneCommandCredit'
  <2> SUFFICES ASSUME OneCommandCredit, [Next]_vars
               PROVE  OneCommandCredit'
    OBVIOUS
  <2>1. CASE PutCommandPacket
    BY <2>1, PutCommandKeepsOneCredit
  <2>2. CASE Rx
    BY <2>2, RxKeepsOneCredit
  <2>3. CASE PutAclPacket \/ SdcStep \/ SdcEndsMasked \/ HostReceives
    BY <2>3, OthersKeepCommandPath
       DEF cmdVars, OneCommandCredit, NoResponse, DelayedCommandPending,
           Commands!EventPending, Compat!EventPending
  <2>4. CASE UNCHANGED vars
    BY <2>4 DEF vars, cmdVars, OneCommandCredit, NoResponse, DelayedCommandPending,
           Commands!EventPending, Compat!EventPending
  <2>5. QED
    BY <2>1, <2>2, <2>3, <2>4 DEF Next
<1>3. QED
  BY <1>1, <1>2, PTL DEF Spec

---------------------------------------------------------------------------
(* Type correctness. *)

(* The two dispatchers speak of the same statuses and events. *)
LEMMA SameEvents ==
    Compat!Status = Commands!Status /\ Compat!EventRecord = Commands!EventRecord
<1>1. Compat!Status = Commands!Status
  BY DEF Commands!Status, Compat!Status,
     Commands!SUCCESS, Commands!UNKNOWN_COMMAND, Commands!INVALID_PARAMETERS,
     Commands!MEMORY_EXCEEDED, Commands!DISALLOWED, Commands!UNSPECIFIED,
     Compat!SUCCESS, Compat!UNKNOWN_COMMAND, Compat!INVALID_PARAMETERS,
     Compat!MEMORY_EXCEEDED, Compat!DISALLOWED, Compat!UNSPECIFIED
<1>2. QED
  BY <1>1 DEF Commands!EventRecord, Compat!EventRecord, Commands!Response, Compat!Response

(* The Vendor dispatcher only ever builds event records. *)
LEMMA VendorTyped ==
    ASSUME NEW cmd \in CommandPacket, NEW status \in HandlerStatus,
           \/ Commands!PutRejected(cmd)
           \/ Commands!PutRefused(cmd, Commands!DISALLOWED)
           \/ Commands!PutHandled(cmd, ResultOf(Table[cmd.op], status))
    PROVE  cmdEvent' \in Commands!EventRecord
<1>0. cmd.op \in Opcode
  BY SdcAssumption DEF SdcAssumption
<1>a. status \in Commands!Status
  BY TableAssumption DEF TableAssumption
<1>1. ASSUME NEW st \in Commands!Status, NEW n \in Nat
      PROVE  /\ Commands!HciCmdBuildComplete(cmd.op, st, n) \in Commands!EventRecord
             /\ Commands!HciCmdBuildStatus(cmd.op, st) \in Commands!EventRecord
             /\ Commands!NoEvent \in Commands!EventRecord
  BY <1>0 DEF Commands!HciCmdBuildComplete, Commands!HciCmdBuildStatus, Commands!EventRecord, Commands!Response,
     Commands!CompleteBaseSize, Commands!StatusSize, Commands!NoEvent, Commands!SUCCESS, Commands!Status
<1>2. cmd.op \in DOMAIN Table => Table[cmd.op].ReturnLen \in Nat
  BY TableAssumption DEF TableAssumption, Commands!DispatchAssumption, Commands!Row
<1>3. ASSUME NEW st \in Commands!Status, cmd.op \in DOMAIN Table
      PROVE  Commands!HciCmdBuildError(cmd.op, st) \in Commands!EventRecord
  BY <1>1, <1>2, <1>3 DEF Commands!HciCmdBuildError, Commands!HciCmdZeroReturn
<1>4. {Commands!DISALLOWED, Commands!UNSPECIFIED, Commands!MEMORY_EXCEEDED, Commands!UNKNOWN_COMMAND,
       Commands!INVALID_PARAMETERS} \subseteq Commands!Status
  BY DEF Commands!Status, Commands!DISALLOWED, Commands!UNSPECIFIED, Commands!MEMORY_EXCEEDED, Commands!UNKNOWN_COMMAND,
     Commands!INVALID_PARAMETERS
<1>5. CASE Commands!PutRejected(cmd)
  BY <1>0, <1>1, <1>3, <1>4, <1>5 DEF Commands!PutRejected, Commands!Malformed, Commands!NoHandler, Commands!WellFormed
<1>6. CASE Commands!PutRefused(cmd, Commands!DISALLOWED)
  BY <1>3, <1>4, <1>6 DEF Commands!PutRefused, Commands!Callable, Commands!WellFormed
<1>7. CASE Commands!PutHandled(cmd, ResultOf(Table[cmd.op], status))
  <2> DEFINE result == ResultOf(Table[cmd.op], status)
  <2>1. cmd.op \in DOMAIN Table
    BY <1>7 DEF Commands!PutHandled, Commands!Callable, Commands!WellFormed
  <2>2. result.ReturnLen \in Nat /\ result.Status = status
    BY <1>2, <2>1 DEF ResultOf
  <2>3. Commands!PaddedLen(Table[cmd.op], result.ReturnLen) \in Nat
    BY <1>2, <2>1, <2>2 DEF Commands!PaddedLen
  <2>4. cmdEvent' = Commands!HciCmdResultEvent(cmd.op, result)
    BY <1>7 DEF Commands!PutHandled
  <2> HIDE DEF result
  <2>5. QED
    BY <1>0, <1>a, <1>1, <1>3, <1>4, <2>1, <2>2, <2>3, <2>4 DEF Commands!HciCmdResultEvent
<1>8. QED
  BY <1>5, <1>6, <1>7

(* The Supplemental dispatcher only ever builds event records. *)
LEMMA SupplementalTyped ==
    ASSUME NEW cmd \in CommandPacket, NEW status \in HandlerStatus,
           \/ Compat!PutRejected(cmd)
           \/ Compat!PutRefused(cmd, Compat!DISALLOWED)
           \/ Compat!PutHandled(cmd, ResultOf(CompatTable[cmd.op], status))
    PROVE  compatEvent' \in Compat!EventRecord
<1>0. cmd.op \in Opcode
  BY SdcAssumption DEF SdcAssumption
<1>a. status \in Compat!Status
  BY TableAssumption, SameEvents DEF TableAssumption
<1>1. ASSUME NEW st \in Compat!Status, NEW n \in Nat
      PROVE  /\ Compat!HciCmdBuildComplete(cmd.op, st, n) \in Compat!EventRecord
             /\ Compat!HciCmdBuildStatus(cmd.op, st) \in Compat!EventRecord
             /\ Compat!NoEvent \in Compat!EventRecord
  BY <1>0 DEF Compat!HciCmdBuildComplete, Compat!HciCmdBuildStatus, Compat!EventRecord, Compat!Response,
     Compat!CompleteBaseSize, Compat!StatusSize, Compat!NoEvent, Compat!SUCCESS, Compat!Status
<1>2. cmd.op \in DOMAIN CompatTable => CompatTable[cmd.op].ReturnLen \in Nat
  BY TableAssumption DEF TableAssumption, Compat!DispatchAssumption, Compat!Row
<1>3. ASSUME NEW st \in Compat!Status, cmd.op \in DOMAIN CompatTable
      PROVE  Compat!HciCmdBuildError(cmd.op, st) \in Compat!EventRecord
  BY <1>1, <1>2, <1>3 DEF Compat!HciCmdBuildError, Compat!HciCmdZeroReturn
<1>4. {Compat!DISALLOWED, Compat!UNSPECIFIED, Compat!MEMORY_EXCEEDED, Compat!UNKNOWN_COMMAND,
       Compat!INVALID_PARAMETERS} \subseteq Compat!Status
  BY DEF Compat!Status, Compat!DISALLOWED, Compat!UNSPECIFIED, Compat!MEMORY_EXCEEDED, Compat!UNKNOWN_COMMAND,
     Compat!INVALID_PARAMETERS
<1>5. CASE Compat!PutRejected(cmd)
  BY <1>0, <1>1, <1>3, <1>4, <1>5 DEF Compat!PutRejected, Compat!Malformed, Compat!NoHandler, Compat!WellFormed
<1>6. CASE Compat!PutRefused(cmd, Compat!DISALLOWED)
  BY <1>3, <1>4, <1>6 DEF Compat!PutRefused, Compat!Callable, Compat!WellFormed
<1>7. CASE Compat!PutHandled(cmd, ResultOf(CompatTable[cmd.op], status))
  <2> DEFINE result == ResultOf(CompatTable[cmd.op], status)
  <2>1. cmd.op \in DOMAIN CompatTable
    BY <1>7 DEF Compat!PutHandled, Compat!Callable, Compat!WellFormed
  <2>2. result.ReturnLen \in Nat /\ result.Status = status
    BY <1>2, <2>1 DEF ResultOf
  <2>3. Compat!PaddedLen(CompatTable[cmd.op], result.ReturnLen) \in Nat
    BY <1>2, <2>1, <2>2 DEF Compat!PaddedLen
  <2>4. compatEvent' = Compat!HciCmdResultEvent(cmd.op, result)
    BY <1>7 DEF Compat!PutHandled
  <2> HIDE DEF result
  <2>5. QED
    BY <1>0, <1>a, <1>1, <1>3, <1>4, <2>1, <2>2, <2>3, <2>4 DEF Compat!HciCmdResultEvent
<1>8. QED
  BY <1>5, <1>6, <1>7

(* The values a reset starts from. *)
LEMMA NothingTyped ==
    /\ NoCount \in [Handle -> Nat] /\ NoCount \in [Handle -> Int]
    /\ <<>> \in Seq(SdcMessage)
    /\ {} \subseteq Handle
<1>1. NoCount \in [Handle -> Nat]
  BY DEF NoCount
<1>2. NoCount \in [Handle -> Int]
  BY DEF NoCount
<1>3. <<>> \in Seq(SdcMessage)
  OBVIOUS
<1>4. QED
  BY <1>1, <1>2, <1>3

(* A step that changes nothing but the response buffers. *)
LEMMA ResponseStepTyped ==
    ASSUME TypeOK,
           cmdEvent' \in Commands!EventRecord, compatEvent' \in Compat!EventRecord,
           UNCHANGED <<AdvCmdTypeSinceReset, CommandEventLast, DelayedCommandOpcode,
                       creditVars, aclVars, outVars, sdcVars, hostVars>>
    PROVE  TypeOK'
<1>1. CmdTypeOK'
  BY DEF TypeOK, CmdTypeOK
<1>2. CreditTypeOK' /\ AclTypeOK' /\ OutTypeOK'
  BY DEF TypeOK, CreditTypeOK, AclTypeOK, OutTypeOK, creditVars, aclVars, outVars
<1>3. SdcTypeOK' /\ HostTypeOK'
  BY DEF TypeOK, SdcTypeOK, HostTypeOK, sdcVars, hostVars
<1>4. QED
  BY <1>1, <1>2, <1>3 DEF TypeOK

(* The table-driven part of the proof: a command packet. *)
LEMMA PutCommandTyped ==
    ASSUME TypeOK, PutCommandPacket
    PROVE  TypeOK'
<1>1. PICK cmd \in CommandPacket :
          \/ PutCommandRejected(cmd)
          \/ PutCommandRefused(cmd)
          \/ \E status \in HandlerStatus :
                \/ PutCompatCommand(cmd, status)
                \/ PutReset(cmd, status)
                \/ PutReadBufferSize(cmd, status)
                \/ PutCommand(cmd, status)
                \/ PutDelayedCommand(cmd, status)
  BY DEF PutCommandPacket
<1>2. /\ cmd.op \in Opcode
      /\ AdvFamily[cmd.op] \in {"NONE", "LEGACY", "EXTENDED"}
  BY SdcAssumption DEF SdcAssumption
<1>3. /\ HciSdcAdvCommandGuard(cmd.op) \in {"NONE", "LEGACY", "EXTENDED"}
      /\ SeenFamily(cmd.op) \subseteq {"LEGACY", "EXTENDED"}
  BY <1>2 DEF HciSdcAdvCommandGuard, SeenFamily, TypeOK, CmdTypeOK, SdcTypeOK
<1>a. PICK any \in HandlerStatus : TRUE
  BY TableAssumption DEF TableAssumption
<1>4. CASE PutCommandRejected(cmd)
  <2>1. cmdEvent' \in Commands!EventRecord /\ compatEvent' \in Compat!EventRecord
    BY <1>4, VendorTyped, SupplementalTyped DEF PutCommandRejected, TypeOK, CmdTypeOK
  <2>2. UNCHANGED <<AdvCmdTypeSinceReset, CommandEventLast, DelayedCommandOpcode,
                    creditVars, aclVars, outVars, sdcVars, hostVars>>
    BY <1>4 DEF PutCommandRejected
  <2>3. QED
    BY <2>1, <2>2, ResponseStepTyped
<1>5. CASE PutCommandRefused(cmd)
  <2>1. cmdEvent' \in Commands!EventRecord /\ compatEvent' \in Compat!EventRecord
    BY <1>5, VendorTyped DEF PutCommandRefused, TypeOK, CmdTypeOK
  <2>2. UNCHANGED <<AdvCmdTypeSinceReset, CommandEventLast, DelayedCommandOpcode,
                    creditVars, aclVars, outVars, sdcVars, hostVars>>
    BY <1>5 DEF PutCommandRefused
  <2>3. QED
    BY <2>1, <2>2, ResponseStepTyped
<1>6. ASSUME NEW status \in HandlerStatus, PutCompatCommand(cmd, status)
      PROVE  TypeOK'
  <2>1. cmdEvent' \in Commands!EventRecord /\ compatEvent' \in Compat!EventRecord
    BY <1>6, SupplementalTyped DEF PutCompatCommand, TypeOK, CmdTypeOK
  <2>2. UNCHANGED <<AdvCmdTypeSinceReset, CommandEventLast, DelayedCommandOpcode,
                    creditVars, aclVars, outVars, sdcVars, hostVars>>
    BY <1>6 DEF PutCompatCommand
  <2>3. QED
    BY <2>1, <2>2, ResponseStepTyped
<1>7. ASSUME NEW status \in HandlerStatus, PutReset(cmd, status)
      PROVE  TypeOK'
  <2>1. cmdEvent' \in Commands!EventRecord
    BY <1>7, VendorTyped DEF PutReset
  <2>2. CmdTypeOK'
    BY <1>7, <2>1 DEF PutReset, EnterHandler, TypeOK, CmdTypeOK
  <2>4. CreditTypeOK' /\ AclTypeOK'
    BY <1>7, NothingTyped DEF PutReset, HciSdcResetFlowControl, creditVars, aclVars,
                      TypeOK, CreditTypeOK, AclTypeOK
  <2>3. sdcQueue' \in Seq(SdcMessage)
    BY <1>7, NothingTyped DEF PutReset, sdcVars, TypeOK, SdcTypeOK
  <2>5. /\ sdcLinks' \subseteq Handle
        /\ sdcBuffered' \in [Handle -> Nat]
        /\ sdcFamilies' \subseteq {"LEGACY", "EXTENDED"}
    BY <1>7, NothingTyped DEF PutReset, sdcVars, TypeOK, SdcTypeOK
  <2>6. sdcCreating' \in BOOLEAN /\ sdcDelayed' \in BOOLEAN
    BY <1>7 DEF PutReset, sdcVars, TypeOK, SdcTypeOK
  <2>7. HostTypeOK'
    BY <1>7 DEF PutReset, TypeOK, HostTypeOK
  <2>8. OutTypeOK'
    BY <1>7 DEF PutReset, EnterHandler, outVars, TypeOK, OutTypeOK
  <2>9. QED
    BY <2>2, <2>3, <2>4, <2>5, <2>6, <2>7, <2>8 DEF TypeOK, SdcTypeOK
<1>8. ASSUME NEW status \in HandlerStatus, PutReadBufferSize(cmd, status)
      PROVE  TypeOK'
  BY <1>3, <1>8, VendorTyped
     DEF PutReadBufferSize, EnterHandler, creditVars, outVars, hostVars,
         TypeOK, CmdTypeOK, CreditTypeOK, AclTypeOK, OutTypeOK, SdcTypeOK, HostTypeOK
<1>9. ASSUME NEW status \in HandlerStatus, PutCommand(cmd, status)
      PROVE  TypeOK'
  <2>1. cmdEvent' \in Commands!EventRecord
    BY <1>9, VendorTyped DEF PutCommand
  <2>2. CmdTypeOK'
    BY <1>3, <1>9, <2>1 DEF PutCommand, EnterHandler, TypeOK, CmdTypeOK
  <2>3. sdcCreating' \in BOOLEAN
    BY <1>9 DEF PutCommand
  <2>4. SdcTypeOK'
    BY <1>3, <1>9, <2>3 DEF PutCommand, TypeOK, SdcTypeOK
  <2>5. CreditTypeOK' /\ AclTypeOK' /\ OutTypeOK' /\ HostTypeOK'
    BY <1>9 DEF PutCommand, EnterHandler, creditVars, aclVars, outVars, hostVars,
                TypeOK, CreditTypeOK, AclTypeOK, OutTypeOK, HostTypeOK
  <2>6. QED
    BY <2>2, <2>4, <2>5 DEF TypeOK
<1>10. ASSUME NEW status \in HandlerStatus, PutDelayedCommand(cmd, status)
      PROVE  TypeOK'
  <2>1. cmdEvent' \in Commands!EventRecord
    BY <1>10, VendorTyped DEF PutDelayedCommand, TypeOK, CmdTypeOK
  <2>2. CmdTypeOK'
    BY <1>3, <1>10, <2>1
       DEF PutDelayedCommand, HciSdcDelayedCommandCandidate, EnterHandler, TypeOK, CmdTypeOK
  <2>3. SdcTypeOK'
    BY <1>3, <1>10 DEF PutDelayedCommand, TypeOK, SdcTypeOK
  <2>4. CreditTypeOK' /\ AclTypeOK' /\ OutTypeOK' /\ HostTypeOK'
    BY <1>10 DEF PutDelayedCommand, EnterHandler, creditVars, aclVars, outVars, hostVars,
                TypeOK, CreditTypeOK, AclTypeOK, OutTypeOK, HostTypeOK
  <2>5. QED
    BY <2>2, <2>3, <2>4 DEF TypeOK
<1>11. QED
  BY <1>1, <1>4, <1>5, <1>6, <1>7, <1>8, <1>9, <1>10

(* What the host and the slots do around an ACL packet. *)
LEMMA HostSendsTyped ==
    ASSUME HostTypeOK, NEW h \in Handle, HostSends(h)
    PROVE  HostTypeOK'
<1>1. hostInFlight' \in [Handle -> Int]
  BY DEF HostSends, HostTypeOK
<1>2. QED
  BY <1>1 DEF HostSends, HostTypeOK

(* An ACL packet moves one count of one handle. *)
LEMMA PutAclTyped ==
    ASSUME TypeOK, PutAclPacket
    PROVE  TypeOK'
<1>1. PICK h \in Handle :
          \/ PutAclOversize(h) \/ PutAclOverLimit(h) \/ PutAclError(h)
          \/ PutAcl(h) \/ PutAclAgain(h)
  BY DEF PutAclPacket
<1>2. CmdTypeOK' /\ OutTypeOK'
  BY <1>1 DEF PutAclOversize, PutAclOverLimit, PutAclError, PutAcl, PutAclAgain,
              cmdVars, outVars, TypeOK, CmdTypeOK, OutTypeOK
<1>3. HostTypeOK'
  BY <1>1, HostSendsTyped DEF PutAclOversize, PutAclOverLimit, PutAclError, PutAcl, PutAclAgain,
              hostVars, TypeOK, HostTypeOK
<1>4. HciSdcOweCredit(CreditCount, h) \in [Handle -> Nat]
  BY DEF HciSdcOweCredit, TypeOK, CreditTypeOK
<1>5. CreditTypeOK'
  BY <1>1, <1>4 DEF PutAclOversize, PutAclOverLimit, PutAclError, PutAcl, PutAclAgain,
              creditVars, TypeOK, CreditTypeOK
<1>6. Slotted(h) \subseteq Handle /\ SlottedByGuard(h) \subseteq Handle
  BY DEF Slotted, SlottedByGuard, TypeOK, AclTypeOK
<1>7. [AclOutstanding EXCEPT ![h] = @ + 1] \in [Handle -> Nat]
  BY DEF TypeOK, AclTypeOK
<1>8. AclTypeOK'
  BY <1>1, <1>6, <1>7 DEF PutAclOversize, PutAclOverLimit, PutAclError, PutAcl, PutAclAgain,
              HciSdcAclPutTracked, aclVars, TypeOK, AclTypeOK
<1>9. [sdcBuffered EXCEPT ![h] = @ + 1] \in [Handle -> Nat]
  BY DEF TypeOK, SdcTypeOK
<1>10. SdcTypeOK'
  BY <1>1, <1>9 DEF PutAclOversize, PutAclOverLimit, PutAclError, PutAcl, PutAclAgain,
              sdcVars, TypeOK, SdcTypeOK
<1>11. QED
  BY <1>2, <1>3, <1>5, <1>8, <1>10 DEF TypeOK

(* What RxData moves is a packet a host may see, whichever type was asked. *)
LEMMA RxDataTyped ==
    ASSUME OutTypeOK, NEW p \in OutPacket, NEW t, RxData(p, t)
    PROVE  OutTypeOK'
<1>1. NoPacket \in OutPacket
  BY DEF OutPacket
<1>2. QED
  BY <1>1 DEF RxData, OutTypeOK

(* Following a forwarded event keeps the tracking table typed. *)
LEMMA TrackTyped ==
    ASSUME AclTypeOK, NEW p \in SdcMessage, HciSdcAclTrackEvent(p)
    PROVE  AclTypeOK'
<1>1. CASE p.kind = "COMPLETED" /\ ~ForgetsLink(p)
  <2>1. p.count \in [Handle -> Nat]
    BY <1>1 DEF SdcMessage, DelayedComplete, Data, Bad
  <2>2. \A h \in Handle : AclOutstanding[h] - HciSdcAclFreed(p.count)[h] \in Nat
    BY <2>1 DEF HciSdcAclFreed, Lesser, AclTypeOK
  <2>3. UNCHANGED <<AclTracked, AclLimit>>
        /\ AclOutstanding' = [h \in Handle |-> AclOutstanding[h] - HciSdcAclFreed(p.count)[h]]
    BY <1>1 DEF HciSdcAclTrackEvent
  <2>4. QED
    BY <2>2, <2>3 DEF AclTypeOK
<1>2. CASE ForgetsLink(p)
  <2>1. p.kind = "DISCONNECT" /\ p.handle \in Handle
    BY <1>2 DEF ForgetsLink, AclTypeOK
  <2>2. HciSdcAclForget(p.handle)
    BY <1>2, <2>1 DEF HciSdcAclTrackEvent
  <2>3. QED
    BY <2>1, <2>2 DEF HciSdcAclForget, AclTypeOK
<1>3. CASE p.kind # "COMPLETED" /\ ~ForgetsLink(p)
  BY <1>3 DEF HciSdcAclTrackEvent, aclVars, AclTypeOK
<1>4. QED
  BY <1>1, <1>2, <1>3

(* A poll of the controller. *)
LEMMA RxTyped ==
    ASSUME TypeOK, Rx
    PROVE  TypeOK'
<1>1. ASSUME NEW t \in PacketType, RxHeld(t) PROVE TypeOK'
  <2>1. OutTypeOK'
    BY <1>1, RxDataTyped DEF RxHeld, TypeOK, OutTypeOK
  <2>2. QED
    BY <1>1, <2>1 DEF RxHeld, cmdVars, creditVars, aclVars, sdcVars, hostVars,
                      TypeOK, CmdTypeOK, CreditTypeOK, AclTypeOK, SdcTypeOK, HostTypeOK
<1>2. ASSUME NEW t \in PacketType, RxResponse(t) PROVE TypeOK'
  <2>1. /\ Commands!NoEvent \in Commands!EventRecord
        /\ Compat!NoEvent \in Compat!EventRecord
    BY DEF Commands!NoEvent, Commands!EventRecord, Commands!Response, Commands!Status, Commands!SUCCESS,
           Compat!NoEvent, Compat!EventRecord, Compat!Response, Compat!Status, Compat!SUCCESS
  <2>2. CmdTypeOK'
    BY <1>2, <2>1 DEF RxResponse, Commands!HciCmdDispatchGet, Compat!HciCmdDispatchGet,
                      TypeOK, CmdTypeOK
  <2>3. ResponseOf(cmdEvent) \in OutPacket /\ ResponseOf(compatEvent) \in OutPacket
    BY SameEvents DEF ResponseOf, OutPacket, TypeOK, CmdTypeOK
  <2>4. OutTypeOK'
    BY <1>2, <2>3, RxDataTyped DEF RxResponse, TypeOK
  <2>5. QED
    BY <1>2, <2>2, <2>4 DEF RxResponse, creditVars, aclVars, sdcVars, hostVars,
                      TypeOK, CreditTypeOK, AclTypeOK, SdcTypeOK, HostTypeOK
<1>3. ASSUME NEW t \in PacketType, HciSdcBuildCreditEvent(t) PROVE TypeOK'
  <2>1. Completed(CreditCount) \in OutPacket
    BY DEF Completed, OutPacket, SdcMessage, Bad, TypeOK, CreditTypeOK
  <2>2. OutTypeOK'
    BY <1>3, <2>1, RxDataTyped DEF HciSdcBuildCreditEvent, TypeOK
  <2>3. CreditTypeOK'
    BY <1>3 DEF HciSdcBuildCreditEvent, NoCount, CreditTypeOK
  <2>4. QED
    BY <1>3, <2>2, <2>3 DEF HciSdcBuildCreditEvent, cmdVars, aclVars, sdcVars, hostVars,
                      TypeOK, CmdTypeOK, AclTypeOK, SdcTypeOK, HostTypeOK
<1>4. ASSUME QueueTurn PROVE CreditTypeOK' /\ HostTypeOK' /\ (DelayedCommandOpcode' \in {NoOp, OpPawr} => CmdTypeOK')
  BY <1>4 DEF QueueTurn, hostVars, TypeOK, CmdTypeOK, CreditTypeOK, HostTypeOK
<1>5. ASSUME sdcQueue # <<>>
      PROVE  Head(sdcQueue) \in SdcMessage /\ Tail(sdcQueue) \in Seq(SdcMessage)
  BY <1>5 DEF TypeOK, SdcTypeOK
<1>6. ASSUME NEW t \in PacketType, RxQueue(t) PROVE TypeOK'
  <2> DEFINE p == Head(sdcQueue)
  <2>1. p \in SdcMessage /\ p # Bad
    BY <1>5, <1>6 DEF RxQueue, Deliverable, PacketType, Bad
  <2>2. p \in OutPacket
    BY <2>1 DEF OutPacket
  <2>3. OutTypeOK'
    BY <1>6, <2>2, RxDataTyped DEF RxQueue, TypeOK
  <2>4. AclTypeOK'
    BY <1>6, <2>1, TrackTyped DEF RxQueue, TypeOK
  <2>5. CmdTypeOK' /\ CreditTypeOK' /\ HostTypeOK'
    BY <1>4, <1>6 DEF RxQueue, DelayedAfter, TypeOK, CmdTypeOK
  <2>6. SdcTypeOK'
    BY <1>5, <1>6 DEF RxQueue, TypeOK, SdcTypeOK
  <2>7. QED
    BY <2>3, <2>4, <2>5, <2>6 DEF TypeOK
<1>7. CASE RxBad
  <2>1. CmdTypeOK' /\ CreditTypeOK' /\ HostTypeOK'
    BY <1>4, <1>7 DEF RxBad, TypeOK, CmdTypeOK
  <2>2. SdcTypeOK'
    BY <1>5, <1>7 DEF RxBad, TypeOK, SdcTypeOK
  <2>3. QED
    BY <1>7, <2>1, <2>2 DEF RxBad, aclVars, outVars, TypeOK, AclTypeOK, OutTypeOK
<1>8. CASE RxEmpty
  <2>1. CmdTypeOK' /\ CreditTypeOK' /\ HostTypeOK'
    BY <1>4, <1>8 DEF RxEmpty, TypeOK, CmdTypeOK
  <2>2. QED
    BY <1>8, <2>1 DEF RxEmpty, aclVars, outVars, sdcVars, TypeOK, AclTypeOK, OutTypeOK, SdcTypeOK
<1>9. QED
  BY <1>1, <1>2, <1>3, <1>6, <1>7, <1>8 DEF Rx

(* The controller queues messages of its own. *)
LEMMA SdcStepTyped ==
    ASSUME TypeOK, SdcStep
    PROVE  TypeOK'
<1>1. ASSUME NEW p \in SdcMessage, SdcQueues(p)
      PROVE  /\ CmdTypeOK' /\ CreditTypeOK' /\ AclTypeOK' /\ OutTypeOK' /\ HostTypeOK'
             /\ sdcQueue' \in Seq(SdcMessage)
             /\ sdcFamilies' \subseteq {"LEGACY", "EXTENDED"}
  BY <1>1 DEF SdcQueues, cmdVars, creditVars, aclVars, outVars, hostVars,
              TypeOK, CmdTypeOK, CreditTypeOK, AclTypeOK, OutTypeOK, SdcTypeOK, HostTypeOK
<1>2. /\ {DelayedComplete, Data, Bad} \subseteq SdcMessage
      /\ \A h \in Handle : {Connect(h), Disconnect(h), DisconnectFailed(h)} \subseteq SdcMessage
      /\ \A h \in Handle, n \in Nat : Completed(Only(h, n)) \in SdcMessage
  BY DEF SdcMessage, Connect, Disconnect, DisconnectFailed, Completed, Only, NoCount
<1>3. ASSUME NEW h \in Handle, SdcConnect(h) PROVE TypeOK'
  BY <1>1, <1>2, <1>3 DEF SdcConnect, TypeOK, SdcTypeOK
<1>4. ASSUME NEW h \in Handle, SdcCompletes(h) PROVE TypeOK'
  <2>1. PICK n \in 1..sdcBuffered[h] :
            /\ SdcQueues(Completed(Only(h, n)))
            /\ sdcBuffered' = [sdcBuffered EXCEPT ![h] = @ - n]
            /\ UNCHANGED <<sdcLinks, sdcCreating, sdcDelayed>>
    BY <1>4 DEF SdcCompletes
  <2>2. sdcBuffered[h] - n \in Nat /\ n \in Nat
    BY <2>1 DEF TypeOK, SdcTypeOK
  <2>3. QED
    BY <1>1, <1>2, <2>1, <2>2 DEF TypeOK, SdcTypeOK
<1>5. ASSUME NEW h \in Handle, SdcDisconnect(h) PROVE TypeOK'
  BY <1>1, <1>2, <1>5 DEF SdcDisconnect, TypeOK, SdcTypeOK
<1>6. ASSUME NEW h \in Handle, SdcDisconnectFails(h) PROVE TypeOK'
  BY <1>1, <1>2, <1>6 DEF SdcDisconnectFails, TypeOK, SdcTypeOK
<1>7. CASE SdcDelayedCompletes
  BY <1>1, <1>2, <1>7 DEF SdcDelayedCompletes, TypeOK, SdcTypeOK
<1>8. CASE SdcData
  BY <1>1, <1>2, <1>8 DEF SdcData, TypeOK, SdcTypeOK
<1>9. QED
  BY <1>3, <1>4, <1>5, <1>6, <1>7, <1>8 DEF SdcStep

(* A link may end unseen. *)
LEMMA MaskedTyped ==
    ASSUME TypeOK, SdcEndsMasked
    PROVE  TypeOK'
<1>1. PICK h \in Handle :
        /\ sdcLinks' = sdcLinks \ {h} /\ sdcBuffered' = [sdcBuffered EXCEPT ![h] = 0]
        /\ hostUntold' = hostUntold \union {h}
        /\ UNCHANGED <<cmdVars, creditVars, aclVars, outVars,
                       sdcQueue, sdcCreating, sdcDelayed, sdcFamilies,
                       hostLinks, hostInFlight, hostResetting, hostCreating>>
  BY MaskedQuiet
<1>2. CmdTypeOK' /\ CreditTypeOK' /\ AclTypeOK' /\ OutTypeOK'
  BY <1>1 DEF cmdVars, creditVars, aclVars, outVars, TypeOK, CmdTypeOK, CreditTypeOK, AclTypeOK, OutTypeOK
<1>3. SdcTypeOK' /\ HostTypeOK'
  BY <1>1 DEF TypeOK, SdcTypeOK, HostTypeOK
<1> QED
  BY <1>2, <1>3 DEF TypeOK

(* The host reads the slot. *)
LEMMA HostTyped ==
    ASSUME TypeOK, HostReceives
    PROVE  TypeOK'
<1>1. OutTypeOK'
  BY DEF HostReceives, OutPacket, TypeOK, OutTypeOK
<1>2. HostTypeOK'
  <2> DEFINE p == ctlPacket
  <2>1. CASE HostResets(p)
    <3>1. hostLinks' \subseteq Handle /\ hostInFlight' \in [Handle -> Int] /\ hostUntold' \subseteq Handle
      BY <2>1, NothingTyped DEF HostResets
    <3>2. hostResetting' \in BOOLEAN
      BY <2>1 DEF HostResets
    <3>3. hostCreating' \in Int
      BY <2>1 DEF HostResets
    <3>4. QED
      BY <3>1, <3>2, <3>3 DEF HostTypeOK
  <2>2. CASE HostCreates(p) \/ HostIgnores(p)
    BY <2>2 DEF HostCreates, HostIgnores, hostVars, TypeOK, HostTypeOK
  <2>3. CASE HostConnects(p) \/ HostDisconnects(p)
    <3>1. p.kind \in {"CONNECT", "DISCONNECT"}
      BY <2>3 DEF HostConnects, HostDisconnects
    <3>2. p \in OutPacket /\ p # NoPacket
      BY DEF HostReceives, TypeOK, OutTypeOK
    <3>3. p.handle \in Handle
      BY <3>1, <3>2 DEF OutPacket, SdcMessage, DelayedComplete, Data
    <3>4. QED
      BY <2>3, <3>3 DEF HostConnects, HostDisconnects, TypeOK, HostTypeOK
  <2>4. CASE HostCounts(p)
    <3>1. p \in OutPacket /\ p # NoPacket /\ p.kind = "COMPLETED"
      BY <2>4 DEF HostReceives, HostCounts, TypeOK, OutTypeOK
    <3>2. p.count \in [Handle -> Nat]
      BY <3>1 DEF OutPacket, SdcMessage, DelayedComplete, Data
    <3>3. \A h \in Handle : hostInFlight[h] \in Int /\ p.count[h] \in Nat
      BY <3>2 DEF TypeOK, HostTypeOK
    <3>4. \A h \in Handle : hostInFlight[h] - Counted(p, h) \in Int
      BY <3>3 DEF Counted, Lesser
    <3>5. QED
      BY <2>4, <3>4 DEF HostCounts, TypeOK, HostTypeOK
  <2>5. QED
    BY <2>1, <2>2, <2>3, <2>4 DEF HostReceives
<1>3. QED
  BY <1>1, <1>2 DEF HostReceives, cmdVars, creditVars, aclVars, sdcVars,
                    TypeOK, CmdTypeOK, CreditTypeOK, AclTypeOK, SdcTypeOK

(* Every variable of the routing layer keeps its type, and a message that  *)
(* HciSdcGetPacket cannot type or measure never reaches the host's side.   *)
THEOREM TypeCorrect == Spec => []TypeOK
<1>1. Init => TypeOK
  <2> SUFFICES ASSUME Init PROVE TypeOK
    OBVIOUS
  <2>1. CmdTypeOK
    BY DEF Init, CmdTypeOK, Compat!HciCmdDispatchInit,
           Commands!HciCmdDispatchQueueNop, Commands!NopSize,
           Commands!NoEvent, Commands!EventRecord, Commands!Response, Commands!Status, Commands!SUCCESS,
           Compat!NoEvent, Compat!EventRecord, Compat!Response, Compat!Status, Compat!SUCCESS
  <2>2. CreditTypeOK /\ AclTypeOK
    BY NothingTyped DEF Init, CreditTypeOK, AclTypeOK
  <2>a. /\ hostLinks \subseteq Handle /\ hostInFlight \in [Handle -> Int] /\ hostCreating \in Int
        /\ hostUntold \subseteq Handle
    BY NothingTyped DEF Init
  <2>b. hostResetting \in BOOLEAN
    BY DEF Init
  <2>3. SdcTypeOK
    BY NothingTyped DEF Init, SdcTypeOK
  <2>4. OutTypeOK
    BY DEF Init, OutTypeOK, OutPacket
  <2>5. QED
    BY <2>1, <2>2, <2>3, <2>4, <2>a, <2>b DEF TypeOK, HostTypeOK
<1>2. TypeOK /\ [Next]_vars => TypeOK'
  <2> SUFFICES ASSUME TypeOK, [Next]_vars PROVE TypeOK'
    OBVIOUS
  <2>1. CASE UNCHANGED vars
    BY <2>1 DEF vars, cmdVars, creditVars, aclVars, outVars, sdcVars, hostVars,
                TypeOK, CmdTypeOK, CreditTypeOK, AclTypeOK, OutTypeOK, SdcTypeOK, HostTypeOK
  <2>2. QED
    BY <2>1, PutCommandTyped, PutAclTyped, RxTyped, SdcStepTyped, MaskedTyped, HostTyped DEF Next
<1>3. QED
  BY <1>1, <1>2, PTL DEF Spec

---------------------------------------------------------------------------
(* What packets report, and how the sums over a queue follow it. *)

AnyPacket == SdcMessage \union OutPacket

(* A packet reports a number of buffers. *)
LEMMA ReportedByTyped ==
    ASSUME NEW p \in AnyPacket, NEW h \in Handle
    PROVE  ReportedBy(p, h) \in Nat
<1>1. ASSUME p.type = "EVENT", p.kind = "COMPLETED" PROVE p.count \in [Handle -> Nat]
  BY <1>1 DEF AnyPacket, OutPacket, SdcMessage, DelayedComplete, Data, Bad, NoPacket
<1> QED
  BY <1>1 DEF ReportedBy

(* An empty queue reports nothing. *)
LEMMA ReportedEmpty ==
    ASSUME NEW h \in Handle
    PROVE  Reported(<<>>, h) = 0
<1>1. DOMAIN [i \in DOMAIN <<>> |-> ReportedBy(<<>>[i], h)] = {}
  OBVIOUS
<1> QED
  BY <1>1, SumEmpty DEF Reported, Sum, SumFunction

(* What the controller queues is reported on top of the rest. *)
LEMMA ReportedAppend ==
    ASSUME NEW s \in Seq(AnyPacket), NEW p \in AnyPacket, NEW h \in Handle
    PROVE  /\ Reported(s, h) \in Nat /\ ReportedBy(p, h) \in Nat
           /\ Reported(Append(s, p), h) = Reported(s, h) + ReportedBy(p, h)
<1> DEFINE a == Append(s, p)
           l == Len(s)
           f == [i \in DOMAIN s |-> ReportedBy(s[i], h)]
           g == [i \in DOMAIN a |-> ReportedBy(a[i], h)]
<1>1. /\ l \in Nat /\ DOMAIN s = 1 .. l /\ DOMAIN a = 1 .. l + 1
      /\ a[l + 1] = p /\ (\A i \in 1 .. l : a[i] = s[i])
      /\ l + 1 \in 1 .. l + 1 /\ \A i \in 1 .. l + 1 : a[i] \in AnyPacket
  OBVIOUS
<1> HIDE DEF l, a
<1>2. /\ DOMAIN f = 1 .. l /\ DOMAIN g = 1 .. l + 1
      /\ \A i \in 1 .. l : f[i] = g[i]
      /\ g[l + 1] = ReportedBy(p, h)
      /\ \A i \in 1 .. l + 1 : g[i] \in Nat
  <2>1. \A i \in 1 .. l : i \in 1 .. l + 1
    BY <1>1
  <2> QED
    BY <1>1, <2>1, ReportedByTyped
<1>3. Reported(s, h) = SumFunction(f) /\ Reported(a, h) = SumFunction(g)
  BY DEF Reported, Sum
<1> HIDE DEF f, g
<1> QED
  BY <1>1, <1>2, <1>3, SumGrows, ReportedByTyped DEF a

(* What HciSdcGetPacket takes off the queue is the first message's share. *)
LEMMA ReportedTail ==
    ASSUME NEW s \in Seq(AnyPacket), s # <<>>, NEW h \in Handle
    PROVE  /\ Reported(Tail(s), h) \in Nat /\ ReportedBy(Head(s), h) \in Nat
           /\ Reported(s, h) = ReportedBy(Head(s), h) + Reported(Tail(s), h)
<1> DEFINE a == Tail(s)
           l == Len(a)
           f == [i \in DOMAIN s |-> ReportedBy(s[i], h)]
           g == [i \in DOMAIN a |-> ReportedBy(a[i], h)]
<1>1. /\ l \in Nat /\ DOMAIN s = 1 .. l + 1 /\ DOMAIN a = 1 .. l
      /\ Head(s) = s[1] /\ 1 \in 1 .. l + 1
      /\ \A i \in 1 .. l : a[i] = s[i + 1] /\ i + 1 \in 1 .. l + 1
      /\ \A i \in 1 .. l + 1 : s[i] \in AnyPacket
  OBVIOUS
<1> HIDE DEF l, a
<1>2. /\ DOMAIN f = 1 .. l + 1 /\ DOMAIN g = 1 .. l
      /\ \A i \in 1 .. l : g[i] = f[i + 1]
      /\ f[1] = ReportedBy(Head(s), h)
      /\ \A i \in 1 .. l + 1 : f[i] \in Nat
  BY <1>1, ReportedByTyped
<1>3. Reported(s, h) = SumFunction(f) /\ Reported(a, h) = SumFunction(g)
  BY DEF Reported, Sum
<1> HIDE DEF f, g
<1>a. /\ l \in Nat /\ f \in [1 .. l + 1 -> Nat] /\ g \in [1 .. l -> Nat]
      /\ \A i \in 1 .. l : g[i] = f[i + 1]
  BY <1>1, <1>2, ReportedByTyped DEF f, g
<1>4. SumFunction(g) \in Nat /\ SumFunction(f) = f[1] + SumFunction(g)
  BY <1>a, SumShrinks
<1>5. f[1] \in Nat
  BY <1>1, <1>2
<1> QED
  BY <1>2, <1>3, <1>4, <1>5 DEF a

(* A queue reports a number of buffers. *)
LEMMA ReportedTyped ==
    ASSUME NEW s \in Seq(AnyPacket), NEW h \in Handle
    PROVE  Reported(s, h) \in Nat
<1>1. NoPacket \in AnyPacket
  BY DEF AnyPacket, OutPacket
<1> QED
  BY <1>1, ReportedAppend

(* Two sequences of the same elements are equal. *)
LEMMA SeqEqual ==
    ASSUME NEW S, NEW s \in Seq(S), NEW t \in Seq(S), Len(s) = Len(t),
           \A i \in 1 .. Len(t) : s[i] = t[i]
    PROVE  s = t
OBVIOUS

(* The slot, the hold and the queue. *)
LEMMA ReportedSplit ==
    ASSUME NEW a \in AnyPacket, NEW b \in AnyPacket, NEW q \in Seq(AnyPacket), NEW h \in Handle
    PROVE  /\ ReportedBy(a, h) \in Nat /\ ReportedBy(b, h) \in Nat /\ Reported(q, h) \in Nat
           /\ Reported(<<a, b>> \o q, h) = ReportedBy(a, h) + ReportedBy(b, h) + Reported(q, h)
<1> DEFINE s == <<a, b>> \o q
           r == <<b>> \o q
<1>1. r \in Seq(AnyPacket) /\ r # <<>> /\ Head(r) = b /\ Tail(r) = q
  OBVIOUS
<1>2. /\ s \in Seq(AnyPacket) /\ s # <<>> /\ Head(s) = a
      /\ Tail(s) \in Seq(AnyPacket) /\ Len(Tail(s)) = Len(r)
  OBVIOUS
<1>3. ASSUME NEW i \in 1 .. Len(r) PROVE Tail(s)[i] = r[i]
  OBVIOUS
<1> HIDE DEF s, r
<1>4. Tail(s) = r
  BY <1>1, <1>2, <1>3, SeqEqual
<1>5. /\ Reported(r, h) \in Nat /\ ReportedBy(a, h) \in Nat
      /\ Reported(s, h) = ReportedBy(a, h) + Reported(r, h)
  BY <1>2, <1>4, ReportedTail
<1>6. /\ Reported(q, h) \in Nat /\ ReportedBy(b, h) \in Nat
      /\ Reported(r, h) = ReportedBy(b, h) + Reported(q, h)
  BY <1>1, ReportedTail
<1> QED
  BY <1>5, <1>6 DEF s

(* The pipeline reports what its three parts do. *)
LEMMA ReportedPipeline ==
    ASSUME TypeOK, NEW h \in Handle
    PROVE  /\ ReportedBy(ctlPacket, h) \in Nat /\ ReportedBy(HeldPacket, h) \in Nat
           /\ Reported(sdcQueue, h) \in Nat
           /\ Reported(Pipeline, h) = ReportedBy(ctlPacket, h) + ReportedBy(HeldPacket, h)
                                      + Reported(sdcQueue, h)
<1>1. ctlPacket \in AnyPacket /\ HeldPacket \in AnyPacket /\ sdcQueue \in Seq(SdcMessage)
  BY DEF TypeOK, OutTypeOK, SdcTypeOK, AnyPacket
<1>2. sdcQueue \in Seq(AnyPacket)
  BY <1>1 DEF AnyPacket
<1> QED
  BY <1>1, <1>2, ReportedSplit DEF Pipeline

(* The same in the next state. *)
LEMMA ReportedPipelineNext ==
    ASSUME TypeOK', NEW h \in Handle
    PROVE  /\ ReportedBy(ctlPacket, h)' \in Nat /\ ReportedBy(HeldPacket, h)' \in Nat
           /\ Reported(sdcQueue, h)' \in Nat
           /\ Reported(Pipeline, h)' = ReportedBy(ctlPacket, h)' + ReportedBy(HeldPacket, h)'
                                      + Reported(sdcQueue, h)'
<1>1. ctlPacket' \in AnyPacket /\ HeldPacket' \in AnyPacket /\ sdcQueue' \in Seq(SdcMessage)
  BY DEF TypeOK, OutTypeOK, SdcTypeOK, AnyPacket
<1>2. sdcQueue' \in Seq(AnyPacket)
  BY <1>1 DEF AnyPacket
<1> QED
  BY <1>1, <1>2, ReportedSplit DEF Pipeline

(* A packet announces no connection or one. *)
LEMMA ConnectingTyped ==
    ASSUME NEW p
    PROVE  Connecting(p) \in Nat
BY DEF Connecting, One

(* An empty queue announces no connection. *)
LEMMA ConnectsEmpty == Connects(<<>>) = 0
<1>1. DOMAIN [i \in DOMAIN <<>> |-> Connecting(<<>>[i])] = {}
  OBVIOUS
<1> QED
  BY <1>1, SumEmpty DEF Connects, Sum, SumFunction

(* A connection queued is one more to announce. *)
LEMMA ConnectsAppend ==
    ASSUME NEW s \in Seq(SdcMessage), NEW p \in SdcMessage
    PROVE  /\ Connects(s) \in Nat /\ Connecting(p) \in Nat
           /\ Connects(Append(s, p)) = Connects(s) + Connecting(p)
<1> DEFINE a == Append(s, p)
           l == Len(s)
           f == [i \in DOMAIN s |-> Connecting(s[i])]
           g == [i \in DOMAIN a |-> Connecting(a[i])]
<1>1. /\ l \in Nat /\ DOMAIN s = 1 .. l /\ DOMAIN a = 1 .. l + 1
      /\ a[l + 1] = p /\ (\A i \in 1 .. l : a[i] = s[i])
      /\ l + 1 \in 1 .. l + 1
  OBVIOUS
<1> HIDE DEF l, a
<1>2. /\ DOMAIN f = 1 .. l /\ DOMAIN g = 1 .. l + 1
      /\ \A i \in 1 .. l : f[i] = g[i]
      /\ g[l + 1] = Connecting(p)
      /\ \A i \in 1 .. l + 1 : g[i] \in Nat
  <2>1. \A i \in 1 .. l : i \in 1 .. l + 1
    BY <1>1
  <2> QED
    BY <1>1, <2>1, ConnectingTyped
<1>3. Connects(s) = SumFunction(f) /\ Connects(a) = SumFunction(g)
  BY DEF Connects, Sum
<1> HIDE DEF f, g
<1>4. SumFunction(f) \in Nat /\ SumFunction(g) = SumFunction(f) + g[l + 1]
  BY <1>1, <1>2, SumGrows
<1>5. Connects(s) \in Nat /\ Connects(a) = Connects(s) + Connecting(p)
  BY <1>2, <1>3, <1>4
<1> QED
  BY <1>5, ConnectingTyped DEF a

(* A connection taken off the queue is one less. *)
LEMMA ConnectsTail ==
    ASSUME NEW s \in Seq(SdcMessage), s # <<>>
    PROVE  /\ Connects(Tail(s)) \in Nat /\ Connecting(Head(s)) \in Nat
           /\ Connects(s) = Connecting(Head(s)) + Connects(Tail(s))
<1> DEFINE a == Tail(s)
           l == Len(a)
           f == [i \in DOMAIN s |-> Connecting(s[i])]
           g == [i \in DOMAIN a |-> Connecting(a[i])]
<1>1. /\ l \in Nat /\ DOMAIN s = 1 .. l + 1 /\ DOMAIN a = 1 .. l
      /\ Head(s) = s[1] /\ 1 \in 1 .. l + 1
      /\ \A i \in 1 .. l : a[i] = s[i + 1] /\ i + 1 \in 1 .. l + 1
  OBVIOUS
<1> HIDE DEF l, a
<1>2. /\ DOMAIN f = 1 .. l + 1 /\ DOMAIN g = 1 .. l
      /\ \A i \in 1 .. l : g[i] = f[i + 1]
      /\ \A i \in 1 .. l + 1 : f[i] \in Nat
  BY <1>1, ConnectingTyped
<1>b. f[1] = Connecting(Head(s))
  BY <1>1
<1>3. Connects(s) = SumFunction(f) /\ Connects(a) = SumFunction(g)
  BY DEF Connects, Sum
<1> HIDE DEF f, g
<1>a. /\ l \in Nat /\ f \in [1 .. l + 1 -> Nat] /\ g \in [1 .. l -> Nat]
      /\ \A i \in 1 .. l : g[i] = f[i + 1]
  BY <1>1, <1>2, ConnectingTyped DEF f, g
<1>4. SumFunction(g) \in Nat /\ SumFunction(f) = f[1] + SumFunction(g)
  BY <1>a, SumShrinks
<1> QED
  BY <1>3, <1>4, <1>b, ConnectingTyped DEF a

(* Where a packet is on its way to the host. *)
LEMMA PipelineMembers ==
    ASSUME NEW a, NEW b, NEW q \in Seq(SdcMessage), NEW p
    PROVE  (\E i \in DOMAIN (<<a, b>> \o q) : (<<a, b>> \o q)[i] = p)
              <=> a = p \/ b = p \/ \E i \in DOMAIN q : q[i] = p
<1> DEFINE s == <<a, b>> \o q
<1>1. PICK n \in Nat : n = Len(q)
  OBVIOUS
<1>2. /\ DOMAIN s = 1 .. n + 2 /\ DOMAIN q = 1 .. n
      /\ s[1] = a /\ s[2] = b
      /\ \A i \in 1 .. n : s[i + 2] = q[i]
  BY <1>1
<1> HIDE DEF s
<1>3. ASSUME NEW i \in 1 .. n + 2, s[i] = p PROVE a = p \/ b = p \/ \E j \in 1 .. n : q[j] = p
  <2>1. CASE i \in {1, 2}
    BY <1>2, <1>3, <2>1
  <2>2. CASE i \notin {1, 2}
    <3>1. i - 2 \in 1 .. n /\ (i - 2) + 2 = i
      BY <2>2
    <3> QED
      BY <1>2, <1>3, <3>1
  <2> QED
    BY <2>1, <2>2
<1>4. 1 \in 1 .. n + 2 /\ 2 \in 1 .. n + 2 /\ \A i \in 1 .. n : i + 2 \in 1 .. n + 2
  OBVIOUS
<1> QED
  BY <1>2, <1>3, <1>4 DEF s

(* A packet in the pipeline is in one of its three parts. *)
LEMMA PipelineSplit ==
    ASSUME TypeOK, NEW p
    PROVE  InPipeline(p) <=> ctlPacket = p \/ HeldPacket = p \/ Queued(p)
<1>1. sdcQueue \in Seq(SdcMessage)
  BY DEF TypeOK, SdcTypeOK
<1> QED
  BY <1>1, PipelineMembers DEF InPipeline, Pipeline, Queued

(* The same in the next state. *)
LEMMA PipelineSplitNext ==
    ASSUME TypeOK', NEW p
    PROVE  InPipeline(p)' <=> ctlPacket' = p \/ HeldPacket' = p \/ Queued(p)'
<1>1. sdcQueue' \in Seq(SdcMessage)
  BY DEF TypeOK, SdcTypeOK
<1> QED
  BY <1>1, PipelineMembers DEF InPipeline, Pipeline, Queued

(* The queue loses its first message or gains a last one. *)
LEMMA QueuedTail ==
    ASSUME NEW s \in Seq(SdcMessage), s # <<>>
    PROVE  /\ Tail(s) \in Seq(SdcMessage) /\ Head(s) \in SdcMessage /\ Head(s) = s[1]
           /\ 1 \in DOMAIN s
           /\ \A i \in DOMAIN Tail(s) : i + 1 \in DOMAIN s /\ 1 < i + 1 /\ Tail(s)[i] = s[i + 1]
           /\ \A i, j \in DOMAIN Tail(s) : (i + 1 = j + 1 => i = j) /\ (i < j => i + 1 < j + 1)
           /\ \A i \in DOMAIN s : i # 1 => i - 1 \in DOMAIN Tail(s) /\ Tail(s)[i - 1] = s[i]
OBVIOUS

(* The queue gains a last message and keeps the others in place. *)
LEMMA QueuedAppend ==
    ASSUME NEW s \in Seq(SdcMessage), NEW p \in SdcMessage
    PROVE  /\ Append(s, p) \in Seq(SdcMessage) /\ Append(s, p)[Len(s) + 1] = p
           /\ Len(s) + 1 \in DOMAIN Append(s, p)
           /\ \A i \in DOMAIN s : i \in DOMAIN Append(s, p) /\ Append(s, p)[i] = s[i]
           /\ \A i \in DOMAIN Append(s, p) : i \in DOMAIN s \/ i = Len(s) + 1
           /\ \A i \in DOMAIN s : i < Len(s) + 1
OBVIOUS

---------------------------------------------------------------------------
(* The advertising family. *)

(* A command that HciSdcAdvCommandGuard lets through is of the family it   *)
(* then remembers.                                                         *)
LEMMA FamilyKept ==
    ASSUME TypeOK, FamilyInv, NEW op \in Opcode, ~AdvRefuses(op),
           AdvCmdTypeSinceReset' = HciSdcAdvCommandGuard(op), sdcFamilies' = SeenFamily(op)
    PROVE  FamilyInv'
<1>1. sdcFamilies \subseteq {"LEGACY", "EXTENDED"}
  BY DEF TypeOK, SdcTypeOK
<1> QED
  BY <1>1 DEF FamilyInv, AdvRefuses, HciSdcAdvCommandGuard, SeenFamily

(* The guard lets a family through only when it is the remembered one, and *)
(* remembers it; a reset forgets both.                                     *)
LEMMA FamilyStep ==
    ASSUME TypeOK, FamilyInv, Next
    PROVE  FamilyInv'
<1>1. CASE PutCommandPacket
  <2>1. PICK cmd \in CommandPacket :
          \/ PutCommandRejected(cmd)
          \/ PutCommandRefused(cmd)
          \/ \E status \in HandlerStatus :
                \/ PutCompatCommand(cmd, status)
                \/ PutReset(cmd, status)
                \/ PutReadBufferSize(cmd, status)
                \/ PutCommand(cmd, status)
                \/ PutDelayedCommand(cmd, status)
    BY <1>1 DEF PutCommandPacket
  <2>2. cmd.op \in Opcode
    BY SdcAssumption DEF SdcAssumption
  <2>3. CASE PutCommandRejected(cmd) \/ PutCommandRefused(cmd)
    BY <2>3 DEF PutCommandRejected, PutCommandRefused, sdcVars, FamilyInv
  <2>4. ASSUME NEW status \in HandlerStatus, PutCompatCommand(cmd, status) PROVE FamilyInv'
    BY <2>4 DEF PutCompatCommand, sdcVars, FamilyInv
  <2>5. ASSUME NEW status \in HandlerStatus, PutReset(cmd, status) PROVE FamilyInv'
    BY <2>5 DEF PutReset, sdcVars, FamilyInv
  <2>6. ASSUME NEW status \in HandlerStatus,
               \/ PutReadBufferSize(cmd, status) \/ PutCommand(cmd, status)
               \/ PutDelayedCommand(cmd, status)
        PROVE  FamilyInv'
    <3>1. /\ ~AdvRefuses(cmd.op) /\ AdvCmdTypeSinceReset' = HciSdcAdvCommandGuard(cmd.op)
          /\ sdcFamilies' = SeenFamily(cmd.op)
      BY <2>6 DEF PutReadBufferSize, PutCommand, PutDelayedCommand, EnterHandler
    <3> QED
      BY <2>2, <3>1, FamilyKept
  <2> QED
    BY <2>1, <2>3, <2>4, <2>5, <2>6
<1>2. CASE Rx
  BY <1>2 DEF Rx, RxHeld, RxResponse, HciSdcBuildCreditEvent, RxQueue, RxBad, RxEmpty, QueueTurn,
              cmdVars, sdcVars, FamilyInv
<1>3. CASE PutAclPacket
  BY <1>3 DEF PutAclPacket, PutAclOversize, PutAclOverLimit, PutAclError, PutAcl, PutAclAgain,
              cmdVars, sdcVars, FamilyInv
<1>4. CASE SdcStep
  BY <1>4 DEF SdcStep, SdcConnect, SdcCompletes, SdcDisconnect, SdcDisconnectFails,
              SdcDelayedCompletes, SdcData, SdcQueues, cmdVars, FamilyInv
<1>5. CASE HostReceives
  BY <1>5 DEF HostReceives, cmdVars, sdcVars, FamilyInv
<1>6. CASE SdcEndsMasked
  BY <1>6, MaskedQuiet DEF cmdVars, FamilyInv
<1> QED
  BY <1>1, <1>2, <1>3, <1>4, <1>5, <1>6 DEF Next

---------------------------------------------------------------------------
(* The slot and the hold. *)

(* A fetched packet goes to the slot or to the hold. *)
LEMMA RxDataFills ==
    ASSUME HoldEmpty, NEW p, NEW t, RxData(p, t)
    PROVE  (ctlPacket' = p /\ HeldPacket' = NoPacket) \/ (HeldPacket' = p /\ ctlPacket' = NoPacket)
BY DEF HoldEmpty, RxData

(* A packet in the hold moves to the slot, and nothing else changes. *)
LEMMA RxHeldMoves ==
    ASSUME NEW t, RxHeld(t)
    PROVE  /\ ctlPacket = NoPacket /\ HeldPacket # NoPacket
           /\ ctlPacket' = HeldPacket /\ HeldPacket' = NoPacket
           /\ UNCHANGED <<cmdVars, creditVars, aclVars, sdcVars, hostVars>>
BY DEF RxHeld, RxData

(* A message of the controller is no response. *)
LEMMA NoResponseQueued ==
    ASSUME NEW p \in SdcMessage
    PROVE  p.kind # "RESPONSE"
BY DEF SdcMessage, DelayedComplete, Data, Bad

(* Slot and hold are never both full, and a response that left its         *)
(* dispatcher left it empty: HciSdcGetPacket fetches only into an empty    *)
(* hold.                                                                   *)
LEMMA HoldStep ==
    ASSUME TypeOK, OneCommandCredit, HoldInv, Next
    PROVE  HoldInv'
<1>0. NoPacket.type # "EVENT"
  BY DEF NoPacket
<1>1. CASE PutCommandPacket
  <2>1. UNCHANGED outVars /\ ~CommandEventLast
    BY <1>1 DEF PutCommandPacket, PutCommandRejected, PutCommandRefused, PutCompatCommand, PutReset,
                PutReadBufferSize, PutCommand, PutDelayedCommand, EnterHandler, CommandTurn
  <2> QED
    BY <2>1 DEF HoldInv, Hold, outVars
<1>2. ASSUME NEW t \in PacketType, RxHeld(t) PROVE HoldInv'
  <2>1. /\ ctlPacket' = HeldPacket /\ HeldPacket' = NoPacket /\ UNCHANGED cmdVars
    BY <1>2, RxHeldMoves
  <2> QED
    BY <1>0, <2>1 DEF HoldInv, Hold, NoResponse, Commands!EventPending, Compat!EventPending, cmdVars
<1>3. ASSUME NEW t \in PacketType, RxResponse(t) PROVE HoldInv'
  <2>1. CommandEventLast' /\ NoResponse'
    BY <1>3 DEF RxResponse, NoResponse, OneCommandCredit, Commands!HciCmdDispatchGet,
                Compat!HciCmdDispatchGet, Commands!EventPending, Compat!EventPending,
                Commands!NoEvent, Compat!NoEvent
  <2>2. PICK p : RxData(p, t)
    BY <1>3 DEF RxResponse
  <2>3. HoldEmpty
    BY <1>3 DEF RxResponse
  <2> QED
    BY <2>1, <2>2, <2>3, RxDataFills DEF HoldInv, Hold
<1>4. ASSUME NEW t \in PacketType, NEW p, HoldEmpty, RxData(p, t), p.kind # "RESPONSE" PROVE HoldInv'
  BY <1>0, <1>4, RxDataFills DEF HoldInv, Hold
<1>5. ASSUME NEW t \in PacketType, HciSdcBuildCreditEvent(t) PROVE HoldInv'
  BY <1>4, <1>5 DEF HciSdcBuildCreditEvent, Completed
<1>6. ASSUME NEW t \in PacketType, RxQueue(t) PROVE HoldInv'
  <2>1. /\ HoldEmpty /\ sdcQueue # <<>> /\ RxData(Head(sdcQueue), t)
    BY <1>6 DEF RxQueue, QueueTurn
  <2>2. Head(sdcQueue) \in SdcMessage
    BY <2>1, QueuedTail DEF TypeOK, SdcTypeOK
  <2> QED
    BY <1>4, <2>1, <2>2, NoResponseQueued
<1>7. CASE RxBad \/ RxEmpty
  BY <1>0, <1>7 DEF RxBad, RxEmpty, QueueTurn, HoldEmpty, HoldInv, Hold, outVars
<1>8. CASE PutAclPacket \/ SdcStep \/ SdcEndsMasked
  <2>1. UNCHANGED outVars
    BY <1>8, MaskedQuiet DEF PutAclPacket, PutAclOversize, PutAclOverLimit, PutAclError, PutAcl, PutAclAgain,
                SdcStep, SdcConnect, SdcCompletes, SdcDisconnect, SdcDisconnectFails,
                SdcDelayedCompletes, SdcData, SdcQueues
  <2>2. UNCHANGED cmdVars
    BY <1>8, OthersKeepCommandPath
  <2> QED
    BY <2>1, <2>2 DEF HoldInv, Hold, outVars, cmdVars, NoResponse,
                      Commands!EventPending, Compat!EventPending
<1>9. CASE HostReceives
  BY <1>0, <1>9 DEF HostReceives, HoldInv, Hold, cmdVars, NoResponse,
                      Commands!EventPending, Compat!EventPending
<1> QED
  BY <1>1, <1>2, <1>3, <1>5, <1>6, <1>7, <1>8, <1>9 DEF Next, Rx

---------------------------------------------------------------------------
(* The delayed completion. *)

(* The controller owes one delayed completion at most, and the adapter     *)
(* waits for it from the command to the event.                             *)
LEMMA DelayedStep ==
    ASSUME TypeOK, DelayedInv, Next
    PROVE  DelayedInv'
<1>0. sdcQueue \in Seq(SdcMessage) /\ NoOp # OpPawr
      /\ DelayedCommandOpcode \in {NoOp, OpPawr}
  BY SdcAssumption DEF SdcAssumption, TypeOK, SdcTypeOK, CmdTypeOK
<1>1. ASSUME UNCHANGED <<DelayedCommandOpcode, sdcQueue, sdcDelayed>> PROVE DelayedInv'
  BY <1>1 DEF DelayedInv, Queued, DelayedCommandPending
<1>2. ASSUME NEW cmd \in CommandPacket, NEW status \in HandlerStatus, PutReset(cmd, status)
      PROVE  DelayedInv'
  <2>1. CASE status = SUCCESS
    BY <1>2, <2>1 DEF PutReset, DelayedInv, Queued
  <2>2. CASE status # SUCCESS
    BY <1>1, <1>2, <2>2 DEF PutReset, sdcVars
  <2> QED
    BY <2>1, <2>2
<1>3. ASSUME NEW cmd \in CommandPacket, NEW status \in HandlerStatus, PutDelayedCommand(cmd, status)
      PROVE  DelayedInv'
  <2>1. ~DelayedCommandPending /\ sdcQueue' = sdcQueue /\ cmd.op = OpPawr
    BY <1>3 DEF PutDelayedCommand, EnterHandler, CommandTurn, HciSdcDelayedCommandCandidate
  <2>2. ~Queued(DelayedComplete) /\ ~sdcDelayed
    BY <2>1 DEF DelayedInv
  <2> QED
    BY <1>0, <1>3, <2>1, <2>2 DEF PutDelayedCommand, DelayedInv, Queued, DelayedCommandPending
<1>4. CASE PutCommandPacket
  <2>1. ASSUME NEW cmd \in CommandPacket, NEW status \in HandlerStatus,
               \/ PutCommandRejected(cmd) \/ PutCommandRefused(cmd) \/ PutCompatCommand(cmd, status)
               \/ PutReadBufferSize(cmd, status) \/ PutCommand(cmd, status)
        PROVE  DelayedInv'
    BY <1>1, <2>1 DEF PutCommandRejected, PutCommandRefused, PutCompatCommand, PutReadBufferSize,
                      PutCommand, sdcVars
  <2>2. PICK any \in HandlerStatus : TRUE
    BY TableAssumption DEF TableAssumption
  <2> QED
    BY <1>2, <1>3, <1>4, <2>1, <2>2 DEF PutCommandPacket
<1>5. ASSUME sdcQueue # <<>>, sdcQueue' = Tail(sdcQueue), UNCHANGED sdcDelayed,
             DelayedCommandOpcode' = DelayedAfter(Head(sdcQueue))
      PROVE  DelayedInv'
  <2> DEFINE q == Tail(sdcQueue)
  <2>1. /\ Head(sdcQueue) = sdcQueue[1] /\ 1 \in DOMAIN sdcQueue /\ Head(sdcQueue) \in SdcMessage
        /\ \A i \in DOMAIN q : i + 1 \in DOMAIN sdcQueue /\ 1 < i + 1 /\ q[i] = sdcQueue[i + 1]
        /\ \A i, j \in DOMAIN q : (i + 1 = j + 1 => i = j) /\ (i < j => i + 1 < j + 1)
    BY <1>0, <1>5, QueuedTail
  <2>2. \A i, j \in DOMAIN q : q[i] = DelayedComplete /\ q[j] = DelayedComplete => i = j
    BY <2>1 DEF DelayedInv
  <2>3. \A i \in DOMAIN q : q[i] = DelayedComplete => Queued(DelayedComplete)
    BY <2>1 DEF Queued
  <2>4. CASE Head(sdcQueue) = DelayedComplete
    <3>1. \A i \in DOMAIN q : q[i] # DelayedComplete
      BY <2>1, <2>4 DEF DelayedInv
    <3>2. Queued(DelayedComplete)
      BY <2>1, <2>4 DEF Queued
    <3>3. ~sdcDelayed
      BY <3>2 DEF DelayedInv
    <3> QED
      BY <1>5, <2>2, <3>1, <3>3 DEF DelayedInv, Queued
  <2>5. CASE Head(sdcQueue) # DelayedComplete
    <3>1. Head(sdcQueue).kind # "DELAYED"
      BY <2>1, <2>5 DEF SdcMessage, Data, Bad
    <3>2. DelayedCommandOpcode' = DelayedCommandOpcode
      BY <1>5, <3>1 DEF DelayedAfter
    <3> QED
      BY <1>5, <2>2, <2>3, <3>2 DEF DelayedInv, Queued, DelayedCommandPending
  <2> QED
    BY <2>4, <2>5
<1>6. ASSUME NEW t \in PacketType, RxQueue(t) PROVE DelayedInv'
  BY <1>5, <1>6 DEF RxQueue
<1>7. CASE RxBad
  <2>1. /\ sdcQueue # <<>> /\ sdcQueue' = Tail(sdcQueue) /\ UNCHANGED <<sdcDelayed, DelayedCommandOpcode>>
        /\ Head(sdcQueue).type \notin PacketType
    BY <1>7 DEF RxBad, Deliverable
  <2>2. Head(sdcQueue) \in SdcMessage
    BY <1>0, <2>1, QueuedTail
  <2>3. Head(sdcQueue).kind # "DELAYED"
    BY <2>1, <2>2 DEF SdcMessage, PacketType, Data, Bad, DelayedComplete
  <2> QED
    BY <1>5, <2>1, <2>3 DEF DelayedAfter
<1>8. CASE Rx
  <2>1. ASSUME NEW t \in PacketType, RxHeld(t) \/ RxResponse(t) \/ HciSdcBuildCreditEvent(t) \/ RxEmpty
        PROVE  DelayedInv'
    BY <1>1, <2>1 DEF RxHeld, RxResponse, HciSdcBuildCreditEvent, RxEmpty, cmdVars, sdcVars
  <2>2. PICK t \in PacketType : TRUE
    BY DEF PacketType
  <2> QED
    BY <1>6, <1>7, <1>8, <2>1, <2>2 DEF Rx
<1>9. ASSUME NEW p \in SdcMessage, SdcQueues(p), p # DelayedComplete, UNCHANGED sdcDelayed
      PROVE  DelayedInv'
  <2> DEFINE q == Append(sdcQueue, p)
  <2>1. /\ \A i \in DOMAIN q : q[i] = DelayedComplete => i \in DOMAIN sdcQueue /\ q[i] = sdcQueue[i]
    BY <1>0, <1>9, QueuedAppend
  <2>2. sdcQueue' = q /\ UNCHANGED DelayedCommandOpcode
    BY <1>9 DEF SdcQueues, cmdVars
  <2> HIDE DEF q
  <2> QED
    BY <1>9, <2>1, <2>2 DEF DelayedInv, Queued, DelayedCommandPending
<1>10. CASE SdcDelayedCompletes
  <2> DEFINE q == Append(sdcQueue, DelayedComplete)
  <2>1. \A i \in DOMAIN q : q[i] = DelayedComplete => i = Len(sdcQueue) + 1
    <3>1. ~Queued(DelayedComplete)
      BY <1>10 DEF SdcDelayedCompletes, DelayedInv
    <3>2. DelayedComplete \in SdcMessage
      BY DEF SdcMessage
    <3> QED
      BY <1>0, <3>1, <3>2, QueuedAppend DEF Queued
  <2>2. sdcQueue' = q /\ UNCHANGED DelayedCommandOpcode /\ sdcDelayed' = FALSE /\ sdcDelayed
    BY <1>10 DEF SdcDelayedCompletes, SdcQueues, cmdVars
  <2> HIDE DEF q
  <2> QED
    BY <2>1, <2>2 DEF DelayedInv, Queued, DelayedCommandPending
<1>11. CASE SdcStep
  <2>1. /\ {Data, Bad} \subseteq SdcMessage \ {DelayedComplete}
        /\ \A h \in Handle : {Connect(h), Disconnect(h), DisconnectFailed(h)}
                                 \subseteq SdcMessage \ {DelayedComplete}
        /\ \A h \in Handle, n \in Nat : Completed(Only(h, n)) \in SdcMessage \ {DelayedComplete}
    BY DEF SdcMessage, Connect, Disconnect, DisconnectFailed, Completed, Only, NoCount,
           DelayedComplete, Data, Bad
  <2>2. ASSUME NEW h \in Handle,
               SdcConnect(h) \/ SdcDisconnect(h) \/ SdcDisconnectFails(h) \/ SdcData
        PROVE  DelayedInv'
    BY <1>9, <2>1, <2>2 DEF SdcConnect, SdcDisconnect, SdcDisconnectFails, SdcData
  <2>3. ASSUME NEW h \in Handle, SdcCompletes(h) PROVE DelayedInv'
    <3>1. PICK n \in 1 .. sdcBuffered[h] : SdcQueues(Completed(Only(h, n))) /\ UNCHANGED sdcDelayed
      BY <2>3 DEF SdcCompletes
    <3>2. n \in Nat
      BY DEF TypeOK, SdcTypeOK
    <3> QED
      BY <1>9, <2>1, <3>1, <3>2
  <2>4. CASE SdcData
    BY <1>9, <2>1, <2>4 DEF SdcData
  <2> QED
    BY <1>10, <1>11, <2>2, <2>3, <2>4 DEF SdcStep
<1>12. CASE PutAclPacket
  <2>1. UNCHANGED <<DelayedCommandOpcode, sdcQueue, sdcDelayed>>
    BY <1>12 DEF PutAclPacket, PutAclOversize, PutAclOverLimit, PutAclError, PutAcl, PutAclAgain,
                 cmdVars, sdcVars
  <2> QED
    BY <1>1, <2>1
<1>13. CASE HostReceives
  BY <1>1, <1>13 DEF HostReceives, cmdVars, sdcVars
<1>14. CASE SdcEndsMasked
  BY <1>1, <1>14, MaskedQuiet DEF cmdVars
<1> QED
  BY <1>4, <1>8, <1>11, <1>12, <1>13, <1>14 DEF Next

---------------------------------------------------------------------------
(* The answers of a reset and of a connection. *)

(* The two rows: their handlers' results are what the host is told. *)
LEMMA RowAnswers ==
    ASSUME NEW cmd \in CommandPacket, NEW status \in HandlerStatus, cmd.op \in {OpReset, OpCreate},
           Commands!PutHandled(cmd, ResultOf(Table[cmd.op], status))
    PROVE  cmdEvent'.form # "NONE" /\ cmdEvent'.op = cmd.op /\ cmdEvent'.status = status
<1> DEFINE row == Table[cmd.op]
           result == ResultOf(row, status)
<1>1. row.Response \in {"COMPLETE", "STATUS"} /\ row.ReturnLen = 0
  BY TableAssumption DEF TableAssumption
<1>2. result.Response = row.Response /\ result.ReturnLen = 0 /\ result.Status = status
  BY <1>1 DEF ResultOf
<1>3. Commands!Fits(0)
  BY TableAssumption
     DEF TableAssumption, Commands!DispatchAssumption, Commands!Fits, Commands!ReturnCapacity,
         Commands!CompleteBaseSize, Commands!MaxReturnLen
<1>4. cmdEvent' = Commands!HciCmdResultEvent(cmd.op, result)
  BY DEF Commands!PutHandled
<1> HIDE DEF result, row
<1>5. cmdEvent' = IF row.Response = "COMPLETE"
                  THEN Commands!HciCmdBuildComplete(cmd.op, status, Commands!PaddedLen(row, 0))
                  ELSE Commands!HciCmdBuildStatus(cmd.op, status)
  BY <1>1, <1>2, <1>3, <1>4 DEF Commands!HciCmdResultEvent, row
<1> QED
  BY <1>5 DEF Commands!HciCmdBuildComplete, Commands!HciCmdBuildStatus

(* Any other row answers for its own opcode, or not at all. *)
LEMMA HandledNames ==
    ASSUME NEW cmd \in CommandPacket, NEW status,
           Commands!PutHandled(cmd, ResultOf(Table[cmd.op], status))
    PROVE  cmdEvent'.form = "NONE" \/ cmdEvent'.op = cmd.op
<1>1. cmdEvent' = Commands!HciCmdResultEvent(cmd.op, ResultOf(Table[cmd.op], status))
  BY DEF Commands!PutHandled
<1> QED
  BY <1>1 DEF Commands!HciCmdResultEvent, Commands!HciCmdBuildError, Commands!HciCmdBuildComplete,
              Commands!HciCmdBuildStatus, Commands!NoEvent

(* A refusal names the refused opcode and is no success. *)
LEMMA RejectedNames ==
    ASSUME NEW cmd, Commands!PutRejected(cmd) \/ Commands!PutRefused(cmd, Commands!DISALLOWED)
    PROVE  cmdEvent'.form = "NONE" \/ (cmdEvent'.op = cmd.op /\ cmdEvent'.status # SUCCESS)
BY DEF Commands!PutRejected, Commands!PutRefused, Commands!HciCmdBuildError, Commands!HciCmdBuildComplete,
       Commands!HciCmdBuildStatus, Commands!NoEvent, Commands!DISALLOWED, Commands!UNKNOWN_COMMAND,
       Commands!INVALID_PARAMETERS, SUCCESS

(* The supplemental dispatcher answers for its own opcode. *)
LEMMA CompatNames ==
    ASSUME NEW cmd \in CommandPacket, NEW status,
           Compat!PutRejected(cmd) \/ Compat!PutHandled(cmd, ResultOf(CompatTable[cmd.op], status))
    PROVE  compatEvent'.op \in {cmd.op, NoOp}
<1>1. CASE Compat!PutRejected(cmd)
  BY <1>1 DEF Compat!PutRejected, Compat!HciCmdBuildError, Compat!HciCmdBuildComplete,
              Compat!HciCmdBuildStatus, Compat!NoEvent
<1>2. CASE Compat!PutHandled(cmd, ResultOf(CompatTable[cmd.op], status))
  <2>1. compatEvent' = Compat!HciCmdResultEvent(cmd.op, ResultOf(CompatTable[cmd.op], status))
    BY <1>2 DEF Compat!PutHandled
  <2> QED
    BY <2>1 DEF Compat!HciCmdResultEvent, Compat!HciCmdBuildError, Compat!HciCmdBuildComplete,
                Compat!HciCmdBuildStatus, Compat!NoEvent
<1> QED
  BY <1>1, <1>2

(* The supplemental dispatcher never answers a reset or a connection. *)
LEMMA CompatStep ==
    ASSUME CompatInv, Next
    PROVE  CompatInv'
<1>0. OpReset # NoOp /\ OpCreate # NoOp
  BY SdcAssumption DEF SdcAssumption
<1>1. ASSUME NEW cmd \in CommandPacket, NEW status \in HandlerStatus, HciSdcSupplementalOpcode(cmd),
             Compat!PutRejected(cmd) \/ Compat!PutHandled(cmd, ResultOf(CompatTable[cmd.op], status))
      PROVE  CompatInv'
  <2>1. cmd.op \notin {OpReset, OpCreate}
    BY <1>1, TableAssumption DEF TableAssumption, HciSdcSupplementalOpcode
  <2> QED
    BY <1>0, <1>1, <2>1, CompatNames DEF CompatInv
<1>2. CASE PutCommandPacket
  <2>1. ASSUME NEW cmd \in CommandPacket, PutCommandRejected(cmd) PROVE CompatInv'
    <3>1. PICK any \in HandlerStatus : TRUE
      BY TableAssumption DEF TableAssumption
    <3> QED
      BY <1>1, <2>1, <3>1 DEF PutCommandRejected, CompatInv
  <2>2. ASSUME NEW cmd \in CommandPacket, NEW status \in HandlerStatus, PutCompatCommand(cmd, status)
        PROVE  CompatInv'
    BY <1>1, <2>2 DEF PutCompatCommand
  <2>3. ASSUME NEW cmd \in CommandPacket, NEW status \in HandlerStatus,
               \/ PutCommandRefused(cmd) \/ PutReset(cmd, status) \/ PutReadBufferSize(cmd, status)
               \/ PutCommand(cmd, status) \/ PutDelayedCommand(cmd, status)
        PROVE  CompatInv'
    BY <2>3 DEF PutCommandRefused, PutReset, PutReadBufferSize, PutCommand, PutDelayedCommand,
                EnterHandler, CompatInv
  <2>4. PICK any \in HandlerStatus : TRUE
    BY TableAssumption DEF TableAssumption
  <2> QED
    BY <1>2, <2>1, <2>2, <2>3, <2>4 DEF PutCommandPacket
<1>3. CASE Rx
  BY <1>0, <1>3 DEF Rx, RxHeld, RxResponse, HciSdcBuildCreditEvent, RxQueue, RxBad, RxEmpty, QueueTurn,
                    Compat!HciCmdDispatchGet, Compat!NoEvent, cmdVars, CompatInv
<1>4. CASE PutAclPacket \/ SdcStep \/ SdcEndsMasked \/ HostReceives
  BY <1>4, OthersKeepCommandPath DEF cmdVars, CompatInv
<1> QED
  BY <1>2, <1>3, <1>4 DEF Next

(* What a successful reset leaves, and what any other command does not     *)
(* touch.                                                                  *)
ResetDone ==
    /\ HciSdcResetFlowControl
    /\ sdcQueue' = <<>> /\ sdcLinks' = {} /\ sdcBuffered' = NoCount /\ sdcCreating' = FALSE
    /\ hostResetting' = TRUE
    /\ AnswerPending(OpReset)' /\ ~AnswerPending(OpCreate)'

OtherDone ==
    /\ UNCHANGED <<sdcQueue, sdcLinks, sdcBuffered, creditVars,
                   AclTracked, AclOutstanding, AclOutstandingTotal, hostResetting>>
    /\ AclLimit' \in {AclLimit, SdcBuffers}
    /\ ~AnswerPending(OpReset)'
    /\ One(sdcCreating)' = One(sdcCreating) + One(AnswerPending(OpCreate)')
    /\ One(AnswerPending(OpCreate)') <= One(sdcCreating)'

(* When HciSdcPutPacket takes a command no answer is pending or on its     *)
(* way.                                                                    *)
LEMMA PutQuiet ==
    ASSUME HoldInv, PutCommandPacket
    PROVE  /\ ~Commands!EventPending
           /\ ~AnswerPending(OpReset) /\ ~AnswerPending(OpCreate)
           /\ ~AnswerHeld(OpReset) /\ ~AnswerHeld(OpCreate)
           /\ UNCHANGED <<HeldPacket, ctlPacket, hostLinks, hostInFlight, hostCreating, hostUntold>>
<1>1. CommandTurn
  BY DEF PutCommandPacket, PutCommandRejected, PutCommandRefused, PutCompatCommand, PutReset,
         PutReadBufferSize, PutCommand, PutDelayedCommand, EnterHandler
<1>2. ~Commands!EventPending /\ ~CommandEventLast
  BY <1>1 DEF CommandTurn
<1>3. UNCHANGED <<HeldPacket, ctlPacket, hostLinks, hostInFlight, hostCreating, hostUntold>>
  BY DEF PutCommandPacket, PutCommandRejected, PutCommandRefused, PutCompatCommand, PutReset,
         PutReadBufferSize, PutCommand, PutDelayedCommand, EnterHandler, outVars, hostVars
<1> QED
  BY <1>2, <1>3 DEF AnswerPending, AnswerHeld, Answers, HoldInv

(* A command is a successful reset or leaves links, queue and accounting   *)
(* alone.                                                                  *)
LEMMA PutEffects ==
    ASSUME TypeOK, HoldInv, PutCommandPacket
    PROVE  ResetDone \/ OtherDone
<1>0. /\ OpReset # OpCreate /\ OpReset # OpPawr /\ OpCreate # OpPawr
      /\ OpReset # OpReadBufferSize /\ OpCreate # OpReadBufferSize
  BY SdcAssumption DEF SdcAssumption
<1>a. sdcCreating \in BOOLEAN
  BY DEF TypeOK, SdcTypeOK
<1>b. ~Commands!EventPending
  BY PutQuiet
<1>1. ASSUME ~AnswerPending(OpReset)', ~AnswerPending(OpCreate)', sdcCreating' = sdcCreating,
             UNCHANGED <<sdcQueue, sdcLinks, sdcBuffered, creditVars,
                         AclTracked, AclOutstanding, AclOutstandingTotal, hostResetting>>,
             AclLimit' \in {AclLimit, SdcBuffers}
      PROVE  OtherDone
  BY <1>a, <1>1 DEF OtherDone, One
<1>2. ASSUME NEW cmd \in CommandPacket, PutCommandRejected(cmd) \/ PutCommandRefused(cmd)
      PROVE  OtherDone
  <2>1. cmdEvent' = cmdEvent \/ cmdEvent'.form = "NONE" \/ cmdEvent'.status # SUCCESS
    BY <1>2, RejectedNames DEF PutCommandRejected, PutCommandRefused
  <2>2. ~AnswerPending(OpReset)' /\ ~AnswerPending(OpCreate)'
    BY <1>b, <2>1 DEF AnswerPending, Commands!EventPending
  <2> QED
    BY <1>1, <1>2, <2>2 DEF PutCommandRejected, PutCommandRefused, sdcVars, aclVars, hostVars
<1>3. ASSUME NEW cmd \in CommandPacket, NEW status, PutCompatCommand(cmd, status)
      PROVE  OtherDone
  <2>1. ~AnswerPending(OpReset)' /\ ~AnswerPending(OpCreate)'
    BY <1>b, <1>3 DEF PutCompatCommand, AnswerPending, Commands!EventPending
  <2> QED
    BY <1>1, <1>3, <2>1 DEF PutCompatCommand, sdcVars, aclVars, hostVars
<1>4. ASSUME NEW cmd \in CommandPacket, NEW status \in HandlerStatus, PutReset(cmd, status)
      PROVE  ResetDone \/ OtherDone
  <2>1. /\ cmdEvent'.form # "NONE" /\ cmdEvent'.op = OpReset /\ cmdEvent'.status = status
    BY <1>4, RowAnswers DEF PutReset
  <2>2. CASE status = SUCCESS
    BY <1>0, <1>4, <2>1, <2>2 DEF PutReset, ResetDone, AnswerPending, Commands!EventPending
  <2>3. CASE status # SUCCESS
    <3>1. ~AnswerPending(OpReset)' /\ ~AnswerPending(OpCreate)'
      BY <2>1, <2>3 DEF AnswerPending
    <3> QED
      BY <1>1, <1>4, <2>3, <3>1 DEF PutReset, sdcVars, aclVars
  <2> QED
    BY <2>2, <2>3
<1>5. ASSUME NEW cmd \in CommandPacket, NEW status \in HandlerStatus, PutReadBufferSize(cmd, status)
      PROVE  OtherDone
  <2>1. cmdEvent'.form = "NONE" \/ cmdEvent'.op = OpReadBufferSize
    BY <1>5, HandledNames DEF PutReadBufferSize
  <2>2. ~AnswerPending(OpReset)' /\ ~AnswerPending(OpCreate)'
    BY <1>0, <2>1 DEF AnswerPending, Commands!EventPending
  <2> QED
    BY <1>1, <1>5, <2>2 DEF PutReadBufferSize, hostVars
<1>6. ASSUME NEW cmd \in CommandPacket, NEW status \in HandlerStatus, PutCommand(cmd, status)
      PROVE  OtherDone
  <2>0. /\ UNCHANGED <<sdcQueue, sdcLinks, sdcBuffered, creditVars,
                       AclTracked, AclOutstanding, AclOutstandingTotal, hostResetting>>
        /\ AclLimit' = AclLimit /\ cmd.op # OpReset
        /\ Commands!PutHandled(cmd, ResultOf(Table[cmd.op], status))
        /\ sdcCreating' = (sdcCreating \/ (cmd.op = OpCreate /\ status = SUCCESS))
        /\ (cmd.op = OpCreate /\ sdcCreating => status # SUCCESS)
    BY <1>6 DEF PutCommand, aclVars, hostVars
  <2>1. CASE cmd.op = OpCreate /\ status = SUCCESS
    <3>1. cmdEvent'.form # "NONE" /\ cmdEvent'.op = OpCreate /\ cmdEvent'.status = SUCCESS
      BY <2>0, <2>1, RowAnswers
    <3>2. AnswerPending(OpCreate)' /\ ~AnswerPending(OpReset)' /\ ~sdcCreating /\ sdcCreating'
      BY <1>0, <2>0, <2>1, <3>1 DEF AnswerPending, Commands!EventPending
    <3> QED
      BY <2>0, <3>2 DEF OtherDone, One
  <2>2. CASE cmd.op = OpCreate /\ status # SUCCESS
    <3>1. cmdEvent'.op = OpCreate /\ cmdEvent'.status # SUCCESS
      BY <2>0, <2>2, RowAnswers
    <3>2. ~AnswerPending(OpCreate)' /\ ~AnswerPending(OpReset)'
      BY <3>1 DEF AnswerPending
    <3>3. sdcCreating' = sdcCreating
      BY <1>a, <2>0, <2>2
    <3> QED
      BY <1>1, <2>0, <3>2, <3>3
  <2>3. CASE cmd.op # OpCreate
    <3>1. cmdEvent'.form = "NONE" \/ cmdEvent'.op = cmd.op
      BY <2>0, HandledNames
    <3>2. ~AnswerPending(OpCreate)' /\ ~AnswerPending(OpReset)'
      BY <2>0, <2>3, <3>1 DEF AnswerPending, Commands!EventPending
    <3>3. sdcCreating' = sdcCreating
      BY <1>a, <2>0, <2>3
    <3> QED
      BY <1>1, <2>0, <3>2, <3>3
  <2> QED
    BY <2>1, <2>2, <2>3
<1>7. ASSUME NEW cmd \in CommandPacket, NEW status \in HandlerStatus, PutDelayedCommand(cmd, status)
      PROVE  OtherDone
  <2>1. cmd.op = OpPawr
    BY <1>7 DEF PutDelayedCommand, HciSdcDelayedCommandCandidate
  <2>2. cmdEvent' = cmdEvent \/ cmdEvent'.form = "NONE" \/ cmdEvent'.op = OpPawr
    BY <1>7, <2>1, HandledNames DEF PutDelayedCommand
  <2>3. ~AnswerPending(OpReset)' /\ ~AnswerPending(OpCreate)'
    BY <1>0, <1>b, <2>2 DEF AnswerPending, Commands!EventPending
  <2> QED
    BY <1>1, <1>7, <2>3 DEF PutDelayedCommand, aclVars, hostVars
<1> QED
  BY <1>2, <1>3, <1>4, <1>5, <1>6, <1>7 DEF PutCommandPacket

(* A poll moves a pending answer into the hold, and nothing else is one. *)
LEMMA RxAnswers ==
    ASSUME TypeOK, OneCommandCredit, CompatInv, Rx, NEW op \in {OpReset, OpCreate}
    PROVE  /\ AnswerPending(op)' => AnswerPending(op)
           /\ (AnswerPending(op) \/ AnswerHeld(op)) <=> (AnswerPending(op)' \/ AnswerHeld(op)')
           /\ One(AnswerPending(op)) + One(AnswerHeld(op)) = One(AnswerPending(op)') + One(AnswerHeld(op)')
<1>0. NoPacket.type # "EVENT"
  BY DEF NoPacket
<1>1. ASSUME NEW t \in PacketType, RxHeld(t) PROVE UNCHANGED cmdEvent /\ Hold' = Hold
  <2>1. /\ ctlPacket = NoPacket /\ ctlPacket' = HeldPacket /\ HeldPacket' = NoPacket /\ UNCHANGED cmdVars
    BY <1>1, RxHeldMoves
  <2> QED
    BY <2>1 DEF Hold, cmdVars
<1>2. ASSUME UNCHANGED cmdEvent, (AnswerHeld(op)' <=> AnswerHeld(op))
      PROVE  /\ AnswerPending(op)' => AnswerPending(op)
             /\ (AnswerPending(op) \/ AnswerHeld(op)) <=> (AnswerPending(op)' \/ AnswerHeld(op)')
             /\ One(AnswerPending(op)) + One(AnswerHeld(op))
                   = One(AnswerPending(op)') + One(AnswerHeld(op)')
  <2>1. AnswerPending(op)' <=> AnswerPending(op)
    BY <1>2 DEF AnswerPending, Commands!EventPending
  <2> QED
    BY <1>2, <2>1 DEF One
<1>3. ASSUME HoldEmpty PROVE ~AnswerHeld(op)
  BY <1>0, <1>3 DEF HoldEmpty, AnswerHeld, Hold
<1>4. ASSUME NEW t, NEW p, HoldEmpty, RxData(p, t)
      PROVE  AnswerHeld(op)' <=> (p.type = "EVENT" /\ Answers(p, op))
  BY <1>0, <1>4, RxDataFills DEF AnswerHeld, Hold
<1>5. ASSUME NEW t \in PacketType, HciSdcBuildCreditEvent(t) PROVE UNCHANGED cmdEvent /\ (AnswerHeld(op)' <=> AnswerHeld(op))
  <2>1. ~Answers(Completed(CreditCount), op)
    BY DEF Answers, Completed
  <2> QED
    BY <1>3, <1>4, <1>5, <2>1 DEF HciSdcBuildCreditEvent, cmdVars
<1>6. ASSUME NEW t \in PacketType, RxQueue(t) PROVE UNCHANGED cmdEvent /\ (AnswerHeld(op)' <=> AnswerHeld(op))
  <2>1. HoldEmpty /\ sdcQueue # <<>> /\ RxData(Head(sdcQueue), t) /\ UNCHANGED cmdEvent
    BY <1>6 DEF RxQueue, QueueTurn
  <2>2. Head(sdcQueue) \in SdcMessage
    BY <2>1, QueuedTail DEF TypeOK, SdcTypeOK
  <2>3. ~Answers(Head(sdcQueue), op)
    BY <2>2, NoResponseQueued DEF Answers
  <2> QED
    BY <1>3, <1>4, <2>1, <2>3
<1>7. ASSUME RxBad \/ RxEmpty PROVE UNCHANGED cmdEvent /\ (AnswerHeld(op)' <=> AnswerHeld(op))
  BY <1>7 DEF RxBad, RxEmpty, QueueTurn, AnswerHeld, Hold, outVars
<1>8. ASSUME NEW t \in PacketType, RxResponse(t)
      PROVE  ~AnswerPending(op)' /\ ~AnswerHeld(op) /\ (AnswerPending(op) <=> AnswerHeld(op)')
  <2>1. HoldEmpty
    BY <1>8 DEF RxResponse
  <2>2. CASE Commands!HciCmdDispatchGet /\ RxData(ResponseOf(cmdEvent), t)
    <3>1. cmdEvent'.form = "NONE" /\ Commands!EventPending
      BY <2>2 DEF Commands!HciCmdDispatchGet, Commands!NoEvent
    <3>2. /\ ResponseOf(cmdEvent).type = "EVENT"
          /\ Answers(ResponseOf(cmdEvent), op) <=> cmdEvent.op = op /\ cmdEvent.status = SUCCESS
      BY DEF ResponseOf, Answers
    <3> QED
      BY <1>3, <1>4, <2>1, <2>2, <3>1, <3>2 DEF AnswerPending, Commands!EventPending
  <2>3. CASE ~Commands!EventPending /\ UNCHANGED cmdEvent /\ RxData(ResponseOf(compatEvent), t)
    <3>1. ~Answers(ResponseOf(compatEvent), op)
      BY DEF CompatInv, ResponseOf, Answers
    <3> QED
      BY <1>3, <1>4, <2>1, <2>3, <3>1 DEF AnswerPending, Commands!EventPending
  <2> QED
    BY <1>8, <2>2, <2>3 DEF RxResponse
<1>9. CASE \E t \in PacketType : RxResponse(t)
  BY <1>8, <1>9 DEF One
<1>10. CASE ~ \E t \in PacketType : RxResponse(t)
  <2>1. UNCHANGED cmdEvent /\ (AnswerHeld(op)' <=> AnswerHeld(op))
    BY <1>1, <1>5, <1>6, <1>7, <1>10 DEF Rx, AnswerHeld
  <2> QED
    BY <1>2, <2>1
<1> QED
  BY <1>9, <1>10

(* An ACL packet leaves the slots, the queue and the links alone. *)
LEMMA AclQuiet ==
    ASSUME PutAclPacket
    PROVE  /\ ~hostResetting
           /\ UNCHANGED <<cmdVars, outVars, sdcQueue, sdcLinks, sdcCreating,
                          CreditEventLast, AclLimit,
                          hostLinks, hostResetting, hostCreating, hostUntold>>
<1>1. PICK h \in Handle :
          \/ PutAclOversize(h) \/ PutAclOverLimit(h) \/ PutAclError(h)
          \/ PutAcl(h) \/ PutAclAgain(h)
  BY DEF PutAclPacket
<1>2. CASE PutAclOversize(h)
  BY <1>2 DEF PutAclOversize, HostSends, sdcVars, aclVars
<1>3. CASE PutAclOverLimit(h)
  BY <1>3 DEF PutAclOverLimit, HostSends, sdcVars
<1>4. CASE PutAclError(h)
  BY <1>4 DEF PutAclError, HostSends, sdcVars
<1>5. CASE PutAcl(h)
  BY <1>5 DEF PutAcl, HostSends, HciSdcAclPutTracked, creditVars
<1>6. CASE PutAclAgain(h)
  BY <1>6 DEF PutAclAgain, creditVars, sdcVars, hostVars
<1> QED
  BY <1>1, <1>2, <1>3, <1>4, <1>5, <1>6

(* The answers are where they were when slots and buffers are. *)
LEMMA AnswersKept ==
    ASSUME UNCHANGED <<cmdVars, outVars>>, NEW op
    PROVE  (AnswerPending(op)' <=> AnswerPending(op)) /\ (AnswerHeld(op)' <=> AnswerHeld(op))
BY DEF AnswerPending, AnswerHeld, Hold, Commands!EventPending, cmdVars, outVars

(* The host takes the only packet there is. *)
LEMMA HostTakes ==
    ASSUME TypeOK, HoldInv, HostReceives
    PROVE  /\ HeldPacket = NoPacket /\ ctlPacket' = NoPacket /\ HeldPacket' = NoPacket
           /\ ctlPacket \in OutPacket \ {NoPacket}
           /\ \A op : ~AnswerHeld(op)'
           /\ \A op : AnswerHeld(op) <=> Answers(ctlPacket, op)
           /\ \A op : AnswerPending(op)' <=> AnswerPending(op)
           /\ \A op : Answers(ctlPacket, op) => ~AnswerPending(OpReset) /\ ~AnswerPending(OpCreate)
<1>1. NoPacket.type # "EVENT"
  BY DEF NoPacket
<1>2. /\ HeldPacket = NoPacket /\ ctlPacket' = NoPacket /\ HeldPacket' = NoPacket
      /\ ctlPacket \in OutPacket \ {NoPacket} /\ UNCHANGED cmdVars
  BY DEF HostReceives, HoldInv, TypeOK, OutTypeOK
<1>3. ctlPacket.kind = "RESPONSE" => ctlPacket.type = "EVENT"
  BY <1>2 DEF OutPacket, SdcMessage, DelayedComplete, Data
<1>4. ASSUME NEW op PROVE AnswerHeld(op) <=> Answers(ctlPacket, op)
  BY <1>1, <1>2, <1>3 DEF AnswerHeld, Hold, Answers
<1>5. ASSUME NEW op, Answers(ctlPacket, op) PROVE ~AnswerPending(OpReset) /\ ~AnswerPending(OpCreate)
  BY <1>3, <1>5 DEF Answers, HoldInv, Hold, NoResponse, AnswerPending
<1> QED
  BY <1>1, <1>2, <1>4, <1>5 DEF AnswerHeld, Hold, AnswerPending, Commands!EventPending, cmdVars

(* Which of its cases the host is in follows from the packet. *)
LEMMA HostCases ==
    ASSUME TypeOK, HostReceives
    PROVE  \/ /\ Answers(ctlPacket, OpReset) /\ HostResets(ctlPacket)
           \/ /\ ~Answers(ctlPacket, OpReset) /\ Answers(ctlPacket, OpCreate) /\ HostCreates(ctlPacket)
           \/ /\ ~Answers(ctlPacket, OpReset) /\ ~Answers(ctlPacket, OpCreate)
              /\ \/ HostConnects(ctlPacket) \/ HostDisconnects(ctlPacket)
                 \/ HostCounts(ctlPacket) \/ HostIgnores(ctlPacket)
<1>1. OpReset # OpCreate
  BY SdcAssumption DEF SdcAssumption
<1> QED
  BY <1>1 DEF HostReceives, HostResets, HostCreates, HostConnects, HostDisconnects,
         HostCounts, HostIgnores, Answers

(* What the controller adds to its queue. *)
LEMMA SdcStepQueues ==
    ASSUME TypeOK, SdcStep
    PROVE  \E p \in SdcMessage :
              /\ SdcQueues(p)
              /\ Connecting(p) = One(sdcCreating) - One(sdcCreating')
              /\ \/ \E h \in Handle : p = Connect(h) /\ SdcConnect(h)
                 \/ \E h \in Handle, n \in Nat \ {0} :
                       p = Completed(Only(h, n)) /\ SdcCompletes(h) /\ n <= sdcBuffered[h]
                          /\ sdcBuffered' = [sdcBuffered EXCEPT ![h] = @ - n]
                          /\ UNCHANGED sdcLinks
                 \/ \E h \in Handle : p = Disconnect(h) /\ SdcDisconnect(h)
                 \/ /\ p \in {DelayedComplete, Data, Bad} \/ \E h \in sdcLinks : p = DisconnectFailed(h)
                    /\ UNCHANGED <<sdcLinks, sdcBuffered>>
<1>0. sdcCreating \in BOOLEAN
  BY DEF TypeOK, SdcTypeOK
<1>1. /\ {DelayedComplete, Data, Bad} \subseteq SdcMessage
      /\ \A h \in Handle : {Connect(h), Disconnect(h), DisconnectFailed(h)} \subseteq SdcMessage
      /\ \A h \in Handle, n \in Nat : Completed(Only(h, n)) \in SdcMessage
  BY DEF SdcMessage, Connect, Disconnect, DisconnectFailed, Completed, Only, NoCount
<1>2. /\ \A h : Connecting(Connect(h)) = 1
      /\ \A h : Connecting(Disconnect(h)) = 0 /\ Connecting(DisconnectFailed(h)) = 0
      /\ \A c : Connecting(Completed(c)) = 0
      /\ \A p \in {DelayedComplete, Data, Bad} : Connecting(p) = 0
  BY DEF Connecting, One, Connect, Disconnect, DisconnectFailed, Completed, DelayedComplete, Data, Bad
<1>3. ASSUME UNCHANGED sdcCreating PROVE 0 = One(sdcCreating) - One(sdcCreating')
  BY <1>3 DEF One
<1>4. ASSUME NEW h \in Handle, SdcConnect(h)
      PROVE  SdcQueues(Connect(h)) /\ 1 = One(sdcCreating) - One(sdcCreating')
  BY <1>4 DEF SdcConnect, One
<1>5. CASE \E h \in Handle : SdcConnect(h)
  BY <1>1, <1>2, <1>4, <1>5
<1>6. ASSUME NEW h \in Handle, SdcCompletes(h)
      PROVE  \E n \in Nat \ {0} :
                /\ SdcQueues(Completed(Only(h, n))) /\ n <= sdcBuffered[h]
                /\ sdcBuffered' = [sdcBuffered EXCEPT ![h] = @ - n] /\ UNCHANGED <<sdcLinks, sdcCreating>>
  <2>1. PICK n \in 1 .. sdcBuffered[h] :
            /\ SdcQueues(Completed(Only(h, n)))
            /\ sdcBuffered' = [sdcBuffered EXCEPT ![h] = @ - n]
            /\ UNCHANGED <<sdcLinks, sdcCreating, sdcDelayed>>
    BY <1>6 DEF SdcCompletes
  <2>2. n \in Nat \ {0} /\ n <= sdcBuffered[h]
    BY DEF TypeOK, SdcTypeOK
  <2> QED
    BY <2>1, <2>2
<1>7. CASE \E h \in Handle : SdcCompletes(h)
  BY <1>1, <1>2, <1>3, <1>6, <1>7
<1>8. CASE \E h \in Handle : SdcDisconnect(h)
  <2>1. PICK h \in Handle : SdcDisconnect(h)
    BY <1>8
  <2>2. SdcQueues(Disconnect(h)) /\ UNCHANGED sdcCreating
    BY <2>1 DEF SdcDisconnect
  <2> QED
    BY <1>1, <1>2, <1>3, <2>1, <2>2
<1>9. CASE \E h \in Handle : SdcDisconnectFails(h)
  <2>1. PICK h \in Handle : SdcDisconnectFails(h)
    BY <1>9
  <2>2. SdcQueues(DisconnectFailed(h)) /\ UNCHANGED <<sdcCreating, sdcLinks, sdcBuffered>> /\ h \in sdcLinks
    BY <2>1 DEF SdcDisconnectFails
  <2> QED
    BY <1>1, <1>2, <1>3, <2>1, <2>2
<1>10. CASE SdcDelayedCompletes \/ SdcData
  <2>1. PICK p \in {DelayedComplete, Data, Bad} :
            SdcQueues(p) /\ UNCHANGED <<sdcCreating, sdcLinks, sdcBuffered>>
    BY <1>10 DEF SdcDelayedCompletes, SdcData
  <2> QED
    BY <1>1, <1>2, <1>3, <2>1
<1> QED
  BY <1>5, <1>7, <1>8, <1>9, <1>10 DEF SdcStep

(* Only Number Of Completed Packets reports buffers. *)
LEMMA MessageReports ==
    ASSUME NEW h \in Handle
    PROVE  /\ \A g : ReportedBy(Connect(g), h) = 0 /\ ReportedBy(Disconnect(g), h) = 0
                     /\ ReportedBy(DisconnectFailed(g), h) = 0
           /\ \A p \in {DelayedComplete, Data, Bad, NoPacket} : ReportedBy(p, h) = 0
           /\ \A e : ReportedBy(ResponseOf(e), h) = 0
           /\ \A c : ReportedBy(Completed(c), h) = c[h]
           /\ \A n : ReportedBy(Completed(Only(h, n)), h) = n
           /\ \A g \in Handle : \A n : g # h => ReportedBy(Completed(Only(g, n)), h) = 0
<1>1. /\ \A g : ReportedBy(Connect(g), h) = 0 /\ ReportedBy(Disconnect(g), h) = 0
                     /\ ReportedBy(DisconnectFailed(g), h) = 0
      /\ \A p \in {DelayedComplete, Data, Bad, NoPacket} : ReportedBy(p, h) = 0
      /\ \A e : ReportedBy(ResponseOf(e), h) = 0
  BY DEF ReportedBy, Connect, Disconnect, DisconnectFailed, DelayedComplete, Data, Bad, NoPacket, ResponseOf
<1>2. \A c : ReportedBy(Completed(c), h) = c[h]
  BY DEF ReportedBy, Completed
<1>3. \A g \in Handle : \A n : Only(g, n)[h] = IF g = h THEN n ELSE 0
  BY DEF Only, NoCount
<1> QED
  BY <1>1, <1>2, <1>3

(* The controller's queue, and the sums over it, are typed. *)
LEMMA QueueTyped ==
    ASSUME TypeOK
    PROVE  /\ sdcQueue \in Seq(SdcMessage) /\ sdcQueue \in Seq(AnyPacket) /\ Connects(sdcQueue) \in Nat
           /\ \A h \in Handle : Reported(sdcQueue, h) \in Nat
<1>1. sdcQueue \in Seq(SdcMessage)
  BY DEF TypeOK, SdcTypeOK
<1>2. sdcQueue \in Seq(AnyPacket)
  BY <1>1 DEF AnyPacket
<1>3. Data \in SdcMessage
  BY DEF SdcMessage
<1> QED
  BY <1>1, <1>2, <1>3, ConnectsAppend, ReportedTyped

(* The queue after the controller has added to it. *)
LEMMA QueueGrows ==
    ASSUME TypeOK, NEW p \in SdcMessage, SdcQueues(p)
    PROVE  /\ Connects(sdcQueue)' = Connects(sdcQueue) + Connecting(p)
           /\ \A h \in Handle : Reported(sdcQueue, h)' = Reported(sdcQueue, h) + ReportedBy(p, h)
<1>1. p \in AnyPacket /\ sdcQueue' = Append(sdcQueue, p)
  BY DEF AnyPacket, SdcQueues
<1> QED
  BY <1>1, QueueTyped, ConnectsAppend, ReportedAppend

(* The queue after HciSdcGetPacket has taken from it. *)
LEMMA QueueShrinks ==
    ASSUME TypeOK, sdcQueue # <<>>, sdcQueue' = Tail(sdcQueue)
    PROVE  /\ Connects(sdcQueue)' \in Nat /\ Connecting(Head(sdcQueue)) \in Nat
           /\ Connects(sdcQueue) = Connecting(Head(sdcQueue)) + Connects(sdcQueue)'
           /\ \A h \in Handle :
                 /\ Reported(sdcQueue, h)' \in Nat /\ ReportedBy(Head(sdcQueue), h) \in Nat
                 /\ Reported(sdcQueue, h) = ReportedBy(Head(sdcQueue), h) + Reported(sdcQueue, h)'
BY QueueTyped, ConnectsTail, ReportedTail

(* A poll either leaves the queue or takes its first message. *)
LEMMA RxQueueCases ==
    ASSUME Rx
    PROVE  /\ UNCHANGED <<sdcLinks, sdcBuffered, sdcCreating, hostVars>>
           /\ \/ UNCHANGED <<sdcQueue, aclVars>>
              \/ sdcQueue # <<>> /\ sdcQueue' = Tail(sdcQueue) /\ NoResponse
                 /\ (RxBad \/ \E t \in PacketType : RxQueue(t))
           /\ CreditCount' = CreditCount \/ CreditCount' = NoCount
<1>1. ASSUME NEW t \in PacketType, RxHeld(t) \/ RxResponse(t) \/ HciSdcBuildCreditEvent(t) \/ RxEmpty
      PROVE  /\ UNCHANGED <<sdcLinks, sdcBuffered, sdcCreating, hostVars, sdcQueue, aclVars>>
             /\ CreditCount' = CreditCount \/ CreditCount' = NoCount
  BY <1>1 DEF RxHeld, RxResponse, HciSdcBuildCreditEvent, RxEmpty, QueueTurn, sdcVars, creditVars
<1>2. ASSUME NEW t \in PacketType, RxQueue(t)
      PROVE  /\ UNCHANGED <<sdcLinks, sdcBuffered, sdcCreating, hostVars>>
             /\ sdcQueue # <<>> /\ sdcQueue' = Tail(sdcQueue) /\ NoResponse /\ CreditCount' = CreditCount
  BY <1>2 DEF RxQueue, QueueTurn
<1>3. ASSUME RxBad
      PROVE  /\ UNCHANGED <<sdcLinks, sdcBuffered, sdcCreating, hostVars>>
             /\ sdcQueue # <<>> /\ sdcQueue' = Tail(sdcQueue) /\ NoResponse /\ CreditCount' = CreditCount
  BY <1>3 DEF RxBad, QueueTurn
<1>4. PICK t \in PacketType : TRUE
  BY DEF PacketType
<1> QED
  BY <1>1, <1>2, <1>3, <1>4 DEF Rx

(* From the reset to its answer the controller side stays clean: no link   *)
(* can be made, no packet sent and no credit owed before the host has read *)
(* the answer.                                                             *)
LEMMA ResetStep ==
    ASSUME TypeOK, OneCommandCredit, HoldInv, CompatInv, ResetInv, Next
    PROVE  ResetInv'
<1> DEFINE Clean ==
        /\ sdcLinks = {} /\ sdcBuffered = NoCount /\ ~sdcCreating
        /\ CreditCount = NoCount
        /\ Connects(sdcQueue) = 0 /\ \A h \in Handle : Reported(sdcQueue, h) = 0
           Told == AnswerPending(OpReset) \/ AnswerHeld(OpReset)
<1>0. (hostResetting <=> Told) /\ (hostResetting => Clean)
  BY DEF ResetInv
<1> SUFFICES (hostResetting' <=> Told') /\ (hostResetting' => Clean')
  BY DEF ResetInv
<1>1. CASE PutCommandPacket
  <2>1. ~Told /\ ~AnswerHeld(OpReset)'
    <3>1. ~Told /\ UNCHANGED <<HeldPacket, ctlPacket>>
      BY <1>1, PutQuiet
    <3> QED
      BY <3>1 DEF AnswerHeld, Hold
  <2>2. CASE ResetDone
    <3>1. hostResetting' /\ Told'
      BY <2>2 DEF ResetDone
    <3>2. Clean'
      BY <2>2, ConnectsEmpty, ReportedEmpty DEF ResetDone, HciSdcResetFlowControl
    <3> QED
      BY <3>1, <3>2
  <2>3. CASE OtherDone
    BY <1>0, <2>1, <2>3 DEF OtherDone
  <2> QED
    BY <1>1, <2>2, <2>3, PutEffects
<1>2. CASE Rx
  <2>1. (Told' <=> Told) /\ UNCHANGED <<hostResetting, sdcLinks, sdcBuffered, sdcCreating>>
    BY <1>2, RxAnswers, RxQueueCases DEF hostVars
  <2>2. ASSUME Clean PROVE Connects(sdcQueue)' = 0 /\ \A h \in Handle : Reported(sdcQueue, h)' = 0
    <3>1. CASE UNCHANGED sdcQueue
      BY <2>2, <3>1
    <3>2. CASE sdcQueue # <<>> /\ sdcQueue' = Tail(sdcQueue)
      BY <2>2, <3>2, QueueShrinks
    <3> QED
      BY <1>2, <3>1, <3>2, RxQueueCases
  <2>3. Clean => Clean'
    BY <1>2, <2>1, <2>2, RxQueueCases
  <2> QED
    BY <1>0, <2>1, <2>3
<1>3. CASE PutAclPacket
  <2>1. (Told' <=> Told) /\ ~hostResetting /\ UNCHANGED hostResetting
    BY <1>3, AclQuiet, AnswersKept
  <2> QED
    BY <1>0, <2>1
<1>4. CASE SdcStep
  <2>1. PICK p \in SdcMessage :
              /\ SdcQueues(p)
              /\ Connecting(p) = One(sdcCreating) - One(sdcCreating')
              /\ \/ \E h \in Handle : p = Connect(h) /\ SdcConnect(h)
                 \/ \E h \in Handle, n \in Nat \ {0} :
                       p = Completed(Only(h, n)) /\ SdcCompletes(h) /\ n <= sdcBuffered[h]
                          /\ sdcBuffered' = [sdcBuffered EXCEPT ![h] = @ - n]
                          /\ UNCHANGED sdcLinks
                 \/ \E h \in Handle : p = Disconnect(h) /\ SdcDisconnect(h)
                 \/ /\ p \in {DelayedComplete, Data, Bad} \/ \E h \in sdcLinks : p = DisconnectFailed(h)
                    /\ UNCHANGED <<sdcLinks, sdcBuffered>>
    BY <1>4, SdcStepQueues
  <2>2. (Told' <=> Told) /\ UNCHANGED <<hostResetting, CreditCount>>
    BY <2>1, AnswersKept DEF SdcQueues, hostVars, creditVars
  <2>3. ASSUME Clean PROVE Clean'
    <3>1. p \in {DelayedComplete, Data, Bad} /\ UNCHANGED <<sdcLinks, sdcBuffered>>
      BY <2>1, <2>3 DEF SdcConnect, SdcDisconnect, NoCount
    <3>2. Connecting(p) = 0 /\ \A h \in Handle : ReportedBy(p, h) = 0
      BY <3>1, MessageReports DEF Connecting, One, DelayedComplete, Data, Bad
    <3>3. ~sdcCreating'
      BY <2>1, <2>3, <3>2 DEF One
    <3> QED
      BY <2>1, <2>2, <2>3, <3>1, <3>2, <3>3, QueueGrows
  <2> QED
    BY <1>0, <2>2, <2>3
<1>5. CASE HostReceives
  <2>1. /\ Told' <=> AnswerPending(OpReset)
        /\ Told <=> AnswerPending(OpReset) \/ Answers(ctlPacket, OpReset)
        /\ Answers(ctlPacket, OpReset) => ~AnswerPending(OpReset)
    BY <1>5, HostTakes
  <2>2. UNCHANGED <<creditVars, sdcVars>>
    BY <1>5 DEF HostReceives
  <2>3. CASE Answers(ctlPacket, OpReset)
    <3>1. hostResetting' = FALSE
      BY <1>5, <2>3, HostCases DEF HostResets
    <3> QED
      BY <2>1, <2>3, <3>1
  <2>4. CASE ~Answers(ctlPacket, OpReset)
    <3>1. UNCHANGED hostResetting
      BY <1>5, <2>4, HostCases
         DEF HostCreates, HostConnects, HostDisconnects, HostCounts, HostIgnores, hostVars
    <3>2. Clean => Clean'
      BY <2>2 DEF creditVars, sdcVars
    <3> QED
      BY <1>0, <2>1, <2>4, <3>1, <3>2
  <2> QED
    BY <2>3, <2>4
<1>6. CASE SdcEndsMasked
  <2>1. (Told' <=> Told) /\ UNCHANGED hostResetting
    BY <1>6, MaskedQuiet, AnswersKept
  <2>2. Clean => Clean'
    BY <1>6, MaskedQuiet DEF creditVars, NoCount
  <2> QED
    BY <1>0, <2>1, <2>2
<1> QED
  BY <1>1, <1>2, <1>3, <1>4, <1>5, <1>6 DEF Next

(* A poll moves a connection from the queue into the slot or the hold. *)
LEMMA RxConnects ==
    ASSUME TypeOK, HoldInv, Rx
    PROVE  Connects(sdcQueue)' + Connecting(ctlPacket)' + Connecting(HeldPacket)'
             <= Connects(sdcQueue) + Connecting(ctlPacket) + Connecting(HeldPacket)
<1>0. Connecting(NoPacket) = 0
  BY DEF Connecting, One, NoPacket
<1>a. /\ Connects(sdcQueue) \in Nat /\ Connecting(ctlPacket) \in Nat /\ Connecting(HeldPacket) \in Nat
  BY QueueTyped, ConnectingTyped
<1>1. ASSUME NEW t \in PacketType, RxHeld(t)
      PROVE  UNCHANGED sdcQueue /\ Connecting(ctlPacket)' = Connecting(HeldPacket)
             /\ Connecting(HeldPacket)' = Connecting(ctlPacket)
  BY <1>0, <1>1, RxHeldMoves DEF sdcVars
<1>2. ASSUME NEW t, NEW p, HoldEmpty, RxData(p, t), Connecting(p) \in Nat
      PROVE  /\ Connecting(ctlPacket)' \in Nat /\ Connecting(HeldPacket)' \in Nat
             /\ Connecting(ctlPacket)' + Connecting(HeldPacket)' = Connecting(p)
  BY <1>0, <1>2, RxDataFills
<1>3. ASSUME NEW t \in PacketType, RxResponse(t) \/ HciSdcBuildCreditEvent(t)
      PROVE  /\ UNCHANGED sdcQueue
             /\ Connecting(ctlPacket)' \in Nat /\ Connecting(HeldPacket)' \in Nat
             /\ Connecting(ctlPacket)' + Connecting(HeldPacket)' = 0
  <2>1. PICK p : HoldEmpty /\ RxData(p, t) /\ Connecting(p) = 0 /\ UNCHANGED sdcQueue
    BY <1>3 DEF RxResponse, HciSdcBuildCreditEvent, ResponseOf, Completed, Connecting, One, sdcVars
  <2> QED
    BY <1>2, <2>1
<1>4. ASSUME NEW t \in PacketType, RxQueue(t)
      PROVE  Connects(sdcQueue)' + Connecting(ctlPacket)' + Connecting(HeldPacket)'
                = Connects(sdcQueue)
  <2>1. /\ HoldEmpty /\ RxData(Head(sdcQueue), t) /\ sdcQueue # <<>> /\ sdcQueue' = Tail(sdcQueue)
    BY <1>4 DEF RxQueue, QueueTurn
  <2>2. /\ Connects(sdcQueue)' \in Nat /\ Connecting(Head(sdcQueue)) \in Nat
        /\ Connects(sdcQueue) = Connecting(Head(sdcQueue)) + Connects(sdcQueue)'
    BY <2>1, QueueShrinks
  <2>3. /\ Connecting(ctlPacket)' \in Nat /\ Connecting(HeldPacket)' \in Nat
        /\ Connecting(ctlPacket)' + Connecting(HeldPacket)' = Connecting(Head(sdcQueue))
    BY <1>2, <2>1, <2>2
  <2> QED
    BY <2>2, <2>3
<1>5. ASSUME RxBad
      PROVE  /\ Connects(sdcQueue)' \in Nat /\ Connects(sdcQueue)' <= Connects(sdcQueue)
             /\ UNCHANGED <<ctlPacket, HeldPacket>>
  <2>1. /\ sdcQueue # <<>> /\ sdcQueue' = Tail(sdcQueue) /\ UNCHANGED <<ctlPacket, HeldPacket>>
    BY <1>5 DEF RxBad, outVars
  <2> QED
    BY <1>a, <2>1, QueueShrinks
<1>6. ASSUME RxEmpty PROVE UNCHANGED <<sdcQueue, ctlPacket, HeldPacket>>
  BY <1>6 DEF RxEmpty, outVars, sdcVars
<1>7. CASE RxBad
  BY <1>a, <1>5, <1>7
<1>8. CASE RxEmpty
  BY <1>a, <1>6, <1>8
<1>9. CASE \E t \in PacketType : RxHeld(t)
  BY <1>a, <1>1, <1>9
<1>10. CASE \E t \in PacketType : RxResponse(t) \/ HciSdcBuildCreditEvent(t)
  BY <1>a, <1>3, <1>10
<1>11. CASE \E t \in PacketType : RxQueue(t)
  BY <1>a, <1>4, <1>11
<1> QED
  BY <1>7, <1>8, <1>9, <1>10, <1>11 DEF Rx

(* A connection is announced by its Command Status: the dispatcher's       *)
(* answer leaves before the queue is asked.                                *)
LEMMA CreateStep ==
    ASSUME TypeOK, OneCommandCredit, HoldInv, CompatInv, ResetInv, CreateInv, Next
    PROVE  CreateInv'
<1>0. /\ Connects(sdcQueue) \in Nat /\ Connecting(ctlPacket) \in Nat /\ Connecting(HeldPacket) \in Nat
      /\ hostCreating \in Int
      /\ Connecting(ctlPacket)' \in Nat /\ Connecting(HeldPacket)' \in Nat
  BY QueueTyped, ConnectingTyped DEF TypeOK, HostTypeOK
<1>a. \A b : One(b) \in {0, 1}
  BY DEF One
<1>b. Connecting(NoPacket) = 0
  BY DEF Connecting, One, NoPacket
<1>c. Connects(sdcQueue)' \in Nat
  <2>1. TypeOK'
    BY PutCommandTyped, PutAclTyped, RxTyped, SdcStepTyped, MaskedTyped, HostTyped DEF Next
  <2>2. sdcQueue' \in Seq(SdcMessage)
    BY <2>1 DEF TypeOK, SdcTypeOK
  <2>3. Data \in SdcMessage
    BY DEF SdcMessage
  <2> QED
    BY <2>2, <2>3, ConnectsAppend
<1>1. CASE PutCommandPacket
  <2>1. /\ ~AnswerPending(OpCreate) /\ ~AnswerHeld(OpCreate)
        /\ UNCHANGED <<HeldPacket, ctlPacket, hostCreating>>
    BY <1>1, PutQuiet
  <2>2. ~AnswerHeld(OpCreate)'
    BY <2>1 DEF AnswerHeld, Hold
  <2>3. CASE ResetDone
    <3>1. Connects(sdcQueue)' = 0 /\ One(sdcCreating)' = 0 /\ One(AnswerPending(OpCreate))' = 0
      BY <2>3, ConnectsEmpty DEF ResetDone, One
    <3>2. /\ One(AnswerPending(OpCreate)) = 0 /\ One(AnswerHeld(OpCreate)) = 0
          /\ One(AnswerHeld(OpCreate))' = 0
      BY <2>1, <2>2 DEF One
    <3> QED
      BY <1>0, <1>a, <2>1, <3>1, <3>2 DEF CreateInv
  <2>4. CASE OtherDone
    <3>1. /\ UNCHANGED sdcQueue
          /\ One(sdcCreating)' = One(sdcCreating) + One(AnswerPending(OpCreate)')
          /\ One(AnswerPending(OpCreate)') <= One(sdcCreating)'
      BY <2>4 DEF OtherDone
    <3>2. /\ One(AnswerPending(OpCreate)) = 0 /\ One(AnswerHeld(OpCreate)) = 0
          /\ One(AnswerHeld(OpCreate))' = 0
      BY <2>1, <2>2 DEF One
    <3> QED
      BY <1>0, <1>a, <2>1, <3>1, <3>2 DEF CreateInv
  <2> QED
    BY <1>1, <2>3, <2>4, PutEffects
<1>2. CASE Rx
  <2>1. /\ AnswerPending(OpCreate)' => AnswerPending(OpCreate)
        /\ One(AnswerPending(OpCreate)) + One(AnswerHeld(OpCreate))
              = One(AnswerPending(OpCreate)') + One(AnswerHeld(OpCreate)')
    BY <1>2, RxAnswers
  <2>2. UNCHANGED <<sdcCreating, hostCreating>>
    BY <1>2, RxQueueCases DEF hostVars
  <2>3. Connects(sdcQueue)' + Connecting(ctlPacket)' + Connecting(HeldPacket)'
             <= Connects(sdcQueue) + Connecting(ctlPacket) + Connecting(HeldPacket)
    BY <1>2, RxConnects
  <2>4. UNCHANGED sdcQueue \/ ~AnswerPending(OpCreate)
    BY <1>2, RxQueueCases DEF NoResponse, AnswerPending
  <2>5. One(AnswerPending(OpCreate))' <= One(sdcCreating)' + Connects(sdcQueue)'
    <3>1. CASE ~AnswerPending(OpCreate)'
      BY <1>a, <1>c, <3>1 DEF One
    <3>2. CASE AnswerPending(OpCreate)'
      BY <1>0, <1>a, <2>1, <2>2, <2>4, <3>2 DEF CreateInv, One
    <3> QED
      BY <3>1, <3>2
  <2> QED
    BY <1>0, <1>a, <1>c, <2>1, <2>2, <2>3, <2>5 DEF CreateInv
<1>3. CASE PutAclPacket
  <2>1. /\ UNCHANGED <<ctlPacket, HeldPacket, sdcQueue, sdcCreating, hostCreating>>
        /\ AnswerPending(OpCreate)' <=> AnswerPending(OpCreate)
        /\ AnswerHeld(OpCreate)' <=> AnswerHeld(OpCreate)
    BY <1>3, AclQuiet, AnswersKept DEF outVars
  <2>2. /\ One(AnswerPending(OpCreate))' = One(AnswerPending(OpCreate))
        /\ One(AnswerHeld(OpCreate))' = One(AnswerHeld(OpCreate))
    BY <2>1 DEF One
  <2> QED
    BY <2>1, <2>2 DEF CreateInv
<1>4. CASE SdcStep
  <2>1. PICK p \in SdcMessage : SdcQueues(p) /\ Connecting(p) = One(sdcCreating) - One(sdcCreating')
    BY <1>4, SdcStepQueues
  <2>2. /\ UNCHANGED <<ctlPacket, HeldPacket, hostCreating>>
        /\ AnswerPending(OpCreate)' <=> AnswerPending(OpCreate)
        /\ AnswerHeld(OpCreate)' <=> AnswerHeld(OpCreate)
    BY <2>1, AnswersKept DEF SdcQueues, outVars, hostVars
  <2>3. /\ One(AnswerPending(OpCreate))' = One(AnswerPending(OpCreate))
        /\ One(AnswerHeld(OpCreate))' = One(AnswerHeld(OpCreate))
    BY <2>2 DEF One
  <2>4. Connects(sdcQueue)' = Connects(sdcQueue) + Connecting(p)
    BY <2>1, QueueGrows
  <2> QED
    BY <1>0, <1>a, <1>c, <2>1, <2>2, <2>3, <2>4 DEF CreateInv
<1>5. CASE HostReceives
  <2>1. /\ HeldPacket = NoPacket /\ ctlPacket' = NoPacket /\ HeldPacket' = NoPacket
        /\ ctlPacket \in OutPacket \ {NoPacket}
        /\ ~AnswerHeld(OpCreate)'
        /\ AnswerHeld(OpCreate) <=> Answers(ctlPacket, OpCreate)
        /\ AnswerHeld(OpReset) <=> Answers(ctlPacket, OpReset)
        /\ AnswerPending(OpCreate)' <=> AnswerPending(OpCreate)
    BY <1>5, HostTakes
  <2>2. UNCHANGED <<sdcQueue, sdcCreating>>
    BY <1>5 DEF HostReceives, sdcVars
  <2>3. /\ One(AnswerPending(OpCreate))' = One(AnswerPending(OpCreate))
        /\ One(AnswerHeld(OpCreate))' = 0 /\ Connecting(ctlPacket)' = 0 /\ Connecting(HeldPacket)' = 0
    BY <1>b, <2>1 DEF One
  <2>4. CASE Answers(ctlPacket, OpReset)
    <3>1. hostResetting
      BY <2>1, <2>4 DEF ResetInv
    <3>2. ~sdcCreating /\ Connects(sdcQueue) = 0
      BY <3>1 DEF ResetInv
    <3>3. hostCreating' = 0
      BY <1>5, <2>4, HostCases DEF HostResets
    <3>4. One(sdcCreating)' = 0 /\ Connects(sdcQueue)' = 0
      BY <2>2, <3>2 DEF One
    <3> QED
      BY <1>0, <1>a, <2>2, <2>3, <3>2, <3>3, <3>4 DEF CreateInv
  <2>5. CASE ~Answers(ctlPacket, OpReset) /\ Answers(ctlPacket, OpCreate)
    <3>1. hostCreating' = hostCreating + 1
      BY <1>5, <2>5, HostCases DEF HostCreates
    <3>2. One(AnswerHeld(OpCreate)) = 1
      BY <2>1, <2>5 DEF One
    <3> QED
      BY <1>0, <1>a, <2>2, <2>3, <3>1, <3>2 DEF CreateInv
  <2>6. CASE ~Answers(ctlPacket, OpReset) /\ ~Answers(ctlPacket, OpCreate)
    <3>1. One(AnswerHeld(OpCreate)) = 0
      BY <2>1, <2>6 DEF One
    <3>2. hostCreating' = hostCreating - Connecting(ctlPacket) \/ hostCreating' = hostCreating
      <4>1. CASE HostConnects(ctlPacket)
        <5>1. ctlPacket.kind = "CONNECT"
          BY <4>1 DEF HostConnects
        <5>2. ctlPacket.type = "EVENT"
          BY <2>1, <5>1 DEF OutPacket, SdcMessage, DelayedComplete, Data
        <5> QED
          BY <4>1, <5>1, <5>2 DEF HostConnects, Connecting, One
      <4>2. CASE HostDisconnects(ctlPacket) \/ HostCounts(ctlPacket) \/ HostIgnores(ctlPacket)
        BY <4>2 DEF HostDisconnects, HostCounts, HostIgnores, hostVars
      <4> QED
        BY <1>5, <2>6, <4>1, <4>2, HostCases
    <3> QED
      BY <1>0, <1>a, <2>2, <2>3, <3>1, <3>2 DEF CreateInv
  <2> QED
    BY <2>4, <2>5, <2>6
<1>6. CASE SdcEndsMasked
  <2>1. /\ UNCHANGED <<ctlPacket, HeldPacket, hostCreating, sdcQueue, sdcCreating>>
        /\ AnswerPending(OpCreate)' <=> AnswerPending(OpCreate)
        /\ AnswerHeld(OpCreate)' <=> AnswerHeld(OpCreate)
    BY <1>6, MaskedQuiet, AnswersKept DEF outVars
  <2>2. /\ One(AnswerPending(OpCreate))' = One(AnswerPending(OpCreate))
        /\ One(AnswerHeld(OpCreate))' = One(AnswerHeld(OpCreate))
    BY <2>1 DEF One
  <2> QED
    BY <1>0, <1>a, <2>1, <2>2 DEF CreateInv
<1> QED
  BY <1>1, <1>2, <1>3, <1>4, <1>5, <1>6 DEF Next

---------------------------------------------------------------------------
(* What the controller says of a link. *)

(* The packets about links differ from each other and from all others. *)
LEMMA DistinctPackets ==
    /\ \A g, h : (Disconnect(g) = Disconnect(h) => g = h) /\ (Connect(g) = Connect(h) => g = h)
    /\ \A g, h : Disconnect(g) # Connect(h) /\ Disconnect(g) # DisconnectFailed(h)
                 /\ Connect(g) # DisconnectFailed(h)
    /\ \A h : Disconnect(h) \notin {NoPacket, DelayedComplete, Data, Bad}
    /\ \A h : Connect(h) \notin {NoPacket, DelayedComplete, Data, Bad}
    /\ \A h, c : Disconnect(h) # Completed(c) /\ Connect(h) # Completed(c)
    /\ \A h, e : Disconnect(h) # ResponseOf(e) /\ Connect(h) # ResponseOf(e)
BY DEF Disconnect, Connect, DisconnectFailed, NoPacket, DelayedComplete, Data, Bad, Completed, ResponseOf

(* A poll puts nothing about a link into the hold but what the queue held. *)
LEMMA RxHoldFrom ==
    ASSUME TypeOK, Rx, NEW h, NEW p \in {Disconnect(h), Connect(h)}
    PROVE  /\ p \in Hold' => \/ p \in Hold /\ UNCHANGED sdcQueue
                             \/ /\ HoldEmpty /\ sdcQueue # <<>> /\ p = Head(sdcQueue)
                                /\ \E t \in PacketType : RxQueue(t)
           /\ Queued(p)' => Queued(p)
<1>0. \A e : p # ResponseOf(e) /\ p # NoPacket /\ \A c : p # Completed(c)
  BY DistinctPackets
<1>1. ASSUME NEW t \in PacketType, RxHeld(t) PROVE Hold' = Hold /\ UNCHANGED sdcQueue
  BY <1>1, RxHeldMoves DEF Hold, sdcVars
<1>2. ASSUME NEW t, NEW q, HoldEmpty, RxData(q, t), p \in Hold' PROVE p = q
  BY <1>0, <1>2, RxDataFills DEF Hold
<1>3. ASSUME NEW t \in PacketType, RxResponse(t) \/ HciSdcBuildCreditEvent(t)
      PROVE  p \notin Hold' /\ UNCHANGED sdcQueue
  <2>1. UNCHANGED sdcQueue /\ HoldEmpty
    BY <1>3 DEF RxResponse, HciSdcBuildCreditEvent, sdcVars
  <2>2. PICK q : RxData(q, t) /\ q # p
    BY <1>0, <1>3 DEF RxResponse, HciSdcBuildCreditEvent
  <2> QED
    BY <1>2, <2>1, <2>2
<1>4. ASSUME NEW t \in PacketType, RxQueue(t), p \in Hold'
      PROVE  HoldEmpty /\ sdcQueue # <<>> /\ p = Head(sdcQueue)
  <2>1. HoldEmpty /\ sdcQueue # <<>> /\ RxData(Head(sdcQueue), t)
    BY <1>4 DEF RxQueue, QueueTurn
  <2> QED
    BY <1>2, <1>4, <2>1
<1>5. ASSUME RxBad \/ RxEmpty PROVE p \notin Hold'
  BY <1>0, <1>5 DEF RxBad, RxEmpty, QueueTurn, HoldEmpty, Hold, outVars
<1>6. p \in Hold' => \/ p \in Hold /\ UNCHANGED sdcQueue
                     \/ /\ HoldEmpty /\ sdcQueue # <<>> /\ p = Head(sdcQueue)
                        /\ \E t \in PacketType : RxQueue(t)
  BY <1>1, <1>3, <1>4, <1>5 DEF Rx
<1>7. Queued(p)' => Queued(p)
  <2>1. CASE UNCHANGED sdcQueue
    BY <2>1 DEF Queued
  <2>2. CASE sdcQueue # <<>> /\ sdcQueue' = Tail(sdcQueue)
    BY <2>2, QueueTyped, QueuedTail DEF Queued
  <2> QED
    BY <2>1, <2>2, RxQueueCases
<1> QED
  BY <1>6, <1>7

LinkInvOf(h) ==
    /\ h \notin sdcLinks => sdcBuffered[h] = 0
    /\ InPipeline(Disconnect(h)) => h \notin sdcLinks
    /\ Disconnect(h) \in Hold => Reported(sdcQueue, h) = 0
    /\ \A i, j \in DOMAIN sdcQueue :
          i < j /\ sdcQueue[i] = Disconnect(h) => ReportedBy(sdcQueue[j], h) = 0

(* The controller says nothing of a link after its disconnection, and      *)
(* hands out its handle again only when the host has read it.              *)
LEMMA LinkStep ==
    ASSUME TypeOK, TypeOK', HoldInv, LinkInv, Next
    PROVE  LinkInv'
<1> SUFFICES ASSUME NEW h \in Handle PROVE LinkInvOf(h)'
  BY DEF LinkInv, LinkInvOf
<1>0. LinkInvOf(h)
  BY DEF LinkInv, LinkInvOf
<1> DEFINE d == Disconnect(h)
<1>a. /\ sdcBuffered \in [Handle -> Nat] /\ sdcQueue \in Seq(SdcMessage)
      /\ Reported(sdcQueue, h) \in Nat
  BY QueueTyped DEF TypeOK, SdcTypeOK
<1>b. /\ InPipeline(d) <=> d \in Hold \/ Queued(d)
      /\ InPipeline(d)' <=> d \in Hold' \/ Queued(d)'
  BY PipelineSplit, PipelineSplitNext DEF Hold
<1>1. CASE PutCommandPacket
  <2>1. UNCHANGED <<HeldPacket, ctlPacket>>
    BY <1>1, PutQuiet
  <2>2. CASE ResetDone
    BY <2>2, ReportedEmpty DEF ResetDone, NoCount, LinkInvOf
  <2>3. CASE OtherDone
    BY <1>0, <2>1, <2>3 DEF OtherDone, LinkInvOf, InPipeline, Pipeline, Hold
  <2> QED
    BY <1>1, <2>2, <2>3, PutEffects
<1>2. CASE Rx
  <2>1. UNCHANGED <<sdcLinks, sdcBuffered>>
    BY <1>2, RxQueueCases
  <2>2. /\ d \in Hold' => \/ d \in Hold /\ UNCHANGED sdcQueue
                          \/ HoldEmpty /\ sdcQueue # <<>> /\ d = Head(sdcQueue)
                             /\ \E t \in PacketType : RxQueue(t)
        /\ Queued(d)' => Queued(d)
    BY <1>2, RxHoldFrom
  <2>3. ASSUME sdcQueue # <<>>, d = Head(sdcQueue) PROVE Queued(d)
    BY <1>a, <2>3, QueuedTail DEF Queued
  <2>4. InPipeline(d)' => InPipeline(d)
    BY <1>b, <2>2, <2>3
  <2>5. CASE UNCHANGED sdcQueue
    <3>1. d \in Hold' => Reported(sdcQueue, h)' = 0
      <4>1. sdcQueue # <<>> => Tail(sdcQueue) # sdcQueue
        BY <1>a
      <4>2. ASSUME NEW t \in PacketType, RxQueue(t) PROVE FALSE
        BY <2>5, <4>1, <4>2 DEF RxQueue
      <4> QED
        BY <1>0, <2>2, <2>5, <4>2 DEF LinkInvOf
    <3> QED
      BY <1>0, <2>1, <2>4, <2>5, <3>1 DEF LinkInvOf
  <2>6. CASE sdcQueue # <<>> /\ sdcQueue' = Tail(sdcQueue)
    <3> DEFINE q == Tail(sdcQueue)
    <3>1. /\ Head(sdcQueue) = sdcQueue[1] /\ 1 \in DOMAIN sdcQueue
          /\ \A i \in DOMAIN q : i + 1 \in DOMAIN sdcQueue /\ 1 < i + 1 /\ q[i] = sdcQueue[i + 1]
          /\ \A i, j \in DOMAIN q : i < j => i + 1 < j + 1
      BY <1>a, <2>6, QueuedTail
    <3>2. \A i, j \in DOMAIN q : i < j /\ q[i] = d => ReportedBy(q[j], h) = 0
      BY <1>0, <3>1 DEF LinkInvOf
    <3>3. ASSUME d = Head(sdcQueue) PROVE Reported(q, h) = 0
      <4>1. \A j \in DOMAIN q : ReportedBy(q[j], h) = 0
        BY <1>0, <3>1, <3>3 DEF LinkInvOf
      <4> DEFINE f == [i \in DOMAIN q |-> ReportedBy(q[i], h)]
      <4>2. PICK n \in Nat : DOMAIN q = 1 .. n
        BY <1>a, <2>6
      <4>3. IsFiniteSet(DOMAIN f) /\ \A i \in DOMAIN f : f[i] = 0
        BY <4>1, <4>2, FS_Interval
      <4>4. Reported(q, h) = SumFunctionOnSet(f, DOMAIN f)
        BY DEF Reported, Sum, SumFunction
      <4> HIDE DEF f
      <4> QED
        BY <4>3, <4>4, SumZero
    <3>4. d \in Hold' => Reported(q, h) = 0
      <4>1. sdcQueue' # sdcQueue
        BY <1>a, <2>6
      <4> QED
        BY <2>2, <3>3, <4>1
    <3> QED
      BY <1>0, <2>1, <2>4, <2>6, <3>2, <3>4 DEF LinkInvOf
  <2> QED
    BY <1>2, <2>5, <2>6, RxQueueCases
<1>3. CASE PutAclPacket
  <2>1. UNCHANGED <<ctlPacket, HeldPacket, sdcQueue, sdcLinks>>
    BY <1>3, AclQuiet DEF outVars
  <2>2. h \notin sdcLinks => sdcBuffered'[h] = sdcBuffered[h]
    <3>1. PICK g \in Handle :
            \/ PutAclOversize(g) \/ PutAclOverLimit(g) \/ PutAclError(g)
            \/ PutAcl(g) \/ PutAclAgain(g)
      BY <1>3 DEF PutAclPacket
    <3>2. CASE PutAcl(g)
      BY <1>a, <3>2 DEF PutAcl
    <3>3. CASE ~PutAcl(g)
      BY <3>1, <3>3 DEF PutAclOversize, PutAclOverLimit, PutAclError, PutAclAgain, sdcVars
    <3> QED
      BY <3>2, <3>3
  <2> QED
    BY <1>0, <2>1, <2>2 DEF LinkInvOf, InPipeline, Pipeline, Hold
<1>4. CASE SdcStep
  <2>1. PICK p \in SdcMessage :
              /\ SdcQueues(p)
              /\ \/ \E g \in Handle : p = Connect(g) /\ SdcConnect(g)
                 \/ \E g \in Handle, n \in Nat \ {0} :
                       p = Completed(Only(g, n)) /\ SdcCompletes(g) /\ n <= sdcBuffered[g]
                          /\ sdcBuffered' = [sdcBuffered EXCEPT ![g] = @ - n]
                          /\ UNCHANGED sdcLinks
                 \/ \E g \in Handle : p = Disconnect(g) /\ SdcDisconnect(g)
                 \/ /\ p \in {DelayedComplete, Data, Bad} \/ \E g \in sdcLinks : p = DisconnectFailed(g)
                    /\ UNCHANGED <<sdcLinks, sdcBuffered>>
    BY <1>4, SdcStepQueues
  <2> DEFINE q == Append(sdcQueue, p)
  <2>2. UNCHANGED <<ctlPacket, HeldPacket>> /\ sdcQueue' = q
    BY <2>1 DEF SdcQueues, outVars
  <2>3. /\ q[Len(sdcQueue) + 1] = p
        /\ \A i \in DOMAIN sdcQueue : i \in DOMAIN q /\ q[i] = sdcQueue[i] /\ i < Len(sdcQueue) + 1
        /\ \A i \in DOMAIN q : i \in DOMAIN sdcQueue \/ i = Len(sdcQueue) + 1
    BY <1>a, QueuedAppend
  <2>4. Reported(sdcQueue, h)' = Reported(sdcQueue, h) + ReportedBy(p, h)
    BY <2>1, QueueGrows
  <2>5. Queued(d)' => Queued(d) \/ p = d
    BY <2>2, <2>3 DEF Queued
  <2> HIDE DEF q, d
  (* A message that reports nothing of h after its disconnection. *)
  <2>6. ASSUME d \in Hold \/ Queued(d) => ReportedBy(p, h) = 0
        PROVE  /\ d \in Hold' => Reported(sdcQueue, h)' = 0
               /\ \A i, j \in DOMAIN q : i < j /\ q[i] = d => ReportedBy(q[j], h) = 0
    <3>1. d \in Hold' => Reported(sdcQueue, h)' = 0
      BY <1>0, <2>2, <2>4, <2>6 DEF LinkInvOf, Hold, d
    <3>2. ASSUME NEW i \in DOMAIN q, NEW j \in DOMAIN q, i < j, q[i] = d PROVE ReportedBy(q[j], h) = 0
      <4>0. Len(sdcQueue) \in Nat /\ DOMAIN q \subseteq Nat
        BY <1>a DEF q
      <4>1. i \in DOMAIN sdcQueue /\ sdcQueue[i] = d
        <5>1. CASE i = Len(sdcQueue) + 1
          BY <2>3, <3>2, <4>0, <5>1
        <5>2. CASE i \in DOMAIN sdcQueue
          BY <2>3, <3>2, <5>2
        <5> QED
          BY <2>3, <5>1, <5>2
      <4>2. CASE j \in DOMAIN sdcQueue
        BY <1>0, <2>3, <3>2, <4>1, <4>2 DEF LinkInvOf, d
      <4>3. CASE j = Len(sdcQueue) + 1
        BY <2>3, <2>6, <4>1, <4>3 DEF Queued
      <4> QED
        BY <2>3, <4>2, <4>3
    <3> QED
      BY <3>1, <3>2
  <2>7. CASE \E g \in Handle : p = Connect(g) /\ SdcConnect(g)
    <3>1. PICK g \in Handle : p = Connect(g) /\ SdcConnect(g)
      BY <2>7
    <3>2. /\ sdcLinks' = sdcLinks \union {g} /\ UNCHANGED sdcBuffered /\ ~InPipeline(Disconnect(g))
      BY <3>1 DEF SdcConnect, HandleFree
    <3>3. ReportedBy(p, h) = 0 /\ p # d
      BY <3>1, MessageReports, DistinctPackets DEF d
    <3>4. InPipeline(d)' => h \notin sdcLinks'
      BY <1>0, <1>b, <2>2, <2>5, <3>2, <3>3 DEF LinkInvOf, Hold, d
    <3> QED
      BY <1>0, <2>2, <2>6, <3>2, <3>3, <3>4 DEF LinkInvOf, d
  <2>8. CASE \E g \in Handle, n \in Nat \ {0} :
                       p = Completed(Only(g, n)) /\ SdcCompletes(g) /\ n <= sdcBuffered[g]
                          /\ sdcBuffered' = [sdcBuffered EXCEPT ![g] = @ - n]
                          /\ UNCHANGED sdcLinks
    <3>1. PICK g \in Handle, n \in Nat \ {0} :
                          /\ p = Completed(Only(g, n)) /\ n <= sdcBuffered[g]
                          /\ sdcBuffered' = [sdcBuffered EXCEPT ![g] = @ - n]
                          /\ UNCHANGED sdcLinks
      BY <2>8
    <3>2. p # d
      BY <3>1, DistinctPackets DEF d
    <3>3. d \in Hold \/ Queued(d) => ReportedBy(p, h) = 0
      <4>1. CASE g = h
        <5>1. h \in sdcLinks
          BY <1>0, <1>a, <3>1, <4>1 DEF LinkInvOf
        <5> QED
          BY <1>0, <1>b, <5>1 DEF LinkInvOf, d
      <4>2. CASE g # h
        BY <3>1, <4>2, MessageReports
      <4> QED
        BY <4>1, <4>2
    <3>4. h \notin sdcLinks => sdcBuffered'[h] = 0
      <4>1. CASE g = h
        BY <1>0, <1>a, <3>1, <4>1 DEF LinkInvOf
      <4>2. CASE g # h
        BY <1>0, <1>a, <3>1, <4>2 DEF LinkInvOf
      <4> QED
        BY <4>1, <4>2
    <3>5. InPipeline(d)' => h \notin sdcLinks'
      BY <1>0, <1>b, <2>2, <2>5, <3>1, <3>2 DEF LinkInvOf, Hold, d
    <3> QED
      BY <2>2, <2>6, <3>1, <3>3, <3>4, <3>5 DEF LinkInvOf, d
  <2>9. CASE \E g \in Handle : p = Disconnect(g) /\ SdcDisconnect(g)
    <3>1. PICK g \in Handle : p = Disconnect(g) /\ SdcDisconnect(g)
      BY <2>9
    <3>2. /\ sdcLinks' = sdcLinks \ {g} /\ sdcBuffered' = [sdcBuffered EXCEPT ![g] = 0]
      BY <3>1 DEF SdcDisconnect
    <3>3. ReportedBy(p, h) = 0 /\ (p = d => g = h)
      BY <3>1, MessageReports, DistinctPackets DEF d
    <3>4. InPipeline(d)' => h \notin sdcLinks'
      BY <1>0, <1>b, <2>2, <2>5, <3>2, <3>3 DEF LinkInvOf, Hold, d
    <3>5. h \notin sdcLinks' => sdcBuffered'[h] = 0
      BY <1>0, <1>a, <3>2 DEF LinkInvOf
    <3> QED
      BY <2>2, <2>6, <3>3, <3>4, <3>5 DEF LinkInvOf, d
  <2>10. CASE /\ p \in {DelayedComplete, Data, Bad} \/ \E g \in sdcLinks : p = DisconnectFailed(g)
              /\ UNCHANGED <<sdcLinks, sdcBuffered>>
    <3>1. ReportedBy(p, h) = 0 /\ p # d
      BY <2>10, MessageReports, DistinctPackets DEF d
    <3>2. InPipeline(d)' => h \notin sdcLinks'
      BY <1>0, <1>b, <2>2, <2>5, <2>10, <3>1 DEF LinkInvOf, Hold, d
    <3> QED
      BY <1>0, <2>2, <2>6, <2>10, <3>1, <3>2 DEF LinkInvOf, d
  <2> QED
    BY <2>1, <2>7, <2>8, <2>9, <2>10
<1>5. CASE HostReceives
  <2>1. /\ ctlPacket' = NoPacket /\ HeldPacket' = NoPacket
    BY <1>5, HostTakes
  <2>2. UNCHANGED <<sdcQueue, sdcLinks, sdcBuffered>>
    BY <1>5 DEF HostReceives, sdcVars
  <2>3. d \notin Hold' /\ (Queued(d)' <=> Queued(d))
    BY <2>1, <2>2, DistinctPackets DEF Hold, Queued
  <2> QED
    BY <1>0, <1>b, <2>2, <2>3 DEF LinkInvOf
<1>6. CASE SdcEndsMasked
  <2>1. PICK g \in Handle :
          /\ sdcLinks' = sdcLinks \ {g} /\ sdcBuffered' = [sdcBuffered EXCEPT ![g] = 0]
          /\ UNCHANGED <<outVars, sdcQueue>>
    BY <1>6, MaskedQuiet
  <2>2. Hold' = Hold /\ (Queued(d)' <=> Queued(d)) /\ UNCHANGED sdcQueue
    BY <2>1 DEF Hold, Queued, outVars
  <2>3. h \notin sdcLinks' => sdcBuffered'[h] = 0
    BY <1>0, <1>a, <2>1 DEF LinkInvOf
  <2> QED
    BY <1>0, <1>b, <2>1, <2>2, <2>3 DEF LinkInvOf
<1> QED
  BY <1>1, <1>2, <1>3, <1>4, <1>5, <1>6 DEF Next

---------------------------------------------------------------------------
(* ACL tracking. *)

(* Sums over the handles. *)
LEMMA CountsSum ==
    ASSUME NEW f \in [Handle -> Int]
    PROVE  /\ Sum(f) = SumFunctionOnSet(f, Handle) /\ IsFiniteSet(Handle)
           /\ Sum(f) \in Int
           /\ f \in [Handle -> Nat] => Sum(f) \in Nat /\ \A h \in Handle : f[h] <= Sum(f)
<1>1. IsFiniteSet(Handle) /\ DOMAIN f = Handle /\ \A h \in Handle : f[h] \in Int
  BY SdcAssumption DEF SdcAssumption
<1>2. Sum(f) = SumFunctionOnSet(f, Handle)
  BY <1>1 DEF Sum, SumFunction
<1>3. Sum(f) \in Int
  BY <1>1, <1>2, SumType
<1>4. ASSUME f \in [Handle -> Nat] PROVE Sum(f) \in Nat /\ \A h \in Handle : f[h] <= Sum(f)
  <2>1. \A h \in Handle : f[h] \in Nat
    BY <1>4
  <2> QED
    BY <1>1, <1>2, <2>1, SumType, SumBounds
<1> QED
  BY <1>1, <1>2, <1>3, <1>4

(* The sum follows a change of one count. *)
LEMMA CountsExcept ==
    ASSUME NEW f \in [Handle -> Int], NEW g \in [Handle -> Int], NEW h \in Handle,
           \A x \in Handle : x # h => f[x] = g[x]
    PROVE  Sum(g) = Sum(f) - f[h] + g[h]
<1>1. \A x \in Handle : f[x] \in Int /\ g[x] \in Int
  OBVIOUS
<1> QED
  BY <1>1, CountsSum, SumExcept

(* The sum of a difference is the difference of the sums. *)
LEMMA CountsMinus ==
    ASSUME NEW f \in [Handle -> Int], NEW g \in [Handle -> Int], NEW d \in [Handle -> Int],
           \A x \in Handle : d[x] = f[x] - g[x]
    PROVE  Sum(d) = Sum(f) - Sum(g)
<1>1. \A x \in Handle : f[x] \in Int /\ g[x] \in Int /\ d[x] = f[x] - g[x]
  OBVIOUS
<1> QED
  BY <1>1, CountsSum, SumMinus

(* No counts, no sum. *)
LEMMA CountsNone ==
    NoCount \in [Handle -> Nat] /\ Sum(NoCount) = 0
<1>1. NoCount \in [Handle -> Int] /\ NoCount \in [Handle -> Nat] /\ \A h \in Handle : NoCount[h] = 0
  BY DEF NoCount
<1> QED
  BY <1>1, CountsSum, SumZero

(* Where every handle has its entry HciSdcAclSlot finds one. *)
LEMMA SlotFits ==
    ASSUME TypeOK, Cardinality(Handle) <= TrackHandles, NEW h \in Handle
    PROVE  HciSdcAclSlot(h)
<1>1. IsFiniteSet(Handle) /\ TrackHandles \in Nat /\ AclTracked \in SUBSET Handle
  BY SdcAssumption DEF SdcAssumption, TypeOK, AclTypeOK
<1>2. CASE h \notin AclTracked
  <2>1. /\ Cardinality(AclTracked) <= Cardinality(Handle) /\ IsFiniteSet(AclTracked)
        /\ Cardinality(Handle) # Cardinality(AclTracked)
    BY <1>1, <1>2, FS_Subset
  <2>2. Cardinality(AclTracked) \in Nat /\ Cardinality(Handle) \in Nat
    BY <1>1, <2>1, FS_CardinalityType
  <2> QED
    BY <1>1, <2>1, <2>2 DEF HciSdcAclSlot
<1> QED
  BY <1>2 DEF HciSdcAclSlot

TrackTotal ==
    /\ AclOutstandingTotal = Sum(AclOutstanding)
    /\ \A h \in Handle \ AclTracked : AclOutstanding[h] = 0

(* A forwarded event frees what it reports, never more than is counted,    *)
(* and a link that ends is forgotten.                                      *)
LEMMA TrackFrees ==
    ASSUME TypeOK, TrackTotal, NEW p \in SdcMessage, HciSdcAclTrackEvent(p)
    PROVE  /\ TrackTotal'
           /\ \A h \in Handle :
                 AclOutstanding'[h] = IF p = Disconnect(h) THEN 0
                                      ELSE AclOutstanding[h] - Lesser(AclOutstanding[h], ReportedBy(p, h))
<1>a. AclOutstanding \in [Handle -> Nat] /\ AclOutstanding \in [Handle -> Int] /\ AclTracked \subseteq Handle
  BY DEF TypeOK, AclTypeOK
<1>1. CASE p.kind = "COMPLETED"
  <2> DEFINE freed == HciSdcAclFreed(p.count)
             left  == [h \in Handle |-> AclOutstanding[h] - freed[h]]
  <2>1. p.count \in [Handle -> Nat] /\ p.type = "EVENT"
    BY <1>1 DEF SdcMessage, DelayedComplete, Data, Bad
  <2>2. /\ freed \in [Handle -> Int] /\ left \in [Handle -> Int]
        /\ \A h \in Handle : left[h] = AclOutstanding[h] - freed[h]
    BY <1>a, <2>1 DEF HciSdcAclFreed, Lesser
  <2>3. \A h \in Handle : freed[h] = Lesser(AclOutstanding[h], ReportedBy(p, h)) /\ p # Disconnect(h)
    BY <1>1, <2>1 DEF HciSdcAclFreed, ReportedBy, Disconnect
  <2>4. /\ AclOutstanding' = left /\ AclOutstandingTotal' = AclOutstandingTotal - Sum(freed)
        /\ UNCHANGED AclTracked
    BY <1>1 DEF HciSdcAclTrackEvent, ForgetsLink
  <2>5. \A h \in Handle \ AclTracked : AclOutstanding'[h] = 0
    <3>1. \A h \in Handle \ AclTracked : AclOutstanding[h] = 0 /\ freed[h] = 0
      BY <1>a, <2>1 DEF TrackTotal, HciSdcAclFreed, Lesser
    <3> QED
      BY <2>2, <2>4, <3>1
  <2> HIDE DEF freed, left
  <2>6. Sum(left) = Sum(AclOutstanding) - Sum(freed)
    BY <1>a, <2>2, CountsMinus
  <2> QED
    BY <2>2, <2>3, <2>4, <2>5, <2>6 DEF TrackTotal
<1>2. CASE p.kind # "COMPLETED" /\ ForgetsLink(p)
  <2>1. p.kind = "DISCONNECT" /\ p.handle \in Handle /\ p = Disconnect(p.handle)
    BY <1>2 DEF ForgetsLink, SdcMessage, Disconnect, DelayedComplete, Data, Bad
  <2>2. PICK g \in Handle : g = p.handle
    BY <2>1
  <2>3. HciSdcAclForget(g) /\ \A h \in Handle : p = Disconnect(h) <=> h = g
    BY <1>2, <2>1, <2>2, DistinctPackets DEF HciSdcAclTrackEvent
  <2>4. \A h \in Handle : Lesser(AclOutstanding[h], ReportedBy(p, h)) = 0
    BY <1>a, <2>1, MessageReports DEF Lesser
  <2> DEFINE left == [AclOutstanding EXCEPT ![g] = 0]
  <2>5. /\ left \in [Handle -> Int] /\ left[g] = 0
        /\ \A h \in Handle : h # g => AclOutstanding[h] = left[h]
    BY <1>a
  <2>6. AclOutstanding' = left /\ AclTracked' = AclTracked \ {g}
    BY <2>3 DEF HciSdcAclForget
  <2> HIDE DEF left
  <2>7. Sum(left) = Sum(AclOutstanding) - AclOutstanding[g] + left[g]
    BY <1>a, <2>5, CountsExcept
  <2>8. /\ Sum(AclOutstanding) \in Nat /\ AclOutstanding[g] <= Sum(AclOutstanding)
        /\ AclOutstanding[g] \in Nat
    BY <1>a, CountsSum
  <2>9. AclOutstandingTotal' = Sum(left)
    BY <2>3, <2>5, <2>7, <2>8 DEF HciSdcAclForget, TrackTotal
  <2>10. TrackTotal'
    BY <2>5, <2>6, <2>9 DEF TrackTotal
  <2>11. \A h \in Handle : AclOutstanding'[h] = IF h = g THEN 0 ELSE AclOutstanding[h]
    BY <2>5, <2>6
  <2> QED
    BY <1>a, <2>3, <2>4, <2>10, <2>11
<1>3. CASE p.kind # "COMPLETED" /\ ~ForgetsLink(p)
  <2>1. UNCHANGED aclVars
    BY <1>3 DEF HciSdcAclTrackEvent
  <2>2. \A h \in Handle : ReportedBy(p, h) = 0
    BY <1>3 DEF ReportedBy
  <2>3. \A h \in Handle : p = Disconnect(h) => AclOutstanding[h] = 0
    BY <1>3 DEF ForgetsLink, Disconnect, TrackTotal
  <2>4. \A h \in Handle : Lesser(AclOutstanding[h], ReportedBy(p, h)) = 0
    BY <1>a, <2>2 DEF Lesser
  <2> QED
    BY <1>a, <2>1, <2>3, <2>4 DEF aclVars, TrackTotal
<1> QED
  BY <1>1, <1>2, <1>3

(* A data packet is taken by the controller, given back to the host, or    *)
(* left with the bridge.                                                   *)
LEMMA AclEffects ==
    ASSUME PutAclPacket
    PROVE  \E h \in hostLinks \intersect Handle :
              /\ AclLimit # 0
              /\ \/ /\ PutAcl(h) /\ UNCHANGED CreditCount
                    /\ ~HciSdcAclAtLimit(h) /\ h \in sdcLinks /\ HciSdcAclPutTracked(h)
                    /\ sdcBuffered' = [sdcBuffered EXCEPT ![h] = @ + 1]
                    /\ hostInFlight' = [hostInFlight EXCEPT ![h] = @ + 1]
                 \/ /\ UNCHANGED <<sdcBuffered, AclOutstanding, AclOutstandingTotal>>
                    /\ AclTracked \subseteq AclTracked'
                    /\ CreditCount' = HciSdcOweCredit(CreditCount, h)
                    /\ hostInFlight' = [hostInFlight EXCEPT ![h] = @ + 1]
                 \/ /\ UNCHANGED <<sdcBuffered, AclOutstanding, AclOutstandingTotal, CreditCount, hostInFlight>>
                    /\ AclTracked \subseteq AclTracked'
<1>1. PICK h \in Handle :
        \/ PutAclOversize(h) \/ PutAclOverLimit(h) \/ PutAclError(h)
        \/ PutAcl(h) \/ PutAclAgain(h)
  BY DEF PutAclPacket
<1>2. AclTracked \subseteq SlottedByGuard(h)
  BY DEF SlottedByGuard, Slotted
<1>3. CASE PutAclOversize(h)
  BY <1>3 DEF PutAclOversize, HostSends, aclVars, sdcVars
<1>4. CASE PutAclOverLimit(h) \/ PutAclError(h)
  BY <1>2, <1>4 DEF PutAclOverLimit, PutAclError, HostSends, sdcVars
<1>5. CASE PutAcl(h)
  BY <1>5 DEF PutAcl, HostSends, creditVars
<1>6. CASE PutAclAgain(h)
  BY <1>2, <1>6 DEF PutAclAgain, creditVars, sdcVars, hostVars
<1> QED
  BY <1>1, <1>3, <1>4, <1>5, <1>6

(* The total follows the entries through every operation of the table. *)
LEMMA TotalStep ==
    ASSUME TypeOK, HoldInv, TrackTotal, Next
    PROVE  TrackTotal'
<1>a. AclOutstanding \in [Handle -> Nat] /\ AclOutstanding \in [Handle -> Int] /\ AclTracked \subseteq Handle
  BY DEF TypeOK, AclTypeOK
<1>1. CASE UNCHANGED <<AclOutstanding, AclOutstandingTotal>> /\ AclTracked \subseteq AclTracked'
  BY <1>1 DEF TrackTotal
<1>2. CASE PutCommandPacket
  <2>1. CASE ResetDone
    <3>1. AclOutstanding' = NoCount /\ AclOutstandingTotal' = 0
      BY <2>1 DEF ResetDone, HciSdcResetFlowControl
    <3> QED
      BY <3>1, CountsNone DEF TrackTotal, NoCount
  <2>2. CASE OtherDone
    BY <1>1, <2>2 DEF OtherDone
  <2> QED
    BY <1>2, <2>1, <2>2, PutEffects
<1>3. CASE Rx
  <2>1. CASE UNCHANGED aclVars
    BY <1>1, <2>1 DEF aclVars
  <2>2. ASSUME NEW t \in PacketType, RxQueue(t) PROVE TrackTotal'
    <3>1. HciSdcAclTrackEvent(Head(sdcQueue)) /\ sdcQueue # <<>>
      BY <2>2 DEF RxQueue
    <3>2. Head(sdcQueue) \in SdcMessage
      BY <3>1, QueueTyped
    <3> QED
      BY <3>1, <3>2, TrackFrees
  <2>3. RxBad => UNCHANGED aclVars
    BY DEF RxBad
  <2> QED
    BY <1>3, <2>1, <2>2, <2>3, RxQueueCases
<1>4. CASE PutAclPacket
  <2>1. PICK h \in Handle :
          \/ HciSdcAclPutTracked(h)
          \/ UNCHANGED <<AclOutstanding, AclOutstandingTotal>> /\ AclTracked \subseteq AclTracked'
    BY <1>4, AclEffects
  <2>2. CASE HciSdcAclPutTracked(h) /\ HciSdcAclSlot(h)
    <3> DEFINE more == [AclOutstanding EXCEPT ![h] = @ + 1]
    <3>1. /\ AclOutstanding' = more /\ AclOutstandingTotal' = AclOutstandingTotal + 1
          /\ AclTracked' = AclTracked \union {h}
      BY <2>2 DEF HciSdcAclPutTracked, Slotted
    <3>2. /\ more \in [Handle -> Int] /\ more[h] = AclOutstanding[h] + 1
          /\ \A x \in Handle : x # h => AclOutstanding[x] = more[x]
          /\ AclOutstanding[h] \in Nat
      BY <1>a
    <3> HIDE DEF more
    <3>3. Sum(more) = Sum(AclOutstanding) - AclOutstanding[h] + more[h] /\ Sum(AclOutstanding) \in Int
      BY <1>a, <3>2, CountsExcept, CountsSum
    <3>4. AclOutstandingTotal' = Sum(more)
      BY <3>1, <3>2, <3>3 DEF TrackTotal
    <3> QED
      BY <3>1, <3>2, <3>4 DEF TrackTotal
  <2>3. CASE HciSdcAclPutTracked(h) /\ ~HciSdcAclSlot(h)
    BY <1>1, <2>3 DEF HciSdcAclPutTracked, Slotted
  <2> QED
    BY <1>1, <2>1, <2>2, <2>3
<1>5. CASE SdcStep
  BY <1>1, <1>5, SdcStepQueues DEF SdcQueues, aclVars
<1>6. CASE HostReceives
  BY <1>1, <1>6 DEF HostReceives, aclVars
<1>7. CASE SdcEndsMasked
  BY <1>1, <1>7, MaskedQuiet DEF aclVars
<1> QED
  BY <1>2, <1>3, <1>4, <1>5, <1>6, <1>7 DEF Next

TrackCleared == hostResetting => AclOutstanding = NoCount

(* Nothing is counted between a reset and its answer. *)
LEMMA ClearedStep ==
    ASSUME TypeOK, TypeOK', HoldInv, TrackTotal, TrackCleared, Next
    PROVE  TrackCleared'
<1>1. CASE UNCHANGED AclOutstanding /\ (hostResetting' => hostResetting)
  BY <1>1 DEF TrackCleared
<1>2. CASE PutCommandPacket
  BY <1>1, <1>2, PutEffects DEF ResetDone, OtherDone, HciSdcResetFlowControl, TrackCleared
<1>3. CASE Rx
  <2>1. UNCHANGED hostResetting
    BY <1>3, RxQueueCases DEF hostVars
  <2>2. CASE UNCHANGED aclVars
    BY <1>1, <2>1, <2>2 DEF aclVars
  <2>3. ASSUME NEW t \in PacketType, RxQueue(t), hostResetting PROVE AclOutstanding' = NoCount
    <3>1. HciSdcAclTrackEvent(Head(sdcQueue)) /\ sdcQueue # <<>>
      BY <2>3 DEF RxQueue
    <3>2. Head(sdcQueue) \in SdcMessage
      BY <3>1, QueueTyped
    <3>3. ASSUME NEW h \in Handle PROVE AclOutstanding'[h] = 0
      <4>1. AclOutstanding[h] = 0
        BY <2>3 DEF TrackCleared, NoCount
      <4>2. ReportedBy(Head(sdcQueue), h) \in Nat
        BY <3>1, <3>2, ReportedByTyped DEF AnyPacket
      <4> QED
        BY <3>1, <3>2, <4>1, <4>2, TrackFrees DEF Lesser
    <3>4. AclOutstanding' \in [Handle -> Nat]
      BY DEF TypeOK, AclTypeOK
    <3> QED
      BY <3>3, <3>4 DEF NoCount
  <2>4. RxBad => UNCHANGED aclVars
    BY DEF RxBad
  <2> QED
    BY <1>3, <2>1, <2>2, <2>3, <2>4, RxQueueCases DEF TrackCleared
<1>4. CASE PutAclPacket
  BY <1>4, AclQuiet DEF TrackCleared
<1>5. CASE SdcStep
  BY <1>1, <1>5, SdcStepQueues DEF SdcQueues, aclVars, hostVars
<1>6. CASE SdcEndsMasked
  BY <1>1, <1>6, MaskedQuiet DEF aclVars
<1>7. CASE HostReceives
  <2>1. UNCHANGED AclOutstanding
    BY <1>7 DEF HostReceives, aclVars
  <2>2. hostResetting' = FALSE \/ UNCHANGED hostResetting
    BY <1>7, HostCases
       DEF HostResets, HostCreates, HostConnects, HostDisconnects, HostCounts, HostIgnores, hostVars
  <2> QED
    BY <1>1, <2>1, <2>2
<1> QED
  BY <1>2, <1>3, <1>4, <1>5, <1>6, <1>7 DEF Next

TrackExact(h) ==
    /\ sdcBuffered[h] + Reported(sdcQueue, h) <= AclOutstanding[h]
    /\ \/ Queued(Disconnect(h)) \/ h \in hostUntold
       \/ AclOutstanding[h] = sdcBuffered[h] + Reported(sdcQueue, h)

(* Every entry counts what the controller still has to report: what is     *)
(* taken is counted, what is reported is freed, a link that ends has       *)
(* nothing more to report.                                                 *)
LEMMA ExactStep ==
    ASSUME TypeOK, HoldInv, ResetInv, LinkInv, LinkInv', TrackTotal, TrackCleared,
           Cardinality(Handle) <= TrackHandles, NEW h \in Handle, TrackExact(h), Next
    PROVE  TrackExact(h)'
<1>a. /\ AclOutstanding \in [Handle -> Nat] /\ sdcBuffered \in [Handle -> Nat]
      /\ sdcQueue \in Seq(SdcMessage) /\ Reported(sdcQueue, h) \in Nat
  BY QueueTyped DEF TypeOK, AclTypeOK, SdcTypeOK
<1>1. CASE AclOutstanding'[h] = AclOutstanding[h] /\ sdcBuffered'[h] = sdcBuffered[h]
           /\ UNCHANGED <<sdcQueue, hostUntold>>
  BY <1>1 DEF TrackExact, Queued
<1>2. CASE PutCommandPacket
  <2>1. CASE ResetDone
    <3>1. AclOutstanding' = NoCount /\ sdcBuffered' = NoCount /\ sdcQueue' = <<>>
      BY <2>1 DEF ResetDone, HciSdcResetFlowControl
    <3> QED
      BY <3>1, ReportedEmpty DEF TrackExact, NoCount
  <2>2. CASE OtherDone
    BY <1>1, <1>2, <2>2, PutQuiet DEF OtherDone
  <2> QED
    BY <1>2, <2>1, <2>2, PutEffects
<1>3. CASE Rx
  <2>0. UNCHANGED <<sdcBuffered, hostUntold>>
    BY <1>3, RxQueueCases DEF hostVars
  <2>1. CASE UNCHANGED <<sdcQueue, aclVars>>
    BY <1>1, <2>0, <2>1 DEF aclVars
  <2>2. CASE sdcQueue # <<>> /\ sdcQueue' = Tail(sdcQueue) /\ (RxBad \/ \E t \in PacketType : RxQueue(t))
    <3> DEFINE p == Head(sdcQueue)
    <3>1. p \in SdcMessage /\ p = sdcQueue[1] /\ 1 \in DOMAIN sdcQueue
      BY <1>a, <2>2, QueuedTail
    <3>2. /\ Reported(sdcQueue, h)' \in Nat /\ ReportedBy(p, h) \in Nat
          /\ Reported(sdcQueue, h) = ReportedBy(p, h) + Reported(sdcQueue, h)'
      BY <2>2, QueueShrinks
    <3>3. Queued(Disconnect(h)) => Queued(Disconnect(h))' \/ p = Disconnect(h)
      <4>1. \A i \in DOMAIN sdcQueue :
               i # 1 => i - 1 \in DOMAIN Tail(sdcQueue) /\ Tail(sdcQueue)[i - 1] = sdcQueue[i]
        BY <1>a, <2>2, QueuedTail
      <4> QED
        BY <2>2, <3>1, <4>1 DEF Queued
    <3>4. /\ AclOutstanding'[h] = IF p = Disconnect(h) THEN 0
                                  ELSE AclOutstanding[h] - Lesser(AclOutstanding[h], ReportedBy(p, h))
          /\ p = Disconnect(h) => Reported(sdcQueue, h)' = 0
      <4>1. CASE RxBad
        <5>1. UNCHANGED aclVars /\ p.type \notin PacketType
          BY <4>1 DEF RxBad, Deliverable
        <5>2. p # Disconnect(h) /\ ReportedBy(p, h) = 0
          BY <5>1 DEF Disconnect, PacketType, ReportedBy
        <5> QED
          BY <1>a, <5>1, <5>2 DEF aclVars, Lesser
      <4>2. ASSUME NEW t \in PacketType, RxQueue(t)
            PROVE  /\ HciSdcAclTrackEvent(p)
                   /\ p = Disconnect(h) => Reported(sdcQueue, h)' = 0
        <5>1. HciSdcAclTrackEvent(p) /\ HoldEmpty /\ RxData(p, t)
          BY <4>2 DEF RxQueue, QueueTurn
        <5>2. p \in Hold'
          BY <5>1, RxDataFills DEF Hold
        <5> QED
          BY <5>1, <5>2 DEF LinkInv
      <4> QED
        BY <2>2, <3>1, <4>1, <4>2, TrackFrees
    <3>5. p = Disconnect(h) => sdcBuffered[h] = 0
      <4>1. p = Disconnect(h) => Queued(Disconnect(h))
        BY <3>1 DEF Queued
      <4> QED
        BY <4>1, PipelineSplit DEF LinkInv
    <3> HIDE DEF p
    <3>6. CASE p = Disconnect(h)
      BY <1>a, <2>0, <3>4, <3>5, <3>6 DEF TrackExact
    <3>7. CASE p # Disconnect(h)
      <4>1. AclOutstanding[h] \in Nat /\ sdcBuffered[h] \in Nat
        BY <1>a
      <4>2. ReportedBy(p, h) <= AclOutstanding[h]
        BY <3>2, <4>1 DEF TrackExact
      <4>3. AclOutstanding'[h] = AclOutstanding[h] - ReportedBy(p, h)
        BY <3>2, <3>4, <3>7, <4>1, <4>2 DEF Lesser
      <4>4. Queued(Disconnect(h)) => Queued(Disconnect(h))'
        BY <3>3, <3>7
      <4>5. sdcBuffered[h] + Reported(sdcQueue, h)' <= AclOutstanding'[h]
        BY <3>2, <4>1, <4>3 DEF TrackExact
      <4>6. AclOutstanding[h] = sdcBuffered[h] + Reported(sdcQueue, h)
               => AclOutstanding'[h] = sdcBuffered[h] + Reported(sdcQueue, h)'
        BY <3>2, <4>1, <4>3
      <4> QED
        BY <2>0, <4>4, <4>5, <4>6 DEF TrackExact
    <3> QED
      BY <3>6, <3>7
  <2> QED
    BY <1>3, <2>1, <2>2, RxQueueCases
<1>4. CASE PutAclPacket
  <2>0. UNCHANGED <<sdcQueue, hostUntold>>
    BY <1>4, AclQuiet
  <2>1. PICK g \in Handle :
          \/ HciSdcAclPutTracked(g) /\ sdcBuffered' = [sdcBuffered EXCEPT ![g] = @ + 1]
          \/ UNCHANGED <<AclOutstanding, sdcBuffered>>
    BY <1>4, AclEffects
  <2>2. CASE HciSdcAclPutTracked(g) /\ sdcBuffered' = [sdcBuffered EXCEPT ![g] = @ + 1]
    <3>1. AclOutstanding' = [AclOutstanding EXCEPT ![g] = @ + 1]
      BY <2>2, SlotFits DEF HciSdcAclPutTracked
    <3>2. CASE g = h
      <4>1. /\ AclOutstanding'[h] = AclOutstanding[h] + 1 /\ sdcBuffered'[h] = sdcBuffered[h] + 1
            /\ AclOutstanding[h] \in Nat /\ sdcBuffered[h] \in Nat
        BY <1>a, <2>2, <3>1, <3>2
      <4>2. Reported(sdcQueue, h)' = Reported(sdcQueue, h) /\ (Queued(Disconnect(h))' <=> Queued(Disconnect(h)))
        BY <2>0 DEF Queued
      <4> QED
        BY <1>a, <2>0, <4>1, <4>2 DEF TrackExact
    <3>3. CASE g # h
      BY <1>1, <1>a, <2>0, <2>2, <3>1, <3>3
    <3> QED
      BY <3>2, <3>3
  <2> QED
    BY <1>1, <2>0, <2>1, <2>2
<1>5. CASE SdcStep
  <2>1. PICK p \in SdcMessage :
              /\ SdcQueues(p)
              /\ \/ \E g \in Handle : p = Connect(g) /\ SdcConnect(g)
                 \/ \E g \in Handle, n \in Nat \ {0} :
                       p = Completed(Only(g, n)) /\ SdcCompletes(g) /\ n <= sdcBuffered[g]
                          /\ sdcBuffered' = [sdcBuffered EXCEPT ![g] = @ - n]
                          /\ UNCHANGED sdcLinks
                 \/ \E g \in Handle : p = Disconnect(g) /\ SdcDisconnect(g)
                 \/ /\ p \in {DelayedComplete, Data, Bad} \/ \E g \in sdcLinks : p = DisconnectFailed(g)
                    /\ UNCHANGED <<sdcLinks, sdcBuffered>>
    BY <1>5, SdcStepQueues
  <2>2. UNCHANGED <<AclOutstanding, hostUntold>> /\ sdcQueue' = Append(sdcQueue, p)
    BY <2>1 DEF SdcQueues, aclVars, hostVars
  <2>3. Reported(sdcQueue, h)' = Reported(sdcQueue, h) + ReportedBy(p, h)
    BY <2>1, QueueGrows
  <2>4. /\ Queued(Disconnect(h)) => Queued(Disconnect(h))'
        /\ p = Disconnect(h) => Queued(Disconnect(h))'
    BY <1>a, <2>2, QueuedAppend DEF Queued
  <2>5. sdcBuffered[h] \in Nat /\ AclOutstanding[h] \in Nat
    BY <1>a
  <2>6. CASE sdcBuffered'[h] = sdcBuffered[h] /\ ReportedBy(p, h) = 0
    BY <1>a, <2>2, <2>3, <2>4, <2>5, <2>6 DEF TrackExact
  <2>7. CASE \E g \in Handle : p = Connect(g) /\ SdcConnect(g)
    BY <2>6, <2>7, MessageReports DEF SdcConnect
  <2>8. CASE \E g \in Handle, n \in Nat \ {0} :
                       p = Completed(Only(g, n)) /\ SdcCompletes(g) /\ n <= sdcBuffered[g]
                          /\ sdcBuffered' = [sdcBuffered EXCEPT ![g] = @ - n]
                          /\ UNCHANGED sdcLinks
    <3>1. PICK g \in Handle, n \in Nat \ {0} :
                          /\ p = Completed(Only(g, n)) /\ n <= sdcBuffered[g]
                          /\ sdcBuffered' = [sdcBuffered EXCEPT ![g] = @ - n]
      BY <2>8
    <3>2. CASE g = h
      <4>1. sdcBuffered'[h] = sdcBuffered[h] - n /\ ReportedBy(p, h) = n
        BY <1>a, <3>1, <3>2, MessageReports
      <4> QED
        BY <1>a, <2>2, <2>3, <2>4, <2>5, <4>1 DEF TrackExact
    <3>3. CASE g # h
      BY <1>a, <2>6, <3>1, <3>3, MessageReports
    <3> QED
      BY <3>2, <3>3
  <2>9. CASE \E g \in Handle : p = Disconnect(g) /\ SdcDisconnect(g)
    <3>1. PICK g \in Handle : p = Disconnect(g) /\ sdcBuffered' = [sdcBuffered EXCEPT ![g] = 0]
      BY <2>9 DEF SdcDisconnect
    <3>2. ReportedBy(p, h) = 0
      BY <3>1, MessageReports
    <3>3. CASE g = h
      BY <1>a, <2>2, <2>3, <2>4, <2>5, <3>1, <3>2, <3>3 DEF TrackExact
    <3>4. CASE g # h
      BY <1>a, <2>6, <3>1, <3>2, <3>4
    <3> QED
      BY <3>3, <3>4
  <2>10. CASE /\ p \in {DelayedComplete, Data, Bad} \/ \E g \in sdcLinks : p = DisconnectFailed(g)
              /\ UNCHANGED <<sdcLinks, sdcBuffered>>
    BY <2>6, <2>10, MessageReports
  <2> QED
    BY <2>1, <2>7, <2>8, <2>9, <2>10
<1>6. CASE HostReceives
  <2>1. UNCHANGED <<AclOutstanding, sdcBuffered, sdcQueue>>
    BY <1>6 DEF HostReceives, aclVars, sdcVars
  <2>2. CASE Answers(ctlPacket, OpReset)
    <3>1. hostResetting
      BY <1>6, <2>2, HostTakes DEF ResetInv
    <3>2. AclOutstanding[h] = 0 /\ sdcBuffered[h] = 0 /\ Reported(sdcQueue, h) = 0
      BY <3>1 DEF ResetInv, TrackCleared, NoCount
    <3>3. Reported(sdcQueue, h)' = 0
      BY <2>1, <3>2
    <3> QED
      BY <2>1, <3>2, <3>3 DEF TrackExact
  <2>3. CASE ~Answers(ctlPacket, OpReset)
    <3>1. UNCHANGED hostUntold
      BY <1>6, <2>3, HostCases
         DEF HostCreates, HostConnects, HostDisconnects, HostCounts, HostIgnores, hostVars
    <3> QED
      BY <1>1, <2>1, <3>1
  <2> QED
    BY <2>2, <2>3
<1>7. CASE SdcEndsMasked
  <2>1. PICK g \in Handle :
          /\ sdcBuffered' = [sdcBuffered EXCEPT ![g] = 0] /\ hostUntold' = hostUntold \union {g}
          /\ UNCHANGED <<AclOutstanding, sdcQueue>>
    BY <1>7, MaskedQuiet DEF aclVars
  <2>2. sdcBuffered'[h] = (IF g = h THEN 0 ELSE sdcBuffered[h])
    BY <1>a, <2>1
  <2>3. Reported(sdcQueue, h)' = Reported(sdcQueue, h) /\ (Queued(Disconnect(h))' <=> Queued(Disconnect(h)))
    BY <2>1 DEF Queued
  <2>4. AclOutstanding[h] \in Nat /\ sdcBuffered[h] \in Nat
    BY <1>a
  <2>5. CASE g = h
    BY <1>a, <2>1, <2>2, <2>3, <2>4, <2>5 DEF TrackExact
  <2>6. CASE g # h
    BY <1>a, <2>1, <2>2, <2>3, <2>4, <2>6 DEF TrackExact
  <2> QED
    BY <2>5, <2>6
<1> QED
  BY <1>2, <1>3, <1>4, <1>5, <1>6, <1>7 DEF Next

(* Every step keeps the tracking table in step with the controller. *)
LEMMA TrackStep ==
    ASSUME TypeOK, TypeOK', HoldInv, ResetInv, LinkInv, LinkInv', TrackInv, Next
    PROVE  TrackInv'
<1>1. /\ TrackTotal /\ TrackCleared
      /\ Cardinality(Handle) <= TrackHandles => \A h \in Handle : TrackExact(h)
  BY DEF TrackInv, TrackTotal, TrackCleared, TrackExact
<1>2. TrackTotal' /\ TrackCleared'
  BY <1>1, TotalStep, ClearedStep
<1>3. ASSUME Cardinality(Handle) <= TrackHandles, NEW h \in Handle PROVE TrackExact(h)'
  BY <1>1, <1>3, ExactStep
<1> QED
  BY <1>2, <1>3 DEF TrackInv, TrackTotal, TrackCleared, TrackExact

(* An enforcing build refuses what would overrun: the controller holds no  *)
(* more than is counted, and the count is below the limit.                 *)
LEMMA OverrunStep ==
    ASSUME TypeOK, HoldInv, TrackInv, NoOverrun, Cardinality(Handle) <= TrackHandles, Next
    PROVE  NoOverrun'
<1> SUFFICES ASSUME Enforce PROVE Sum(sdcBuffered') <= SdcBuffers
  BY DEF NoOverrun
<1>a. /\ sdcBuffered \in [Handle -> Nat] /\ sdcBuffered \in [Handle -> Int]
      /\ AclOutstanding \in [Handle -> Nat] /\ AclOutstanding \in [Handle -> Int]
      /\ AclLimit \in {0, SdcBuffers} /\ SdcBuffers \in Nat
  BY SdcAssumption DEF SdcAssumption, TypeOK, SdcTypeOK, AclTypeOK
<1>b. Sum(sdcBuffered) <= SdcBuffers /\ Sum(sdcBuffered) \in Nat /\ Sum(AclOutstanding) \in Nat
  BY <1>a, CountsSum DEF NoOverrun
<1>1. ASSUME NEW h \in Handle, NEW n \in Nat, n <= sdcBuffered[h],
             sdcBuffered' = [sdcBuffered EXCEPT ![h] = n]
      PROVE  Sum(sdcBuffered') <= SdcBuffers
  <2>1. /\ sdcBuffered' \in [Handle -> Int] /\ sdcBuffered'[h] = n
        /\ \A x \in Handle : x # h => sdcBuffered[x] = sdcBuffered'[x]
    BY <1>a, <1>1
  <2>2. Sum(sdcBuffered') = Sum(sdcBuffered) - sdcBuffered[h] + sdcBuffered'[h]
    BY <1>a, <2>1, CountsExcept
  <2>3. sdcBuffered[h] \in Nat
    BY <1>a
  <2> QED
    BY <1>a, <1>b, <1>1, <2>1, <2>2, <2>3
<1>2. CASE UNCHANGED sdcBuffered
  BY <1>b, <1>2
<1>3. CASE PutCommandPacket
  <2>1. sdcBuffered' = NoCount \/ UNCHANGED sdcBuffered
    BY <1>3, PutEffects DEF ResetDone, OtherDone
  <2> QED
    BY <1>2, <1>a, <2>1, CountsNone
<1>4. CASE Rx \/ HostReceives
  BY <1>2, <1>4, RxQueueCases DEF HostReceives, sdcVars
<1>7. CASE SdcEndsMasked
  <2>1. PICK h \in Handle : sdcBuffered' = [sdcBuffered EXCEPT ![h] = 0]
    BY <1>7, MaskedQuiet
  <2>2. 0 <= sdcBuffered[h]
    BY <1>a
  <2> QED
    BY <1>1, <2>1, <2>2
<1>5. CASE PutAclPacket
  <2>1. PICK h \in Handle :
          /\ AclLimit # 0
          /\ \/ ~HciSdcAclAtLimit(h) /\ sdcBuffered' = [sdcBuffered EXCEPT ![h] = @ + 1]
             \/ UNCHANGED sdcBuffered
    BY <1>5, AclEffects
  <2>2. CASE ~HciSdcAclAtLimit(h) /\ sdcBuffered' = [sdcBuffered EXCEPT ![h] = @ + 1]
    <3>1. ~(AclOutstandingTotal >= AclLimit) /\ AclLimit = SdcBuffers
      BY <1>a, <2>1, <2>2, SlotFits DEF HciSdcAclAtLimit
    <3>2. AclOutstandingTotal = Sum(AclOutstanding)
      BY DEF TrackInv
    <3>3. Sum(AclOutstanding) < SdcBuffers
      BY <1>a, <1>b, <3>1, <3>2
    <3>4. Sum(sdcBuffered) <= Sum(AclOutstanding)
      <4>1. \A x \in Handle : Reported(sdcQueue, x) \in Nat
        BY QueueTyped
      <4>2. \A x \in Handle : sdcBuffered[x] + Reported(sdcQueue, x) <= AclOutstanding[x]
        BY DEF TrackInv
      <4>3. \A x \in Handle : sdcBuffered[x] \in Int /\ AclOutstanding[x] \in Int /\ sdcBuffered[x] <= AclOutstanding[x]
        BY <1>a, <4>1, <4>2
      <4> QED
        BY <1>a, <4>3, CountsSum, SumMonotone
    <3>5. /\ sdcBuffered' \in [Handle -> Int] /\ sdcBuffered'[h] = sdcBuffered[h] + 1
          /\ \A x \in Handle : x # h => sdcBuffered[x] = sdcBuffered'[x]
          /\ sdcBuffered[h] \in Nat
      BY <1>a, <2>2
    <3>6. Sum(sdcBuffered') = Sum(sdcBuffered) - sdcBuffered[h] + sdcBuffered'[h]
      BY <1>a, <3>5, CountsExcept
    <3> QED
      BY <1>a, <1>b, <3>3, <3>4, <3>5, <3>6
  <2> QED
    BY <1>2, <2>1, <2>2
<1>6. CASE SdcStep
  <2>1. \/ UNCHANGED sdcBuffered
        \/ \E h \in Handle, n \in Nat \ {0} : n <= sdcBuffered[h] /\ sdcBuffered' = [sdcBuffered EXCEPT ![h] = @ - n]
        \/ \E h \in Handle : sdcBuffered' = [sdcBuffered EXCEPT ![h] = 0]
    BY <1>6, SdcStepQueues DEF SdcConnect, SdcDisconnect
  <2>2. ASSUME NEW h \in Handle, NEW n \in Nat \ {0}, n <= sdcBuffered[h],
               sdcBuffered' = [sdcBuffered EXCEPT ![h] = @ - n]
        PROVE  Sum(sdcBuffered') <= SdcBuffers
    <3>1. PICK m \in Nat : m = sdcBuffered[h] - n /\ m <= sdcBuffered[h]
      BY <1>a, <2>2
    <3> QED
      BY <1>1, <2>2, <3>1
  <2>3. \A h \in Handle : 0 <= sdcBuffered[h]
    BY <1>a
  <2> QED
    BY <1>1, <1>2, <2>1, <2>2, <2>3
<1> QED
  BY <1>3, <1>4, <1>5, <1>6, <1>7 DEF Next

---------------------------------------------------------------------------
(* The host's credits. *)

Known(h) ==
    /\ hostInFlight[h] >= Owing(h)
    /\ ~hostResetting /\ ~InPipeline(Disconnect(h)) /\ Cardinality(Handle) <= TrackHandles
       => hostInFlight[h] = Owing(h)

Unknown(h) ==
    /\ hostInFlight[h] = 0 /\ sdcBuffered[h] = 0 /\ Reported(sdcQueue, h) = 0
    /\ CreditCount[h] > 0 => ~CreditEventLast
    /\ Connect(h) \in Hold => CreditCount[h] = 0

(* What CreditInv says of a handle whose end the host was not kept from. *)
CreditOf(h) ==
    /\ h \in hostLinks => Known(h)
    /\ h \notin hostLinks => Unknown(h)
    /\ Disconnect(h) \in Hold => ~CreditEventLast

(* What is owed to a link is the sum of its places. *)
LEMMA OwingTyped ==
    ASSUME TypeOK, NEW h \in Handle
    PROVE  /\ sdcBuffered[h] \in Nat /\ CreditCount[h] \in Nat /\ hostInFlight[h] \in Int
           /\ ReportedBy(ctlPacket, h) \in Nat /\ ReportedBy(HeldPacket, h) \in Nat
           /\ Reported(sdcQueue, h) \in Nat
           /\ Owing(h) = sdcBuffered[h] + CreditCount[h] + (ReportedBy(ctlPacket, h)
                         + ReportedBy(HeldPacket, h) + Reported(sdcQueue, h))
           /\ Owing(h) \in Nat
<1>1. sdcBuffered[h] \in Nat /\ CreditCount[h] \in Nat /\ hostInFlight[h] \in Int
  BY DEF TypeOK, SdcTypeOK, CreditTypeOK, HostTypeOK
<1> QED
  BY <1>1, ReportedPipeline DEF Owing

(* The same in the next state. *)
LEMMA OwingTypedNext ==
    ASSUME TypeOK', NEW h \in Handle
    PROVE  /\ sdcBuffered'[h] \in Nat /\ CreditCount'[h] \in Nat /\ hostInFlight'[h] \in Int
           /\ ReportedBy(ctlPacket, h)' \in Nat /\ ReportedBy(HeldPacket, h)' \in Nat
           /\ Reported(sdcQueue, h)' \in Nat
           /\ Owing(h)' = sdcBuffered'[h] + CreditCount'[h] + (ReportedBy(ctlPacket, h)'
                          + ReportedBy(HeldPacket, h)' + Reported(sdcQueue, h)')
           /\ Owing(h)' \in Nat
<1>1. sdcBuffered'[h] \in Nat /\ CreditCount'[h] \in Nat /\ hostInFlight'[h] \in Int
  BY DEF TypeOK, SdcTypeOK, CreditTypeOK, HostTypeOK
<1> QED
  BY <1>1, ReportedPipelineNext DEF Owing

(* A step that moves d packets between the host and the rest. *)
LEMMA KnownKept ==
    ASSUME TypeOK, TypeOK', NEW h \in Handle, Known(h), NEW d \in Int,
           hostInFlight'[h] = hostInFlight[h] + d, Owing(h)' <= Owing(h) + d,
           ~hostResetting' /\ ~InPipeline(Disconnect(h))' /\ Cardinality(Handle) <= TrackHandles
             => ~hostResetting /\ ~InPipeline(Disconnect(h)) /\ Owing(h)' = Owing(h) + d
    PROVE  Known(h)'
<1>1. Owing(h) \in Nat /\ Owing(h)' \in Nat /\ hostInFlight[h] \in Int
  BY OwingTyped, OwingTypedNext
<1> QED
  BY <1>1 DEF Known

(* A step that leaves everything about the link alone. *)
LEMMA CreditSame ==
    ASSUME TypeOK, TypeOK', NEW h \in Handle, CreditOf(h),
           UNCHANGED <<hostInFlight, sdcBuffered, CreditCount, CreditEventLast, ctlPacket, HeldPacket,
                       sdcQueue, hostLinks, hostResetting>>
    PROVE  CreditOf(h)'
BY DEF CreditOf, Known, Unknown, Owing, Pipeline, InPipeline, Hold

(* A command touches no credit, but for a reset, which drops them all. *)
LEMMA CreditCommand ==
    ASSUME TypeOK, TypeOK', HoldInv, NEW h \in Handle, CreditOf(h), PutCommandPacket
    PROVE  CreditOf(h)'
<1>1. UNCHANGED <<HeldPacket, ctlPacket, hostLinks, hostInFlight>>
  BY PutQuiet
<1>2. CASE OtherDone
  BY <1>1, <1>2, CreditSame DEF OtherDone, creditVars
<1>3. CASE ResetDone
  <2>1. /\ sdcQueue' = <<>> /\ sdcBuffered' = NoCount /\ CreditCount' = NoCount
        /\ CreditEventLast' = FALSE /\ hostResetting' = TRUE
    BY <1>3 DEF ResetDone, HciSdcResetFlowControl
  <2>2. sdcBuffered'[h] = 0 /\ CreditCount'[h] = 0 /\ Reported(sdcQueue, h)' = 0
    BY <2>1, ReportedEmpty DEF NoCount
  <2>3. Owing(h)' <= Owing(h) + 0 /\ hostInFlight'[h] = hostInFlight[h] + 0
    <3>1. ReportedBy(ctlPacket, h)' = ReportedBy(ctlPacket, h) /\ ReportedBy(HeldPacket, h)' = ReportedBy(HeldPacket, h)
      BY <1>1
    <3> QED
      BY <1>1, <2>2, <3>1, OwingTyped, OwingTypedNext
  <2>4. h \in hostLinks => Known(h)'
    BY <2>1, <2>3, KnownKept DEF CreditOf
  <2> QED
    BY <1>1, <2>1, <2>2, <2>4 DEF CreditOf, Unknown
<1> QED
  BY <1>2, <1>3, PutEffects

(* What a poll takes it hands on. *)
LEMMA RxKeepsLast ==
    ASSUME TypeOK, TypeOK', NEW h \in Handle, Rx
    PROVE  InPipeline(Disconnect(h)) => InPipeline(Disconnect(h))'
<1> DEFINE d == Disconnect(h)
<1>a. sdcQueue \in Seq(SdcMessage)
  BY QueueTyped
<1>b. /\ InPipeline(d) <=> ctlPacket = d \/ HeldPacket = d \/ Queued(d)
      /\ InPipeline(d)' <=> ctlPacket' = d \/ HeldPacket' = d \/ Queued(d)'
  BY PipelineSplit, PipelineSplitNext
<1>c. d # NoPacket
  BY DistinctPackets
<1>1. ASSUME NEW t \in PacketType, RxHeld(t) PROVE InPipeline(d) => InPipeline(d)'
  BY <1>1, <1>b, <1>c, RxHeldMoves DEF sdcVars, Queued
<1>2. ASSUME HoldEmpty, UNCHANGED sdcQueue PROVE InPipeline(d) => InPipeline(d)'
  BY <1>2, <1>b, <1>c DEF HoldEmpty, Queued
<1>3. ASSUME NEW t \in PacketType, RxResponse(t) \/ HciSdcBuildCreditEvent(t)
      PROVE  HoldEmpty /\ UNCHANGED sdcQueue
  BY <1>3 DEF RxResponse, HciSdcBuildCreditEvent, sdcVars
<1>4. RxEmpty => HoldEmpty /\ UNCHANGED sdcQueue
  BY DEF RxEmpty, QueueTurn, sdcVars
<1>5. ASSUME HoldEmpty, sdcQueue # <<>>, sdcQueue' = Tail(sdcQueue),
             Head(sdcQueue) = d => ctlPacket' = d \/ HeldPacket' = d
      PROVE  InPipeline(d) => InPipeline(d)'
  <2>1. /\ \A i \in DOMAIN sdcQueue :
             i # 1 => i - 1 \in DOMAIN Tail(sdcQueue) /\ Tail(sdcQueue)[i - 1] = sdcQueue[i]
        /\ Head(sdcQueue) = sdcQueue[1]
    BY <1>a, <1>5, QueuedTail
  <2>2. Queued(d) => Queued(d)' \/ Head(sdcQueue) = d
    BY <1>5, <2>1 DEF Queued
  <2> QED
    BY <1>5, <1>b, <1>c, <2>2 DEF HoldEmpty
<1>6. ASSUME NEW t \in PacketType, RxQueue(t) PROVE InPipeline(d) => InPipeline(d)'
  <2>1. HoldEmpty /\ sdcQueue # <<>> /\ sdcQueue' = Tail(sdcQueue) /\ RxData(Head(sdcQueue), t)
    BY <1>6 DEF RxQueue, QueueTurn
  <2>2. Head(sdcQueue) = d => ctlPacket' = d \/ HeldPacket' = d
    BY <2>1, RxDataFills
  <2> QED
    BY <1>5, <2>1, <2>2
<1>7. CASE RxBad
  <2>1. HoldEmpty /\ sdcQueue # <<>> /\ sdcQueue' = Tail(sdcQueue) /\ Head(sdcQueue).type \notin PacketType
    BY <1>7 DEF RxBad, QueueTurn, Deliverable
  <2>2. Head(sdcQueue) # d
    BY <2>1 DEF Disconnect, PacketType
  <2> QED
    BY <1>5, <2>1, <2>2
<1> QED
  BY <1>1, <1>2, <1>3, <1>4, <1>6, <1>7 DEF Rx

(* A poll moves what is owed toward the host and loses none of it. *)
LEMMA RxOwing ==
    ASSUME TypeOK, TypeOK', NEW h \in Handle, Rx
    PROVE  Owing(h)' = Owing(h)
<1>a. ReportedBy(NoPacket, h) = 0
  BY MessageReports
<1>b. UNCHANGED sdcBuffered
  BY RxQueueCases
<1> DEFINE O(b, c, p, q, r) == b + c + (p + q + r)
<1>c. /\ Owing(h) = O(sdcBuffered[h], CreditCount[h], ReportedBy(ctlPacket, h), ReportedBy(HeldPacket, h),
                      Reported(sdcQueue, h))
      /\ Owing(h)' = O(sdcBuffered[h], CreditCount'[h], ReportedBy(ctlPacket', h), ReportedBy(HeldPacket', h),
                       Reported(sdcQueue', h))
      /\ sdcBuffered[h] \in Nat /\ CreditCount[h] \in Nat /\ Reported(sdcQueue, h) \in Nat
      /\ ReportedBy(HeldPacket, h) \in Nat
  BY <1>b, OwingTyped, OwingTypedNext
<1>1. ASSUME NEW t \in PacketType, RxHeld(t) PROVE Owing(h)' = Owing(h)
  <2>1. ctlPacket = NoPacket /\ ctlPacket' = HeldPacket /\ HeldPacket' = NoPacket
        /\ UNCHANGED <<CreditCount, sdcQueue>>
    BY <1>1, RxHeldMoves DEF creditVars, sdcVars
  <2> QED
    BY <1>a, <1>c, <2>1
<1>2. ASSUME HoldEmpty, NEW p, NEW t, RxData(p, t), ReportedBy(p, h) \in Nat, CreditCount'[h] \in Nat,
             Reported(sdcQueue, h)' \in Nat,
             CreditCount'[h] + ReportedBy(p, h) + Reported(sdcQueue, h)' = CreditCount[h] + Reported(sdcQueue, h)
      PROVE  Owing(h)' = Owing(h)
  <2>1. ctlPacket = NoPacket /\ HeldPacket = NoPacket
    BY <1>2 DEF HoldEmpty
  <2>2. CASE ctlPacket' = p /\ HeldPacket' = NoPacket
    BY <1>a, <1>c, <1>2, <2>1, <2>2
  <2>3. CASE HeldPacket' = p /\ ctlPacket' = NoPacket
    BY <1>a, <1>c, <1>2, <2>1, <2>3
  <2> QED
    BY <1>2, <2>2, <2>3, RxDataFills
<1>3. ASSUME NEW t \in PacketType, RxResponse(t) PROVE Owing(h)' = Owing(h)
  <2>1. HoldEmpty /\ UNCHANGED <<CreditCount, sdcQueue>> /\ \E e : RxData(ResponseOf(e), t)
    BY <1>3 DEF RxResponse, creditVars, sdcVars
  <2>2. PICK p : RxData(p, t) /\ ReportedBy(p, h) = 0
    BY <2>1, MessageReports
  <2> QED
    BY <1>c, <1>2, <2>1, <2>2
<1>4. ASSUME NEW t \in PacketType, HciSdcBuildCreditEvent(t) PROVE Owing(h)' = Owing(h)
  <2>1. HoldEmpty /\ CreditCount' = NoCount /\ UNCHANGED sdcQueue /\ RxData(Completed(CreditCount), t)
    BY <1>4 DEF HciSdcBuildCreditEvent, sdcVars
  <2>2. ReportedBy(Completed(CreditCount), h) = CreditCount[h] /\ CreditCount'[h] = 0
    BY <2>1, MessageReports DEF NoCount
  <2>3. PICK p : RxData(p, t) /\ ReportedBy(p, h) = CreditCount[h]
    BY <2>1, <2>2
  <2> QED
    BY <1>c, <1>2, <2>1, <2>2, <2>3
<1>5. ASSUME NEW t \in PacketType, RxQueue(t) PROVE Owing(h)' = Owing(h)
  <2>1. HoldEmpty /\ UNCHANGED CreditCount /\ sdcQueue # <<>> /\ sdcQueue' = Tail(sdcQueue)
        /\ RxData(Head(sdcQueue), t)
    BY <1>5 DEF RxQueue, QueueTurn
  <2>2. /\ Reported(sdcQueue, h)' \in Nat /\ ReportedBy(Head(sdcQueue), h) \in Nat
        /\ Reported(sdcQueue, h) = ReportedBy(Head(sdcQueue), h) + Reported(sdcQueue, h)'
    BY <2>1, QueueShrinks
  <2>3. PICK p : p = Head(sdcQueue)
    OBVIOUS
  <2> QED
    BY <1>c, <1>2, <2>1, <2>2, <2>3
<1>6. CASE RxBad
  <2>1. UNCHANGED <<CreditCount, ctlPacket, HeldPacket>> /\ sdcQueue # <<>> /\ sdcQueue' = Tail(sdcQueue)
        /\ Head(sdcQueue).type \notin PacketType
    BY <1>6 DEF RxBad, QueueTurn, outVars, Deliverable
  <2>2. ReportedBy(Head(sdcQueue), h) = 0
    BY <2>1 DEF ReportedBy, PacketType
  <2>3. Reported(sdcQueue, h)' \in Nat /\ Reported(sdcQueue, h) = Reported(sdcQueue, h)'
    BY <2>1, <2>2, QueueShrinks
  <2> QED
    BY <1>c, <2>1, <2>3
<1>7. CASE RxEmpty
  <2>1. UNCHANGED <<CreditCount, ctlPacket, HeldPacket, sdcQueue>>
    BY <1>7 DEF RxEmpty, QueueTurn, outVars, sdcVars
  <2> QED
    BY <1>c, <2>1
<1> QED
  BY <1>1, <1>3, <1>4, <1>5, <1>6, <1>7 DEF Rx

(* No credit is owed once HciSdcBuildCreditEvent finds none. *)
LEMMA NoEntries ==
    ASSUME TypeOK, CreditEntries(CreditCount) <= 0, NEW h \in Handle
    PROVE  CreditCount[h] = 0
<1> DEFINE S == {g \in Handle : CreditCount[g] > 0}
<1>1. IsFiniteSet(Handle) /\ S \in SUBSET Handle /\ CreditCount[h] \in Nat
  BY SdcAssumption DEF SdcAssumption, TypeOK, CreditTypeOK
<1> HIDE DEF S
<1>2. IsFiniteSet(S) /\ Cardinality(S) \in Nat
  BY <1>1, FS_Subset, FS_CardinalityType
<1>3. Cardinality(S) = 0
  BY <1>2 DEF CreditEntries, S
<1>4. S = {}
  BY <1>2, <1>3, FS_EmptySet
<1> QED
  BY <1>1, <1>4 DEF S

(* A credit left by a link the host no longer knows goes out before the    *)
(* queue is asked, so before a connection that reuses the handle.          *)
LEMMA CreditRx ==
    ASSUME TypeOK, TypeOK', NEW h \in Handle, CreditOf(h), Rx
    PROVE  CreditOf(h)'
<1>a. UNCHANGED <<sdcBuffered, hostLinks, hostInFlight, hostResetting>>
  BY RxQueueCases DEF hostVars
<1>b. Owing(h)' = Owing(h)
  BY <1>a, RxOwing, OwingTyped
<1>c. h \in hostLinks => Known(h)'
  <2>1. ~InPipeline(Disconnect(h))' => ~InPipeline(Disconnect(h))
    BY RxKeepsLast
  <2> QED
    BY <1>a, <1>b, <2>1 DEF CreditOf, Known
<1>d. /\ CreditCount[h] \in Nat /\ Reported(sdcQueue, h) \in Nat
      /\ CreditCount' = CreditCount \/ CreditCount'[h] = 0
      /\ Reported(sdcQueue, h) = 0 => Reported(sdcQueue, h)' = 0
  <2>1. CASE UNCHANGED sdcQueue
    BY <2>1, OwingTyped, RxQueueCases DEF NoCount
  <2>2. CASE sdcQueue # <<>> /\ sdcQueue' = Tail(sdcQueue)
    BY <2>2, OwingTyped, RxQueueCases, QueueShrinks DEF NoCount
  <2> QED
    BY <2>1, <2>2, RxQueueCases
<1>1. ASSUME NEW t \in PacketType, RxHeld(t) PROVE UNCHANGED creditVars /\ Hold' = Hold
  BY <1>1, RxHeldMoves DEF Hold
<1>2. ASSUME NEW t \in PacketType, RxResponse(t)
      PROVE  UNCHANGED creditVars /\ Connect(h) \notin Hold' /\ Disconnect(h) \notin Hold'
  <2>1. UNCHANGED creditVars /\ HoldEmpty
    BY <1>2 DEF RxResponse
  <2>2. PICK e : RxData(ResponseOf(e), t)
    BY <1>2 DEF RxResponse
  <2> QED
    BY <2>1, <2>2, RxDataFills, DistinctPackets DEF Hold
<1>3. ASSUME NEW t \in PacketType, HciSdcBuildCreditEvent(t)
      PROVE  CreditCount'[h] = 0 /\ Connect(h) \notin Hold' /\ Disconnect(h) \notin Hold'
  <2>1. CreditCount' = NoCount /\ HoldEmpty /\ RxData(Completed(CreditCount), t)
    BY <1>3 DEF HciSdcBuildCreditEvent
  <2> QED
    BY <2>1, RxDataFills, DistinctPackets DEF Hold, NoCount
<1>4. ASSUME QueueTurn PROVE UNCHANGED CreditCount /\ ~CreditEventLast'
                             /\ (CreditCount[h] > 0 => CreditEventLast)
  <2>1. UNCHANGED CreditCount /\ ~CreditEventLast' /\ ~CreditTurn
    BY <1>4 DEF QueueTurn
  <2>2. CreditEventLast \/ ~(CreditEntries(CreditCount) > 0)
    BY <2>1 DEF CreditTurn
  <2>3. CreditEntries(CreditCount) \in Nat
    <3>1. IsFiniteSet(Handle) /\ {g \in Handle : CreditCount[g] > 0} \in SUBSET Handle
      BY SdcAssumption DEF SdcAssumption
    <3> QED
      BY <3>1, FS_Subset, FS_CardinalityType DEF CreditEntries
  <2>4. ~CreditEventLast => CreditCount[h] = 0
    BY <2>2, <2>3, NoEntries
  <2> QED
    BY <1>d, <2>1, <2>4
<1>5. CASE \/ RxBad \/ RxEmpty \/ \E t \in PacketType : RxQueue(t)
  <2>1. QueueTurn
    BY <1>5 DEF RxBad, RxEmpty, RxQueue
  <2>2. h \notin hostLinks => CreditCount[h] = 0
    BY <1>4, <1>d, <2>1 DEF CreditOf, Unknown
  <2> QED
    BY <1>a, <1>c, <1>d, <1>4, <2>1, <2>2 DEF CreditOf, Unknown
<1>6. CASE \E t \in PacketType : RxHeld(t) \/ RxResponse(t)
  <2>1. UNCHANGED <<CreditCount, CreditEventLast>>
    BY <1>1, <1>2, <1>6 DEF creditVars
  <2>2. (Connect(h) \in Hold' => Connect(h) \in Hold) /\ (Disconnect(h) \in Hold' => Disconnect(h) \in Hold)
    BY <1>1, <1>2, <1>6
  <2> QED
    BY <1>a, <1>c, <1>d, <2>1, <2>2 DEF CreditOf, Unknown
<1>7. CASE \E t \in PacketType : HciSdcBuildCreditEvent(t)
  BY <1>a, <1>c, <1>d, <1>3, <1>7 DEF CreditOf, Unknown
<1> QED
  BY <1>5, <1>6, <1>7 DEF Rx

(* HciSdcOweCredit finds room where the handles fit. *)
LEMMA OweAdds ==
    ASSUME TypeOK, NEW g \in Handle
    PROVE  /\ \A h \in Handle : h # g => HciSdcOweCredit(CreditCount, g)[h] = CreditCount[h]
           /\ HciSdcOweCredit(CreditCount, g)[g] \in {CreditCount[g], CreditCount[g] + 1}
           /\ Cardinality(Handle) <= TrackHandles
                 => HciSdcOweCredit(CreditCount, g)[g] = CreditCount[g] + 1
<1> DEFINE S == {h \in Handle : CreditCount[h] > 0}
<1>1. /\ IsFiniteSet(Handle) /\ S \in SUBSET Handle /\ CreditCount \in [Handle -> Nat]
      /\ TrackHandles \in Nat /\ CreditHandles \in Nat /\ CreditHandles >= TrackHandles
  BY SdcAssumption DEF SdcAssumption, TypeOK, CreditTypeOK
<1>2. ASSUME Cardinality(Handle) <= TrackHandles, CreditCount[g] = 0 PROVE CreditEntries(CreditCount) < CreditHandles
  <2>1. S # Handle
    BY <1>2
  <2> HIDE DEF S
  <2>2. /\ Cardinality(S) <= Cardinality(Handle) /\ IsFiniteSet(S)
        /\ Cardinality(Handle) # Cardinality(S)
    BY <1>1, <2>1, FS_Subset
  <2>3. Cardinality(S) \in Nat /\ Cardinality(Handle) \in Nat
    BY <1>1, <2>2, FS_CardinalityType
  <2>4. Cardinality(S) < CreditHandles
    BY <1>1, <1>2, <2>2, <2>3
  <2> QED
    BY <2>4 DEF CreditEntries, S
<1>3. CASE CreditCount[g] > 0 \/ CreditEntries(CreditCount) < CreditHandles
  <2>1. HciSdcOweCredit(CreditCount, g) = [CreditCount EXCEPT ![g] = @ + 1]
    BY <1>3 DEF HciSdcOweCredit
  <2> QED
    BY <1>1, <2>1
<1>4. CASE ~(CreditCount[g] > 0 \/ CreditEntries(CreditCount) < CreditHandles)
  <2>1. HciSdcOweCredit(CreditCount, g) = CreditCount /\ CreditCount[g] = 0
    BY <1>1, <1>4 DEF HciSdcOweCredit
  <2> QED
    BY <1>2, <1>4, <2>1
<1> QED
  BY <1>3, <1>4

(* A packet the host sends is with the controller or owed back. *)
LEMMA CreditAcl ==
    ASSUME TypeOK, TypeOK', NEW h \in Handle, CreditOf(h), PutAclPacket
    PROVE  CreditOf(h)'
<1>a. UNCHANGED <<ctlPacket, HeldPacket, sdcQueue, hostLinks, hostResetting, CreditEventLast>>
  BY AclQuiet DEF outVars
<1>b. /\ sdcBuffered \in [Handle -> Nat] /\ hostInFlight \in [Handle -> Int]
      /\ CreditCount \in [Handle -> Nat]
  BY DEF TypeOK, SdcTypeOK, HostTypeOK, CreditTypeOK
<1>c. /\ ReportedBy(ctlPacket, h)' = ReportedBy(ctlPacket, h)
      /\ ReportedBy(HeldPacket, h)' = ReportedBy(HeldPacket, h)
      /\ Reported(sdcQueue, h)' = Reported(sdcQueue, h)
      /\ InPipeline(Disconnect(h))' <=> InPipeline(Disconnect(h))
      /\ Hold' = Hold
  BY <1>a DEF InPipeline, Pipeline, Hold
<1>1. PICK g \in hostLinks \intersect Handle :
              \/ /\ UNCHANGED CreditCount
                 /\ sdcBuffered' = [sdcBuffered EXCEPT ![g] = @ + 1]
                 /\ hostInFlight' = [hostInFlight EXCEPT ![g] = @ + 1]
              \/ /\ UNCHANGED sdcBuffered
                 /\ CreditCount' = HciSdcOweCredit(CreditCount, g)
                 /\ hostInFlight' = [hostInFlight EXCEPT ![g] = @ + 1]
              \/ UNCHANGED <<sdcBuffered, CreditCount, hostInFlight>>
  BY AclEffects
<1>2. CASE UNCHANGED <<sdcBuffered, CreditCount, hostInFlight>>
  BY <1>a, <1>2, CreditSame
<1>3. CASE hostInFlight' = [hostInFlight EXCEPT ![g] = @ + 1] /\ g # h
  <2>1. hostInFlight'[h] = hostInFlight[h] /\ sdcBuffered'[h] = sdcBuffered[h] /\ CreditCount'[h] = CreditCount[h]
    BY <1>b, <1>1, <1>3, OweAdds
  <2>2. Owing(h)' = Owing(h)
    BY <1>c, <2>1, OwingTyped, OwingTypedNext
  <2> QED
    BY <1>a, <1>c, <2>1, <2>2 DEF CreditOf, Known, Unknown
<1>4. CASE hostInFlight' = [hostInFlight EXCEPT ![g] = @ + 1] /\ g = h
  <2>1. hostInFlight'[h] = hostInFlight[h] + 1 /\ h \in hostLinks
    BY <1>b, <1>4
  <2>2. \/ CreditCount'[h] = CreditCount[h] /\ sdcBuffered'[h] = sdcBuffered[h] + 1
        \/ /\ sdcBuffered'[h] = sdcBuffered[h] /\ CreditCount'[h] \in {CreditCount[h], CreditCount[h] + 1}
           /\ Cardinality(Handle) <= TrackHandles => CreditCount'[h] = CreditCount[h] + 1
    <3>1. CASE sdcBuffered' = [sdcBuffered EXCEPT ![g] = @ + 1] /\ UNCHANGED CreditCount
      BY <1>b, <1>4, <3>1
    <3>2. CASE UNCHANGED sdcBuffered /\ CreditCount' = HciSdcOweCredit(CreditCount, g)
      BY <1>4, <3>2, OweAdds
    <3>3. hostInFlight' # hostInFlight
      BY <1>b, <1>4
    <3> QED
      BY <1>1, <3>1, <3>2, <3>3
  <2>3. /\ Owing(h)' <= Owing(h) + 1
        /\ Cardinality(Handle) <= TrackHandles => Owing(h)' = Owing(h) + 1
    <3>1. CASE CreditCount'[h] = CreditCount[h] /\ sdcBuffered'[h] = sdcBuffered[h] + 1
      BY <1>c, <3>1, OwingTyped, OwingTypedNext
    <3>2. CASE sdcBuffered'[h] = sdcBuffered[h] /\ CreditCount'[h] = CreditCount[h] + 1
      BY <1>c, <3>2, OwingTyped, OwingTypedNext
    <3>3. CASE sdcBuffered'[h] = sdcBuffered[h] /\ CreditCount'[h] = CreditCount[h]
               /\ ~(Cardinality(Handle) <= TrackHandles)
      BY <1>c, <3>3, OwingTyped, OwingTypedNext
    <3>4. CreditCount[h] # CreditCount[h] + 1
      BY <1>b
    <3> QED
      BY <2>2, <3>1, <3>2, <3>3, <3>4
  <2>4. Known(h)'
    BY <1>a, <1>c, <2>1, <2>3, KnownKept DEF CreditOf
  <2> QED
    BY <1>a, <1>c, <2>1, <2>4 DEF CreditOf
<1> QED
  BY <1>1, <1>2, <1>3, <1>4

(* A disconnection is held only where the next packet may be a credit. *)
QuietLast(h) == Disconnect(h) \in Hold => ~CreditEventLast

LEMMA QuietStep ==
    ASSUME TypeOK, HoldInv, NEW h \in Handle, QuietLast(h), Next
    PROVE  QuietLast(h)'
<1>1. ASSUME UNCHANGED outVars, CreditEventLast' = FALSE \/ UNCHANGED CreditEventLast PROVE QuietLast(h)'
  BY <1>1 DEF QuietLast, Hold, outVars
<1>2. CASE PutCommandPacket
  BY <1>1, <1>2, PutQuiet, PutEffects DEF ResetDone, OtherDone, HciSdcResetFlowControl, creditVars, outVars
<1>3. CASE PutAclPacket
  BY <1>1, <1>3, AclQuiet
<1>4. CASE SdcStep
  BY <1>1, <1>4, SdcStepQueues DEF SdcQueues, creditVars
<1>5. CASE SdcEndsMasked
  BY <1>1, <1>5, MaskedQuiet DEF creditVars
<1>6. CASE HostReceives
  BY <1>6, HostTakes, DistinctPackets DEF QuietLast, Hold
<1>7. ASSUME NEW t \in PacketType, RxHeld(t) PROVE QuietLast(h)'
  BY <1>7, RxHeldMoves DEF QuietLast, Hold, creditVars
<1>8. ASSUME NEW t \in PacketType, RxResponse(t) \/ HciSdcBuildCreditEvent(t) PROVE QuietLast(h)'
  <2>1. PICK q : RxData(q, t) /\ q # Disconnect(h)
    BY <1>8, DistinctPackets DEF RxResponse, HciSdcBuildCreditEvent
  <2>2. HoldEmpty
    BY <1>8 DEF RxResponse, HciSdcBuildCreditEvent
  <2> QED
    BY <2>1, <2>2, RxDataFills, DistinctPackets DEF QuietLast, Hold
<1>9. CASE RxBad \/ RxEmpty \/ \E t \in PacketType : RxQueue(t)
  BY <1>9 DEF RxBad, RxEmpty, RxQueue, QueueTurn, QuietLast
<1> QED
  BY <1>2, <1>3, <1>4, <1>5, <1>6, <1>7, <1>8, <1>9 DEF Next, Rx

(* The controller turns what it holds into what it reports. *)
LEMMA CreditSdc ==
    ASSUME TypeOK, TypeOK', NEW h \in Handle, CreditOf(h), SdcStep
    PROVE  CreditOf(h)'
<1>1. PICK p \in SdcMessage :
            /\ SdcQueues(p)
            /\ \/ \E g \in Handle : p = Connect(g) /\ SdcConnect(g)
               \/ \E g \in Handle, n \in Nat \ {0} :
                     p = Completed(Only(g, n)) /\ SdcCompletes(g) /\ n <= sdcBuffered[g]
                        /\ sdcBuffered' = [sdcBuffered EXCEPT ![g] = @ - n]
                        /\ UNCHANGED sdcLinks
               \/ \E g \in Handle : p = Disconnect(g) /\ SdcDisconnect(g)
               \/ /\ p \in {DelayedComplete, Data, Bad} \/ \E g \in sdcLinks : p = DisconnectFailed(g)
                  /\ UNCHANGED <<sdcLinks, sdcBuffered>>
  BY SdcStepQueues
<1>a. /\ UNCHANGED <<CreditCount, CreditEventLast, ctlPacket, HeldPacket, hostLinks, hostInFlight, hostResetting>>
      /\ sdcQueue' = Append(sdcQueue, p)
  BY <1>1 DEF SdcQueues, creditVars, outVars, hostVars
<1>b. /\ Reported(sdcQueue, h)' = Reported(sdcQueue, h) + ReportedBy(p, h)
      /\ ReportedBy(ctlPacket, h)' = ReportedBy(ctlPacket, h)
      /\ ReportedBy(HeldPacket, h)' = ReportedBy(HeldPacket, h)
      /\ Hold' = Hold
  BY <1>1, <1>a, QueueGrows DEF Hold
<1>c. sdcBuffered \in [Handle -> Nat] /\ sdcQueue \in Seq(SdcMessage)
  BY QueueTyped DEF TypeOK, SdcTypeOK
<1>d. /\ InPipeline(Disconnect(h)) => InPipeline(Disconnect(h))'
      /\ p = Disconnect(h) => InPipeline(Disconnect(h))'
  <2>1. /\ Queued(Disconnect(h)) => Queued(Disconnect(h))'
        /\ p = Disconnect(h) => Queued(Disconnect(h))'
    BY <1>a, <1>c, QueuedAppend DEF Queued
  <2> QED
    BY <1>a, <2>1, PipelineSplit, PipelineSplitNext
<1>2. ASSUME sdcBuffered'[h] + ReportedBy(p, h) = sdcBuffered[h], ReportedBy(p, h) \in Nat PROVE CreditOf(h)'
  <2>1. Owing(h)' = Owing(h)
    <3>1. CreditCount'[h] = CreditCount[h]
      BY <1>a
    <3> QED
      BY <1>2, <1>b, <3>1, OwingTyped, OwingTypedNext
  <2>2. Known(h) => Known(h)'
    BY <1>a, <1>d, <2>1 DEF Known
  <2>3. Unknown(h) => sdcBuffered'[h] = 0 /\ Reported(sdcQueue, h)' = 0
    BY <1>2, <1>b, OwingTypedNext DEF Unknown
  <2>4. Unknown(h) => Unknown(h)'
    BY <1>a, <1>b, <2>3 DEF Unknown
  <2> QED
    BY <1>a, <1>b, <2>2, <2>4 DEF CreditOf
<1>3. sdcBuffered[h] \in Nat
  BY <1>c
<1>4. CASE \E g \in Handle : p = Connect(g) /\ SdcConnect(g)
  BY <1>2, <1>3, <1>4, MessageReports DEF SdcConnect
<1>5. CASE \E g \in Handle, n \in Nat \ {0} :
                     p = Completed(Only(g, n)) /\ SdcCompletes(g) /\ n <= sdcBuffered[g]
                        /\ sdcBuffered' = [sdcBuffered EXCEPT ![g] = @ - n]
                        /\ UNCHANGED sdcLinks
  <2>1. PICK g \in Handle, n \in Nat \ {0} :
                        /\ p = Completed(Only(g, n)) /\ n <= sdcBuffered[g]
                        /\ sdcBuffered' = [sdcBuffered EXCEPT ![g] = @ - n]
    BY <1>5
  <2>2. CASE g = h
    <3>1. sdcBuffered'[h] = sdcBuffered[h] - n /\ ReportedBy(p, h) = n
      BY <1>c, <2>1, <2>2, MessageReports
    <3> QED
      BY <1>2, <1>3, <3>1
  <2>3. CASE g # h
    <3>1. sdcBuffered'[h] = sdcBuffered[h] /\ ReportedBy(p, h) = 0
      BY <1>c, <2>1, <2>3, MessageReports
    <3> QED
      BY <1>2, <1>3, <3>1
  <2> QED
    BY <2>2, <2>3
<1>6. CASE \E g \in Handle : p = Disconnect(g) /\ SdcDisconnect(g)
  <2>1. PICK g \in Handle : p = Disconnect(g) /\ sdcBuffered' = [sdcBuffered EXCEPT ![g] = 0]
    BY <1>6 DEF SdcDisconnect
  <2>2. ReportedBy(p, h) = 0
    BY <2>1, MessageReports
  <2>3. CASE g # h
    <3>1. sdcBuffered'[h] = sdcBuffered[h]
      BY <1>c, <2>1, <2>3
    <3> QED
      BY <1>2, <1>3, <2>2, <3>1
  <2>4. CASE g = h
    <3>1. sdcBuffered'[h] = 0 /\ p = Disconnect(h)
      BY <1>c, <2>1, <2>4
    <3>2. Owing(h)' <= Owing(h)
      <4>1. CreditCount'[h] = CreditCount[h]
        BY <1>a
      <4> QED
        BY <1>b, <2>2, <3>1, <4>1, OwingTyped, OwingTypedNext
    <3>3. Known(h) => Known(h)'
      <4>1. Owing(h) \in Nat /\ Owing(h)' \in Nat /\ hostInFlight[h] \in Int
        BY OwingTyped, OwingTypedNext
      <4> QED
        BY <1>a, <1>d, <3>1, <3>2, <4>1 DEF Known
    <3>4. Reported(sdcQueue, h)' = Reported(sdcQueue, h)
      BY <1>b, <2>2, OwingTyped
    <3>5. Unknown(h) => Unknown(h)'
      BY <1>a, <1>b, <3>1, <3>4 DEF Unknown
    <3> QED
      BY <1>a, <1>b, <3>3, <3>5 DEF CreditOf
  <2> QED
    BY <2>3, <2>4
<1>7. CASE /\ p \in {DelayedComplete, Data, Bad} \/ \E g \in sdcLinks : p = DisconnectFailed(g)
           /\ UNCHANGED <<sdcLinks, sdcBuffered>>
  BY <1>2, <1>3, <1>7, MessageReports
<1> QED
  BY <1>1, <1>4, <1>5, <1>6, <1>7

(* The answer to a reset leaves the host with nothing in flight, whatever  *)
(* was masked before.                                                      *)
LEMMA CreditReset ==
    ASSUME TypeOK, HoldInv, ResetInv, NEW h \in Handle, HostReceives, HostResets(ctlPacket)
    PROVE  CreditOf(h)'
<1>1. Answers(ctlPacket, OpReset) /\ hostLinks' = {} /\ hostInFlight' = NoCount
  BY DEF HostResets
<1>2. hostResetting
  BY <1>1, HostTakes DEF ResetInv
<1>3. sdcBuffered = NoCount /\ CreditCount = NoCount /\ Reported(sdcQueue, h) = 0
  BY <1>2 DEF ResetInv
<1>4. UNCHANGED <<CreditCount, CreditEventLast, sdcQueue, sdcBuffered>>
  BY DEF HostReceives, creditVars, sdcVars
<1>5. Connect(h) \notin Hold' /\ Disconnect(h) \notin Hold'
  BY HostTakes, DistinctPackets DEF Hold
<1>6. Reported(sdcQueue, h)' = 0
  BY <1>3, <1>4
<1> QED
  BY <1>1, <1>3, <1>4, <1>5, <1>6 DEF CreditOf, Unknown, NoCount

(* The host learns of a link, of its end, and of what comes back. *)
LEMMA CreditHost ==
    ASSUME TypeOK, TypeOK', HoldInv, ResetInv, LinkInv, NEW h \in Handle, h \notin hostUntold,
           CreditOf(h), HostReceives
    PROVE  CreditOf(h)'
<1> DEFINE p == ctlPacket
<1>a. /\ UNCHANGED <<CreditCount, CreditEventLast, sdcQueue, sdcBuffered>>
  BY DEF HostReceives, creditVars, sdcVars
<1>b. /\ HeldPacket = NoPacket /\ ctlPacket' = NoPacket /\ HeldPacket' = NoPacket
      /\ p \in OutPacket \ {NoPacket}
  BY HostTakes
<1>c. Connect(h) \notin Hold' /\ Disconnect(h) \notin Hold'
  BY <1>b, DistinctPackets DEF Hold
<1>d. /\ ReportedBy(HeldPacket, h) = 0 /\ ReportedBy(ctlPacket, h)' = 0 /\ ReportedBy(HeldPacket, h)' = 0
      /\ Reported(sdcQueue, h)' = Reported(sdcQueue, h)
  BY <1>a, <1>b, MessageReports
<1>e. Owing(h) = Owing(h)' + ReportedBy(p, h) /\ ReportedBy(p, h) \in Nat /\ hostInFlight[h] \in Int
      /\ Owing(h) \in Nat /\ Owing(h)' \in Nat
  BY <1>a, <1>d, OwingTyped, OwingTypedNext
<1>f. /\ InPipeline(Disconnect(h)) <=> p = Disconnect(h) \/ Queued(Disconnect(h))
      /\ InPipeline(Disconnect(h))' <=> Queued(Disconnect(h))
  <2>1. Disconnect(h) # NoPacket
    BY DistinctPackets
  <2>2. Queued(Disconnect(h))' <=> Queued(Disconnect(h))
    BY <1>a DEF Queued
  <2> QED
    BY <1>b, <2>1, <2>2, PipelineSplit, PipelineSplitNext
<1>1. CASE Answers(p, OpReset) /\ HostResets(p)
  BY <1>1, CreditReset
<1>2. ASSUME ReportedBy(p, h) = 0, p # Disconnect(h), UNCHANGED hostResetting,
             hostInFlight'[h] = hostInFlight[h], h \in hostLinks' <=> h \in hostLinks
      PROVE  CreditOf(h)'
  <2>1. Owing(h)' = Owing(h)
    BY <1>2, <1>e
  <2>2. Known(h) => Known(h)'
    BY <1>2, <1>f, <2>1 DEF Known
  <2>3. Unknown(h) => Unknown(h)'
    BY <1>2, <1>a, <1>c, <1>d DEF Unknown
  <2> QED
    BY <1>2, <1>c, <2>2, <2>3 DEF CreditOf
<1>3. CASE ~Answers(p, OpReset) /\ Answers(p, OpCreate) /\ HostCreates(p)
  <2>1. p.kind = "RESPONSE" /\ UNCHANGED <<hostLinks, hostInFlight, hostResetting>>
    BY <1>3 DEF Answers, HostCreates
  <2>2. ReportedBy(p, h) = 0 /\ p # Disconnect(h)
    BY <2>1 DEF ReportedBy, Disconnect
  <2> QED
    BY <1>2, <2>1, <2>2
<1>4. CASE HostConnects(p)
  <2>0. hostInFlight \in [Handle -> Int]
    BY DEF TypeOK, HostTypeOK
  <2>1. /\ p.kind = "CONNECT" /\ hostLinks' = hostLinks \union {p.handle}
        /\ hostInFlight'[h] = hostInFlight[h] /\ UNCHANGED hostResetting
    BY <1>4, <2>0 DEF HostConnects
  <2>2. ReportedBy(p, h) = 0 /\ p # Disconnect(h)
    BY <2>1 DEF ReportedBy, Disconnect
  <2>3. CASE h \in hostLinks' <=> h \in hostLinks
    BY <1>2, <2>1, <2>2, <2>3
  <2>4. CASE h \in hostLinks' /\ h \notin hostLinks
    <3>1. p = Connect(h)
      <4>1. p.handle = h
        BY <2>1, <2>4
      <4> QED
        BY <1>b, <2>1, <4>1 DEF OutPacket, SdcMessage, Connect, DelayedComplete, Data, Bad
    <3>2. hostInFlight[h] = 0 /\ sdcBuffered[h] = 0 /\ Reported(sdcQueue, h) = 0 /\ CreditCount[h] = 0
      BY <2>4, <3>1 DEF CreditOf, Unknown, Hold
    <3>3. Owing(h) = 0
      BY <1>d, <2>2, <3>2, OwingTyped
    <3>4. Known(h)'
      BY <1>e, <2>1, <2>2, <3>2, <3>3 DEF Known
    <3> QED
      BY <1>c, <2>4, <3>4 DEF CreditOf
  <2> QED
    BY <2>1, <2>3, <2>4
<1>5. CASE HostDisconnects(p)
  <2>1. /\ p.kind = "DISCONNECT" /\ hostLinks' = hostLinks \ {p.handle}
        /\ hostInFlight' = [hostInFlight EXCEPT ![p.handle] = 0] /\ UNCHANGED hostResetting
    BY <1>5 DEF HostDisconnects
  <2>2. ReportedBy(p, h) = 0 /\ (p = Disconnect(h) => p.handle = h)
    BY <2>1 DEF ReportedBy, Disconnect
  <2>3. hostInFlight \in [Handle -> Int]
    BY DEF TypeOK, HostTypeOK
  <2>4. CASE p.handle = h
    <3>1. p = Disconnect(h)
      BY <1>b, <2>1, <2>4 DEF OutPacket, SdcMessage, Disconnect, DelayedComplete, Data, Bad
    <3>2. Reported(sdcQueue, h) = 0 /\ sdcBuffered[h] = 0
      <4>1. Disconnect(h) \in Hold /\ InPipeline(Disconnect(h))
        BY <1>f, <3>1 DEF Hold
      <4> QED
        BY <4>1 DEF LinkInv
    <3>3. ~CreditEventLast
      BY <3>1 DEF CreditOf, Hold
    <3>4. hostInFlight'[h] = 0 /\ h \notin hostLinks'
      BY <2>1, <2>3, <2>4
    <3> QED
      BY <1>a, <1>c, <1>d, <3>2, <3>3, <3>4 DEF CreditOf, Unknown
  <2>5. CASE p.handle # h
    <3>1. hostInFlight'[h] = hostInFlight[h] /\ (h \in hostLinks' <=> h \in hostLinks)
      BY <2>1, <2>3, <2>5
    <3> QED
      BY <1>2, <2>1, <2>2, <2>5, <3>1
  <2> QED
    BY <2>4, <2>5
<1>6. CASE HostCounts(p)
  <2>1. /\ p.kind = "COMPLETED" /\ UNCHANGED <<hostLinks, hostResetting>>
        /\ hostInFlight'[h] = hostInFlight[h] - (IF h \in hostLinks THEN p.count[h] ELSE 0)
    BY <1>6 DEF HostCounts, Counted
  <2>2. ReportedBy(p, h) = p.count[h] /\ p # Disconnect(h)
    BY <1>b, <2>1 DEF ReportedBy, Disconnect, OutPacket, SdcMessage, DelayedComplete, Data, Bad
  <2>3. CASE h \in hostLinks
    <3>1. hostInFlight'[h] = hostInFlight[h] - ReportedBy(p, h)
      BY <2>1, <2>2, <2>3
    <3>2. Known(h) => Known(h)'
      BY <1>e, <1>f, <2>1, <2>2, <3>1 DEF Known
    <3> QED
      BY <1>c, <2>1, <2>3, <3>2 DEF CreditOf
  <2>4. CASE h \notin hostLinks
    <3>1. hostInFlight'[h] = hostInFlight[h]
      BY <1>e, <2>1, <2>4
    <3>2. Unknown(h) => Unknown(h)'
      BY <1>a, <1>c, <1>d, <3>1 DEF Unknown
    <3> QED
      BY <1>c, <2>1, <2>4, <3>2 DEF CreditOf
  <2> QED
    BY <2>3, <2>4
<1>7. CASE HostIgnores(p)
  <2>1. p.kind \notin {"DISCONNECT", "COMPLETED"} /\ UNCHANGED <<hostLinks, hostInFlight, hostResetting>>
    BY <1>7 DEF HostIgnores, hostVars
  <2>2. ReportedBy(p, h) = 0 /\ p # Disconnect(h)
    BY <2>1 DEF ReportedBy, Disconnect
  <2> QED
    BY <1>2, <2>1, <2>2
<1> QED
  BY <1>1, <1>3, <1>4, <1>5, <1>6, <1>7, HostCases

(* Every step keeps the host's credits. *)
LEMMA CreditStep ==
    ASSUME TypeOK, TypeOK', HoldInv, ResetInv, LinkInv, CreditInv, Next
    PROVE  CreditInv'
<1>1. ASSUME NEW h \in Handle, h \notin hostUntold' PROVE CreditOf(h)'
  <2>1. CASE HostReceives /\ HostResets(ctlPacket)
    BY <2>1, CreditReset
  <2>2. CASE h \notin hostUntold
    <3>1. CreditOf(h)
      BY <2>2 DEF CreditInv, CreditOf, Known, Unknown
    <3>2. CASE SdcEndsMasked
      <4>1. PICK g \in Handle :
              /\ sdcBuffered' = [sdcBuffered EXCEPT ![g] = 0] /\ hostUntold' = hostUntold \union {g}
              /\ UNCHANGED <<creditVars, outVars, sdcQueue, hostLinks, hostInFlight, hostResetting>>
        BY <3>2, MaskedQuiet
      <4>2. sdcBuffered'[h] = sdcBuffered[h]
        BY <1>1, <4>1 DEF TypeOK, SdcTypeOK
      <4> QED
        BY <3>1, <4>1, <4>2
           DEF CreditOf, Known, Unknown, Owing, Pipeline, InPipeline, Hold, creditVars, outVars
    <3> QED
      BY <2>2, <3>1, <3>2, CreditCommand, CreditRx, CreditAcl, CreditSdc, CreditHost DEF Next
  <2>3. CASE h \in hostUntold /\ ~(HostReceives /\ HostResets(ctlPacket))
    <3>1. h \in hostUntold'
      <4>1. CASE PutCommandPacket \/ PutAclPacket
        BY <2>3, <4>1, PutQuiet, AclQuiet
      <4>2. CASE Rx
        BY <2>3, <4>2, RxQueueCases DEF hostVars
      <4>3. CASE SdcStep
        BY <2>3, <4>3, SdcStepQueues DEF SdcQueues, hostVars
      <4>4. CASE SdcEndsMasked
        BY <2>3, <4>4, MaskedQuiet
      <4>5. CASE HostReceives
        BY <2>3, <4>5 DEF HostReceives, HostCreates, HostConnects, HostDisconnects, HostCounts,
                          HostIgnores, hostVars
      <4> QED
        BY <4>1, <4>2, <4>3, <4>4, <4>5 DEF Next
    <3> QED
      BY <1>1, <3>1
  <2> QED
    BY <2>1, <2>2, <2>3
<1>2. hostLinks' \subseteq Handle
  BY DEF TypeOK, HostTypeOK
<1>3. ASSUME NEW h \in Handle PROVE QuietLast(h)'
  <2>1. QuietLast(h)
    BY DEF CreditInv, QuietLast
  <2> QED
    BY <2>1, QuietStep
<1> QED
  BY <1>1, <1>2, <1>3 DEF CreditInv, CreditOf, QuietLast, Known, Unknown

---------------------------------------------------------------------------
(* The inductive invariant. *)

(* Inv without the two parts proved on their own. *)
Rest == /\ HoldInv /\ FamilyInv /\ DelayedInv /\ CompatInv
        /\ ResetInv /\ CreateInv /\ LinkInv /\ TrackInv /\ CreditInv
        /\ (Cardinality(Handle) <= TrackHandles => NoOverrun)

(* The invariant holds when HciSdcInit returns. *)
LEMMA InvInit ==
    ASSUME Init, TypeOK
    PROVE  Rest
<1>1. /\ ctlPacket = NoPacket /\ HeldPacket = NoPacket /\ sdcQueue = <<>>
      /\ sdcBuffered = NoCount /\ CreditCount = NoCount /\ AclOutstanding = NoCount
      /\ AclOutstandingTotal = 0 /\ hostLinks = {} /\ hostInFlight = NoCount
      /\ sdcLinks = {} /\ hostCreating = 0 /\ ~hostResetting /\ ~sdcCreating /\ ~sdcDelayed
      /\ sdcFamilies = {} /\ CreditEventLast = FALSE /\ hostUntold = {}
  BY DEF Init
<1>2. \A h \in Handle : NoCount[h] = 0
  BY DEF NoCount
<1>3. /\ NoPacket.type # "EVENT" /\ \A h : Disconnect(h) \notin Hold /\ Connect(h) \notin Hold
      /\ \A p : ~Queued(p) /\ DOMAIN sdcQueue = {}
  BY <1>1, DistinctPackets DEF NoPacket, Hold, Queued
<1>4. Connects(sdcQueue) = 0 /\ \A h \in Handle : Reported(sdcQueue, h) = 0
  BY <1>1, ConnectsEmpty, ReportedEmpty
<1>5. OpReset \in Opcode /\ OpCreate \in Opcode /\ NoOp \notin Opcode
  BY SdcAssumption DEF SdcAssumption
<1>6. \A op \in {OpReset, OpCreate} : ~AnswerPending(op) /\ ~AnswerHeld(op)
  <2>1. cmdEvent.op = NoOp
    BY DEF Init, Commands!HciCmdDispatchQueueNop, Commands!NoEvent
  <2> QED
    BY <1>1, <1>3, <1>5, <2>1 DEF AnswerPending, AnswerHeld, Hold
<1>7. HoldInv /\ FamilyInv /\ DelayedInv
  BY <1>1, <1>3 DEF HoldInv, FamilyInv, DelayedInv, Hold
<1>8. CompatInv
  BY <1>5 DEF Init, CompatInv, Compat!HciCmdDispatchInit, Compat!NoEvent
<1>9. ResetInv
  BY <1>1, <1>6 DEF ResetInv
<1>10. CreateInv
  <2>1. Connecting(ctlPacket) = 0 /\ Connecting(HeldPacket) = 0
    BY <1>1, <1>3 DEF Connecting, One
  <2>2. One(AnswerPending(OpCreate)) = 0 /\ One(AnswerHeld(OpCreate)) = 0 /\ One(sdcCreating) = 0
    BY <1>1, <1>6 DEF One
  <2> QED
    BY <1>1, <1>4, <2>1, <2>2 DEF CreateInv
<1>11. LinkInv
  <2>1. \A h \in Handle : ~InPipeline(Disconnect(h))
    BY <1>3, PipelineSplit DEF Hold
  <2> QED
    BY <1>1, <1>2, <1>3, <1>4, <2>1 DEF LinkInv
<1>12. TrackInv
  BY <1>1, <1>2, <1>4, CountsNone DEF TrackInv
<1>13. CreditInv
  BY <1>1, <1>2, <1>3, <1>4 DEF CreditInv
<1>14. NoOverrun
  <2>1. SdcBuffers \in Nat
    BY SdcAssumption DEF SdcAssumption
  <2> QED
    BY <1>1, <2>1, CountsNone DEF NoOverrun
<1> QED
  BY <1>7, <1>8, <1>9, <1>10, <1>11, <1>12, <1>13, <1>14 DEF Rest

(* Every step keeps the invariant. *)
LEMMA InvStep ==
    ASSUME TypeOK, TypeOK', OneCommandCredit, Rest, [Next]_vars
    PROVE  Rest'
<1>1. CASE Next
  <2>1. /\ HoldInv /\ FamilyInv /\ DelayedInv /\ CompatInv
        /\ ResetInv /\ CreateInv /\ LinkInv /\ TrackInv /\ CreditInv
        /\ (Cardinality(Handle) <= TrackHandles => NoOverrun)
    BY DEF Rest
  <2>2. HoldInv' /\ FamilyInv' /\ DelayedInv' /\ CompatInv'
    BY <1>1, <2>1, HoldStep, FamilyStep, DelayedStep, CompatStep
  <2>3. ResetInv' /\ CreateInv' /\ LinkInv'
    BY <1>1, <2>1, ResetStep, CreateStep, LinkStep
  <2>4. TrackInv' /\ CreditInv'
    BY <1>1, <2>1, <2>3, TrackStep, CreditStep
  <2>5. Cardinality(Handle) <= TrackHandles => NoOverrun'
    BY <1>1, <2>1, OverrunStep
  <2> QED
    BY <2>2, <2>3, <2>4, <2>5 DEF Rest
<1>2. CASE UNCHANGED vars
  <2>1. /\ UNCHANGED <<cmdEvent, compatEvent, AdvCmdTypeSinceReset, CommandEventLast, DelayedCommandOpcode>>
        /\ UNCHANGED <<CreditEventLast, CreditCount, AclTracked, AclOutstanding, AclOutstandingTotal, AclLimit>>
        /\ UNCHANGED <<HeldPacket, ctlPacket>>
        /\ UNCHANGED <<sdcQueue, sdcLinks, sdcBuffered, sdcCreating, sdcDelayed, sdcFamilies>>
        /\ UNCHANGED <<hostLinks, hostInFlight, hostResetting, hostCreating, hostUntold>>
    BY <1>2 DEF vars, cmdVars, creditVars, aclVars, outVars, sdcVars, hostVars
  <2>2. HoldInv' <=> HoldInv
    BY <2>1 DEF HoldInv, Hold, NoResponse, Commands!EventPending, Compat!EventPending
  <2>3. (FamilyInv' <=> FamilyInv) /\ (CompatInv' <=> CompatInv)
    BY <2>1 DEF FamilyInv, CompatInv
  <2>4. DelayedInv' <=> DelayedInv
    BY <2>1 DEF DelayedInv, Queued, DelayedCommandPending
  <2>5. \A op : (AnswerPending(op)' <=> AnswerPending(op)) /\ (AnswerHeld(op)' <=> AnswerHeld(op))
    BY <2>1, AnswersKept DEF cmdVars, outVars
  <2>6. ResetInv' <=> ResetInv
    BY <2>1, <2>5 DEF ResetInv
  <2>7. CreateInv' <=> CreateInv
    BY <2>1, <2>5 DEF CreateInv, One
  <2>8. LinkInv' <=> LinkInv
    BY <2>1 DEF LinkInv, InPipeline, Pipeline, Hold
  <2>9. TrackInv' <=> TrackInv
    BY <2>1 DEF TrackInv, Queued
  <2>10. CreditInv' <=> CreditInv
    BY <2>1 DEF CreditInv, InPipeline, Pipeline, Hold, Owing
  <2>11. NoOverrun' <=> NoOverrun
    BY <2>1 DEF NoOverrun
  <2> QED
    BY <2>2, <2>3, <2>4, <2>6, <2>7, <2>8, <2>9, <2>10, <2>11 DEF Rest
<1> QED
  BY <1>1, <1>2

(* The inductive invariant of HciSdcPutPacket and HciSdcGetPacket holds in *)
(* every reachable state, for every table, build option and bound.         *)
THEOREM InvSafe == Spec => []Inv
<1>1. Init /\ TypeOK => Rest
  BY InvInit
<1>2. TypeOK /\ TypeOK' /\ OneCommandCredit /\ Rest /\ [Next]_vars => Rest'
  BY InvStep
<1>3. TypeOK /\ OneCommandCredit /\ Rest => Inv
  BY DEF Rest, Inv
<1> QED
  BY <1>1, <1>2, <1>3, TypeCorrect, CommandCreditSafe, PTL DEF Spec

(* HciSdcAdvCommandGuard never lets commands of both advertising families  *)
(* reach the controller between two resets.                                *)
THEOREM FamilySafe == Spec => []OneAdvFamily
<1>1. Inv => OneAdvFamily
  <2> SUFFICES ASSUME FamilyInv PROVE OneAdvFamily
    BY DEF Inv
  <2>1. PICK x : sdcFamilies \in SUBSET {x}
    BY DEF FamilyInv
  <2>2. IsFiniteSet({x}) /\ Cardinality({x}) = 1
    BY FS_Singleton
  <2>3. Cardinality(sdcFamilies) <= Cardinality({x})
    BY <2>1, <2>2, FS_Subset
  <2> QED
    BY <2>2, <2>3 DEF OneAdvFamily
<1> QED
  BY <1>1, InvSafe, PTL

(* HciSdcGetPacket reports a connection only after the Command Status of   *)
(* the command that asked for it.                                          *)
THEOREM ConnectSafe == Spec => []ConnectAfterStatus
<1>1. Inv => ConnectAfterStatus
  <2> SUFFICES ASSUME Inv, ctlPacket.type = "EVENT", ctlPacket.kind = "CONNECT"
               PROVE  hostCreating > 0
    BY DEF ConnectAfterStatus
  <2>1. TypeOK /\ HoldInv /\ CreateInv
    BY DEF Inv
  <2>2. NoPacket.type # "EVENT" /\ HeldPacket = NoPacket
    BY <2>1 DEF HoldInv, NoPacket
  <2>3. ~AnswerHeld(OpCreate)
    BY <2>2 DEF AnswerHeld, Hold, Answers
  <2>4. Connecting(ctlPacket) = 1 /\ Connecting(HeldPacket) \in Nat /\ One(AnswerHeld(OpCreate)) = 0
    BY <2>3, ConnectingTyped DEF Connecting, One
  <2>5. One(AnswerPending(OpCreate)) \in Nat /\ One(sdcCreating) \in Nat
    BY DEF One
  <2>6. Connects(sdcQueue) \in Nat /\ hostCreating \in Int
    BY <2>1, QueueTyped DEF TypeOK, HostTypeOK
  <2> QED
    BY <2>1, <2>4, <2>5, <2>6 DEF CreateInv
<1> QED
  BY <1>1, InvSafe, PTL

(* Where every handle has a tracking entry, HciSdcAclTrackEvent and        *)
(* HciSdcAclForget keep each entry equal to what the controller still has  *)
(* to report on a link, until a link of the handle ends with its           *)
(* Disconnection Complete masked.  From there to the next reset the entry  *)
(* counts no less than that.  AclOutstandingTotal is the sum throughout.   *)
THEOREM TrackingSafe ==
    ASSUME Cardinality(Handle) <= TrackHandles
    PROVE  Spec => []TrackedExactly
<1>1. Inv => TrackedExactly
  <2> SUFFICES ASSUME Inv PROVE TrackedExactly
    OBVIOUS
  <2>1. TypeOK /\ TrackInv
    BY DEF Inv
  <2>2. AclTracked \subseteq Handle
    BY <2>1 DEF TypeOK, AclTypeOK
  <2>4. \A h \in Handle : /\ AclOutstanding[h] \in Nat /\ sdcBuffered[h] \in Nat
                           /\ Reported(sdcQueue, h) \in Nat
    BY <2>1, QueueTyped DEF TypeOK, AclTypeOK, SdcTypeOK
  <2>3. \A h \in Handle : Queued(Disconnect(h)) => InPipeline(Disconnect(h))
    BY <2>1, PipelineSplit
  <2> QED
    BY <2>1, <2>2, <2>3, <2>4 DEF TrackInv, TrackedExactly
<1> QED
  BY <1>1, InvSafe, PTL

(* Where every handle has a tracking entry, HciSdcAclAtLimit of an         *)
(* enforcing build keeps the controller within the buffers LE Read Buffer  *)
(* Size advertised.                                                        *)
THEOREM OverrunSafe ==
    ASSUME Cardinality(Handle) <= TrackHandles
    PROVE  Spec => []NoOverrun
<1>1. Inv => NoOverrun
  BY DEF Inv
<1> QED
  BY <1>1, InvSafe, PTL

(* Where every handle has a tracking entry, no buffer of the host is lost  *)
(* or invented by HciSdcOweCredit, HciSdcBuildCreditEvent, the forwarded   *)
(* completions, disconnections and resets, nor carried into a connection   *)
(* that reuses the handle, on every handle whose link did not end masked   *)
(* since the last reset.                                                   *)
THEOREM ConservedSafe ==
    ASSUME Cardinality(Handle) <= TrackHandles
    PROVE  Spec => []CreditsConserved
<1>1. Inv => CreditsConserved
  <2> SUFFICES ASSUME Inv PROVE CreditsConserved
    OBVIOUS
  <2>1. TypeOK /\ CreditInv
    BY DEF Inv
  <2>2. hostLinks \subseteq Handle
    BY <2>1 DEF TypeOK, HostTypeOK
  <2>3. ASSUME ~hostResetting, NEW h \in hostLinks \ hostUntold, ~InPipeline(Disconnect(h))
        PROVE  hostInFlight[h] = sdcBuffered[h] + CreditCount[h] + Reported(Pipeline, h)
    BY <2>1, <2>3 DEF CreditInv, Owing
  <2>4. ASSUME NEW h \in Handle \ hostUntold PROVE hostInFlight[h] >= 0
    <3>1. CASE h \in hostLinks
      <4>1. Owing(h) \in Nat /\ hostInFlight[h] \in Int
        BY <2>1, OwingTyped
      <4> QED
        BY <2>1, <3>1, <4>1 DEF CreditInv
    <3>2. CASE h \notin hostLinks
      BY <2>1, <3>2 DEF CreditInv
    <3> QED
      BY <3>1, <3>2
  <2> QED
    BY <2>3, <2>4 DEF CreditsConserved
<1> QED
  BY <1>1, InvSafe, PTL

---------------------------------------------------------------------------
(* The command flow. *)

(* The opcode a packet answers. *)
LEMMA ResponseOps ==
    /\ ResponseOp(NoPacket) = NoOp
    /\ \A c : ResponseOp(Completed(c)) = NoOp
    /\ \A e : ResponseOp(ResponseOf(e)) = e.op
    /\ ResponseOp(DelayedComplete) = OpPawr
    /\ \A p \in SdcMessage : p # DelayedComplete => ResponseOp(p) = NoOp /\ p.kind # "DELAYED"
<1>1. /\ ResponseOp(NoPacket) = NoOp /\ ResponseOp(DelayedComplete) = OpPawr
      /\ \A c : ResponseOp(Completed(c)) = NoOp
      /\ \A e : ResponseOp(ResponseOf(e)) = e.op
  BY DEF ResponseOp, NoPacket, Completed, ResponseOf, DelayedComplete
<1>2. ASSUME NEW p \in SdcMessage, p # DelayedComplete PROVE ResponseOp(p) = NoOp /\ p.kind # "DELAYED"
  <2>1. p.kind # "RESPONSE" /\ p.kind # "DELAYED"
    BY <1>2 DEF SdcMessage, Data, Bad, DelayedComplete
  <2> QED
    BY <2>1 DEF ResponseOp
<1> QED
  BY <1>1, <1>2

(* A command taken is a Take of the flow, or none when it has no response. *)
LEMMA FlowPut ==
    ASSUME PutCommandPacket
    PROVE  Flow!Next \/ UNCHANGED <<OpenCommand, AnswerOut>>
<1>1. PICK cmd \in CommandPacket :
        \/ PutCommandRejected(cmd)
        \/ PutCommandRefused(cmd)
        \/ \E status \in HandlerStatus :
              \/ PutCompatCommand(cmd, status)
              \/ PutReset(cmd, status)
              \/ PutReadBufferSize(cmd, status)
              \/ PutCommand(cmd, status)
              \/ PutDelayedCommand(cmd, status)
  BY DEF PutCommandPacket
<1>2. cmd.op \in Opcode
  BY SdcAssumption DEF SdcAssumption
<1>3. CommandTurn /\ UNCHANGED <<HeldPacket, ctlPacket>>
  BY <1>1 DEF PutCommandRejected, PutCommandRefused, PutCompatCommand, PutReset,
              PutReadBufferSize, PutCommand, PutDelayedCommand, EnterHandler, outVars
<1>4. /\ ~Commands!EventPending /\ ~Compat!EventPending /\ DelayedCommandOpcode = NoOp
      /\ OpenCommand = NoOp /\ AnswerOut' = AnswerOut
  BY <1>3 DEF CommandTurn, DelayedCommandPending, OpenCommand, AnswerOut
<1>5. OpenCommand' \in {NoOp, cmd.op}
  <2>1. ASSUME cmdEvent'.form = "NONE" \/ cmdEvent'.op = cmd.op, UNCHANGED <<compatEvent, DelayedCommandOpcode>>
        PROVE  OpenCommand' \in {NoOp, cmd.op}
    BY <1>4, <2>1 DEF OpenCommand, Commands!EventPending, Compat!EventPending
  <2>2. ASSUME compatEvent'.op \in {cmd.op, NoOp}, UNCHANGED <<cmdEvent, DelayedCommandOpcode>>
        PROVE  OpenCommand' \in {NoOp, cmd.op}
    BY <1>4, <2>2 DEF OpenCommand, Commands!EventPending, Compat!EventPending
  <2>3. PICK any \in HandlerStatus : TRUE
    BY TableAssumption DEF TableAssumption
  <2>4. CASE PutCommandRejected(cmd)
    <3>1. UNCHANGED DelayedCommandOpcode
          /\ \/ Compat!PutRejected(cmd) /\ UNCHANGED cmdEvent
             \/ Commands!PutRejected(cmd) /\ UNCHANGED compatEvent
      BY <2>4 DEF PutCommandRejected
    <3> QED
      BY <2>1, <2>2, <3>1, RejectedNames, CompatNames
  <2>5. CASE PutCommandRefused(cmd)
    BY <2>1, <2>5, RejectedNames DEF PutCommandRefused
  <2>6. ASSUME NEW status \in HandlerStatus, PutCompatCommand(cmd, status)
        PROVE  OpenCommand' \in {NoOp, cmd.op}
    BY <2>2, <2>6, CompatNames DEF PutCompatCommand
  <2>7. ASSUME NEW status \in HandlerStatus,
               PutReset(cmd, status) \/ PutReadBufferSize(cmd, status) \/ PutCommand(cmd, status)
        PROVE  OpenCommand' \in {NoOp, cmd.op}
    BY <2>1, <2>7, HandledNames DEF PutReset, PutReadBufferSize, PutCommand, EnterHandler
  <2>8. ASSUME NEW status \in HandlerStatus, PutDelayedCommand(cmd, status)
        PROVE  OpenCommand' \in {NoOp, cmd.op}
    <3>1. CASE DelayedCommandOpcode' = cmd.op /\ UNCHANGED cmdEvent
      <4>1. UNCHANGED compatEvent
        BY <2>8 DEF PutDelayedCommand, EnterHandler
      <4> QED
        BY <1>4, <3>1, <4>1 DEF OpenCommand, Commands!EventPending, Compat!EventPending
    <3>2. CASE Commands!PutHandled(cmd, ResultOf(Table[cmd.op], status)) /\ UNCHANGED DelayedCommandOpcode
      BY <2>1, <2>8, <3>2, HandledNames DEF PutDelayedCommand, EnterHandler
    <3> QED
      BY <2>8, <3>1, <3>2 DEF PutDelayedCommand
  <2> QED
    BY <1>1, <2>4, <2>5, <2>6, <2>7, <2>8
<1>6. CASE OpenCommand' = NoOp
  BY <1>4, <1>6
<1>7. CASE OpenCommand' = cmd.op
  <2>1. Flow!Take(cmd.op)
    BY <1>4, <1>7 DEF Flow!Take
  <2> QED
    BY <1>2, <2>1 DEF Flow!Next
<1> QED
  BY <1>5, <1>6, <1>7

(* A poll that fetches a response, of a dispatcher or delayed, is the      *)
(* flow's Answer; any other poll is no step of it.                         *)
LEMMA FlowRx ==
    ASSUME TypeOK, OneCommandCredit, HoldInv, DelayedInv, Rx
    PROVE  Flow!Next \/ UNCHANGED <<OpenCommand, AnswerOut>>
<1>a. /\ NoPacket.type \notin PacketType
  BY DEF NoPacket, PacketType
<1>1. ASSUME NEW t \in PacketType, RxHeld(t) PROVE UNCHANGED <<OpenCommand, AnswerOut>>
  BY <1>1, RxHeldMoves DEF cmdVars, OpenCommand, AnswerOut, Commands!EventPending, Compat!EventPending
<1>b. HoldEmpty => AnswerOut = NoOp
  BY ResponseOps DEF HoldEmpty, AnswerOut
<1>c. ASSUME NEW p, NEW t, HoldEmpty, RxData(p, t), p # NoPacket PROVE AnswerOut' = ResponseOp(p)
  BY <1>c, RxDataFills DEF AnswerOut
<1>2. ASSUME NEW t \in PacketType, RxResponse(t)
      PROVE  Flow!Next \/ UNCHANGED <<OpenCommand, AnswerOut>>
  <2>1. HoldEmpty /\ UNCHANGED DelayedCommandOpcode
    BY <1>2 DEF RxResponse
  <2>2. ~NoResponse
    BY <1>2 DEF RxResponse, NoResponse, Commands!HciCmdDispatchGet, Compat!HciCmdDispatchGet
  <2>3. DelayedCommandOpcode = NoOp /\ ~(Commands!EventPending /\ Compat!EventPending)
    BY <2>2 DEF OneCommandCredit, DelayedCommandPending
  <2>4. PICK e : /\ OpenCommand = e.op /\ OpenCommand' = NoOp /\ RxData(ResponseOf(e), t)
    <3>1. CASE Commands!HciCmdDispatchGet /\ RxData(ResponseOf(cmdEvent), t) /\ UNCHANGED compatEvent
      <4>1. OpenCommand = cmdEvent.op /\ OpenCommand' = NoOp
        BY <2>1, <2>3, <3>1 DEF OpenCommand, Commands!HciCmdDispatchGet, Commands!EventPending, Compat!EventPending,
                     Commands!NoEvent
      <4> QED
        BY <3>1, <4>1
    <3>2. CASE /\ ~Commands!EventPending
               /\ Compat!HciCmdDispatchGet
               /\ RxData(ResponseOf(compatEvent), t)
               /\ UNCHANGED cmdEvent
      <4>1. OpenCommand = compatEvent.op /\ OpenCommand' = NoOp
        BY <2>1, <2>3, <3>2 DEF OpenCommand, Compat!HciCmdDispatchGet, Commands!EventPending, Compat!EventPending,
                     Compat!NoEvent
      <4> QED
        BY <3>2, <4>1
    <3> QED
      BY <1>2, <3>1, <3>2 DEF RxResponse
  <2>5. ResponseOf(e) # NoPacket
    BY DEF ResponseOf, NoPacket
  <2>6. AnswerOut = NoOp /\ AnswerOut' = OpenCommand
    BY <1>b, <1>c, <2>1, <2>4, <2>5, ResponseOps
  <2> QED
    BY <2>4, <2>6 DEF Flow!Next, Flow!Answer
<1>3. ASSUME NEW t \in PacketType, HciSdcBuildCreditEvent(t) PROVE UNCHANGED <<OpenCommand, AnswerOut>>
  <2>1. HoldEmpty /\ UNCHANGED cmdVars /\ RxData(Completed(CreditCount), t)
    BY <1>3 DEF HciSdcBuildCreditEvent
  <2>2. Completed(CreditCount) # NoPacket
    BY DEF Completed, NoPacket
  <2>3. AnswerOut' = NoOp
    BY <1>c, <2>1, <2>2, ResponseOps
  <2> QED
    BY <1>b, <2>1, <2>3 DEF OpenCommand, cmdVars, Commands!EventPending, Compat!EventPending
<1>4. ASSUME QueueTurn PROVE OpenCommand = DelayedCommandOpcode /\ OpenCommand' = DelayedCommandOpcode'
  BY <1>4 DEF QueueTurn, NoResponse, OpenCommand, Commands!EventPending, Compat!EventPending
<1>5. ASSUME NEW t \in PacketType, RxQueue(t)
      PROVE  Flow!Next \/ UNCHANGED <<OpenCommand, AnswerOut>>
  <2> DEFINE p == Head(sdcQueue)
  <2>1. /\ HoldEmpty /\ QueueTurn /\ sdcQueue # <<>> /\ RxData(p, t) /\ p.type \in PacketType
        /\ DelayedCommandOpcode' = DelayedAfter(p)
    BY <1>5 DEF RxQueue, QueueTurn, Deliverable
  <2>2. p \in SdcMessage /\ Queued(p)
    BY <2>1, QueueTyped, QueuedTail DEF Queued
  <2>3. AnswerOut = NoOp /\ AnswerOut' = ResponseOp(p)
    BY <1>a, <1>b, <1>c, <2>1
  <2>4. CASE p = DelayedComplete
    <3>1. DelayedCommandOpcode = OpPawr /\ OpPawr # NoOp
      BY <2>2, <2>4, SdcAssumption DEF SdcAssumption, DelayedInv, DelayedCommandPending, TypeOK, CmdTypeOK
    <3>2. DelayedCommandOpcode' = NoOp
      BY <2>1, <2>4, <3>1 DEF DelayedAfter, DelayedComplete
    <3> QED
      BY <1>4, <2>1, <2>3, <2>4, <3>1, <3>2, ResponseOps DEF Flow!Next, Flow!Answer
  <2>5. CASE p # DelayedComplete
    <3>1. DelayedCommandOpcode' = DelayedCommandOpcode
      BY <2>1, <2>2, <2>5, ResponseOps DEF DelayedAfter
    <3> QED
      BY <1>4, <2>1, <2>2, <2>3, <2>5, <3>1, ResponseOps
  <2> QED
    BY <2>4, <2>5
<1>6. CASE RxBad \/ RxEmpty
  <2>1. QueueTurn /\ UNCHANGED <<DelayedCommandOpcode, HeldPacket, ctlPacket>>
    BY <1>6 DEF RxBad, RxEmpty, outVars
  <2> QED
    BY <1>4, <2>1 DEF AnswerOut
<1> QED
  BY <1>1, <1>2, <1>3, <1>5, <1>6 DEF Rx

(* HciSdcPutPacket and HciSdcGetPacket implement the one-credit command    *)
(* flow of HciCommandFlow: every step of the adapter is a step of the flow *)
(* or none.                                                                *)
THEOREM FlowRefined == Spec => ImplementsFlow
<1>1. Init => Flow!Init
  <2> SUFFICES ASSUME Init PROVE OpenCommand = NoOp /\ AnswerOut = NoOp
    BY DEF Flow!Init
  <2>1. cmdEvent.op = NoOp /\ compatEvent.form = "NONE" /\ DelayedCommandOpcode = NoOp
        /\ HeldPacket = NoPacket /\ ctlPacket = NoPacket
    BY DEF Init, Commands!HciCmdDispatchQueueNop, Commands!NoEvent, Compat!HciCmdDispatchInit, Compat!NoEvent
  <2> QED
    BY <2>1, ResponseOps DEF OpenCommand, AnswerOut, Compat!EventPending
<1>2. Inv /\ [Next]_vars => [Flow!Next]_<<OpenCommand, AnswerOut>>
  <2> SUFFICES ASSUME Inv, [Next]_vars PROVE Flow!Next \/ UNCHANGED <<OpenCommand, AnswerOut>>
    OBVIOUS
  <2>0. TypeOK /\ OneCommandCredit /\ HoldInv /\ DelayedInv
    BY DEF Inv
  <2>1. CASE PutCommandPacket
    BY <2>1, FlowPut
  <2>2. CASE Rx
    BY <2>0, <2>2, FlowRx
  <2>3. ASSUME UNCHANGED <<cmdVars, outVars>> PROVE UNCHANGED <<OpenCommand, AnswerOut>>
    BY <2>3 DEF cmdVars, outVars, OpenCommand, AnswerOut, Commands!EventPending, Compat!EventPending
  <2>4. CASE PutAclPacket
    BY <2>3, <2>4, AclQuiet
  <2>5. CASE SdcStep
    BY <2>0, <2>3, <2>5, SdcStepQueues DEF SdcQueues
  <2>6. CASE HostReceives
    <3>1. HeldPacket = NoPacket /\ ctlPacket' = NoPacket /\ HeldPacket' = NoPacket
      BY <2>0, <2>6, HostTakes
    <3>2. UNCHANGED cmdVars
      BY <2>6 DEF HostReceives
    <3>3. UNCHANGED OpenCommand
      BY <3>2 DEF cmdVars, OpenCommand, Commands!EventPending, Compat!EventPending
    <3>4. AnswerOut' = NoOp
      BY <3>1, ResponseOps DEF AnswerOut
    <3> QED
      BY <3>3, <3>4 DEF Flow!Next, Flow!Deliver
  <2>7. CASE UNCHANGED vars
    BY <2>3, <2>7 DEF vars
  <2>8. CASE SdcEndsMasked
    BY <2>3, <2>8, MaskedQuiet
  <2> QED
    BY <2>1, <2>2, <2>4, <2>5, <2>6, <2>7, <2>8 DEF Next
<1> QED
  BY <1>1, <1>2, InvSafe, PTL DEF Spec, ImplementsFlow, Flow!Spec
=============================================================================
