------------------------------ MODULE Vfd_proofs ------------------------------
(***************************************************************************)
(* Proofs about Vfd, for any number of processes, names, slots and         *)
(* descriptors.                                                            *)
(*                                                                         *)
(* The free list and the LRU ring in its direction `less' are the same     *)
(* kind of thing: a circle of links through slot 0, read off an ordering   *)
(* of its slots.  A slot is put in behind slot 0 and taken out anywhere.   *)
(***************************************************************************)
EXTENDS Vfd, FiniteSetTheorems, SequenceTheorems, WellFoundedInduction, TLAPS

-----------------------------------------------------------------------------
(* Circles of links.                                                       *)

Succ(i, n) == IF i = n THEN 0 ELSE i + 1

\* The links g lead from slot 0 through q[1], ..., q[n] and back.
Orders(q, n, g, U) ==
  /\ n \in Nat
  /\ q \in [0 .. n -> Slot]
  /\ q[0] = 0
  /\ \A i, j \in 0 .. n : q[i] = q[j] => i = j
  /\ U = {q[i] : i \in 1 .. n}
  /\ \A i \in 0 .. n : g[q[i]] = q[Succ(i, n)]

Circle(g, U) == \E q, n : Orders(q, n, g, U)

\* The links h lead the other way round.
Back(h, g, U) == \A f \in U \cup {0} : h[g[f]] = f

LEMMA SlotFacts ==
  /\ MaxVfd \in Nat /\ MaxVfd > 1
  /\ 0 \in Slot /\ Slot \subseteq Nat /\ Handle \subseteq Slot /\ 0 \notin Handle
  /\ \A f \in Slot : f # 0 => f \in Handle
  /\ IsFiniteSet(Slot) /\ IsFiniteSet(Handle) /\ Cardinality(Handle) = MaxVfd - 1
<1>1. MaxVfd \in Nat /\ MaxVfd > 1
  BY VfdAssumption
<1>2. /\ 0 \in Slot /\ Slot \subseteq Nat /\ Handle \subseteq Slot /\ 0 \notin Handle
      /\ \A f \in Slot : f # 0 => f \in Handle
  BY <1>1 DEF Slot, Handle
<1>3. IsFiniteSet(Slot) /\ Cardinality(Slot) = MaxVfd
  <2>1. PICK x : x = MaxVfd - 1
    OBVIOUS
  <2>2. 0 \in Int /\ x \in Int /\ ~(0 > x) /\ x - 0 + 1 = MaxVfd
    BY <1>1, <2>1
  <2>3. IsFiniteSet(0 .. x) /\ Cardinality(0 .. x) = x - 0 + 1
    BY <2>2, FS_Interval
  <2> QED BY <2>1, <2>2, <2>3 DEF Slot
<1>4. IsFiniteSet(Handle) /\ Cardinality(Handle) = MaxVfd - 1
  <2>1. IsFiniteSet(Slot \ {0}) /\ Cardinality(Slot \ {0}) = Cardinality(Slot) - 1
    BY <1>2, <1>3, FS_RemoveElement
  <2> QED BY <1>3, <2>1 DEF Handle
<1> QED BY <1>1, <1>2, <1>3, <1>4

\* Every set of naturals that is not empty has a least element.
LEMMA LeastOf ==
  ASSUME NEW T, T \subseteq Nat, T # {}
  PROVE  \E x \in T : \A y \in T : x <= y
<1>1. PICK R : R = OpToRel(<, Nat)
  OBVIOUS
<1>2. IsWellFoundedOn(R, Nat)
  BY <1>1, NatLessThanWellFounded
<1>3. PICK x \in T : \A y \in T : ~(<<y, x>> \in R)
  BY <1>2, WFMin
<1>4. ASSUME NEW y \in T PROVE x <= y
  <2>1. x \in Nat /\ y \in Nat
    OBVIOUS
  <2>2. y < x => <<y, x>> \in R
    BY <1>1, <2>1 DEF OpToRel
  <2>3. ~(y < x)
    BY <1>3, <2>2
  <2> QED BY <2>1, <2>3
<1> QED BY <1>4

\* The slots on a circle, and how many they are.
LEMMA OrdersFacts ==
  ASSUME NEW q, NEW n, NEW g, NEW U, Orders(q, n, g, U)
  PROVE  /\ U \subseteq Handle
         /\ IsFiniteSet(U) /\ Cardinality(U) = n
         /\ n \in Slot
         /\ \A i \in 0 .. n : q[i] \in U \cup {0} /\ g[q[i]] \in U \cup {0}
         /\ \A f \in U \cup {0} : \E i \in 0 .. n : f = q[i]
<1>0. n \in Nat
  BY DEF Orders
<1>1. \A i \in 1 .. n : i \in 0 .. n /\ 0 \in 0 .. n /\ i # 0
  BY <1>0
<1>2. U \subseteq Handle
  <2>1. ASSUME NEW i \in 1 .. n PROVE q[i] \in Handle
    <3>1. q[i] \in Slot
      BY <1>1 DEF Orders
    <3>2. q[i] # 0
      BY <1>1 DEF Orders
    <3> QED BY <3>1, <3>2, SlotFacts
  <2> QED BY <2>1 DEF Orders
<1>3. IsFiniteSet(U) /\ Cardinality(U) \in Nat /\ Cardinality(U) <= MaxVfd - 1
  BY <1>2, SlotFacts, FS_Subset, FS_CardinalityType
<1>4. Cardinality(U) = n
  <2>1. PICK b : b = [i \in 1 .. n |-> q[i]]
    OBVIOUS
  <2>2. b \in Bijection(1 .. n, U)
    <3>1. b \in [1 .. n -> U]
      BY <2>1 DEF Orders
    <3>2. \A i, j \in 1 .. n : b[i] = b[j] => i = j
      BY <1>1, <2>1 DEF Orders
    <3>3. \A f \in U : \E i \in 1 .. n : b[i] = f
      BY <2>1 DEF Orders
    <3>4. b \in Injection(1 .. n, U)
      BY <3>1, <3>2 DEF Injection, IsInjective
    <3>5. b \in Surjection(1 .. n, U)
      BY <3>1, <3>3 DEF Surjection
    <3> QED BY <3>4, <3>5 DEF Bijection
  <2>3. ExistsBijection(1 .. n, U)
    BY <2>2 DEF ExistsBijection
  <2> QED BY <1>0, <2>3, FS_CountingElements
<1>5. n \in Slot
  BY <1>0, <1>3, <1>4, SlotFacts DEF Slot
<1>6. \A i \in 0 .. n : q[i] \in U \cup {0}
  <2>1. ASSUME NEW i \in 0 .. n PROVE q[i] \in U \cup {0}
    <3>1. CASE i = 0
      BY <3>1 DEF Orders
    <3>2. CASE i # 0
      <4>1. i \in 1 .. n
        BY <1>0, <3>2
      <4> QED BY <4>1 DEF Orders
    <3> QED BY <3>1, <3>2
  <2> QED BY <2>1
<1>7. \A i \in 0 .. n : g[q[i]] \in U \cup {0}
  <2>1. \A i \in 0 .. n : Succ(i, n) \in 0 .. n
    BY <1>0 DEF Succ
  <2> QED BY <1>6, <2>1 DEF Orders
<1>8. \A f \in U \cup {0} : \E i \in 0 .. n : f = q[i]
  <2>1. 0 \in 0 .. n
    BY <1>0
  <2> QED BY <1>1, <2>1 DEF Orders
<1> QED BY <1>2, <1>3, <1>4, <1>5, <1>6, <1>7, <1>8

\* Only the links of the slots on a circle matter.
LEMMA CircleSame ==
  ASSUME NEW g, NEW h, NEW U, Circle(g, U), \A f \in U \cup {0} : h[f] = g[f]
  PROVE  Circle(h, U)
<1>1. PICK q, n : Orders(q, n, g, U)
  BY DEF Circle
<1>2. \A i \in 0 .. n : h[q[i]] = g[q[i]]
  BY <1>1, OrdersFacts
<1>3. Orders(q, n, h, U)
  BY <1>1, <1>2 DEF Orders
<1> QED BY <1>3 DEF Circle

\* Slot f is put behind slot 0.
LEMMA CirclePush ==
  ASSUME NEW g, NEW h, NEW U, Circle(g, U), NEW f \in Handle, f \notin U,
         h[0] = f, h[f] = g[0], \A e \in U : h[e] = g[e]
  PROVE  Circle(h, U \cup {f})
<1>1. PICK q, n : Orders(q, n, g, U)
  BY DEF Circle
<1>n. n \in Nat
  BY <1>1 DEF Orders
<1>2. PICK r : r = [i \in 0 .. n + 1 |->
                      IF i = 0 THEN 0 ELSE IF i = 1 THEN f ELSE q[i - 1]]
  OBVIOUS
<1>3. /\ r[0] = 0 /\ r[1] = f
      /\ \A i \in 1 .. n : r[i + 1] = q[i]
  <2>1. 0 \in 0 .. n + 1 /\ 1 \in 0 .. n + 1
    BY <1>n
  <2>2. ASSUME NEW i \in 1 .. n PROVE r[i + 1] = q[i]
    <3>1. i + 1 \in 0 .. n + 1 /\ i + 1 # 0 /\ i + 1 # 1 /\ (i + 1) - 1 = i
      BY <1>n
    <3> QED BY <1>2, <3>1
  <2> QED BY <1>2, <2>1, <2>2
<1>4. \A k \in 0 .. n + 1 : k = 0 \/ k = 1 \/ \E i \in 1 .. n : k = i + 1
  <2>1. ASSUME NEW k \in 0 .. n + 1, k # 0, k # 1 PROVE \E i \in 1 .. n : k = i + 1
    <3>1. k - 1 \in 1 .. n /\ k = (k - 1) + 1
      BY <1>n, <2>1
    <3> QED BY <3>1
  <2> QED BY <2>1
<1>5. \A i \in 1 .. n : q[i] \in U /\ q[i] \in Handle /\ q[i] # f /\ q[i] # 0
                        /\ i \in 0 .. n
  <2>1. \A i \in 1 .. n : q[i] \in U /\ i \in 0 .. n
    BY <1>1, <1>n DEF Orders
  <2> QED BY <1>1, <2>1, OrdersFacts, SlotFacts
<1>6. r \in [0 .. n + 1 -> Slot]
  <2>1. \A k \in 0 .. n + 1 : r[k] \in Slot
    BY <1>3, <1>4, <1>5, SlotFacts, ZenonT(60)
  <2> QED BY <1>2, <2>1
<1>7. ASSUME NEW i \in 0 .. n + 1, NEW j \in 0 .. n + 1, r[i] = r[j] PROVE i = j
  <2>1. f # 0
    BY SlotFacts
  <2>2. \A a, b \in 1 .. n : q[a] = q[b] => a = b
    BY <1>1, <1>5 DEF Orders
  <2> QED BY <1>3, <1>4, <1>5, <1>7, <2>1, <2>2
<1>8. U \cup {f} = {r[i] : i \in 1 .. n + 1}
  <2>1. \A i \in 1 .. n : i + 1 \in 1 .. n + 1
    BY <1>n
  <2>2. 1 \in 1 .. n + 1 /\ \A k \in 1 .. n + 1 : k \in 0 .. n + 1 /\ k # 0
    BY <1>n
  <2>3. U \cup {f} \subseteq {r[i] : i \in 1 .. n + 1}
    <3>1. \A e \in U : \E i \in 1 .. n : e = q[i]
      BY <1>1 DEF Orders
    <3> QED BY <1>3, <2>1, <2>2, <3>1
  <2>4. \A k \in 1 .. n + 1 : r[k] \in U \cup {f}
    BY <1>3, <1>4, <1>5, <2>2
  <2> QED BY <2>3, <2>4
<1>9. ASSUME NEW k \in 0 .. n + 1 PROVE h[r[k]] = r[Succ(k, n + 1)]
  <2>0. \A i \in 0 .. n : g[q[i]] = q[Succ(i, n)]
    BY <1>1 DEF Orders
  <2>z. q[0] = 0 /\ 0 \in 0 .. n
    BY <1>1, <1>n DEF Orders
  <2>1. CASE k = 0
    <3>1. Succ(k, n + 1) = 1
      BY <1>n, <2>1 DEF Succ
    <3> QED BY <1>3, <2>1, <3>1
  <2>2. CASE k = 1 /\ n = 0
    <3>1. Succ(k, n + 1) = 0 /\ Succ(0, n) = 0
      BY <2>2 DEF Succ
    <3>2. g[0] = 0
      BY <2>0, <2>z, <3>1
    <3> QED BY <1>3, <2>2, <3>1, <3>2
  <2>3. CASE k = 1 /\ n # 0
    <3>1. Succ(k, n + 1) = 1 + 1 /\ Succ(0, n) = 1 /\ 1 \in 1 .. n
      BY <1>n, <2>3 DEF Succ
    <3>2. g[0] = q[1]
      BY <2>0, <2>z, <3>1
    <3> QED BY <1>3, <2>3, <3>1, <3>2
  <2>4. ASSUME NEW i \in 1 .. n, k = i + 1 PROVE h[r[k]] = r[Succ(k, n + 1)]
    <3>1. h[r[k]] = q[Succ(i, n)]
      BY <1>3, <1>5, <2>0, <2>4
    <3>2. CASE i = n
      <4>1. Succ(i, n) = 0 /\ Succ(k, n + 1) = 0
        BY <2>4, <3>2 DEF Succ
      <4> QED BY <1>3, <2>z, <3>1, <4>1
    <3>3. CASE i # n
      <4>1. Succ(i, n) = i + 1 /\ Succ(k, n + 1) = (i + 1) + 1 /\ i + 1 \in 1 .. n
        BY <1>n, <2>4, <3>3 DEF Succ
      <4> QED BY <1>3, <3>1, <4>1
    <3> QED BY <3>2, <3>3
  <2> QED BY <1>4, <2>1, <2>2, <2>3, <2>4
<1>10. Orders(r, n + 1, h, U \cup {f})
  <2>1. n + 1 \in Nat
    BY <1>n
  <2> QED BY <1>3, <1>6, <1>7, <1>8, <1>9, <2>1 DEF Orders
<1> QED BY <1>10 DEF Circle

\* Slot f is taken out, and e, from which a link led to it, skips it.
LEMMA CircleCut ==
  ASSUME NEW g, NEW h, NEW U, Circle(g, U), NEW f \in U, NEW e \in U \cup {0},
         g[e] = f, h[e] = g[f], \A x \in (U \cup {0}) \ {e, f} : h[x] = g[x]
  PROVE  Circle(h, U \ {f}) /\ e # f
<1>1. PICK q, n : Orders(q, n, g, U)
  BY DEF Circle
<1>n. n \in Nat
  BY <1>1 DEF Orders
<1>i. \A i, j \in 0 .. n : q[i] = q[j] => i = j
  BY <1>1 DEF Orders
<1>g. \A i \in 0 .. n : g[q[i]] = q[Succ(i, n)] /\ Succ(i, n) \in 0 .. n
  BY <1>1, <1>n DEF Orders, Succ
<1>2. PICK j \in 0 .. n : e = q[j]
  BY <1>1, OrdersFacts
<1>3. PICK m \in 1 .. n : f = q[m]
  BY <1>1 DEF Orders
<1>m. m \in 0 .. n /\ m # 0
  BY <1>n
<1>4. j + 1 = m
  <2>1. Succ(j, n) = m
    BY <1>2, <1>3, <1>m, <1>g, <1>i
  <2> QED BY <1>m, <2>1 DEF Succ
<1>5. e # f
  BY <1>2, <1>3, <1>4, <1>m, <1>i
<1>k. n \in Nat /\ n - 1 \in Nat /\ n # 0
  BY <1>n, <1>3
<1>6. PICK r : r = [i \in 0 .. n - 1 |-> IF i < m THEN q[i] ELSE q[i + 1]]
  OBVIOUS
<1>7. \A i \in 0 .. n - 1 : /\ i \in 0 .. n /\ i + 1 \in 0 .. n
                            /\ i < m => i # m /\ r[i] = q[i]
                            /\ ~(i < m) => i + 1 # m /\ r[i] = q[i + 1]
  BY <1>k, <1>6
<1>8. r \in [0 .. n - 1 -> Slot]
  <2>1. \A i \in 0 .. n - 1 : r[i] \in Slot
    BY <1>1, <1>7 DEF Orders
  <2> QED BY <1>6, <2>1
<1>9. r[0] = 0
  <2>1. 0 \in 0 .. n - 1 /\ 0 < m
    BY <1>k, <1>m
  <2> QED BY <1>1, <1>7, <2>1 DEF Orders
<1>10. ASSUME NEW a \in 0 .. n - 1, NEW b \in 0 .. n - 1, r[a] = r[b] PROVE a = b
  <2>1. CASE a < m /\ b < m
    BY <1>7, <1>i, <1>10, <2>1
  <2>2. CASE ~(a < m) /\ ~(b < m)
    <3>1. a + 1 = b + 1
      BY <1>7, <1>i, <1>10, <2>2
    <3> QED BY <3>1
  <2>3. CASE a < m /\ ~(b < m)
    <3>1. a = b + 1
      BY <1>7, <1>i, <1>10, <2>3
    <3> QED BY <2>3, <3>1
  <2>4. CASE ~(a < m) /\ b < m
    <3>1. a + 1 = b
      BY <1>7, <1>i, <1>10, <2>4
    <3> QED BY <2>4, <3>1
  <2> QED BY <2>1, <2>2, <2>3, <2>4
<1>11. U \ {f} = {r[i] : i \in 1 .. n - 1}
  <2>1. ASSUME NEW i \in 1 .. n - 1 PROVE r[i] \in U \ {f}
    <3>1. i \in 0 .. n - 1 /\ i \in 1 .. n /\ i + 1 \in 1 .. n
      BY <1>k
    <3>2. \A k \in 1 .. n : q[k] \in U /\ (k # m => q[k] # f)
      <4>1. \A k \in 1 .. n : k \in 0 .. n
        BY <1>n
      <4> QED BY <1>1, <1>3, <1>i, <1>m, <4>1 DEF Orders
    <3> QED BY <1>7, <3>1, <3>2
  <2>2. ASSUME NEW x \in U \ {f} PROVE \E i \in 1 .. n - 1 : x = r[i]
    <3>1. PICK k \in 1 .. n : x = q[k]
      BY <1>1 DEF Orders
    <3>2. k # m
      BY <1>3, <3>1
    <3>3. CASE k < m
      <4>1. k \in 1 .. n - 1 /\ k \in 0 .. n - 1
        BY <1>k, <3>3
      <4> QED BY <1>7, <3>1, <3>3, <4>1
    <3>4. CASE ~(k < m)
      <4>1. k - 1 \in 1 .. n - 1 /\ k - 1 \in 0 .. n - 1 /\ ~(k - 1 < m) /\ (k - 1) + 1 = k
        BY <1>k, <3>2, <3>4
      <4> QED BY <1>7, <3>1, <4>1
    <3> QED BY <3>3, <3>4
  <2> QED BY <2>1, <2>2
<1>12. ASSUME NEW i \in 0 .. n - 1 PROVE h[r[i]] = r[Succ(i, n - 1)]
  <2>h. \A k \in 0 .. n : k # j /\ k # m => h[q[k]] = q[Succ(k, n)]
    <3> SUFFICES ASSUME NEW k \in 0 .. n, k # j, k # m PROVE h[q[k]] = q[Succ(k, n)]
      OBVIOUS
    <3>1. q[k] \in U \cup {0}
      BY <1>1, OrdersFacts
    <3>2. q[k] # e /\ q[k] # f
      BY <1>2, <1>3, <1>i, <1>m
    <3> QED BY <1>g, <3>1, <3>2
  <2>e. h[q[j]] = q[Succ(m, n)]
    BY <1>2, <1>3, <1>g, <1>m
  <2>z. q[0] = 0
    BY <1>1 DEF Orders
  <2>1. CASE i + 1 < m
    <3>1. i \in 0 .. n /\ i # j /\ i # m /\ i < m /\ Succ(i, n) = i + 1
      BY <1>4, <1>k, <2>1 DEF Succ
    <3>2. Succ(i, n - 1) = i + 1 /\ i + 1 \in 0 .. n - 1
      BY <1>k, <2>1 DEF Succ
    <3> QED BY <1>7, <2>1, <2>h, <3>1, <3>2
  <2>2. CASE i + 1 = m
    <3>1. i = j /\ i < m
      BY <1>4, <2>2
    <3>2. h[r[i]] = q[Succ(m, n)]
      BY <1>7, <2>e, <3>1
    <3>3. CASE m = n
      <4>1. Succ(m, n) = 0 /\ Succ(i, n - 1) = 0
        BY <1>k, <2>2, <3>3 DEF Succ
      <4> QED BY <1>9, <2>z, <3>2, <4>1
    <3>4. CASE m # n
      <4>1. Succ(m, n) = m + 1 /\ Succ(i, n - 1) = m /\ m \in 0 .. n - 1 /\ ~(m < m)
        BY <1>k, <2>2, <3>4 DEF Succ
      <4> QED BY <1>7, <3>2, <4>1
    <3> QED BY <3>3, <3>4
  <2>3. CASE i + 1 > m
    <3>1. ~(i < m) /\ i + 1 \in 0 .. n /\ i + 1 # j /\ i + 1 # m
      BY <1>4, <1>k, <2>3
    <3>2. h[r[i]] = q[Succ(i + 1, n)]
      BY <1>7, <2>h, <3>1
    <3>3. CASE i = n - 1
      <4>1. Succ(i + 1, n) = 0 /\ Succ(i, n - 1) = 0
        BY <1>k, <3>3 DEF Succ
      <4> QED BY <1>9, <2>z, <3>2, <4>1
    <3>4. CASE i # n - 1
      <4>1. /\ Succ(i + 1, n) = (i + 1) + 1 /\ Succ(i, n - 1) = i + 1
            /\ i + 1 \in 0 .. n - 1 /\ ~(i + 1 < m)
        BY <1>k, <2>3, <3>4 DEF Succ
      <4> QED BY <1>7, <3>2, <4>1
    <3> QED BY <3>3, <3>4
  <2> QED BY <2>1, <2>2, <2>3
<1>13. Orders(r, n - 1, h, U \ {f})
  BY <1>k, <1>8, <1>9, <1>10, <1>11, <1>12 DEF Orders
<1> QED BY <1>5, <1>13 DEF Circle

\* From slot 0 a circle can be entered, and every slot on it can be left.
LEMMA CircleFacts ==
  ASSUME NEW g, NEW U, Circle(g, U)
  PROVE  /\ U \subseteq Handle /\ IsFiniteSet(U) /\ Cardinality(U) \in Slot
         /\ \A f \in U \cup {0} : g[f] \in U \cup {0}
         /\ \A f \in U \cup {0} : \E e \in U \cup {0} : g[e] = f
         /\ (g[0] = 0 <=> U = {})
<1>1. PICK q, n : Orders(q, n, g, U)
  BY DEF Circle
<1>n. n \in Nat
  BY <1>1 DEF Orders
<1>2. /\ U \subseteq Handle /\ IsFiniteSet(U) /\ Cardinality(U) \in Slot
      /\ \A f \in U \cup {0} : g[f] \in U \cup {0}
  BY <1>1, OrdersFacts
<1>3. ASSUME NEW f \in U \cup {0} PROVE \E e \in U \cup {0} : g[e] = f
  <2>1. PICK i \in 0 .. n : f = q[i]
    BY <1>1, OrdersFacts
  <2>2. PICK j : j = IF i = 0 THEN n ELSE i - 1
    OBVIOUS
  <2>3. j \in 0 .. n /\ Succ(j, n) = i
    BY <1>n, <2>2 DEF Succ
  <2>4. q[j] \in U \cup {0} /\ g[q[j]] = q[i]
    BY <1>1, <2>3, OrdersFacts DEF Orders
  <2> QED BY <2>1, <2>4
<1>4. g[0] = 0 <=> U = {}
  <2>1. g[0] = q[Succ(0, n)] /\ q[0] = 0
    <3>1. 0 \in 0 .. n
      BY <1>n
    <3> QED BY <1>1, <3>1 DEF Orders
  <2>2. CASE n = 0
    <3>1. Succ(0, n) = 0 /\ 1 .. n = {}
      BY <2>2 DEF Succ
    <3> QED BY <1>1, <2>1, <3>1 DEF Orders
  <2>3. CASE n # 0
    <3>1. Succ(0, n) = 1 /\ 1 \in 1 .. n
      BY <1>n, <2>3 DEF Succ
    <3>2. q[1] \in U
      BY <1>1, <3>1 DEF Orders
    <3> QED BY <1>2, <2>1, <3>1, <3>2, SlotFacts
  <2> QED BY <2>2, <2>3
<1> QED BY <1>2, <1>3, <1>4

\* An ordering of n numbers in a row behind slot 0.
LEMMA CircleRow ==
  ASSUME NEW g, NEW n, n \in Nat \ {0}, 2 * n <= MaxVfd,
         g[0] = n, g[2 * n - 1] = 0, \A f \in n .. 2 * n - 2 : g[f] = f + 1
  PROVE  Circle(g, n .. 2 * n - 1)
<1>0. MaxVfd \in Nat /\ n \in Nat /\ n # 0 /\ 2 * n \in Nat
  BY SlotFacts
<1>1. PICK q : q = [i \in 0 .. n |-> IF i = 0 THEN 0 ELSE n + i - 1]
  OBVIOUS
<1>2. q[0] = 0 /\ \A i \in 1 .. n : i # 0 /\ i \in 0 .. n /\ q[i] = n + i - 1
  BY <1>0, <1>1
<1>3. q \in [0 .. n -> Slot]
  <2>1. \A i \in 0 .. n : (IF i = 0 THEN 0 ELSE n + i - 1) \in Slot
    BY <1>0 DEF Slot
  <2> QED BY <1>1, <2>1
<1>4. ASSUME NEW i \in 0 .. n, NEW j \in 0 .. n, q[i] = q[j] PROVE i = j
  <2>1. (IF i = 0 THEN 0 ELSE n + i - 1) = (IF j = 0 THEN 0 ELSE n + j - 1)
    BY <1>1, <1>4
  <2> QED BY <1>0, <2>1
<1>5. n .. 2 * n - 1 = {q[i] : i \in 1 .. n}
  <2>1. ASSUME NEW i \in 1 .. n PROVE q[i] \in n .. 2 * n - 1
    <3>1. n + i - 1 \in n .. 2 * n - 1
      BY <1>0
    <3> QED BY <1>2, <3>1
  <2>2. ASSUME NEW f \in n .. 2 * n - 1 PROVE \E i \in 1 .. n : f = q[i]
    <3>1. f - n + 1 \in 1 .. n /\ n + (f - n + 1) - 1 = f
      BY <1>0
    <3> QED BY <1>2, <3>1
  <2> QED BY <2>1, <2>2
<1>6. ASSUME NEW i \in 0 .. n PROVE g[q[i]] = q[Succ(i, n)]
  <2>1. CASE i = 0
    <3>1. Succ(i, n) = 1 /\ 1 \in 1 .. n /\ n + 1 - 1 = n
      BY <1>0, <2>1 DEF Succ
    <3> QED BY <1>2, <2>1, <3>1
  <2>2. CASE i = n
    <3>1. Succ(i, n) = 0 /\ i \in 1 .. n /\ n + i - 1 = 2 * n - 1
      BY <1>0, <2>2 DEF Succ
    <3> QED BY <1>2, <3>1
  <2>3. CASE i # 0 /\ i # n
    <3>1. Succ(i, n) = i + 1 /\ i \in 1 .. n /\ i + 1 \in 1 .. n
      BY <1>0, <2>3 DEF Succ
    <3>2. n + i - 1 \in n .. 2 * n - 2 /\ (n + i - 1) + 1 = n + (i + 1) - 1
      BY <1>0, <2>3
    <3> QED BY <1>2, <3>1, <3>2
  <2> QED BY <2>1, <2>2, <2>3
<1>7. Orders(q, n, g, n .. 2 * n - 1)
  BY <1>0, <1>2, <1>3, <1>4, <1>5, <1>6 DEF Orders
<1> QED BY <1>7 DEF Circle

\* What the recursive definition of Path says of its function.
IsPath(w, g, f) == w = [i \in Slot |-> IF i = 0 THEN f ELSE g[w[i - 1]]]

\* There is one.
LEMMA PathExists ==
  ASSUME NEW g, NEW f
  PROVE  \E w : IsPath(w, g, f)
<1> DEFINE Upto(w, m) == w = [i \in 0 .. m |-> IF i = 0 THEN f ELSE g[w[i - 1]]]
<1>1. ASSUME NEW n \in Nat PROVE \E w : Upto(w, n)
  <2>1. PICK B : B = {m \in Nat : ~\E w : Upto(w, m)}
    OBVIOUS
  <2>2. SUFFICES ASSUME B # {} PROVE FALSE
    BY <2>1
  <2>3. PICK m \in B : \A y \in B : m <= y
    <3>1. B \subseteq Nat
      BY <2>1
    <3> QED BY <2>2, <3>1, LeastOf
  <2>4. m \in Nat /\ ~\E w : Upto(w, m)
    BY <2>1, <2>3
  <2>5. CASE m = 0
    <3>1. PICK w : w = [i \in 0 .. 0 |-> f]
      OBVIOUS
    <3>2. Upto(w, 0)
      BY <3>1
    <3> QED BY <2>4, <2>5, <3>2
  <2>6. CASE m # 0
    <3>1. m - 1 \in Nat /\ ~(m <= m - 1)
      BY <2>4, <2>6
    <3>2. PICK w : Upto(w, m - 1)
      <4>1. m - 1 \notin B
        BY <2>3, <3>1
      <4> HIDE DEF Upto
      <4> QED BY <2>1, <3>1, <4>1
    <3>3. PICK e : e = [i \in 0 .. m |-> IF i = m THEN g[w[m - 1]] ELSE w[i]]
      OBVIOUS
    <3>4. \A i \in 0 .. m : e[i] = IF i = 0 THEN f ELSE g[e[i - 1]]
      <4> SUFFICES ASSUME NEW i \in 0 .. m
                   PROVE  e[i] = IF i = 0 THEN f ELSE g[e[i - 1]]
        OBVIOUS
      <4>1. CASE i = m
        <5>1. e[i] = g[w[m - 1]] /\ e[m - 1] = w[m - 1]
          BY <2>4, <3>1, <3>3, <4>1
        <5> QED BY <2>6, <4>1, <5>1
      <4>2. CASE i # m /\ i # 0
        <5>1. i \in 0 .. m - 1 /\ i - 1 \in 0 .. m /\ i - 1 # m
          BY <2>4, <4>2
        <5>2. e[i] = w[i] /\ e[i - 1] = w[i - 1]
          BY <3>3, <4>2, <5>1
        <5>3. w[i] = g[w[i - 1]]
          BY <3>2, <4>2, <5>1
        <5> QED BY <4>2, <5>2, <5>3
      <4>3. CASE i # m /\ i = 0
        <5>1. w[0] = f
          BY <2>4, <3>1, <3>2
        <5> QED BY <2>4, <3>3, <4>3, <5>1
      <4> QED BY <4>1, <4>2, <4>3
    <3>5. Upto(e, m)
      BY <3>3, <3>4
    <3> QED BY <2>4, <3>5
  <2> QED BY <2>5, <2>6
<1>2. PICK w : Upto(w, MaxVfd - 1)
  <2>1. MaxVfd - 1 \in Nat
    BY SlotFacts
  <2> HIDE DEF Upto
  <2> QED BY <1>1, <2>1
<1>3. IsPath(w, g, f)
  BY <1>2 DEF IsPath, Slot
<1> QED BY <1>3

\* A path from slot 0 passes the slots of the circle once and ends at slot 0.
LEMMA PathRound ==
  ASSUME NEW g, NEW U, Circle(g, U)
  PROVE  LET w == Path(g, g[0])
             n == Cardinality(U)
         IN  {w[i] : i \in 0 .. n - 1} = U /\ w[n] = 0
<1>1. PICK q, n : Orders(q, n, g, U)
  BY DEF Circle
<1>2. n \in Nat /\ n \in Slot /\ Cardinality(U) = n
  <2>1. n \in Slot /\ Cardinality(U) = n
    BY <1>1, OrdersFacts
  <2> QED BY <2>1, SlotFacts
<1> DEFINE W(h) == h = [i \in Slot |-> IF i = 0 THEN g[0] ELSE g[h[i - 1]]]
<1>3. PICK w : w = CHOOSE h : W(h)
  OBVIOUS
<1>4. W(w)
  <2>1. \E h : W(h)
    <3>1. PICK h : IsPath(h, g, g[0])
      BY PathExists
    <3>2. W(h)
      BY <3>1 DEF IsPath
    <3> HIDE DEF W
    <3> QED BY <3>2
  <2> HIDE DEF W
  <2> QED BY <1>3, <2>1
<1>5. Path(g, g[0]) = w
  BY <1>3 DEF Path
<1>s. \A i \in 0 .. n : i \in Slot
  BY <1>2, SlotFacts DEF Slot
<1>6. \A i \in 0 .. n : w[i] = g[q[i]]
  <2>1. PICK B : B = {i \in 0 .. n : w[i] # g[q[i]]}
    OBVIOUS
  <2>2. SUFFICES ASSUME B # {} PROVE FALSE
    BY <2>1
  <2>3. PICK i \in B : \A y \in B : i <= y
    <3>1. B \subseteq Nat
      BY <2>1
    <3> QED BY <2>2, <3>1, LeastOf
  <2>4. i \in 0 .. n /\ w[i] # g[q[i]]
    BY <2>1, <2>3
  <2>5. CASE i = 0
    <3>1. w[i] = g[0]
      BY <1>s, <1>4, <2>4, <2>5
    <3>2. q[i] = 0
      BY <1>1, <2>5 DEF Orders
    <3> QED BY <2>4, <3>1, <3>2
  <2>6. CASE i # 0
    <3>1. i - 1 \in 0 .. n /\ ~(i <= i - 1) /\ Succ(i - 1, n) = i
      BY <1>2, <2>4, <2>6 DEF Succ
    <3>2. w[i] = g[w[i - 1]]
      BY <1>s, <1>4, <2>4, <2>6
    <3>3. w[i - 1] = g[q[i - 1]]
      BY <2>1, <2>3, <3>1
    <3>4. g[q[i - 1]] = q[i]
      BY <1>1, <3>1 DEF Orders
    <3> QED BY <2>4, <3>2, <3>3, <3>4
  <2> QED BY <2>5, <2>6
<1>7. w[n] = 0
  <2>1. n \in 0 .. n /\ Succ(n, n) = 0
    BY <1>2 DEF Succ
  <2> QED BY <1>1, <1>6, <2>1 DEF Orders
<1>8. \A i \in 0 .. n - 1 : w[i] = q[i + 1]
  <2>1. \A i \in 0 .. n - 1 : i \in 0 .. n /\ Succ(i, n) = i + 1
    BY <1>2 DEF Succ
  <2> QED BY <1>1, <1>6, <2>1 DEF Orders
<1>9. {w[i] : i \in 0 .. n - 1} = U
  <2>1. \A i \in 0 .. n - 1 : i + 1 \in 1 .. n
    BY <1>2
  <2>2. \A i \in 1 .. n : i - 1 \in 0 .. n - 1 /\ (i - 1) + 1 = i
    BY <1>2
  <2>3. U = {q[i] : i \in 1 .. n}
    BY <1>1 DEF Orders
  <2>4. \A f \in U : \E i \in 0 .. n - 1 : f = w[i]
    BY <1>8, <2>2, <2>3
  <2>5. \A i \in 0 .. n - 1 : w[i] \in U
    BY <1>8, <2>1, <2>3
  <2> QED BY <2>4, <2>5
<1> QED BY <1>2, <1>5, <1>7, <1>9

-----------------------------------------------------------------------------
(* What fd.c keeps in a process, and the files.                            *)

Pages == Page \cup {Zero}

Vfds ==
  [size : 0 .. MaxVfd, fd : [Slot -> BOOLEAN], dirty : [Slot -> BOOLEAN],
   nextFree : [Slot -> Slot], more : [Slot -> Slot], less : [Slot -> Slot],
   seekPos : [Slot -> Int], name : [Slot -> Name \cup {Absent}],
   kpos : [Slot -> Int], link : [Slot -> Name \cup {Absent}],
   nfile : Int, freeFd : Nat, osRanOut : BOOLEAN, others : 0 .. OsMax - 1]

Store == [Name -> {Absent} \cup [data : Seq(Pages), disk : Seq(Pages)]]

\* The ring holds the open files.
InRing(v) == Circle(v.less, InUse(v)) /\ Back(v.more, v.less, InUse(v))

\* The free list holds the slots outside A, of which the open files are.
Unused(v, A) == {f \in Handle : f < v.size /\ f \notin A}
Listed(v, A) ==
  /\ Circle(v.nextFree, Unused(v, A))
  /\ A \subseteq Handle /\ (\A f \in A : f < v.size) /\ InUse(v) \subseteq A

Counted(v) ==
  /\ v.nfile = Cardinality(InUse(v))
  /\ v.nfile <= PgNofile /\ v.nfile + v.others <= OsMax

\* A descriptor is left or can be had, or none was ever asked for.
Spare(v) == v.freeFd > 0 \/ InUse(v) # {}
Started(v, A) == Spare(v) \/ (A = {} /\ v.osRanOut = FALSE)

\* The kernel is where fd.c says; only a file that is not open has lost its
\* position.
Placed(v) ==
  \A f \in Slot :
    /\ v.fd[f] => v.kpos[f] = v.seekPos[f] /\ v.seekPos[f] >= 0
    /\ ~ v.fd[f] => v.kpos[f] = -1 /\ v.seekPos[f] >= -1

\* Where the files are, or will be once they are open again.
At(v) == [f \in Slot |-> SeekFrom0(v.seekPos[f])]

\* The files that callers hold exist, and are the ones the kernel has open.
Linked(v, k, H) ==
  /\ \A f \in H : v.name[f] \in Name /\ k[v.name[f]] # Absent
  /\ \A f \in InUse(v) : v.link[f] = IF f \in H THEN v.name[f] ELSE Absent

Forced(k, n) ==
  \A i \in 1 .. Len(k[n].data) :
    i <= Len(k[n].disk) /\ k[n].disk[i] = k[n].data[i]

Dirty(v) == {v.link[f] : f \in {e \in InUse(v) : v.dirty[e]}}

\* What is not on disk is marked here, or in O.
Tracked(v, k, O) ==
  \A n \in Name : k[n] = Absent \/ Forced(k, n) \/ n \in Dirty(v) \/ n \in O

Proper(v, A) ==
  v \in Vfds /\ InRing(v) /\ Listed(v, A) /\ Counted(v) /\ Placed(v)

IsPair(s) == s = [v |-> s.v, k |-> s.k]

Sound(s, A, H, O) ==
  /\ s = [v |-> s.v, k |-> s.k] /\ s.k \in Store
  /\ Proper(s.v, A) /\ H \subseteq A
  /\ Linked(s.v, s.k, H) /\ Tracked(s.v, s.k, O)

LEMMA VfdTypes ==
  ASSUME NEW v, v \in Vfds
  PROVE  /\ v = [size |-> v.size, fd |-> v.fd, dirty |-> v.dirty,
                 nextFree |-> v.nextFree, more |-> v.more, less |-> v.less,
                 seekPos |-> v.seekPos, name |-> v.name, kpos |-> v.kpos,
                 link |-> v.link, nfile |-> v.nfile, freeFd |-> v.freeFd,
                 osRanOut |-> v.osRanOut, others |-> v.others]
         /\ v.size \in Nat /\ v.size <= MaxVfd
         /\ v.fd \in [Slot -> BOOLEAN] /\ v.dirty \in [Slot -> BOOLEAN]
         /\ v.nextFree \in [Slot -> Slot] /\ v.more \in [Slot -> Slot]
         /\ v.less \in [Slot -> Slot] /\ v.seekPos \in [Slot -> Int]
         /\ v.name \in [Slot -> Name \cup {Absent}] /\ v.kpos \in [Slot -> Int]
         /\ v.link \in [Slot -> Name \cup {Absent}]
         /\ v.nfile \in Int /\ v.freeFd \in Nat /\ v.osRanOut \in BOOLEAN
         /\ v.others \in Nat /\ v.others < OsMax
<1>1. MaxVfd \in Nat /\ OsMax \in Nat
  BY VfdAssumption
<1> QED BY <1>1 DEF Vfds

\* A record of the right fields.
LEMMA VfdMade ==
  ASSUME NEW sz \in 0 .. MaxVfd, NEW fd \in [Slot -> BOOLEAN],
         NEW dirty \in [Slot -> BOOLEAN], NEW nf \in [Slot -> Slot],
         NEW more \in [Slot -> Slot], NEW less \in [Slot -> Slot],
         NEW sp \in [Slot -> Int], NEW nm \in [Slot -> Name \cup {Absent}],
         NEW kp \in [Slot -> Int], NEW lk \in [Slot -> Name \cup {Absent}],
         NEW n \in Int, NEW fr \in Nat, NEW ro \in BOOLEAN,
         NEW ot \in 0 .. OsMax - 1
  PROVE  [size |-> sz, fd |-> fd, dirty |-> dirty, nextFree |-> nf,
          more |-> more, less |-> less, seekPos |-> sp, name |-> nm,
          kpos |-> kp, link |-> lk, nfile |-> n, freeFd |-> fr,
          osRanOut |-> ro, others |-> ot] \in Vfds
BY DEF Vfds

LEMMA LruDeleteFields ==
  ASSUME NEW s, s.v \in Vfds, NEW f \in Slot
  PROVE  LET v == s.v IN
         LruDelete(s, f).v =
         [size |-> v.size, fd |-> [v.fd EXCEPT ![f] = FALSE],
          dirty |-> [v.dirty EXCEPT ![f] = FALSE], nextFree |-> v.nextFree,
          more |-> [v.more EXCEPT ![v.less[f]] = v.more[f], ![f] = 0],
          less |-> [v.less EXCEPT ![v.more[f]] = v.less[f], ![f] = 0],
          seekPos |-> [v.seekPos EXCEPT ![f] = v.kpos[f]], name |-> v.name,
          kpos |-> [v.kpos EXCEPT ![f] = -1],
          link |-> [v.link EXCEPT ![f] = Absent], nfile |-> v.nfile - 1,
          freeFd |-> v.freeFd + 1, osRanOut |-> v.osRanOut, others |-> v.others]
<1>1. PICK v : v = s.v
  OBVIOUS
<1>2. v = [size |-> v.size, fd |-> v.fd, dirty |-> v.dirty,
                 nextFree |-> v.nextFree, more |-> v.more, less |-> v.less,
                 seekPos |-> v.seekPos, name |-> v.name, kpos |-> v.kpos,
                 link |-> v.link, nfile |-> v.nfile, freeFd |-> v.freeFd,
                 osRanOut |-> v.osRanOut, others |-> v.others]
  BY <1>1, VfdTypes
<1>3. PICK d : d = Delete(v, f)
  OBVIOUS
<1>4. d = [size |-> v.size, fd |-> v.fd, dirty |-> v.dirty,
           nextFree |-> v.nextFree,
           more |-> [v.more EXCEPT ![v.less[f]] = v.more[f], ![f] = 0],
           less |-> [v.less EXCEPT ![v.more[f]] = v.less[f], ![f] = 0],
           seekPos |-> v.seekPos, name |-> v.name, kpos |-> v.kpos,
           link |-> v.link, nfile |-> v.nfile, freeFd |-> v.freeFd,
           osRanOut |-> v.osRanOut, others |-> v.others]
  BY <1>2, <1>3 DEF Delete
<1>5. PICK e : e = KernelClose(d, f)
  OBVIOUS
<1>6. e = [size |-> v.size, fd |-> [v.fd EXCEPT ![f] = FALSE], dirty |-> v.dirty,
           nextFree |-> v.nextFree, more |-> d.more, less |-> d.less,
           seekPos |-> v.seekPos, name |-> v.name,
           kpos |-> [v.kpos EXCEPT ![f] = -1],
           link |-> [v.link EXCEPT ![f] = Absent], nfile |-> v.nfile,
           freeFd |-> v.freeFd, osRanOut |-> v.osRanOut, others |-> v.others]
  BY <1>4, <1>5, ZenonT(60) DEF KernelClose
<1>7. PICK w : w = LruDelete(s, f).v
  OBVIOUS
<1>8. w = [e EXCEPT !.seekPos[f] = v.kpos[f], !.dirty[f] = FALSE,
                    !.nfile = @ - 1, !.freeFd = @ + 1]
  BY <1>1, <1>3, <1>5, <1>7 DEF LruDelete
<1>9. w = [size |-> v.size, fd |-> [v.fd EXCEPT ![f] = FALSE],
           dirty |-> [v.dirty EXCEPT ![f] = FALSE], nextFree |-> v.nextFree,
           more |-> d.more, less |-> d.less,
           seekPos |-> [v.seekPos EXCEPT ![f] = v.kpos[f]], name |-> v.name,
           kpos |-> [v.kpos EXCEPT ![f] = -1],
           link |-> [v.link EXCEPT ![f] = Absent], nfile |-> v.nfile - 1,
           freeFd |-> v.freeFd + 1, osRanOut |-> v.osRanOut, others |-> v.others]
  BY <1>6, <1>8, ZenonT(60)
<1> QED BY <1>1, <1>4, <1>7, <1>9

-----------------------------------------------------------------------------
(* The ring: links g and h, after the change g1 and h1.                    *)

TakenOut(g, h, g1, h1, f) ==
  /\ g1 = [g EXCEPT ![h[f]] = g[f], ![f] = 0]
  /\ h1 = [h EXCEPT ![g[f]] = h[f], ![f] = 0]

PutIn(g, h, g1, h1, f) ==
  /\ g1 = [g EXCEPT ![f] = g[0], ![0] = f]
  /\ h1 = [h EXCEPT ![f] = 0, ![g[0]] = f]

LEMMA RingOut ==
  ASSUME NEW g \in [Slot -> Slot], NEW h \in [Slot -> Slot], NEW g1, NEW h1,
         NEW U, Circle(g, U), Back(h, g, U), NEW f \in U, TakenOut(g, h, g1, h1, f)
  PROVE  /\ g1 \in [Slot -> Slot] /\ h1 \in [Slot -> Slot]
         /\ Circle(g1, U \ {f}) /\ Back(h1, g1, U \ {f})
<1>1. /\ f \in Slot /\ f # 0 /\ 0 \in Slot /\ f \in Handle
      /\ \A x \in U \cup {0} : x \in Slot
  BY CircleFacts, SlotFacts, ZenonT(60)
<1>2. PICK e \in U \cup {0} : g[e] = f
  BY CircleFacts
<1>3. h[f] = e /\ e \in Slot
  BY <1>1, <1>2 DEF Back
<1>4. g[f] \in U \cup {0} /\ g[f] \in Slot
  BY <1>1, CircleFacts
<1>5. g1 \in [Slot -> Slot] /\ h1 \in [Slot -> Slot]
  BY <1>1, <1>3, <1>4 DEF TakenOut
<1>6. g[f] # f
  <2>1. g[f] = f => h[f] = f
    BY DEF Back
  <2>2. CASE g[f] = f
    <3>1. e = f
      BY <1>3, <2>1, <2>2
    <3>2. PICK q, n : Orders(q, n, g, U)
      BY DEF Circle
    <3>3. PICK i \in 0 .. n : f = q[i]
      BY <3>2, OrdersFacts
    <3>4. n \in Nat /\ q[0] = 0 /\ g[q[i]] = q[Succ(i, n)]
      BY <3>2 DEF Orders
    <3>5. Succ(i, n) \in 0 .. n /\ (Succ(i, n) = i => i = 0)
      BY <3>4 DEF Succ
    <3>6. Succ(i, n) = i
      BY <2>2, <3>2, <3>3, <3>4, <3>5 DEF Orders
    <3> QED BY <1>1, <3>3, <3>4, <3>5, <3>6
  <2> QED BY <2>2
<1>7. e # f
  BY <1>2, <1>6
<1>8. /\ g1[e] = g[f]
      /\ \A x \in Slot : x # e /\ x # f => g1[x] = g[x]
      /\ h1[g[f]] = e
      /\ \A x \in Slot : x # g[f] /\ x # f => h1[x] = h[x]
  BY <1>1, <1>3, <1>4, <1>6, <1>7 DEF TakenOut
<1>9. Circle(g1, U \ {f})
  <2>1. \A x \in (U \cup {0}) \ {e, f} : g1[x] = g[x]
    BY <1>1, <1>8
  <2> QED BY <1>2, <1>8, <2>1, CircleCut
<1>10. Back(h1, g1, U \ {f})
  <2> SUFFICES ASSUME NEW x \in (U \ {f}) \cup {0} PROVE h1[g1[x]] = x
    BY DEF Back
  <2>1. x \in Slot /\ x # f /\ x \in U \cup {0}
    BY <1>1
  <2>2. CASE x = e
    BY <1>8, <2>2
  <2>3. CASE x # e
    <3>1. g1[x] = g[x] /\ h[g[x]] = x
      BY <1>8, <2>1, <2>3 DEF Back
    <3>2. g[x] \in Slot
      BY <2>1
    <3>3. g[x] # f
      BY <1>3, <2>3, <3>1
    <3>4. g[x] # g[f]
      <4>1. h[g[f]] = f
        BY DEF Back
      <4> QED BY <2>1, <3>1, <4>1
    <3> QED BY <1>8, <3>1, <3>2, <3>3, <3>4
  <2> QED BY <2>2, <2>3
<1> QED BY <1>5, <1>9, <1>10

LEMMA RingIn ==
  ASSUME NEW g \in [Slot -> Slot], NEW h \in [Slot -> Slot], NEW g1, NEW h1,
         NEW U, Circle(g, U), Back(h, g, U), NEW f \in Handle, f \notin U,
         PutIn(g, h, g1, h1, f)
  PROVE  /\ g1 \in [Slot -> Slot] /\ h1 \in [Slot -> Slot]
         /\ Circle(g1, U \cup {f}) /\ Back(h1, g1, U \cup {f})
<1>1. /\ f \in Slot /\ f # 0 /\ 0 \in Slot
      /\ \A x \in U \cup {0} : x \in Slot /\ x # f
  BY CircleFacts, SlotFacts
<1>2. PICK m : m = g[0]
  OBVIOUS
<1>3. m \in U \cup {0} /\ m \in Slot /\ m # f
  BY <1>1, <1>2, CircleFacts
<1>4. g1 \in [Slot -> Slot] /\ h1 \in [Slot -> Slot]
  BY <1>1, <1>2, <1>3 DEF PutIn
<1>5. /\ g1[0] = f /\ g1[f] = m
      /\ \A x \in Slot : x # 0 /\ x # f => g1[x] = g[x]
      /\ h1[f] = 0 /\ h1[m] = f
      /\ \A x \in Slot : x # m /\ x # f => h1[x] = h[x]
  BY <1>1, <1>2, <1>3 DEF PutIn
<1>6. Circle(g1, U \cup {f})
  <2>1. \A x \in U : g1[x] = g[x]
    <3>1. \A x \in U : x # 0
      BY CircleFacts, SlotFacts
    <3> QED BY <1>1, <1>5, <3>1
  <2> QED BY <1>2, <1>5, <2>1, CirclePush
<1>7. Back(h1, g1, U \cup {f})
  <2> SUFFICES ASSUME NEW x \in (U \cup {f}) \cup {0} PROVE h1[g1[x]] = x
    BY DEF Back
  <2>1. CASE x = 0
    BY <1>5, <2>1
  <2>2. CASE x = f
    BY <1>5, <2>2
  <2>3. CASE x # 0 /\ x # f
    <3>1. x \in U /\ x \in Slot /\ g1[x] = g[x]
      BY <1>1, <1>5, <2>3
    <3>2. h[g[x]] = x /\ g[x] \in U \cup {0}
      BY <3>1, CircleFacts DEF Back
    <3>3. g[x] # m
      <4>1. h[m] = 0
        BY <1>2 DEF Back
      <4> QED BY <2>3, <3>2, <4>1
    <3> QED BY <1>1, <1>5, <3>1, <3>2, <3>3
  <2> QED BY <2>1, <2>2, <2>3
<1> QED BY <1>4, <1>6, <1>7

-----------------------------------------------------------------------------
(* The files.                                                              *)

SameData(k, l) ==
  \A n \in Name : /\ l[n] = Absent <=> k[n] = Absent
                  /\ k[n] # Absent => l[n].data = k[n].data

LEMMA AbsentFacts ==
  /\ Absent \notin Name
  /\ Absent \notin [data : Seq(Pages), disk : Seq(Pages)]
BY VfdAssumption DEF Pages

LEMMA StoreFacts ==
  ASSUME NEW k, k \in Store, NEW n \in Name, k[n] # Absent
  PROVE  /\ k[n] = [data |-> k[n].data, disk |-> k[n].disk]
         /\ k[n].data \in Seq(Pages) /\ k[n].disk \in Seq(Pages)
<1>1. k[n] \in [data : Seq(Pages), disk : Seq(Pages)]
  BY DEF Store
<1> QED BY <1>1

\* File n has pages d, and e on disk.
Filled(k, l, n, d, e) == l = [k EXCEPT ![n] = [data |-> d, disk |-> e]]

LEMMA StoreMade ==
  ASSUME NEW k, k \in Store, NEW n \in Name,
         NEW d \in Seq(Pages), NEW e \in Seq(Pages), NEW l, Filled(k, l, n, d, e)
  PROVE  /\ l \in Store /\ l[n] # Absent /\ l[n].data = d /\ l[n].disk = e
         /\ \A m \in Name : m # n => l[m] = k[m]
<1>1. [data |-> d, disk |-> e] \in [data : Seq(Pages), disk : Seq(Pages)]
  OBVIOUS
<1>2. l \in Store
  BY <1>1 DEF Store, Filled
<1>3. l[n] = [data |-> d, disk |-> e] /\ \A m \in Name : m # n => l[m] = k[m]
  BY DEF Store, Filled
<1>4. l[n] # Absent
  BY <1>1, <1>3, AbsentFacts
<1> QED BY <1>2, <1>3, <1>4

LEMMA FsyncForces ==
  ASSUME NEW k, k \in Store, NEW n \in Name \cup {Absent},
         n # Absent => k[n] # Absent, NEW l, l = Fsync(k, n)
  PROVE  /\ l \in Store /\ SameData(k, l)
         /\ n \in Name => Forced(l, n)
         /\ \A m \in Name : m # n => l[m] = k[m]
<1>1. CASE n = Absent
  BY <1>1, AbsentFacts DEF Fsync, SameData
<1>2. CASE n # Absent
  <2>1. n \in Name /\ k[n] # Absent
    BY <1>2
  <2>2. PICK d : d = k[n].data
    OBVIOUS
  <2>3. k[n] = [data |-> d, disk |-> k[n].disk] /\ d \in Seq(Pages)
    BY <2>1, <2>2, StoreFacts
  <2>4. Filled(k, l, n, d, d)
    <3>1. PICK x : x = k[n]
      OBVIOUS
    <3>2. [x EXCEPT !.disk = d] = [data |-> d, disk |-> d]
      BY <2>3, <3>1
    <3>3. l = [k EXCEPT ![n] = [k[n] EXCEPT !.disk = k[n].data]]
      BY <1>2 DEF Fsync
    <3>4. l = [k EXCEPT ![n] = [x EXCEPT !.disk = d]]
      BY <2>2, <3>1, <3>3
    <3> QED BY <3>2, <3>4 DEF Filled
  <2>5. /\ l \in Store /\ l[n] # Absent /\ l[n].data = d /\ l[n].disk = d
        /\ \A m \in Name : m # n => l[m] = k[m]
    BY <2>1, <2>3, <2>4, StoreMade
  <2>6. Forced(l, n)
    <3>1. Len(d) \in Nat
      BY <2>3
    <3>2. \A i \in 1 .. Len(d) : i <= Len(d)
      BY <3>1
    <3> QED BY <2>5, <3>2 DEF Forced
  <2>7. SameData(k, l)
    BY <2>1, <2>2, <2>5 DEF SameData
  <2> QED BY <2>5, <2>6, <2>7
<1> QED BY <1>1, <1>2

LEMMA SameDataTrans ==
  ASSUME NEW k, NEW l, NEW m, SameData(k, l), SameData(l, m)
  PROVE  SameData(k, m)
BY DEF SameData

-----------------------------------------------------------------------------
(* What one routine after the other does to the state of a process.        *)

\* What a call does not change but by what it is asked to.
Same(s, t) ==
  /\ t.v.size = s.v.size /\ t.v.nextFree = s.v.nextFree
  /\ t.v.others = s.v.others
  /\ t.v.name = s.v.name /\ At(t.v) = At(s.v)
  /\ SameData(s.k, t.k)

LEMMA SameTrans ==
  ASSUME NEW s, NEW t, NEW u, Same(s, t), Same(t, u)
  PROVE  Same(s, u)
BY SameDataTrans DEF Same

\* The routine gave up descriptors.
Fewer(s, t) == InUse(t.v) \subseteq InUse(s.v)

LEMMA InUseFacts ==
  ASSUME NEW v, NEW A, Proper(v, A)
  PROVE  /\ InUse(v) \subseteq Handle /\ InUse(v) \subseteq A /\ A \subseteq Handle
         /\ IsFiniteSet(InUse(v)) /\ Cardinality(InUse(v)) \in Nat
         /\ v.nfile = Cardinality(InUse(v)) /\ v.nfile \in Nat
         /\ (v.nfile > 0 <=> InUse(v) # {})
         /\ \A f \in Slot : f \in InUse(v) <=> v.fd[f]
<1>1. InUse(v) \subseteq Handle /\ IsFiniteSet(InUse(v)) /\ Cardinality(InUse(v)) \in Nat
  BY CircleFacts, SlotFacts DEF Proper, InRing
<1>2. Cardinality(InUse(v)) = 0 <=> InUse(v) = {}
  BY <1>1, FS_EmptySet
<1>3. v.nfile = Cardinality(InUse(v)) /\ InUse(v) \subseteq A /\ A \subseteq Handle
  BY DEF Proper, Counted, Listed
<1> QED BY <1>1, <1>2, <1>3 DEF InUse

\* LruDelete closes an open file: what it wrote is forced, and its position is
\* kept.
LEMMA Evicts ==
  ASSUME NEW s, NEW A, NEW H, NEW O, Sound(s, A, H, O), NEW f \in InUse(s.v),
         NEW t, t = LruDelete(s, f)
  PROVE  /\ Sound(t, A, H, O) /\ Same(s, t)
         /\ InUse(t.v) = InUse(s.v) \ {f}
         /\ t.v.nfile = s.v.nfile - 1 /\ t.v.freeFd = s.v.freeFd + 1
         /\ t.v.osRanOut = s.v.osRanOut
<1>1. PICK v : v = s.v
  OBVIOUS
<1>2. PICK k : k = s.k
  OBVIOUS
<1>3. PICK w : w = t.v
  OBVIOUS
<1>4. /\ v \in Vfds /\ InRing(v) /\ Listed(v, A) /\ Counted(v) /\ Placed(v)
      /\ k \in Store /\ H \subseteq A /\ Linked(v, k, H) /\ Tracked(v, k, O)
  BY <1>1, <1>2 DEF Sound, Proper
<1>5. /\ f \in Slot /\ f \in Handle /\ f \in A /\ v.fd[f]
      /\ IsFiniteSet(InUse(v)) /\ v.nfile = Cardinality(InUse(v))
      /\ v.nfile \in Nat /\ v.nfile > 0 /\ f \in InUse(v)
  <2>1. Proper(v, A)
    BY <1>1 DEF Sound
  <2> QED BY <1>1, <2>1, InUseFacts, SlotFacts
<1>6. w = [size |-> v.size, fd |-> [v.fd EXCEPT ![f] = FALSE],
          dirty |-> [v.dirty EXCEPT ![f] = FALSE], nextFree |-> v.nextFree,
          more |-> [v.more EXCEPT ![v.less[f]] = v.more[f], ![f] = 0],
          less |-> [v.less EXCEPT ![v.more[f]] = v.less[f], ![f] = 0],
          seekPos |-> [v.seekPos EXCEPT ![f] = v.kpos[f]], name |-> v.name,
          kpos |-> [v.kpos EXCEPT ![f] = -1],
          link |-> [v.link EXCEPT ![f] = Absent], nfile |-> v.nfile - 1,
          freeFd |-> v.freeFd + 1, osRanOut |-> v.osRanOut, others |-> v.others]
  BY <1>1, <1>3, <1>4, <1>5, LruDeleteFields
<1>7. w.fd = [v.fd EXCEPT ![f] = FALSE] /\ w.dirty = [v.dirty EXCEPT ![f] = FALSE]
  BY <1>6
<1>8. TakenOut(v.less, v.more, w.less, w.more, f)
  BY <1>6 DEF TakenOut
<1>9. /\ w.size = v.size /\ w.nextFree = v.nextFree /\ w.name = v.name
      /\ w.nfile = v.nfile - 1 /\ w.freeFd = v.freeFd + 1
      /\ w.osRanOut = v.osRanOut /\ w.others = v.others
  BY <1>6
<1>10. w.kpos = [v.kpos EXCEPT ![f] = -1] /\ w.link = [v.link EXCEPT ![f] = Absent]
  BY <1>6
<1>11. w.seekPos = v.seekPos
  <2>1. w.seekPos = [v.seekPos EXCEPT ![f] = v.kpos[f]]
    BY <1>6
  <2>2. v.kpos[f] = v.seekPos[f]
    BY <1>4, <1>5 DEF Placed
  <2>3. v.seekPos \in [Slot -> Int]
    BY <1>4, VfdTypes
  <2> QED BY <2>1, <2>2, <2>3
<1>12. InUse(w) = InUse(v) \ {f}
  <2>1. v.fd \in [Slot -> BOOLEAN]
    BY <1>4, VfdTypes
  <2>2. \A e \in Slot : w.fd[e] <=> v.fd[e] /\ e # f
    BY <1>5, <1>7, <2>1
  <2> QED BY <2>2 DEF InUse
<1>13. /\ w.less \in [Slot -> Slot] /\ w.more \in [Slot -> Slot]
       /\ InRing(w)
  <2>1. v.less \in [Slot -> Slot] /\ v.more \in [Slot -> Slot]
    BY <1>4, VfdTypes
  <2>2. Circle(v.less, InUse(v)) /\ Back(v.more, v.less, InUse(v))
    BY <1>4 DEF InRing
  <2>3. /\ w.less \in [Slot -> Slot] /\ w.more \in [Slot -> Slot]
        /\ Circle(w.less, InUse(v) \ {f}) /\ Back(w.more, w.less, InUse(v) \ {f})
    BY <1>5, <1>8, <2>1, <2>2, RingOut
  <2> QED BY <1>12, <2>3 DEF InRing
<1>14. w \in Vfds
  <2>1. /\ v.size \in 0 .. MaxVfd /\ v.nextFree \in [Slot -> Slot]
        /\ v.name \in [Slot -> Name \cup {Absent}] /\ v.seekPos \in [Slot -> Int]
        /\ v.osRanOut \in BOOLEAN /\ v.others \in 0 .. OsMax - 1
    BY <1>4 DEF Vfds
  <2>2. w.fd \in [Slot -> BOOLEAN]
    <3>1. v.fd \in [Slot -> BOOLEAN]
      BY <1>4, VfdTypes
    <3>2. \A e \in Slot : w.fd[e] \in BOOLEAN
      BY <1>7, <3>1
    <3> QED BY <1>7, <3>1, <3>2
  <2>3. w.dirty \in [Slot -> BOOLEAN]
    <3>1. v.dirty \in [Slot -> BOOLEAN]
      BY <1>4, VfdTypes
    <3> QED BY <1>7, <3>1
  <2>4. w.kpos \in [Slot -> Int]
    <3>1. v.kpos \in [Slot -> Int] /\ -1 \in Int
      BY <1>4, VfdTypes
    <3> QED BY <1>10, <3>1
  <2>5. w.link \in [Slot -> Name \cup {Absent}]
    <3>1. v.link \in [Slot -> Name \cup {Absent}]
      BY <1>4, VfdTypes
    <3> QED BY <1>10, <3>1
  <2>6. v.nfile - 1 \in Int /\ v.freeFd + 1 \in Nat
    BY <1>4, VfdTypes
  <2> QED BY <1>6, <1>9, <1>11, <1>13, <2>1, <2>2, <2>3, <2>4, <2>5, <2>6 DEF Vfds
<1>15. Listed(w, A)
  <2>1. Unused(w, A) = Unused(v, A)
    BY <1>9 DEF Unused
  <2> QED BY <1>4, <1>9, <1>12, <2>1 DEF Listed
<1>16. Counted(w)
  <2>1. Cardinality(InUse(w)) = Cardinality(InUse(v)) - 1
    <3>1. Cardinality(InUse(v) \ {f}) = Cardinality(InUse(v)) - 1
      BY <1>5, FS_RemoveElement
    <3> QED BY <1>12, <3>1
  <2>2. PgNofile \in Int /\ OsMax \in Int /\ v.others \in Int
    BY <1>4, VfdAssumption, VfdTypes
  <2>3. v.nfile <= PgNofile /\ v.nfile + v.others <= OsMax
    BY <1>4 DEF Counted
  <2>4. v.nfile - 1 <= PgNofile /\ v.nfile - 1 + v.others <= OsMax
    BY <1>5, <2>2, <2>3
  <2> QED BY <1>5, <1>9, <2>1, <2>4 DEF Counted
<1>17. Placed(w)
  <2> SUFFICES ASSUME NEW e \in Slot
               PROVE  /\ w.fd[e] => w.kpos[e] = w.seekPos[e] /\ w.seekPos[e] >= 0
                      /\ ~ w.fd[e] => w.kpos[e] = -1 /\ w.seekPos[e] >= -1
    BY DEF Placed
  <2>1. /\ v.fd[e] => v.kpos[e] = v.seekPos[e] /\ v.seekPos[e] >= 0
        /\ ~ v.fd[e] => v.kpos[e] = -1 /\ v.seekPos[e] >= -1
    BY <1>4 DEF Placed
  <2>2. v.fd \in [Slot -> BOOLEAN] /\ v.kpos \in [Slot -> Int]
        /\ v.seekPos \in [Slot -> Int]
    BY <1>4, VfdTypes
  <2>3. CASE e = f
    <3>1. ~ w.fd[e] /\ w.kpos[e] = -1
      BY <1>5, <1>7, <1>10, <2>2, <2>3
    <3>2. v.fd[e]
      BY <1>5, <2>3
    <3>3. w.seekPos[e] >= 0 /\ w.seekPos[e] \in Int
      BY <1>11, <2>1, <2>2, <3>2
    <3> QED BY <3>1, <3>3
  <2>4. CASE e # f
    BY <1>7, <1>10, <1>11, <2>1, <2>2, <2>4
  <2> QED BY <2>3, <2>4
<1>18. v.link[f] \in Name \cup {Absent} /\ (v.link[f] # Absent => k[v.link[f]] # Absent)
  <2>1. v.link[f] = IF f \in H THEN v.name[f] ELSE Absent
    BY <1>4, <1>5 DEF Linked
  <2> QED BY <1>4, <2>1 DEF Linked
<1>19. PICK l : l = t.k
  OBVIOUS
<1>20. t = [v |-> w, k |-> l] /\ l = IF v.dirty[f] THEN Fsync(k, v.link[f]) ELSE k
  BY <1>1, <1>2, <1>3, <1>19 DEF LruDelete
<1>21. /\ l \in Store /\ SameData(k, l)
       /\ v.dirty[f] /\ v.link[f] \in Name => Forced(l, v.link[f])
       /\ \A n \in Name : n # v.link[f] \/ ~ v.dirty[f] => l[n] = k[n]
  <2>1. CASE v.dirty[f]
    <3>1. PICK n : n = v.link[f]
      OBVIOUS
    <3>2. n \in Name \cup {Absent} /\ (n # Absent => k[n] # Absent) /\ l = Fsync(k, n)
      BY <1>18, <1>20, <2>1, <3>1
    <3>3. /\ l \in Store /\ SameData(k, l) /\ (n \in Name => Forced(l, n))
          /\ \A m \in Name : m # n => l[m] = k[m]
      BY <1>4, <3>2, FsyncForces
    <3> QED BY <2>1, <3>1, <3>3
  <2>2. CASE ~ v.dirty[f]
    BY <1>4, <1>20, <2>2 DEF SameData
  <2> QED BY <2>1, <2>2
<1>22. Linked(w, l, H)
  <2>1. ASSUME NEW e \in H PROVE w.name[e] \in Name /\ l[w.name[e]] # Absent
    <3>1. v.name[e] \in Name /\ k[v.name[e]] # Absent
      BY <1>4 DEF Linked
    <3> QED BY <1>9, <1>21, <3>1 DEF SameData
  <2>2. ASSUME NEW e \in InUse(w)
        PROVE  w.link[e] = IF e \in H THEN w.name[e] ELSE Absent
    <3>1. e \in InUse(v) /\ e # f /\ e \in Slot
      BY <1>12 DEF InUse
    <3>2. v.link[e] = IF e \in H THEN v.name[e] ELSE Absent
      BY <1>4, <3>1 DEF Linked
    <3>3. w.link[e] = v.link[e]
      <4>1. v.link \in [Slot -> Name \cup {Absent}]
        BY <1>4, VfdTypes
      <4> QED BY <1>10, <3>1, <4>1
    <3> QED BY <1>9, <3>2, <3>3
  <2> QED BY <2>1, <2>2 DEF Linked
<1>23. Tracked(w, l, O)
  <2> SUFFICES ASSUME NEW n \in Name, l[n] # Absent, ~ Forced(l, n), n \notin O
               PROVE  n \in Dirty(w)
    BY DEF Tracked
  <2>1. ~(v.dirty[f] /\ v.link[f] = n)
    BY <1>21
  <2>2. l[n] = k[n]
    BY <1>21, <2>1
  <2>3. n \in Dirty(v)
    BY <1>4, <2>2 DEF Tracked, Forced
  <2>4. PICK e \in InUse(v) : v.dirty[e] /\ v.link[e] = n
    BY <2>3 DEF Dirty
  <2>5. e # f /\ e \in Slot /\ e \in InUse(w)
    BY <1>12, <2>1, <2>4 DEF InUse
  <2>6. w.dirty[e] /\ w.link[e] = n
    <3>1. v.link \in [Slot -> Name \cup {Absent}] /\ v.dirty \in [Slot -> BOOLEAN]
      BY <1>4, VfdTypes
    <3> QED BY <1>7, <1>10, <2>4, <2>5, <3>1
  <2> QED BY <2>5, <2>6 DEF Dirty
<1>24. Proper(w, A)
  BY <1>13, <1>14, <1>15, <1>16, <1>17 DEF Proper
<1>25. t.v = w /\ t.k = l /\ t = [v |-> t.v, k |-> t.k]
  BY <1>20
<1>26. Sound(t, A, H, O)
  BY <1>4, <1>21, <1>22, <1>23, <1>24, <1>25 DEF Sound
<1>27. Same(s, t)
  BY <1>1, <1>2, <1>9, <1>11, <1>21, <1>25 DEF Same, At
<1> QED BY <1>1, <1>9, <1>12, <1>25, <1>26, <1>27

\* The same files are open, in the same slots.
Edits(v, w) ==
  /\ w \in Vfds
  /\ w.size = v.size /\ w.fd = v.fd /\ w.nextFree = v.nextFree
  /\ w.nfile = v.nfile /\ w.others = v.others
  /\ w.name = v.name /\ w.link = v.link
  /\ \A f \in Slot : v.dirty[f] => w.dirty[f]

LEMMA EditSound ==
  ASSUME NEW s, NEW A, NEW H, NEW O, Sound(s, A, H, O), NEW w, NEW t,
         t = [v |-> w, k |-> s.k], Edits(s.v, w), InRing(w), Placed(w)
  PROVE  Sound(t, A, H, O) /\ InUse(w) = InUse(s.v) /\ t.v = w /\ t.k = s.k
<1>1. PICK v : v = s.v
  OBVIOUS
<1>2. /\ v \in Vfds /\ InRing(v) /\ Listed(v, A) /\ Counted(v) /\ Placed(v)
      /\ s.k \in Store /\ H \subseteq A /\ Linked(v, s.k, H) /\ Tracked(v, s.k, O)
  BY <1>1 DEF Sound, Proper
<1>3. InUse(w) = InUse(v)
  BY <1>1 DEF Edits, InUse
<1>4. Listed(w, A) /\ Counted(w)
  <2>1. Unused(w, A) = Unused(v, A)
    BY <1>1 DEF Edits, Unused
  <2> QED BY <1>1, <1>2, <1>3, <2>1 DEF Edits, Listed, Counted
<1>5. Proper(w, A)
  BY <1>4 DEF Proper, Edits
<1>6. Linked(w, s.k, H)
  BY <1>1, <1>2, <1>3 DEF Linked, Edits
<1>7. Tracked(w, s.k, O)
  <2>1. Dirty(v) \subseteq Dirty(w)
    <3> SUFFICES ASSUME NEW n \in Dirty(v) PROVE n \in Dirty(w)
      OBVIOUS
    <3>1. PICK f \in InUse(v) : v.dirty[f] /\ v.link[f] = n
      BY DEF Dirty
    <3>2. f \in InUse(w) /\ f \in Slot
      BY <1>3 DEF InUse
    <3>3. w.dirty[f] /\ w.link[f] = n
      BY <1>1, <3>1, <3>2 DEF Edits
    <3> QED BY <3>2, <3>3 DEF Dirty
  <2> QED BY <1>2, <2>1 DEF Tracked
<1> QED BY <1>1, <1>2, <1>3, <1>5, <1>6, <1>7 DEF Sound

LEMMA SoundType ==
  ASSUME NEW s, NEW A, NEW H, NEW O, Sound(s, A, H, O)
  PROVE  s.v \in Vfds /\ Proper(s.v, A) /\ s = [v |-> s.v, k |-> s.k] /\ s.k \in Store
BY DEF Sound, Proper

\* AssertLruRoom leaves a descriptor to open a file with.
LEMMA MakesRoom ==
  ASSUME NEW s, NEW A, NEW H, NEW O, Sound(s, A, H, O), Spare(s.v),
         NEW t, t = AssertLruRoom(s)
  PROVE  /\ Sound(t, A, H, O) /\ Same(s, t) /\ Fewer(s, t)
         /\ t.v.nfile < PgNofile /\ t.v.freeFd > 0
         /\ t.v.osRanOut = s.v.osRanOut
         /\ t = s \/ t.v.nfile < s.v.nfile
<1>0. /\ s.v \in Vfds /\ Proper(s.v, A) /\ s.v.freeFd \in Nat /\ s.v.nfile \in Int
      /\ PgNofile \in Nat /\ PgNofile # 0 /\ s.v.nfile <= PgNofile
  BY SoundType, VfdTypes, VfdAssumption DEF Proper, Counted
<1>1. CASE s.v.freeFd <= 0 \/ s.v.nfile >= PgNofile
  <2>1. InUse(s.v) # {}
    <3>1. s.v.nfile >= PgNofile => s.v.nfile > 0
      BY <1>0
    <3>2. s.v.nfile > 0 => InUse(s.v) # {}
      BY <1>0, InUseFacts
    <3>3. s.v.freeFd <= 0 => ~(s.v.freeFd > 0)
      BY <1>0
    <3> QED BY <1>1, <3>1, <3>2, <3>3 DEF Spare
  <2>2. s.v.more[0] \in InUse(s.v)
    <3>1. Circle(s.v.less, InUse(s.v)) /\ Back(s.v.more, s.v.less, InUse(s.v))
      BY <1>0 DEF Proper, InRing
    <3>0. 0 \in InUse(s.v) \cup {0}
      OBVIOUS
    <3>2. PICK e \in InUse(s.v) \cup {0} : s.v.less[e] = 0
      <4>1. \A x \in InUse(s.v) \cup {0} : \E e \in InUse(s.v) \cup {0} : s.v.less[e] = x
        BY <3>1, CircleFacts
      <4> QED BY <3>0, <4>1
    <3>3. s.v.less[0] # 0
      BY <2>1, <3>1, CircleFacts
    <3>4. s.v.more[0] = e
      BY <3>1, <3>2 DEF Back
    <3> QED BY <3>2, <3>3, <3>4
  <2>3. PICK f : f = s.v.more[0]
    OBVIOUS
  <2>4. t = LruDelete(s, f) /\ f \in InUse(s.v)
    BY <1>1, <2>2, <2>3 DEF AssertLruRoom
  <2>5. /\ Sound(t, A, H, O) /\ Same(s, t)
        /\ InUse(t.v) = InUse(s.v) \ {f}
        /\ t.v.nfile = s.v.nfile - 1 /\ t.v.freeFd = s.v.freeFd + 1
        /\ t.v.osRanOut = s.v.osRanOut
    BY <2>4, Evicts
  <2>6. t.v.nfile < PgNofile /\ t.v.freeFd > 0 /\ t.v.nfile < s.v.nfile
    BY <1>0, <2>5
  <2> QED BY <2>5, <2>6 DEF Fewer
<1>2. CASE ~(s.v.freeFd <= 0 \/ s.v.nfile >= PgNofile)
  <2>1. t = s
    BY <1>2 DEF AssertLruRoom
  <2>2. s.v.nfile < PgNofile /\ s.v.freeFd > 0
    BY <1>0, <1>2
  <2> QED BY <2>1, <2>2 DEF Same, SameData, Fewer
<1> QED BY <1>1, <1>2

\* The loop at tryAgain ends with a descriptor to be had from the kernel.
LEMMA TriesAgain ==
  ASSUME NEW s, NEW A, NEW H, NEW O, Sound(s, A, H, O), NEW ran \in BOOLEAN,
         NEW t, t = TryAgain(s, ran)
  PROVE  /\ Sound(t, A, H, O) /\ Same(s, t) /\ Fewer(s, t)
         /\ t.v.nfile <= s.v.nfile
         /\ t.v.nfile + t.v.others < OsMax
         /\ t = s \/ t.v.freeFd > 0
<1>0. /\ s.v \in Vfds /\ Proper(s.v, A) /\ s.v.nfile \in Int /\ s.v.others \in Nat
      /\ s.v.nfile = Cardinality(InUse(s.v)) /\ s.v.others < OsMax /\ OsMax \in Nat
  <2>1. s.v \in Vfds /\ Proper(s.v, A) /\ OsMax \in Nat
    BY SoundType, VfdAssumption
  <2> QED BY <2>1, VfdTypes, InUseFacts
<1>1. CASE NullOpens(s.v)
  <2>1. t = s
    BY <1>1 DEF TryAgain
  <2> QED BY <1>0, <1>1, <2>1 DEF Same, SameData, Fewer, NullOpens
<1>2. CASE ~ NullOpens(s.v)
  <2>1. PICK v : v = s.v
    OBVIOUS
  <2>2. PICK w : w = [s.v EXCEPT !.freeFd = 0, !.osRanOut = @ \/ ran]
    OBVIOUS
  <2>3. PICK u : u = [v |-> w, k |-> s.k]
    OBVIOUS
  <2>5. t = AssertLruRoom(u)
    BY <1>2, <2>2, <2>3 DEF TryAgain
  <2>6. v = [size |-> v.size, fd |-> v.fd, dirty |-> v.dirty,
                 nextFree |-> v.nextFree, more |-> v.more, less |-> v.less,
                 seekPos |-> v.seekPos, name |-> v.name, kpos |-> v.kpos,
                 link |-> v.link, nfile |-> v.nfile, freeFd |-> v.freeFd,
                 osRanOut |-> v.osRanOut, others |-> v.others]
    BY <1>0, <2>1, VfdTypes
  <2>7. w = [size |-> v.size, fd |-> v.fd, dirty |-> v.dirty,
                 nextFree |-> v.nextFree, more |-> v.more, less |-> v.less,
                 seekPos |-> v.seekPos, name |-> v.name, kpos |-> v.kpos,
                 link |-> v.link, nfile |-> v.nfile, freeFd |-> 0,
                 osRanOut |-> v.osRanOut \/ ran, others |-> v.others]
    BY <2>1, <2>2, <2>6
  <2>8. /\ w.size = v.size /\ w.fd = v.fd /\ w.dirty = v.dirty
        /\ w.nextFree = v.nextFree /\ w.more = v.more /\ w.less = v.less
        /\ w.seekPos = v.seekPos /\ w.name = v.name /\ w.kpos = v.kpos
        /\ w.link = v.link /\ w.nfile = v.nfile /\ w.others = v.others
    BY <2>7
  <2>9. w \in Vfds
    <3>1. 0 \in Nat /\ (v.osRanOut \/ ran) \in BOOLEAN
      BY <1>0, <2>1, VfdTypes
    <3>2. /\ v.size \in 0 .. MaxVfd /\ v.fd \in [Slot -> BOOLEAN]
          /\ v.dirty \in [Slot -> BOOLEAN]
          /\ v.nextFree \in [Slot -> Slot] /\ v.more \in [Slot -> Slot]
          /\ v.less \in [Slot -> Slot] /\ v.seekPos \in [Slot -> Int]
          /\ v.name \in [Slot -> Name \cup {Absent}] /\ v.kpos \in [Slot -> Int]
          /\ v.link \in [Slot -> Name \cup {Absent}]
          /\ v.nfile \in Int /\ v.others \in 0 .. OsMax - 1
      BY <1>0, <2>1 DEF Vfds
    <3> QED BY <2>7, <3>1, <3>2, VfdMade, ZenonT(60)
  <2>10. Edits(v, w)
    BY <2>8, <2>9 DEF Edits
  <2>11. InRing(w) /\ Placed(w)
    <3>1. InRing(v) /\ Placed(v)
      BY <1>0, <2>1 DEF Proper
    <3>2. InUse(w) = InUse(v)
      BY <2>8 DEF InUse
    <3> QED BY <2>8, <3>1, <3>2 DEF InRing, Placed
  <2>12. Sound(u, A, H, O) /\ InUse(w) = InUse(v) /\ u.v = w /\ u.k = s.k
    BY <2>1, <2>3, <2>10, <2>11, EditSound
  <2>13. InUse(v) # {} /\ v.nfile > 0
    <3>1. s.v.nfile > 0
      BY <1>0, <1>2 DEF NullOpens
    <3>2. InUse(s.v) # {}
      BY <1>0, <3>1, InUseFacts
    <3> QED BY <2>1, <3>1, <3>2
  <2>14. /\ Sound(t, A, H, O) /\ Same(u, t) /\ Fewer(u, t)
         /\ t.v.freeFd > 0 /\ (t = u \/ t.v.nfile < u.v.nfile)
    BY <2>5, <2>12, <2>13, MakesRoom DEF Spare
  <2>15. t # u
    <3>1. u.v.freeFd = 0
      BY <2>7, <2>12
    <3> QED BY <2>14, <3>1
  <2>16. t.v.nfile < v.nfile /\ t.v.others = v.others /\ t.v.nfile \in Int
    <3>1. t.v \in Vfds
      BY <2>14, SoundType
    <3> QED BY <2>8, <2>12, <2>14, <2>15, <3>1, VfdTypes DEF Same, At
  <2>17. v.nfile + v.others <= OsMax
    BY <1>0, <2>1 DEF Proper, Counted
  <2>18. t.v.nfile <= v.nfile /\ t.v.nfile + t.v.others < OsMax
    BY <1>0, <2>1, <2>16, <2>17
  <2>19. Same(s, t) /\ Fewer(s, t)
    BY <2>1, <2>8, <2>12, <2>14 DEF Same, At, Fewer
  <2> QED BY <2>1, <2>14, <2>18, <2>19
<1> QED BY <1>1, <1>2

\* open() with O_CREAT makes an empty file where there is none.
LEMMA CreatedFacts ==
  ASSUME NEW k, k \in Store, NEW n \in Name, NEW l, l = Created(k, n)
  PROVE  /\ l \in Store /\ l[n] # Absent
         /\ k[n] # Absent => l = k
         /\ k[n] = Absent => l[n].data = <<>> /\ Forced(l, n)
         /\ \A m \in Name : m # n => l[m] = k[m]
<1>1. CASE k[n] = Absent
  <2>0. PICK d : d = <<>>
    OBVIOUS
  <2>1. Filled(k, l, n, d, d)
    BY <1>1, <2>0 DEF Created, Filled
  <2>2. d \in Seq(Pages)
    BY <2>0
  <2>l. Len(d) = 0
    BY <2>0
  <2>3. /\ l \in Store /\ l[n] # Absent /\ l[n].data = d
        /\ \A m \in Name : m # n => l[m] = k[m]
    BY <2>1, <2>2, StoreMade
  <2>4. Forced(l, n)
    BY <2>l, <2>3 DEF Forced
  <2> QED BY <1>1, <2>0, <2>3, <2>4
<1>2. CASE k[n] # Absent
  <2>1. l = k
    BY <1>2 DEF Created, Store
  <2> QED BY <1>2, <2>1
<1> QED BY <1>1, <1>2

\* File n is opened for slot f, at position i, and put into the ring.
OpensAs(v, w, f, n, i, g) ==
  w = [size |-> v.size, fd |-> [v.fd EXCEPT ![f] = TRUE],
       dirty |-> [v.dirty EXCEPT ![f] = FALSE], nextFree |-> v.nextFree,
       more |-> [v.more EXCEPT ![f] = 0, ![v.less[0]] = f],
       less |-> [v.less EXCEPT ![f] = v.less[0], ![0] = f],
       seekPos |-> [v.seekPos EXCEPT ![f] = i],
       name |-> [v.name EXCEPT ![f] = n],
       kpos |-> [v.kpos EXCEPT ![f] = i],
       link |-> [v.link EXCEPT ![f] = n], nfile |-> v.nfile + 1,
       freeFd |-> g, osRanOut |-> v.osRanOut, others |-> v.others]

LEMMA OpenSound ==
  ASSUME NEW s, NEW A, NEW H, NEW O, Sound(s, A, H, O), NEW f \in A,
         f \notin InUse(s.v), NEW n \in Name, NEW i \in Nat, NEW fr \in Nat,
         s.v.nfile < PgNofile, s.v.nfile + s.v.others < OsMax,
         NEW t, IsPair(t), t.k = Created(s.k, n), OpensAs(s.v, t.v, f, n, i, fr)
  PROVE  Sound(t, A, H \cup {f}, O) /\ InUse(t.v) = InUse(s.v) \cup {f}
<1>1. PICK v : v = s.v
  OBVIOUS
<1>2. PICK k : k = s.k
  OBVIOUS
<1>3. PICK w : w = t.v
  OBVIOUS
<1>4. /\ v \in Vfds /\ InRing(v) /\ Listed(v, A) /\ Counted(v) /\ Placed(v)
      /\ k \in Store /\ H \subseteq A /\ Linked(v, k, H) /\ Tracked(v, k, O)
  BY <1>1, <1>2 DEF Sound, Proper
<1>5. /\ f \in Slot /\ f \in Handle /\ ~ v.fd[f] /\ f \notin InUse(v)
      /\ IsFiniteSet(InUse(v)) /\ v.nfile = Cardinality(InUse(v))
      /\ v.nfile \in Nat /\ v.others \in Nat
  <2>1. Proper(v, A)
    BY <1>1 DEF Sound
  <2>2. f \in Handle /\ f \in Slot /\ v.others \in Nat
    BY <1>4, <2>1, InUseFacts, SlotFacts, VfdTypes
  <2> QED BY <1>1, <2>1, <2>2, InUseFacts
<1>6. OpensAs(v, w, f, n, i, fr)
  BY <1>1, <1>3
<1>7. /\ w.fd = [v.fd EXCEPT ![f] = TRUE] /\ w.dirty = [v.dirty EXCEPT ![f] = FALSE]
      /\ w.kpos = [v.kpos EXCEPT ![f] = i] /\ w.link = [v.link EXCEPT ![f] = n]
      /\ w.seekPos = [v.seekPos EXCEPT ![f] = i]
      /\ w.name = [v.name EXCEPT ![f] = n]
  BY <1>6 DEF OpensAs
<1>8. PutIn(v.less, v.more, w.less, w.more, f)
  BY <1>6 DEF OpensAs, PutIn
<1>9. /\ w.size = v.size /\ w.nextFree = v.nextFree /\ w.nfile = v.nfile + 1
      /\ w.freeFd = fr /\ w.osRanOut = v.osRanOut /\ w.others = v.others
  BY <1>6 DEF OpensAs
<1>10. /\ v.fd \in [Slot -> BOOLEAN] /\ v.dirty \in [Slot -> BOOLEAN]
       /\ v.kpos \in [Slot -> Int] /\ v.link \in [Slot -> Name \cup {Absent}]
       /\ v.seekPos \in [Slot -> Int] /\ v.name \in [Slot -> Name \cup {Absent}]
       /\ v.more \in [Slot -> Slot] /\ v.less \in [Slot -> Slot]
  BY <1>4, VfdTypes
<1>11. /\ w.fd[f] /\ ~ w.dirty[f] /\ w.kpos[f] = i /\ w.link[f] = n
       /\ w.seekPos[f] = i /\ w.name[f] = n
  BY <1>5, <1>7, <1>10
<1>12. ASSUME NEW e \in Slot, e # f
       PROVE  /\ w.fd[e] = v.fd[e] /\ w.dirty[e] = v.dirty[e] /\ w.kpos[e] = v.kpos[e]
              /\ w.link[e] = v.link[e] /\ w.seekPos[e] = v.seekPos[e]
              /\ w.name[e] = v.name[e]
  BY <1>7, <1>10, <1>12
<1>13. InUse(w) = InUse(v) \cup {f}
  <2>1. \A e \in Slot : w.fd[e] <=> v.fd[e] \/ e = f
    BY <1>11, <1>12
  <2> QED BY <1>5, <2>1 DEF InUse
<1>14. w.less \in [Slot -> Slot] /\ w.more \in [Slot -> Slot] /\ InRing(w)
  <2>2. Circle(v.less, InUse(v)) /\ Back(v.more, v.less, InUse(v))
    BY <1>4 DEF InRing
  <2>3. /\ w.less \in [Slot -> Slot] /\ w.more \in [Slot -> Slot]
        /\ Circle(w.less, InUse(v) \cup {f}) /\ Back(w.more, w.less, InUse(v) \cup {f})
    BY <1>5, <1>8, <1>10, <2>2, RingIn
  <2> QED BY <1>13, <2>3 DEF InRing
<1>15. w \in Vfds
  <2>1. /\ v.size \in 0 .. MaxVfd /\ v.nextFree \in [Slot -> Slot]
        /\ v.osRanOut \in BOOLEAN /\ v.others \in 0 .. OsMax - 1
    BY <1>4 DEF Vfds
  <2>2. w.fd \in [Slot -> BOOLEAN] /\ w.dirty \in [Slot -> BOOLEAN]
    <3>1. TRUE \in BOOLEAN /\ FALSE \in BOOLEAN
      BY Zenon
    <3>2. w.fd = [v.fd EXCEPT ![f] = TRUE] /\ v.fd \in [Slot -> BOOLEAN]
      BY <1>7, <1>10
    <3>3. w.dirty = [v.dirty EXCEPT ![f] = FALSE] /\ v.dirty \in [Slot -> BOOLEAN]
      BY <1>7, <1>10
    <3>4. w.fd \in [Slot -> BOOLEAN]
      BY <3>1, <3>2
    <3>5. w.dirty \in [Slot -> BOOLEAN]
      BY <3>1, <3>3
    <3> QED BY <3>4, <3>5
  <2>3. w.kpos \in [Slot -> Int] /\ w.seekPos \in [Slot -> Int]
    <3>1. i \in Int
      OBVIOUS
    <3>2. w.kpos = [v.kpos EXCEPT ![f] = i] /\ v.kpos \in [Slot -> Int]
      BY <1>7, <1>10
    <3>3. w.seekPos = [v.seekPos EXCEPT ![f] = i] /\ v.seekPos \in [Slot -> Int]
      BY <1>7, <1>10
    <3>4. w.kpos \in [Slot -> Int]
      BY <3>1, <3>2
    <3>5. w.seekPos \in [Slot -> Int]
      BY <3>1, <3>3
    <3> QED BY <3>4, <3>5
  <2>4. w.link \in [Slot -> Name \cup {Absent}] /\ w.name \in [Slot -> Name \cup {Absent}]
    <3>1. w.link = [v.link EXCEPT ![f] = n] /\ v.link \in [Slot -> Name \cup {Absent}]
      BY <1>7, <1>10
    <3>2. w.name = [v.name EXCEPT ![f] = n] /\ v.name \in [Slot -> Name \cup {Absent}]
      BY <1>7, <1>10
    <3>3. w.link \in [Slot -> Name \cup {Absent}]
      BY <3>1
    <3>4. w.name \in [Slot -> Name \cup {Absent}]
      BY <3>2
    <3> QED BY <3>3, <3>4
  <2>5. v.nfile + 1 \in Int
    BY <1>5
  <2> QED BY <1>6, <1>7, <1>9, <1>14, <2>1, <2>2, <2>3, <2>4, <2>5 DEF Vfds, OpensAs
<1>16. Listed(w, A)
  <2>1. Unused(w, A) = Unused(v, A)
    BY <1>9 DEF Unused
  <2> QED BY <1>4, <1>9, <1>13, <2>1 DEF Listed
<1>17. Counted(w)
  <2>1. Cardinality(InUse(w)) = Cardinality(InUse(v)) + 1
    <3>1. Cardinality(InUse(v) \cup {f}) = Cardinality(InUse(v)) + 1
      BY <1>5, FS_AddElement
    <3> QED BY <1>13, <3>1
  <2>2. PgNofile \in Int /\ OsMax \in Int
    BY VfdAssumption
  <2>3. v.nfile < PgNofile /\ v.nfile + v.others < OsMax
    BY <1>1
  <2>4. v.nfile + 1 <= PgNofile /\ v.nfile + 1 + v.others <= OsMax
    BY <1>5, <2>2, <2>3
  <2> QED BY <1>5, <1>9, <2>1, <2>4 DEF Counted
<1>18. Placed(w)
  <2> SUFFICES ASSUME NEW e \in Slot
               PROVE  /\ w.fd[e] => w.kpos[e] = w.seekPos[e] /\ w.seekPos[e] >= 0
                      /\ ~ w.fd[e] => w.kpos[e] = -1 /\ w.seekPos[e] >= -1
    BY DEF Placed
  <2>1. /\ v.fd[e] => v.kpos[e] = v.seekPos[e] /\ v.seekPos[e] >= 0
        /\ ~ v.fd[e] => v.kpos[e] = -1 /\ v.seekPos[e] >= -1
    BY <1>4 DEF Placed
  <2>2. CASE e = f
    BY <1>11, <2>2
  <2>3. CASE e # f
    BY <1>12, <2>1, <2>3
  <2> QED BY <2>2, <2>3
<1>19. PICK l : l = t.k
  OBVIOUS
<1>20. t = [v |-> w, k |-> l] /\ l = Created(k, n)
  BY <1>2, <1>3, <1>19 DEF IsPair
<1>21. /\ l \in Store /\ l[n] # Absent
       /\ k[n] # Absent => l = k
       /\ k[n] = Absent => Forced(l, n)
       /\ \A m \in Name : m # n => l[m] = k[m]
  BY <1>4, <1>20, CreatedFacts
<1>22. Linked(w, l, H \cup {f})
  <2>1. ASSUME NEW e \in H \cup {f} PROVE w.name[e] \in Name /\ l[w.name[e]] # Absent
    <3>1. CASE e = f
      BY <1>11, <1>21, <3>1
    <3>2. CASE e # f
      <4>1. v.name[e] \in Name /\ k[v.name[e]] # Absent
        BY <1>4, <3>2 DEF Linked
      <4>2. e \in Slot
        BY <1>4, <3>2, SlotFacts DEF Listed
      <4>3. w.name[e] = v.name[e]
        BY <1>12, <3>2, <4>2
      <4> QED BY <1>21, <4>1, <4>3
    <3> QED BY <3>1, <3>2
  <2>2. ASSUME NEW e \in InUse(w)
        PROVE  w.link[e] = IF e \in H \cup {f} THEN w.name[e] ELSE Absent
    <3>1. CASE e = f
      BY <1>11, <3>1
    <3>2. CASE e # f
      <4>1. e \in InUse(v) /\ e \in Slot
        BY <1>13, <3>2 DEF InUse
      <4>2. v.link[e] = IF e \in H THEN v.name[e] ELSE Absent
        BY <1>4, <4>1 DEF Linked
      <4>3. w.link[e] = v.link[e] /\ w.name[e] = v.name[e]
        BY <1>12, <3>2, <4>1
      <4> QED BY <3>2, <4>2, <4>3
    <3> QED BY <3>1, <3>2
  <2> QED BY <2>1, <2>2 DEF Linked
<1>23. Tracked(w, l, O)
  <2> SUFFICES ASSUME NEW m \in Name, l[m] # Absent, ~ Forced(l, m), m \notin O
               PROVE  m \in Dirty(w)
    BY DEF Tracked
  <2>1. l[m] = k[m]
    BY <1>21
  <2>2. m \in Dirty(v)
    BY <1>4, <2>1 DEF Tracked, Forced
  <2>3. PICK e \in InUse(v) : v.dirty[e] /\ v.link[e] = m
    BY <2>2 DEF Dirty
  <2>4. e # f /\ e \in Slot /\ e \in InUse(w)
    BY <1>5, <1>13, <2>3 DEF InUse
  <2>5. w.dirty[e] /\ w.link[e] = m
    BY <1>12, <2>3, <2>4
  <2> QED BY <2>4, <2>5 DEF Dirty
<1>24. Proper(w, A)
  BY <1>14, <1>15, <1>16, <1>17, <1>18 DEF Proper
<1>25. t.v = w /\ t.k = l /\ t = [v |-> t.v, k |-> t.k]
  BY <1>3, <1>20 DEF IsPair
<1>26. H \cup {f} \subseteq A
  BY <1>4
<1> QED BY <1>1, <1>13, <1>21, <1>22, <1>23, <1>24, <1>25, <1>26 DEF Sound

\* A record with the fields of Vfds.
IsVfd(v) ==
  v = [size |-> v.size, fd |-> v.fd, dirty |-> v.dirty, nextFree |-> v.nextFree,
       more |-> v.more, less |-> v.less, seekPos |-> v.seekPos, name |-> v.name,
       kpos |-> v.kpos, link |-> v.link, nfile |-> v.nfile, freeFd |-> v.freeFd,
       osRanOut |-> v.osRanOut, others |-> v.others]

LEMMA DeleteFields ==
  ASSUME NEW v, IsVfd(v), NEW f, NEW d, d = Delete(v, f)
  PROVE  d = [size |-> v.size, fd |-> v.fd, dirty |-> v.dirty,
              nextFree |-> v.nextFree,
              more |-> [v.more EXCEPT ![v.less[f]] = v.more[f], ![f] = 0],
              less |-> [v.less EXCEPT ![v.more[f]] = v.less[f], ![f] = 0],
              seekPos |-> v.seekPos, name |-> v.name, kpos |-> v.kpos,
              link |-> v.link, nfile |-> v.nfile, freeFd |-> v.freeFd,
              osRanOut |-> v.osRanOut, others |-> v.others]
BY DEF Delete, IsVfd

LEMMA InsertFields ==
  ASSUME NEW v, IsVfd(v), NEW f, NEW w, w = Insert(v, f)
  PROVE  w = [size |-> v.size, fd |-> v.fd, dirty |-> v.dirty,
              nextFree |-> v.nextFree,
              more |-> [v.more EXCEPT ![f] = 0, ![v.less[0]] = f],
              less |-> [v.less EXCEPT ![f] = v.less[0], ![0] = f],
              seekPos |-> v.seekPos, name |-> v.name, kpos |-> v.kpos,
              link |-> v.link, nfile |-> v.nfile, freeFd |-> v.freeFd,
              osRanOut |-> v.osRanOut, others |-> v.others]
BY DEF Insert, IsVfd

\* FileAccess of an open file makes it the most recent one.
LEMMA Touches ==
  ASSUME NEW s, NEW A, NEW H, NEW O, Sound(s, A, H, O), NEW f \in InUse(s.v),
         NEW t, t = [v |-> Insert(Delete(s.v, f), f), k |-> s.k]
  PROVE  /\ Sound(t, A, H, O) /\ Same(s, t) /\ InUse(t.v) = InUse(s.v)
         /\ t.v.fd = s.v.fd
<1>1. PICK v : v = s.v
  OBVIOUS
<1>2. PICK d : d = Delete(v, f)
  OBVIOUS
<1>3. PICK w : w = Insert(d, f)
  OBVIOUS
<1>4. t = [v |-> w, k |-> s.k]
  BY <1>1, <1>2, <1>3
<1>5. v \in Vfds /\ InRing(v) /\ Placed(v) /\ Proper(v, A)
  BY <1>1, SoundType DEF Proper
<1>6. f \in InUse(v) /\ f \in Handle /\ f \in Slot
  <2>1. InUse(v) \subseteq Handle
    BY <1>5, InUseFacts
  <2> QED BY <1>1, <2>1, SlotFacts
<1>7. d = [size |-> v.size, fd |-> v.fd, dirty |-> v.dirty, nextFree |-> v.nextFree,
          more |-> [v.more EXCEPT ![v.less[f]] = v.more[f], ![f] = 0],
          less |-> [v.less EXCEPT ![v.more[f]] = v.less[f], ![f] = 0],
          seekPos |-> v.seekPos, name |-> v.name, kpos |-> v.kpos,
          link |-> v.link, nfile |-> v.nfile, freeFd |-> v.freeFd,
          osRanOut |-> v.osRanOut, others |-> v.others]
  <2>1. IsVfd(v)
    BY <1>5, VfdTypes DEF IsVfd
  <2> QED BY <1>2, <2>1, DeleteFields
<1>8. /\ IsVfd(d)
      /\ d.size = v.size /\ d.fd = v.fd /\ d.dirty = v.dirty
      /\ d.nextFree = v.nextFree /\ d.seekPos = v.seekPos /\ d.name = v.name
      /\ d.kpos = v.kpos /\ d.link = v.link /\ d.nfile = v.nfile
      /\ d.freeFd = v.freeFd /\ d.osRanOut = v.osRanOut /\ d.others = v.others
  BY <1>7 DEF IsVfd
<1>9. TakenOut(v.less, v.more, d.less, d.more, f)
  BY <1>7 DEF TakenOut
<1>10. w = [size |-> d.size, fd |-> d.fd, dirty |-> d.dirty, nextFree |-> d.nextFree,
          more |-> [d.more EXCEPT ![f] = 0, ![d.less[0]] = f],
          less |-> [d.less EXCEPT ![f] = d.less[0], ![0] = f],
          seekPos |-> d.seekPos, name |-> d.name, kpos |-> d.kpos,
          link |-> d.link, nfile |-> d.nfile, freeFd |-> d.freeFd,
          osRanOut |-> d.osRanOut, others |-> d.others]
  BY <1>3, <1>8, InsertFields
<1>11. PutIn(d.less, d.more, w.less, w.more, f)
  BY <1>10 DEF PutIn
<1>12. /\ w.size = v.size /\ w.fd = v.fd /\ w.dirty = v.dirty
       /\ w.nextFree = v.nextFree /\ w.seekPos = v.seekPos /\ w.name = v.name
       /\ w.kpos = v.kpos /\ w.link = v.link /\ w.nfile = v.nfile
       /\ w.freeFd = v.freeFd /\ w.osRanOut = v.osRanOut /\ w.others = v.others
  BY <1>8, <1>10
<1>13. InUse(w) = InUse(v)
  BY <1>12 DEF InUse
<1>14. w.less \in [Slot -> Slot] /\ w.more \in [Slot -> Slot] /\ InRing(w)
  <2>1. v.less \in [Slot -> Slot] /\ v.more \in [Slot -> Slot]
    BY <1>5, VfdTypes
  <2>2. Circle(v.less, InUse(v)) /\ Back(v.more, v.less, InUse(v))
    BY <1>5 DEF InRing
  <2>3. /\ d.less \in [Slot -> Slot] /\ d.more \in [Slot -> Slot]
        /\ Circle(d.less, InUse(v) \ {f}) /\ Back(d.more, d.less, InUse(v) \ {f})
    BY <1>6, <1>9, <2>1, <2>2, RingOut
  <2>4. PICK U : U = InUse(v) \ {f}
    OBVIOUS
  <2>5. f \notin U /\ U \cup {f} = InUse(v)
    BY <1>6, <2>4
  <2>6. /\ w.less \in [Slot -> Slot] /\ w.more \in [Slot -> Slot]
        /\ Circle(w.less, U \cup {f}) /\ Back(w.more, w.less, U \cup {f})
    BY <1>6, <1>11, <2>3, <2>4, <2>5, RingIn
  <2> QED BY <1>13, <2>5, <2>6 DEF InRing
<1>15. w \in Vfds
  <2>1. /\ v.size \in 0 .. MaxVfd /\ v.fd \in [Slot -> BOOLEAN]
        /\ v.dirty \in [Slot -> BOOLEAN]
        /\ v.nextFree \in [Slot -> Slot] /\ v.seekPos \in [Slot -> Int]
        /\ v.name \in [Slot -> Name \cup {Absent}] /\ v.kpos \in [Slot -> Int]
        /\ v.link \in [Slot -> Name \cup {Absent}] /\ v.freeFd \in Nat
        /\ v.nfile \in Int /\ v.others \in 0 .. OsMax - 1 /\ v.osRanOut \in BOOLEAN
    BY <1>5 DEF Vfds
  <2> QED BY <1>10, <1>12, <1>14, <2>1 DEF Vfds
<1>16. Edits(s.v, w)
  BY <1>1, <1>12, <1>15 DEF Edits
<1>17. Placed(w)
  BY <1>5, <1>12 DEF Placed
<1>18. Sound(t, A, H, O) /\ t.v = w /\ t.k = s.k
  <2>1. PICK u : u = [v |-> w, k |-> s.k]
    OBVIOUS
  <2>2. Sound(u, A, H, O) /\ u.v = w /\ u.k = s.k
    BY <1>14, <1>16, <1>17, <2>1, EditSound
  <2> QED BY <1>4, <2>1, <2>2
<1>19. Same(s, t)
  BY <1>1, <1>12, <1>18 DEF Same, At, SameData
<1> QED BY <1>1, <1>12, <1>13, <1>18, <1>19

KernelOpened(v, w, f, n) ==
  w = [size |-> v.size, fd |-> [v.fd EXCEPT ![f] = TRUE],
       dirty |-> [v.dirty EXCEPT ![f] = FALSE], nextFree |-> v.nextFree,
       more |-> v.more, less |-> v.less,
       seekPos |-> v.seekPos, name |-> v.name,
       kpos |-> [v.kpos EXCEPT ![f] = 0],
       link |-> [v.link EXCEPT ![f] = n], nfile |-> v.nfile + 1,
       freeFd |-> v.freeFd, osRanOut |-> v.osRanOut, others |-> v.others]

LEMMA KernelOpenFields ==
  ASSUME NEW s, NEW v, v = s.v, IsVfd(v), NEW f, NEW n, NEW o, o = KernelOpen(s, f, n)
  PROVE  IsPair(o) /\ o.k = Created(s.k, n) /\ KernelOpened(v, o.v, f, n)
<1>1. PICK w : w = [v EXCEPT !.fd[f] = TRUE, !.dirty[f] = FALSE, !.kpos[f] = 0,
                             !.link[f] = n, !.nfile = @ + 1]
  OBVIOUS
<1>2. w = [size |-> v.size, fd |-> [v.fd EXCEPT ![f] = TRUE],
           dirty |-> [v.dirty EXCEPT ![f] = FALSE], nextFree |-> v.nextFree,
           more |-> v.more, less |-> v.less,
           seekPos |-> v.seekPos, name |-> v.name,
           kpos |-> [v.kpos EXCEPT ![f] = 0],
           link |-> [v.link EXCEPT ![f] = n], nfile |-> v.nfile + 1,
           freeFd |-> v.freeFd, osRanOut |-> v.osRanOut, others |-> v.others]
  BY <1>1 DEF IsVfd
<1>3. o = [v |-> w, k |-> Created(s.k, n)]
  BY <1>1 DEF KernelOpen
<1>4. o.v = w /\ o.k = Created(s.k, n) /\ IsPair(o)
  BY <1>3 DEF IsPair
<1> QED BY <1>2, <1>4 DEF KernelOpened

LEMMA IsVfdType ==
  ASSUME NEW v, v \in Vfds
  PROVE  IsVfd(v)
BY VfdTypes DEF IsVfd

\* LruInsert opens a file again, at the position where it was left.
LEMMA Reopens ==
  ASSUME NEW s, NEW A, NEW H, NEW O, Sound(s, A, H, O), NEW f \in H,
         f \notin InUse(s.v),
         s.v.nfile < PgNofile, s.v.nfile + s.v.others < OsMax,
         NEW r, r = Reopen(s, f), NEW t, t = [v |-> Insert(r.v, f), k |-> r.k]
  PROVE  /\ Sound(t, A, H, O) /\ Same(s, t)
         /\ InUse(t.v) = InUse(s.v) \cup {f}
<1>1. PICK v : v = s.v
  OBVIOUS
<1>2. PICK n : n = v.name[f]
  OBVIOUS
<1>3. PICK o : o = KernelOpen(s, f, n)
  OBVIOUS
<1>4. v \in Vfds /\ IsVfd(v) /\ f \in A /\ f \in Slot /\ Proper(v, A)
  <2>1. v \in Vfds /\ Proper(v, A) /\ f \in A
    BY <1>1, SoundType DEF Sound
  <2>2. f \in Slot
    BY <2>1, InUseFacts, SlotFacts
  <2> QED BY <2>1, <2>2, IsVfdType
<1>5. n \in Name /\ s.k[n] # Absent
  BY <1>1, <1>2 DEF Sound, Linked
<1>6. PICK x : x = o.v
  OBVIOUS
<1>k. o.k = Created(s.k, n) /\ KernelOpened(v, x, f, n)
  <2>1. IsVfd(v) /\ v = s.v /\ o = KernelOpen(s, f, n)
    BY <1>1, <1>3, <1>4
  <2> QED BY <1>6, <2>1, KernelOpenFields
<1>7. x = [size |-> v.size, fd |-> [v.fd EXCEPT ![f] = TRUE],
           dirty |-> [v.dirty EXCEPT ![f] = FALSE], nextFree |-> v.nextFree,
           more |-> v.more, less |-> v.less,
           seekPos |-> v.seekPos, name |-> v.name,
           kpos |-> [v.kpos EXCEPT ![f] = 0],
           link |-> [v.link EXCEPT ![f] = n], nfile |-> v.nfile + 1,
           freeFd |-> v.freeFd, osRanOut |-> v.osRanOut, others |-> v.others]
  BY <1>k DEF KernelOpened
<1>8. PICK y : y = [x EXCEPT !.kpos[f] = SeekFrom0(v.seekPos[f]),
                             !.seekPos[f] = SeekFrom0(@),
                             !.freeFd = IF @ > 0 THEN @ - 1 ELSE @]
  OBVIOUS
<1>9. r = [v |-> y, k |-> o.k]
  BY <1>1, <1>2, <1>3, <1>6, <1>8 DEF Reopen
<1>10. PICK i : i = SeekFrom0(v.seekPos[f])
  OBVIOUS
<1>11. PICK fr : fr = IF v.freeFd > 0 THEN v.freeFd - 1 ELSE v.freeFd
  OBVIOUS
<1>12. i \in Nat /\ fr \in Nat
  <2>1. v.seekPos \in [Slot -> Int] /\ v.freeFd \in Nat
    BY <1>4, VfdTypes
  <2> QED BY <1>4, <1>10, <1>11, <2>1 DEF SeekFrom0
<1>13. y = [size |-> v.size, fd |-> [v.fd EXCEPT ![f] = TRUE],
           dirty |-> [v.dirty EXCEPT ![f] = FALSE], nextFree |-> v.nextFree,
           more |-> v.more, less |-> v.less,
           seekPos |-> [v.seekPos EXCEPT ![f] = i], name |-> v.name,
           kpos |-> [v.kpos EXCEPT ![f] = i],
           link |-> [v.link EXCEPT ![f] = n], nfile |-> v.nfile + 1,
           freeFd |-> fr, osRanOut |-> v.osRanOut, others |-> v.others]
  <2>1. PICK kp : kp = [v.kpos EXCEPT ![f] = 0]
    OBVIOUS
  <2>2. [kp EXCEPT ![f] = i] = [v.kpos EXCEPT ![f] = i]
    <3>1. v.kpos \in [Slot -> Int]
      BY <1>4, VfdTypes
    <3> QED BY <1>4, <2>1, <3>1
  <2>3. x.kpos = kp /\ x.freeFd = v.freeFd /\ x.seekPos = v.seekPos
    BY <1>7, <2>1
  <2>4. y = [x EXCEPT !.kpos = [v.kpos EXCEPT ![f] = i],
                      !.seekPos = [v.seekPos EXCEPT ![f] = i], !.freeFd = fr]
    <3>1. y = [x EXCEPT !.kpos = [kp EXCEPT ![f] = i],
                        !.seekPos = [v.seekPos EXCEPT ![f] = i],
                        !.freeFd = fr]
      BY <1>8, <1>10, <1>11, <2>3
    <3> QED BY <2>2, <3>1
  <2> QED BY <1>7, <2>4
<1>14. PICK w : w = Insert(y, f)
  OBVIOUS
<1>15. OpensAs(v, w, f, n, i, fr)
  <2>1. /\ IsVfd(y) /\ y.size = v.size /\ y.fd = [v.fd EXCEPT ![f] = TRUE]
        /\ y.dirty = [v.dirty EXCEPT ![f] = FALSE] /\ y.nextFree = v.nextFree
        /\ y.more = v.more /\ y.less = v.less
        /\ y.seekPos = [v.seekPos EXCEPT ![f] = i]
        /\ y.name = v.name /\ y.kpos = [v.kpos EXCEPT ![f] = i]
        /\ y.link = [v.link EXCEPT ![f] = n] /\ y.nfile = v.nfile + 1
        /\ y.freeFd = fr /\ y.osRanOut = v.osRanOut /\ y.others = v.others
    BY <1>13 DEF IsVfd
  <2>2. w = [size |-> y.size, fd |-> y.fd, dirty |-> y.dirty,
              nextFree |-> y.nextFree,
              more |-> [y.more EXCEPT ![f] = 0, ![y.less[0]] = f],
              less |-> [y.less EXCEPT ![f] = y.less[0], ![0] = f],
              seekPos |-> y.seekPos, name |-> y.name, kpos |-> y.kpos,
              link |-> y.link, nfile |-> y.nfile, freeFd |-> y.freeFd,
              osRanOut |-> y.osRanOut, others |-> y.others]
    <3>1. IsVfd(y)
      BY <2>1
    <3> QED BY <1>14, <3>1, InsertFields
  <2>3. [v.name EXCEPT ![f] = n] = v.name
    <3>1. v.name \in [Slot -> Name \cup {Absent}]
      BY <1>4, VfdTypes
    <3> QED BY <1>2, <3>1
  <2> QED BY <2>1, <2>2, <2>3 DEF OpensAs
<1>16. PICK u : u = [v |-> w, k |-> Created(s.k, n)]
  OBVIOUS
<1>17. t = u /\ u.v = w /\ u.k = Created(s.k, n)
  <2>1. r.v = y /\ r.k = o.k
    BY <1>9
  <2>2. o.k = Created(s.k, n)
    BY <1>k
  <2> QED BY <1>14, <1>16, <2>1, <2>2
<1>18. Sound(u, A, H \cup {f}, O) /\ InUse(u.v) = InUse(s.v) \cup {f}
  <2>1. IsPair(u) /\ u.k = Created(s.k, n) /\ OpensAs(s.v, u.v, f, n, i, fr)
    BY <1>1, <1>15, <1>16, <1>17 DEF IsPair
  <2>2. f \in A /\ n \in Name /\ i \in Nat /\ fr \in Nat
    BY <1>4, <1>5, <1>12
  <2>3. Sound(s, A, H, O) /\ f \notin InUse(s.v)
    OBVIOUS
  <2>4. s.v.nfile < PgNofile /\ s.v.nfile + s.v.others < OsMax
    OBVIOUS
  <2>6. Sound(u, A, H \cup {f}, O)
    BY <2>1, <2>2, <2>3, <2>4, OpenSound
  <2>7. InUse(u.v) = InUse(s.v) \cup {f}
    <3>1. w.fd = [v.fd EXCEPT ![f] = TRUE]
      BY <1>15 DEF OpensAs
    <3>2. v.fd \in [Slot -> BOOLEAN] /\ f \in Slot
      BY <1>4, VfdTypes
    <3> QED BY <1>1, <1>17, <3>1, <3>2 DEF InUse
  <2> QED BY <2>6, <2>7
<1>19. H \cup {f} = H
  OBVIOUS
<1>20. u.k = s.k
  <2>1. s.k \in Store
    BY SoundType
  <2> QED BY <1>5, <1>17, <2>1, CreatedFacts
<1>21. Same(s, u)
  <2>1. w.name = v.name /\ At(w) = At(v)
    <3>1. v.seekPos \in [Slot -> Int] /\ v.name \in [Slot -> Name \cup {Absent}]
      BY <1>4, VfdTypes
    <3>2. w.name = [v.name EXCEPT ![f] = n] /\ w.seekPos = [v.seekPos EXCEPT ![f] = i]
      BY <1>15 DEF OpensAs
    <3>3. At(w) = At(v)
      <4>1. SeekFrom0(i) = i
        BY <1>12 DEF SeekFrom0
      <4>2. \A e \in Slot : SeekFrom0(w.seekPos[e]) = SeekFrom0(v.seekPos[e])
        BY <1>10, <3>1, <3>2, <4>1
      <4> QED BY <4>2 DEF At
    <3>4. [v.name EXCEPT ![f] = n] = v.name
      BY <1>2, <3>1
    <3> QED BY <3>2, <3>3, <3>4
  <2>2. w.size = v.size /\ w.nextFree = v.nextFree /\ w.others = v.others
    BY <1>15 DEF OpensAs
  <2> QED BY <1>1, <1>17, <1>20, <2>1, <2>2 DEF Same, SameData
<1> QED BY <1>17, <1>18, <1>19, <1>21

\* FileAccess of a file that a caller holds, open or not: when it succeeds the
\* file is open, and nothing that the caller can see has changed.
LEMMA Access ==
  ASSUME NEW s, NEW A, NEW H, NEW O, Sound(s, A, H, O), Spare(s.v), NEW f \in H,
         NEW ok \in BOOLEAN, NEW t, t = FileAccess(s, f, ok)
  PROVE  /\ Sound(t, A, H, O) /\ Same(s, t) /\ Spare(t.v)
         /\ t.v.fd[f] <=> s.v.fd[f] \/ ok
<1>1. f \in A /\ f \in Slot /\ Proper(s.v, A)
  <2>1. f \in A /\ Proper(s.v, A)
    BY DEF Sound
  <2> QED BY <2>1, InUseFacts, SlotFacts
<1>2. CASE s.v.fd[f]
  <2>1. PICK y : y = [v |-> Insert(Delete(s.v, f), f), k |-> s.k]
    OBVIOUS
  <2>t. t = y
    <3>1. PICK a : a = s.v
      OBVIOUS
    <3>2. PICK b : b = s.k
      OBVIOUS
    <3>3. s = [v |-> a, k |-> b]
      BY <3>1, <3>2, SoundType
    <3>4. t = [s EXCEPT !.v = Insert(Delete(@, f), f)]
      BY <1>2 DEF FileAccess
    <3> QED BY <2>1, <3>3, <3>4
  <2>2. f \in InUse(s.v)
    BY <1>1, <1>2 DEF InUse
  <2>3. /\ Sound(y, A, H, O) /\ Same(s, y) /\ InUse(y.v) = InUse(s.v)
        /\ y.v.fd = s.v.fd
    BY <2>1, <2>2, Touches
  <2> QED BY <1>2, <2>2, <2>3, <2>t DEF Spare
<1>3. CASE ~ s.v.fd[f]
  <2>1. PICK u : u = AssertLruRoom(s)
    OBVIOUS
  <2>2. /\ Sound(u, A, H, O) /\ Same(s, u) /\ Fewer(s, u)
        /\ u.v.nfile < PgNofile /\ u.v.freeFd > 0
    BY <2>1, MakesRoom
  <2>3. f \notin InUse(s.v) /\ f \notin InUse(u.v) /\ ~ u.v.fd[f]
    BY <1>1, <1>3, <2>2 DEF InUse, Fewer
  <2>4. PICK r : r = TryAgain(u, FALSE)
    OBVIOUS
  <2>5. /\ Sound(r, A, H, O) /\ Same(u, r) /\ Fewer(u, r)
        /\ r.v.nfile <= u.v.nfile /\ r.v.nfile + r.v.others < OsMax
        /\ (r = u \/ r.v.freeFd > 0)
    BY <2>2, <2>4, TriesAgain
  <2>6. f \notin InUse(r.v) /\ ~ r.v.fd[f]
    BY <1>1, <2>3, <2>5 DEF InUse, Fewer
  <2>7. r.v.nfile < PgNofile
    <3>1. r.v.nfile \in Int /\ u.v.nfile \in Int /\ PgNofile \in Int
      BY <2>2, <2>5, SoundType, VfdTypes, VfdAssumption
    <3> QED BY <2>2, <2>5, <3>1
  <2>8. Same(s, r)
    BY <2>2, <2>5, SameTrans
  <2>9. t = LruInsert(u, f, ok)
    BY <1>3, <2>1 DEF FileAccess
  <2>10. CASE ~ ok
    <3>1. t = r
      BY <2>3, <2>4, <2>9, <2>10 DEF LruInsert
    <3>2. r.v.freeFd > 0
      BY <2>2, <2>5
    <3> QED BY <1>3, <2>5, <2>6, <2>8, <2>10, <3>1, <3>2 DEF Spare
  <2>11. CASE ok
    <3>1. PICK x : x = Reopen(r, f)
      OBVIOUS
    <3>2. IsPair(x)
      BY <3>1 DEF Reopen, IsPair
    <3>3. PICK y : y = [v |-> Insert(x.v, f), k |-> x.k]
      OBVIOUS
    <3>4. t = y
      <4>1. t = [x EXCEPT !.v = Insert(@, f)]
        BY <2>3, <2>4, <2>9, <2>11, <3>1 DEF LruInsert
      <4>2. PICK a : a = x.v
        OBVIOUS
      <4>3. PICK b : b = x.k
        OBVIOUS
      <4>4. x = [v |-> a, k |-> b]
        BY <3>2, <4>2, <4>3 DEF IsPair
      <4> QED BY <3>3, <4>1, <4>4
    <3>5. /\ Sound(y, A, H, O) /\ Same(r, y)
          /\ InUse(y.v) = InUse(r.v) \cup {f}
      BY <2>5, <2>6, <2>7, <3>1, <3>3, Reopens
    <3>6. f \in InUse(y.v)
      BY <3>5
    <3>7. y.v.fd[f] /\ Spare(y.v)
      BY <3>6 DEF InUse, Spare
    <3>8. Same(s, y)
      BY <2>8, <3>5, SameTrans
    <3> QED BY <2>11, <3>4, <3>5, <3>7, <3>8
  <2> QED BY <2>10, <2>11
<1> QED BY <1>2, <1>3

-----------------------------------------------------------------------------
(* The table of virtual files.                                             *)

\* Nothing has changed in the slots other than f.
Besides(v, w, f) ==
  \A e \in Slot : e # f => w.name[e] = v.name[e] /\ At(w)[e] = At(v)[e]

FreedAs(v, w, f) ==
  w = [size |-> v.size, fd |-> v.fd, dirty |-> [v.dirty EXCEPT ![f] = FALSE],
       nextFree |-> [v.nextFree EXCEPT ![f] = v.nextFree[0], ![0] = f],
       more |-> v.more, less |-> v.less,
       seekPos |-> [v.seekPos EXCEPT ![f] = 0],
       name |-> [v.name EXCEPT ![f] = Absent],
       kpos |-> v.kpos, link |-> v.link, nfile |-> v.nfile,
       freeFd |-> v.freeFd, osRanOut |-> v.osRanOut, others |-> v.others]

LEMMA FreeVfdFields ==
  ASSUME NEW v, IsVfd(v), NEW f, NEW w, w = FreeVfd(v, f)
  PROVE  FreedAs(v, w, f)
BY DEF FreeVfd, IsVfd, FreedAs

\* FreeVfd puts the slot of a file that is closed on the free list.
LEMMA Frees ==
  ASSUME NEW s, NEW A, NEW H, NEW O, Sound(s, A, H, O), NEW f \in A,
         f \notin InUse(s.v), NEW t, IsPair(t), t.k = s.k, FreedAs(s.v, t.v, f)
  PROVE  /\ Sound(t, A \ {f}, H \ {f}, O)
         /\ Besides(s.v, t.v, f) /\ (Spare(s.v) => Spare(t.v))
<1>1. PICK v : v = s.v
  OBVIOUS
<1>2. PICK k : k = s.k
  OBVIOUS
<1>3. PICK w : w = t.v
  OBVIOUS
<1>4. /\ v \in Vfds /\ InRing(v) /\ Listed(v, A) /\ Counted(v) /\ Placed(v)
      /\ k \in Store /\ H \subseteq A /\ Linked(v, k, H) /\ Tracked(v, k, O)
  BY <1>1, <1>2 DEF Sound, Proper
<1>5. /\ f \in Handle /\ f \in Slot /\ f # 0 /\ 0 \in Slot
      /\ ~ v.fd[f] /\ f \notin InUse(v) /\ f < v.size
  BY <1>1, <1>4, SlotFacts DEF Listed, InUse
<1>6. FreedAs(v, w, f)
  BY <1>1, <1>3
<1>7. /\ w.size = v.size /\ w.fd = v.fd /\ w.more = v.more /\ w.less = v.less
      /\ w.kpos = v.kpos /\ w.link = v.link /\ w.nfile = v.nfile
      /\ w.freeFd = v.freeFd /\ w.osRanOut = v.osRanOut /\ w.others = v.others
  BY <1>6 DEF FreedAs
<1>8. /\ w.dirty = [v.dirty EXCEPT ![f] = FALSE]
      /\ w.seekPos = [v.seekPos EXCEPT ![f] = 0]
      /\ w.name = [v.name EXCEPT ![f] = Absent]
      /\ w.nextFree = [v.nextFree EXCEPT ![f] = v.nextFree[0], ![0] = f]
  BY <1>6 DEF FreedAs
<1>9. /\ v.size \in 0 .. MaxVfd /\ v.fd \in [Slot -> BOOLEAN]
      /\ v.dirty \in [Slot -> BOOLEAN]
      /\ v.nextFree \in [Slot -> Slot] /\ v.more \in [Slot -> Slot]
      /\ v.less \in [Slot -> Slot] /\ v.seekPos \in [Slot -> Int]
      /\ v.name \in [Slot -> Name \cup {Absent}] /\ v.kpos \in [Slot -> Int]
      /\ v.link \in [Slot -> Name \cup {Absent}]
      /\ v.nfile \in Int /\ v.freeFd \in Nat /\ v.osRanOut \in BOOLEAN
      /\ v.others \in 0 .. OsMax - 1
  BY <1>4 DEF Vfds
<1>10. w.dirty \in [Slot -> BOOLEAN]
  <2>1. v.dirty \in [Slot -> BOOLEAN] /\ w.dirty = [v.dirty EXCEPT ![f] = FALSE]
    BY <1>8, <1>9
  <2> QED BY <2>1
<1>11. w.seekPos \in [Slot -> Int] /\ w.seekPos[f] = 0
  BY <1>5, <1>8, <1>9
<1>12. w.name \in [Slot -> Name \cup {Absent}]
  BY <1>8, <1>9
<1>13. /\ w.nextFree \in [Slot -> Slot] /\ w.nextFree[0] = f
       /\ w.nextFree[f] = v.nextFree[0]
       /\ \A e \in Slot : e # 0 /\ e # f => w.nextFree[e] = v.nextFree[e]
  BY <1>5, <1>8, <1>9
<1>14. \A e \in Slot : e # f => /\ w.dirty[e] = v.dirty[e]
                                /\ w.seekPos[e] = v.seekPos[e]
                                /\ w.name[e] = v.name[e]
  BY <1>8, <1>9
<1>15. w \in Vfds
  <2>1. IsVfd(w)
    BY <1>6 DEF FreedAs, IsVfd
  <2> QED BY <1>7, <1>9, <1>10, <1>11, <1>12, <1>13, <2>1 DEF IsVfd, Vfds
<1>16. InUse(w) = InUse(v)
  BY <1>7 DEF InUse
<1>17. InRing(w) /\ Counted(w)
  BY <1>4, <1>7, <1>16 DEF InRing, Counted
<1>18. Placed(w)
  <2> SUFFICES ASSUME NEW e \in Slot
               PROVE  /\ w.fd[e] => w.kpos[e] = w.seekPos[e] /\ w.seekPos[e] >= 0
                      /\ ~ w.fd[e] => w.kpos[e] = -1 /\ w.seekPos[e] >= -1
    BY DEF Placed
  <2>1. /\ v.fd[e] => v.kpos[e] = v.seekPos[e] /\ v.seekPos[e] >= 0
        /\ ~ v.fd[e] => v.kpos[e] = -1 /\ v.seekPos[e] >= -1
    BY <1>4 DEF Placed
  <2>2. CASE e = f
    BY <1>5, <1>7, <1>11, <2>1, <2>2
  <2>3. CASE e # f
    BY <1>7, <1>14, <2>1, <2>3
  <2> QED BY <2>2, <2>3
<1>19. Listed(w, A \ {f})
  <2>1. PICK U : U = Unused(v, A)
    OBVIOUS
  <2>2. f \notin U /\ U \subseteq Handle
    BY <2>1 DEF Unused
  <2>3. Circle(v.nextFree, U)
    BY <1>4, <2>1 DEF Listed
  <2>4. \A e \in U : w.nextFree[e] = v.nextFree[e]
    <3>1. \A e \in U : e \in Slot /\ e # 0 /\ e # f
      BY <2>2, SlotFacts
    <3> QED BY <1>13, <3>1
  <2>5. Circle(w.nextFree, U \cup {f})
    BY <1>5, <1>13, <2>2, <2>3, <2>4, CirclePush
  <2>6. Unused(w, A \ {f}) = U \cup {f}
    BY <1>5, <1>7, <2>1 DEF Unused
  <2>7. A \subseteq Handle /\ (\A e \in A : e < v.size) /\ InUse(v) \subseteq A
    BY <1>4 DEF Listed
  <2>8. InUse(w) \subseteq A \ {f}
    BY <1>5, <1>16, <2>7
  <2> QED BY <1>7, <2>5, <2>6, <2>7, <2>8 DEF Listed
<1>20. Linked(w, k, H \ {f})
  <2>1. \A e \in H \ {f} : e \in Slot
    BY <1>4, SlotFacts DEF Listed
  <2>2. \A e \in H \ {f} : w.name[e] \in Name /\ k[w.name[e]] # Absent
    BY <1>4, <1>14, <2>1 DEF Linked
  <2>3. ASSUME NEW e \in InUse(w)
        PROVE  w.link[e] = IF e \in H \ {f} THEN w.name[e] ELSE Absent
    <3>1. e \in InUse(v) /\ e # f /\ e \in Slot
      BY <1>5, <1>16 DEF InUse
    <3>2. v.link[e] = IF e \in H THEN v.name[e] ELSE Absent
      BY <1>4, <3>1 DEF Linked
    <3> QED BY <1>7, <1>14, <3>1, <3>2
  <2> QED BY <2>2, <2>3 DEF Linked
<1>21. Tracked(w, k, O)
  <2>1. Dirty(v) \subseteq Dirty(w)
    <3> SUFFICES ASSUME NEW n \in Dirty(v) PROVE n \in Dirty(w)
      OBVIOUS
    <3>1. PICK e \in InUse(v) : v.dirty[e] /\ v.link[e] = n
      BY DEF Dirty
    <3>2. e \in InUse(w) /\ e # f /\ e \in Slot
      BY <1>5, <1>16, <3>1 DEF InUse
    <3>3. w.dirty[e] /\ w.link[e] = n
      BY <1>7, <1>14, <3>1, <3>2
    <3> QED BY <3>2, <3>3 DEF Dirty
  <2> QED BY <1>4, <2>1 DEF Tracked
<1>22. Proper(w, A \ {f})
  BY <1>15, <1>17, <1>18, <1>19 DEF Proper
<1>23. H \ {f} \subseteq A \ {f}
  BY <1>4
<1>24. Sound(t, A \ {f}, H \ {f}, O)
  BY <1>2, <1>3, <1>4, <1>20, <1>21, <1>22, <1>23 DEF Sound, IsPair
<1>25. Besides(s.v, t.v, f)
  BY <1>1, <1>3, <1>14 DEF Besides, At
<1>26. Spare(s.v) => Spare(t.v)
  BY <1>1, <1>3, <1>7, <1>16 DEF Spare
<1> QED BY <1>24, <1>25, <1>26

LEMMA Invalidates ==
  ASSUME NEW s, NEW A, NEW H, NEW O, Sound(s, A, H, O), NEW f \in Slot,
         NEW t, t = FileInvalidate(s, f)
  PROVE  /\ Sound(t, A, H, O) /\ Same(s, t)
         /\ InUse(t.v) = InUse(s.v) \ {f}
         /\ t = s \/ t.v.freeFd > 0
<1>1. CASE s.v.fd[f]
  <2>1. t = LruDelete(s, f)
    BY <1>1 DEF FileInvalidate
  <2>2. f \in InUse(s.v)
    BY <1>1 DEF InUse
  <2>3. /\ Sound(t, A, H, O) /\ Same(s, t)
        /\ InUse(t.v) = InUse(s.v) \ {f}
        /\ t.v.freeFd = s.v.freeFd + 1
    BY <2>1, <2>2, Evicts
  <2>4. s.v.freeFd \in Nat
    BY SoundType, VfdTypes
  <2>5. t.v.freeFd > 0
    BY <2>3, <2>4
  <2> QED BY <2>3, <2>5
<1>2. CASE ~ s.v.fd[f]
  <2>1. t = s
    BY <1>2 DEF FileInvalidate
  <2> QED BY <1>2, <2>1 DEF Same, SameData, InUse
<1> QED BY <1>1, <1>2

\* FileClose does what FileInvalidate does, and gives the slot back.
LEMMA CloseIs ==
  ASSUME NEW s, NEW A, NEW H, NEW O, Sound(s, A, H, O), NEW f \in Slot,
         NEW t, t = FileClose(s, f), NEW u, u = FileInvalidate(s, f)
  PROVE  IsPair(t) /\ t.k = u.k /\ FreedAs(u.v, t.v, f)
<1>1. PICK v : v = s.v
  OBVIOUS
<1>2. v \in Vfds /\ IsVfd(v)
  BY <1>1, SoundType, IsVfdType
<1>3. CASE s.v.fd[f]
  <2>1. PICK d : d = Delete(v, f)
    OBVIOUS
  <2>2. d = [size |-> v.size, fd |-> v.fd, dirty |-> v.dirty,
             nextFree |-> v.nextFree,
             more |-> [v.more EXCEPT ![v.less[f]] = v.more[f], ![f] = 0],
             less |-> [v.less EXCEPT ![v.more[f]] = v.less[f], ![f] = 0],
             seekPos |-> v.seekPos, name |-> v.name, kpos |-> v.kpos,
             link |-> v.link, nfile |-> v.nfile, freeFd |-> v.freeFd,
             osRanOut |-> v.osRanOut, others |-> v.others]
    BY <1>2, <2>1, DeleteFields
  <2>3. PICK c : c = KernelClose(d, f)
    OBVIOUS
  <2>4. c = [size |-> v.size, fd |-> [v.fd EXCEPT ![f] = FALSE], dirty |-> v.dirty,
             nextFree |-> v.nextFree, more |-> d.more, less |-> d.less,
             seekPos |-> v.seekPos, name |-> v.name,
             kpos |-> [v.kpos EXCEPT ![f] = -1],
             link |-> [v.link EXCEPT ![f] = Absent],
             nfile |-> v.nfile, freeFd |-> v.freeFd,
             osRanOut |-> v.osRanOut, others |-> v.others]
    BY <2>2, <2>3, ZenonT(60) DEF KernelClose
  <2>5. PICK y : y = [c EXCEPT !.freeFd = @ + 1, !.nfile = @ - 1]
    OBVIOUS
  <2>6. y = [size |-> v.size, fd |-> [v.fd EXCEPT ![f] = FALSE], dirty |-> v.dirty,
             nextFree |-> v.nextFree, more |-> d.more, less |-> d.less,
             seekPos |-> v.seekPos, name |-> v.name,
             kpos |-> [v.kpos EXCEPT ![f] = -1],
             link |-> [v.link EXCEPT ![f] = Absent],
             nfile |-> v.nfile - 1, freeFd |-> v.freeFd + 1,
             osRanOut |-> v.osRanOut, others |-> v.others]
    BY <2>4, <2>5
  <2>7. PICK x : x = [c EXCEPT !.seekPos[f] = v.kpos[f], !.dirty[f] = FALSE,
                               !.nfile = @ - 1, !.freeFd = @ + 1]
    OBVIOUS
  <2>8. x = [size |-> v.size, fd |-> [v.fd EXCEPT ![f] = FALSE],
             dirty |-> [v.dirty EXCEPT ![f] = FALSE],
             nextFree |-> v.nextFree, more |-> d.more, less |-> d.less,
             seekPos |-> [v.seekPos EXCEPT ![f] = v.kpos[f]], name |-> v.name,
             kpos |-> [v.kpos EXCEPT ![f] = -1],
             link |-> [v.link EXCEPT ![f] = Absent],
             nfile |-> v.nfile - 1, freeFd |-> v.freeFd + 1,
             osRanOut |-> v.osRanOut, others |-> v.others]
    BY <2>4, <2>7, ZenonT(60)
  <2>9. PICK l : l = IF v.dirty[f] THEN Fsync(s.k, v.link[f]) ELSE s.k
    OBVIOUS
  <2>10. u = [v |-> x, k |-> l]
    BY <1>1, <1>3, <2>1, <2>3, <2>7, <2>9 DEF FileInvalidate, LruDelete
  <2>11. PICK w : w = FreeVfd(y, f)
    OBVIOUS
  <2>12. t = [v |-> w, k |-> l]
    BY <1>1, <1>3, <2>1, <2>3, <2>5, <2>9, <2>11 DEF FileClose
  <2>13. FreedAs(y, w, f)
    <3>1. IsVfd(y)
      BY <2>6 DEF IsVfd
    <3> QED BY <2>11, <3>1, FreeVfdFields
  <2>14. FreedAs(x, w, f)
    <3>1. [x.dirty EXCEPT ![f] = FALSE] = [y.dirty EXCEPT ![f] = FALSE]
      <4>1. v.dirty \in [Slot -> BOOLEAN]
        BY <1>2, VfdTypes
      <4>2. [[v.dirty EXCEPT ![f] = FALSE] EXCEPT ![f] = FALSE]
               = [v.dirty EXCEPT ![f] = FALSE]
        BY <4>1
      <4> QED BY <2>6, <2>8, <4>2
    <3>2. [x.seekPos EXCEPT ![f] = 0] = [y.seekPos EXCEPT ![f] = 0]
      <4>1. v.seekPos \in [Slot -> Int]
        BY <1>2, VfdTypes
      <4>2. [[v.seekPos EXCEPT ![f] = v.kpos[f]] EXCEPT ![f] = 0]
               = [v.seekPos EXCEPT ![f] = 0]
        BY <4>1
      <4> QED BY <2>6, <2>8, <4>2
    <3>3. /\ x.size = y.size /\ x.fd = y.fd /\ x.nextFree = y.nextFree
          /\ x.more = y.more /\ x.less = y.less /\ x.name = y.name
          /\ x.kpos = y.kpos /\ x.link = y.link /\ x.nfile = y.nfile
          /\ x.freeFd = y.freeFd /\ x.osRanOut = y.osRanOut /\ x.others = y.others
      BY <2>6, <2>8
    <3> QED BY <2>13, <3>1, <3>2, <3>3 DEF FreedAs
  <2> QED BY <2>10, <2>12, <2>14 DEF IsPair
<1>4. CASE ~ s.v.fd[f]
  <2>1. u = s
    BY <1>4 DEF FileInvalidate
  <2>2. PICK w : w = FreeVfd(v, f)
    OBVIOUS
  <2>3. t = [v |-> w, k |-> s.k]
    BY <1>1, <1>4, <2>2 DEF FileClose
  <2>4. FreedAs(v, w, f)
    BY <1>2, <2>2, FreeVfdFields
  <2> QED BY <1>1, <2>1, <2>3, <2>4 DEF IsPair
<1> QED BY <1>3, <1>4

LEMMA Closes ==
  ASSUME NEW s, NEW A, NEW H, NEW O, Sound(s, A, H, O), Spare(s.v), NEW f \in A,
         NEW t, t = FileClose(s, f)
  PROVE  /\ Sound(t, A \ {f}, H \ {f}, O) /\ Spare(t.v)
         /\ Besides(s.v, t.v, f) /\ SameData(s.k, t.k)
<1>1. PICK u : u = FileInvalidate(s, f)
  OBVIOUS
<1>2. f \in Slot
  <2>1. Proper(s.v, A)
    BY SoundType
  <2> QED BY <2>1, InUseFacts, SlotFacts
<1>3. /\ Sound(u, A, H, O) /\ Same(s, u)
      /\ InUse(u.v) = InUse(s.v) \ {f}
      /\ (u = s \/ u.v.freeFd > 0)
  BY <1>1, <1>2, Invalidates
<1>4. IsPair(t) /\ t.k = u.k /\ FreedAs(u.v, t.v, f)
  BY <1>1, <1>2, CloseIs
<1>5. f \notin InUse(u.v)
  BY <1>3
<1>6. /\ Sound(t, A \ {f}, H \ {f}, O)
      /\ Besides(u.v, t.v, f) /\ (Spare(u.v) => Spare(t.v))
  BY <1>3, <1>4, <1>5, Frees
<1>7. Spare(u.v)
  BY <1>3 DEF Spare
<1>8. Besides(s.v, t.v, f) /\ SameData(s.k, t.k)
  BY <1>3, <1>4, <1>6 DEF Besides, Same
<1> QED BY <1>6, <1>7, <1>8

\* Only the array and its free list have changed.
Relisted(v, w, m, g) ==
  w = [size |-> m, fd |-> v.fd, dirty |-> v.dirty, nextFree |-> g,
       more |-> v.more, less |-> v.less, seekPos |-> v.seekPos, name |-> v.name,
       kpos |-> v.kpos, link |-> v.link, nfile |-> v.nfile, freeFd |-> v.freeFd,
       osRanOut |-> v.osRanOut, others |-> v.others]

LEMMA RelistSound ==
  ASSUME NEW s, NEW A, NEW H, NEW O, Sound(s, A, H, O), NEW m \in 0 .. MaxVfd,
         NEW g \in [Slot -> Slot], NEW t, IsPair(t), t.k = s.k,
         Relisted(s.v, t.v, m, g), NEW B, A \subseteq B, B \subseteq Handle,
         \A f \in B : f < m, Circle(g, {f \in Handle : f < m /\ f \notin B})
  PROVE  Sound(t, B, H, O) /\ InUse(t.v) = InUse(s.v)
<1>1. PICK v : v = s.v
  OBVIOUS
<1>2. PICK k : k = s.k
  OBVIOUS
<1>3. PICK w : w = t.v
  OBVIOUS
<1>4. /\ v \in Vfds /\ InRing(v) /\ Listed(v, A) /\ Counted(v) /\ Placed(v)
      /\ k \in Store /\ H \subseteq A /\ Linked(v, k, H) /\ Tracked(v, k, O)
  BY <1>1, <1>2 DEF Sound, Proper
<1>5. Relisted(v, w, m, g)
  BY <1>1, <1>3
<1>6. /\ w.fd = v.fd /\ w.dirty = v.dirty /\ w.more = v.more /\ w.less = v.less
      /\ w.seekPos = v.seekPos /\ w.name = v.name /\ w.kpos = v.kpos
      /\ w.link = v.link /\ w.nfile = v.nfile /\ w.freeFd = v.freeFd
      /\ w.osRanOut = v.osRanOut /\ w.others = v.others
      /\ w.size = m /\ w.nextFree = g
  BY <1>5 DEF Relisted
<1>7. w \in Vfds
  <2>1. /\ v.fd \in [Slot -> BOOLEAN] /\ v.dirty \in [Slot -> BOOLEAN]
        /\ v.more \in [Slot -> Slot]
        /\ v.less \in [Slot -> Slot] /\ v.seekPos \in [Slot -> Int]
        /\ v.name \in [Slot -> Name \cup {Absent}] /\ v.kpos \in [Slot -> Int]
        /\ v.link \in [Slot -> Name \cup {Absent}]
        /\ v.nfile \in Int /\ v.freeFd \in Nat /\ v.osRanOut \in BOOLEAN
        /\ v.others \in 0 .. OsMax - 1
    BY <1>4 DEF Vfds
  <2> QED BY <1>5, <1>6, <2>1 DEF Relisted, Vfds
<1>8. InUse(w) = InUse(v)
  BY <1>6 DEF InUse
<1>9. InRing(w) /\ Counted(w) /\ Placed(w)
  BY <1>4, <1>6, <1>8 DEF InRing, Counted, Placed
<1>10. Listed(w, B)
  <2>1. Unused(w, B) = {f \in Handle : f < m /\ f \notin B}
    BY <1>6 DEF Unused
  <2>2. InUse(w) \subseteq B
    BY <1>4, <1>8 DEF Listed
  <2> QED BY <1>6, <2>1, <2>2 DEF Listed
<1>11. Linked(w, k, H)
  BY <1>4, <1>6, <1>8 DEF Linked
<1>12. Tracked(w, k, O)
  <2>1. Dirty(w) = Dirty(v)
    BY <1>6, <1>8 DEF Dirty
  <2> QED BY <1>4, <2>1 DEF Tracked
<1>13. Proper(w, B) /\ H \subseteq B
  BY <1>4, <1>7, <1>9, <1>10 DEF Proper
<1> QED BY <1>1, <1>2, <1>3, <1>4, <1>8, <1>11, <1>12, <1>13 DEF Sound, IsPair

\* The array as it is when a slot has been found: one is on the free list.
LEMMA Grows ==
  ASSUME NEW v, NEW A, Proper(v, A), HasRoom(v)
  PROVE  \E m \in 0 .. MaxVfd, g \in [Slot -> Slot] :
           /\ Relisted(v, Grown(v), m, g)
           /\ g[0] # 0 /\ (\A f \in A : f < m)
           /\ Circle(g, {f \in Handle : f < m /\ f \notin A})
<1>1. /\ v \in Vfds /\ IsVfd(v) /\ v.size \in Nat /\ v.size <= MaxVfd
      /\ MaxVfd \in Nat /\ MaxVfd > 1 /\ v.nextFree \in [Slot -> Slot]
  <2>1. v \in Vfds
    BY DEF Proper
  <2> QED BY <2>1, VfdTypes, IsVfdType, SlotFacts
<1>2. Circle(v.nextFree, Unused(v, A)) /\ A \subseteq Handle /\ \A f \in A : f < v.size
  BY DEF Proper, Listed
<1>3. CASE v.nextFree[0] # 0
  <2>1. Grown(v) = v
    BY <1>3 DEF Grown
  <2>2. Relisted(v, v, v.size, v.nextFree)
    BY <1>1 DEF IsVfd, Relisted
  <2>3. v.size \in 0 .. MaxVfd
    BY <1>1
  <2>4. Circle(v.nextFree, {f \in Handle : f < v.size /\ f \notin A})
    BY <1>2 DEF Unused
  <2> QED BY <1>1, <1>2, <1>3, <2>1, <2>2, <2>3, <2>4
<1>4. CASE v.nextFree[0] = 0
  <2>1. PICK n : n = IF v.size = 0 THEN 1 ELSE v.size
    OBVIOUS
  <2>2. /\ n \in Nat /\ n # 0 /\ 2 * n <= MaxVfd /\ 2 * n \in 0 .. MaxVfd
        /\ v.size <= n /\ (v.size = n \/ (v.size = 0 /\ n = 1))
    BY <1>1, <1>4, <2>1 DEF HasRoom
  <2>3. PICK g : g = [f \in Slot |->
                        IF f = 0 THEN n
                        ELSE IF f \in n .. 2 * n - 2 THEN f + 1
                        ELSE IF f = 2 * n - 1 THEN 0 ELSE v.nextFree[f]]
    OBVIOUS
  <2>4. g \in [Slot -> Slot]
    <3>1. ASSUME NEW f \in Slot PROVE g[f] \in Slot
      <4>1. f \in Nat /\ f < MaxVfd
        BY <1>1 DEF Slot
      <4>2. n \in Slot /\ 0 \in Slot
        BY <1>1, <2>2 DEF Slot
      <4>3. f \in n .. 2 * n - 2 => f + 1 \in Slot
        BY <1>1, <2>2, <4>1 DEF Slot
      <4>4. v.nextFree[f] \in Slot
        BY <1>1
      <4> QED BY <2>3, <4>2, <4>3, <4>4
    <3> QED BY <2>3, <3>1
  <2>5. /\ g[0] = n /\ g[2 * n - 1] = 0
        /\ \A f \in n .. 2 * n - 2 : g[f] = f + 1
    <3>1. /\ 0 \in Slot /\ 2 * n - 1 \in Slot /\ 2 * n - 1 # 0
          /\ 2 * n - 1 \notin n .. 2 * n - 2
      BY <1>1, <2>2 DEF Slot
    <3>2. \A f \in n .. 2 * n - 2 : f \in Slot /\ f # 0
      BY <1>1, <2>2 DEF Slot
    <3> QED BY <2>3, <3>1, <3>2
  <2>6. Circle(g, n .. 2 * n - 1)
    BY <2>2, <2>5, CircleRow
  <2>7. n .. 2 * n - 1 = {f \in Handle : f < 2 * n /\ f \notin A}
    <3>1. Unused(v, A) = {}
      BY <1>2, <1>4, CircleFacts
    <3>2. \A f \in Handle : f \in A <=> f < v.size
      BY <1>2, <3>1 DEF Unused
    <3>3. \A f \in Handle : f \in Nat /\ f # 0 /\ f < MaxVfd
      BY <1>1 DEF Handle, Slot
    <3>4. \A f \in n .. 2 * n - 1 : f \in Handle /\ f < 2 * n /\ ~(f < v.size)
      BY <1>1, <2>2, SMTT(40) DEF Handle, Slot
    <3>5. \A f \in Handle : f < 2 * n /\ ~(f < v.size) => f \in n .. 2 * n - 1
      BY <1>1, <2>2, <3>3
    <3> QED BY <3>2, <3>4, <3>5
  <2>8. \A f \in A : f < 2 * n
    <3>1. \A f \in A : f \in Nat
      BY <1>2, SlotFacts
    <3> QED BY <1>1, <1>2, <2>2, <3>1
  <2>9. Relisted(v, Grown(v), 2 * n, g)
    <3>1. PICK w : w = Grown(v)
      OBVIOUS
    <3>2. w = [v EXCEPT !.size = 2 * n, !.nextFree = g]
      BY <1>4, <2>1, <2>3, <3>1 DEF Grown
    <3>3. Relisted(v, w, 2 * n, g)
      BY <1>1, <3>2 DEF IsVfd, Relisted
    <3> QED BY <3>1, <3>3
  <2>10. g[0] # 0
    BY <2>2, <2>5
  <2> QED BY <2>2, <2>4, <2>6, <2>7, <2>8, <2>9, <2>10
<1> QED BY <1>3, <1>4

\* AllocateVfd takes a slot off the free list that nobody has.
LEMMA Allocates ==
  ASSUME NEW s, NEW A, NEW H, NEW O, Sound(s, A, H, O), HasRoom(s.v),
         NEW f, f = NewSlot(s.v),
         NEW t, IsPair(t), t.v = AllocateVfd(s.v), t.k = s.k
  PROVE  /\ Sound(t, A \cup {f}, H, O) /\ f \in Handle /\ f \notin A
         /\ InUse(t.v) = InUse(s.v) /\ t.v.freeFd = s.v.freeFd
         /\ t.v.osRanOut = s.v.osRanOut
         /\ t.v.name = s.v.name /\ t.v.seekPos = s.v.seekPos
<1>1. PICK v : v = s.v
  OBVIOUS
<1>2. PICK x : x = Grown(v)
  OBVIOUS
<1>3. Proper(v, A) /\ A \subseteq Handle
  BY <1>1, SoundType, InUseFacts
<1>4. PICK m \in 0 .. MaxVfd, g \in [Slot -> Slot] :
        /\ Relisted(v, x, m, g)
        /\ g[0] # 0 /\ (\A e \in A : e < m)
        /\ Circle(g, {e \in Handle : e < m /\ e \notin A})
  BY <1>1, <1>2, <1>3, Grows
<1>5. PICK U : U = {e \in Handle : e < m /\ e \notin A}
  OBVIOUS
<1>6. f = g[0]
  BY <1>1, <1>2, <1>4 DEF NewSlot, Relisted
<1>7. f \in U /\ f \in Handle /\ f \notin A /\ f < m /\ f \in Slot /\ f # 0 /\ 0 \in Slot
  <2>1. g[0] \in U \cup {0}
    BY <1>4, <1>5, CircleFacts
  <2>2. f \in U
    BY <1>4, <1>6, <2>1
  <2> QED BY <1>5, <2>2, SlotFacts
<1>8. PICK h : h = [g EXCEPT ![0] = g[f], ![f] = 0]
  OBVIOUS
<1>9. /\ h \in [Slot -> Slot] /\ h[0] = g[f]
      /\ \A e \in Slot : e # 0 /\ e # f => h[e] = g[e]
  BY <1>7, <1>8
<1>10. Circle(h, U \ {f})
  <2>1. \A e \in (U \cup {0}) \ {0, f} : h[e] = g[e]
    <3>1. \A e \in (U \cup {0}) \ {0, f} : e \in Slot /\ e # 0 /\ e # f
      BY <1>5, SlotFacts
    <3> QED BY <1>9, <3>1
  <2>2. Circle(g, U) /\ 0 \in U \cup {0}
    BY <1>4, <1>5
  <2> QED BY <1>6, <1>7, <1>9, <2>1, <2>2, CircleCut
<1>11. PICK B : B = A \cup {f}
  OBVIOUS
<1>12. U \ {f} = {e \in Handle : e < m /\ e \notin B}
  BY <1>5, <1>11
<1>13. A \subseteq B /\ B \subseteq Handle /\ \A e \in B : e < m
  BY <1>3, <1>4, <1>7, <1>11
<1>14. Relisted(v, t.v, m, h)
  <2>1. PICK w : w = [x EXCEPT !.nextFree[0] = x.nextFree[f], !.nextFree[f] = 0]
    OBVIOUS
  <2>2. t.v = w
    BY <1>1, <1>2, <2>1 DEF AllocateVfd
  <2>3. x = [size |-> m, fd |-> v.fd, dirty |-> v.dirty, nextFree |-> g,
             more |-> v.more, less |-> v.less, seekPos |-> v.seekPos,
             name |-> v.name, kpos |-> v.kpos, link |-> v.link, nfile |-> v.nfile,
             freeFd |-> v.freeFd, osRanOut |-> v.osRanOut, others |-> v.others]
    BY <1>4 DEF Relisted
  <2>4. w = [x EXCEPT !.nextFree = h]
    <3>1. x.nextFree = g
      BY <2>3
    <3> QED BY <1>8, <2>1, <2>3, <3>1
  <2> QED BY <2>2, <2>3, <2>4 DEF Relisted
<1>15. Sound(t, B, H, O) /\ InUse(t.v) = InUse(s.v)
  <2>1. Relisted(s.v, t.v, m, h) /\ Circle(h, {e \in Handle : e < m /\ e \notin B})
    BY <1>1, <1>10, <1>12, <1>14
  <2> QED BY <1>9, <1>13, <2>1, RelistSound
<1>16. /\ t.v.freeFd = v.freeFd /\ t.v.osRanOut = v.osRanOut
       /\ t.v.name = v.name /\ t.v.seekPos = v.seekPos
  BY <1>14 DEF Relisted
<1> QED BY <1>1, <1>7, <1>11, <1>15, <1>16

\* fileNameOpenFile comes to open the file with a slot and a descriptor.
LEMMA RoomMade ==
  ASSUME NEW s, NEW A, NEW H, NEW O, Sound(s, A, H, O), Started(s.v, A),
         HasRoom(s.v), NEW f, f = NewSlot(s.v), NEW t, t = MadeRoom(s)
  PROVE  /\ Sound(t, A \cup {f}, H, O) /\ Started(t.v, A)
         /\ f \in Handle /\ f \notin A /\ f \notin InUse(t.v)
         /\ t.v.nfile < PgNofile /\ t.v.nfile + t.v.others < OsMax
         /\ t.v.name = s.v.name /\ At(t.v) = At(s.v)
         /\ SameData(s.k, t.k)
<1>1. PICK a : a = [v |-> AllocateVfd(s.v), k |-> s.k]
  OBVIOUS
<1>2. PICK B : B = A \cup {f}
  OBVIOUS
<1>3. /\ Sound(a, B, H, O) /\ f \in Handle /\ f \notin A
      /\ InUse(a.v) = InUse(s.v) /\ a.v.freeFd = s.v.freeFd
      /\ a.v.osRanOut = s.v.osRanOut
      /\ a.v.name = s.v.name /\ At(a.v) = At(s.v) /\ a.k = s.k
  <2>1. IsPair(a) /\ a.v = AllocateVfd(s.v) /\ a.k = s.k
    BY <1>1 DEF IsPair
  <2>2. a.v.seekPos = s.v.seekPos
    BY <1>2, <2>1, Allocates
  <2>3. At(a.v) = At(s.v)
    BY <2>2 DEF At
  <2> QED BY <1>2, <2>1, <2>3, Allocates
<1>4. PICK r : r = IF a.v.nfile >= PgNofile \/ (a.v.freeFd = 0 /\ a.v.osRanOut)
                   THEN AssertLruRoom(a) ELSE a
  OBVIOUS
<1>5. t = TryAgain(r, TRUE)
  <2>1. PICK x : x = s.v
    OBVIOUS
  <2>2. PICK y : y = s.k
    OBVIOUS
  <2>3. s = [v |-> x, k |-> y]
    BY <2>1, <2>2, SoundType
  <2>4. [s EXCEPT !.v = AllocateVfd(@)] = a
    BY <1>1, <2>1, <2>2, <2>3
  <2> QED BY <1>4, <2>4 DEF MadeRoom
<1>6. /\ a.v.nfile \in Int /\ a.v.freeFd \in Nat /\ PgNofile \in Nat
      /\ PgNofile # 0 /\ Proper(a.v, B)
  BY <1>3, SoundType, VfdTypes, VfdAssumption
<1>7. /\ Sound(r, B, H, O) /\ Same(a, r) /\ Fewer(a, r)
      /\ r.v.nfile < PgNofile /\ (r = a \/ r.v.freeFd > 0)
  <2>1. CASE a.v.nfile >= PgNofile \/ (a.v.freeFd = 0 /\ a.v.osRanOut)
    <3>1. r = AssertLruRoom(a)
      BY <1>4, <2>1
    <3>2. Spare(a.v)
      <4>1. CASE a.v.nfile >= PgNofile
        <5>1. a.v.nfile > 0
          BY <1>6, <4>1
        <5>2. InUse(a.v) # {}
          BY <1>6, <5>1, InUseFacts
        <5> QED BY <5>2 DEF Spare
      <4>2. CASE a.v.osRanOut
        BY <1>3, <4>2 DEF Started, Spare
      <4> QED BY <2>1, <4>1, <4>2
    <3> QED BY <1>3, <3>1, <3>2, MakesRoom
  <2>2. CASE ~(a.v.nfile >= PgNofile \/ (a.v.freeFd = 0 /\ a.v.osRanOut))
    <3>1. r = a
      BY <1>4, <2>2
    <3>2. a.v.nfile < PgNofile
      BY <1>6, <2>2
    <3> QED BY <1>3, <3>1, <3>2 DEF Same, SameData, Fewer
  <2> QED BY <2>1, <2>2
<1>8. /\ Sound(t, B, H, O) /\ Same(r, t) /\ Fewer(r, t)
      /\ t.v.nfile <= r.v.nfile /\ t.v.nfile + t.v.others < OsMax
      /\ (t = r \/ t.v.freeFd > 0)
  <2>1. TRUE \in BOOLEAN
    OBVIOUS
  <2> QED BY <1>5, <1>7, <2>1, TriesAgain
<1>9. t.v.nfile < PgNofile
  <2>1. t.v.nfile \in Int /\ r.v.nfile \in Int
    BY <1>7, <1>8, SoundType, VfdTypes
  <2> QED BY <1>6, <1>7, <1>8, <2>1
<1>10. f \notin InUse(t.v)
  <2>1. InUse(s.v) \subseteq A
    BY SoundType, InUseFacts
  <2> QED BY <1>3, <1>7, <1>8, <2>1 DEF Fewer
<1>11. Started(t.v, A)
  <2>1. CASE t.v.freeFd > 0
    BY <2>1 DEF Started, Spare
  <2>2. CASE ~(t.v.freeFd > 0)
    <3>1. t = r /\ r = a
      BY <1>7, <1>8, <2>2
    <3> QED BY <1>3, <3>1 DEF Started, Spare
  <2> QED BY <2>1, <2>2
<1>12. /\ t.v.name = s.v.name /\ At(t.v) = At(s.v) /\ SameData(s.k, t.k)
  <2>1. Same(a, t)
    BY <1>7, <1>8, SameTrans
  <2> QED BY <1>3, <2>1 DEF Same
<1> QED BY <1>2, <1>3, <1>8, <1>9, <1>10, <1>11, <1>12

\* The pages after open() of file n.
OpenData(k, l, n) ==
  /\ l[n] # Absent /\ l[n].data = IF k[n] = Absent THEN <<>> ELSE k[n].data
  /\ \A m \in Name : m # n => /\ l[m] = Absent <=> k[m] = Absent
                              /\ k[m] # Absent => l[m].data = k[m].data

NamedAs(x, w, f, n) == w = [x EXCEPT !.name[f] = n, !.seekPos[f] = 0]

OpenedAs(r, t, f, n) ==
  /\ f \in InUse(t.v) /\ t.v.name[f] = n /\ t.v.seekPos[f] = 0
  /\ Besides(r.v, t.v, f) /\ OpenData(r.k, t.k, n)

\* open() with a slot and a descriptor at hand.
LEMMA OpensNow ==
  ASSUME NEW r, NEW B, NEW H, NEW O, Sound(r, B, H, O), NEW f \in B,
         f \notin InUse(r.v), NEW n \in Name,
         r.v.nfile < PgNofile, r.v.nfile + r.v.others < OsMax,
         NEW o, o = KernelOpen(r, f, n), NEW x, x = Insert(o.v, f),
         NEW t, IsPair(t), NamedAs(x, t.v, f, n), t.k = o.k
  PROVE  Sound(t, B, H \cup {f}, O) /\ OpenedAs(r, t, f, n)
<1>1. PICK v : v = r.v
  OBVIOUS
<1>2. PICK w : w = t.v
  OBVIOUS
<1>3. PICK y : y = o.v
  OBVIOUS
<1>4. v \in Vfds /\ IsVfd(v) /\ f \in Slot /\ r.k \in Store
  <2>1. v \in Vfds /\ Proper(v, B) /\ r.k \in Store
    BY <1>1, SoundType
  <2> QED BY <2>1, IsVfdType, InUseFacts, SlotFacts
<1>5. o.k = Created(r.k, n) /\ KernelOpened(v, y, f, n)
  <2>1. v = r.v /\ IsVfd(v) /\ o = KernelOpen(r, f, n)
    BY <1>1, <1>4
  <2> QED BY <1>3, <2>1, KernelOpenFields
<1>6. IsVfd(y)
  BY <1>5 DEF KernelOpened, IsVfd
<1>7. /\ y.size = v.size /\ y.fd = [v.fd EXCEPT ![f] = TRUE]
      /\ y.dirty = [v.dirty EXCEPT ![f] = FALSE] /\ y.nextFree = v.nextFree
      /\ y.more = v.more /\ y.less = v.less /\ y.seekPos = v.seekPos
      /\ y.name = v.name /\ y.kpos = [v.kpos EXCEPT ![f] = 0]
      /\ y.link = [v.link EXCEPT ![f] = n] /\ y.nfile = v.nfile + 1
      /\ y.freeFd = v.freeFd /\ y.osRanOut = v.osRanOut /\ y.others = v.others
  BY <1>5 DEF KernelOpened
<1>8. x = [size |-> y.size, fd |-> y.fd, dirty |-> y.dirty,
           nextFree |-> y.nextFree,
           more |-> [y.more EXCEPT ![f] = 0, ![y.less[0]] = f],
           less |-> [y.less EXCEPT ![f] = y.less[0], ![0] = f],
           seekPos |-> y.seekPos, name |-> y.name, kpos |-> y.kpos,
           link |-> y.link, nfile |-> y.nfile, freeFd |-> y.freeFd,
           osRanOut |-> y.osRanOut, others |-> y.others]
  <2>1. x = Insert(y, f)
    BY <1>3
  <2> QED BY <1>6, <2>1, InsertFields
<1>9. OpensAs(v, w, f, n, 0, v.freeFd)
  <2>1. NamedAs(x, w, f, n) /\ IsVfd(x)
    BY <1>2, <1>8 DEF IsVfd
  <2>3. w = [size |-> x.size, fd |-> x.fd, dirty |-> x.dirty,
             nextFree |-> x.nextFree, more |-> x.more, less |-> x.less,
             seekPos |-> [x.seekPos EXCEPT ![f] = 0],
             name |-> [x.name EXCEPT ![f] = n], kpos |-> x.kpos,
             link |-> x.link, nfile |-> x.nfile, freeFd |-> x.freeFd,
             osRanOut |-> x.osRanOut, others |-> x.others]
    BY <2>1, ZenonT(60) DEF NamedAs, IsVfd
  <2>2. w = [size |-> y.size, fd |-> y.fd, dirty |-> y.dirty,
             nextFree |-> y.nextFree,
             more |-> [y.more EXCEPT ![f] = 0, ![y.less[0]] = f],
             less |-> [y.less EXCEPT ![f] = y.less[0], ![0] = f],
             seekPos |-> [y.seekPos EXCEPT ![f] = 0],
             name |-> [y.name EXCEPT ![f] = n], kpos |-> y.kpos,
             link |-> y.link, nfile |-> y.nfile, freeFd |-> y.freeFd,
             osRanOut |-> y.osRanOut, others |-> y.others]
    BY <1>8, <2>3
  <2> QED BY <1>7, <2>2 DEF OpensAs
<1>10. Sound(t, B, H \cup {f}, O)
  <2>1. PICK i : i = 0
    OBVIOUS
  <2>2. PICK fr : fr = v.freeFd
    OBVIOUS
  <2>3. t.k = Created(r.k, n) /\ OpensAs(r.v, t.v, f, n, i, fr)
    BY <1>1, <1>2, <1>5, <1>9, <2>1, <2>2
  <2>4. fr \in Nat /\ i \in Nat
    BY <1>4, <2>1, <2>2, VfdTypes
  <2>5. Sound(r, B, H, O) /\ f \in B /\ f \notin InUse(r.v) /\ n \in Name
    OBVIOUS
  <2>6. r.v.nfile < PgNofile /\ r.v.nfile + r.v.others < OsMax
    OBVIOUS
  <2> QED BY <2>3, <2>4, <2>5, <2>6, OpenSound
<1>11. /\ w.fd = [v.fd EXCEPT ![f] = TRUE]
       /\ w.seekPos = [v.seekPos EXCEPT ![f] = 0]
       /\ w.name = [v.name EXCEPT ![f] = n]
  BY <1>9 DEF OpensAs
<1>12. /\ v.fd \in [Slot -> BOOLEAN] /\ v.seekPos \in [Slot -> Int]
       /\ v.name \in [Slot -> Name \cup {Absent}]
  BY <1>4, VfdTypes
<1>13. f \in InUse(t.v) /\ t.v.name[f] = n /\ t.v.seekPos[f] = 0
  BY <1>2, <1>4, <1>11, <1>12 DEF InUse
<1>14. Besides(r.v, t.v, f)
  BY <1>1, <1>2, <1>11, <1>12 DEF Besides, At
<1>15. OpenData(r.k, t.k, n)
  <2>1. PICK l : l = Created(r.k, n)
    OBVIOUS
  <2>2. /\ l[n] # Absent /\ (r.k[n] # Absent => l = r.k)
        /\ (r.k[n] = Absent => l[n].data = <<>>)
        /\ \A m \in Name : m # n => l[m] = r.k[m]
    BY <1>4, <2>1, CreatedFacts
  <2>3. t.k = l
    BY <1>5, <2>1
  <2> QED BY <2>2, <2>3 DEF OpenData
<1> QED BY <1>10, <1>13, <1>14, <1>15 DEF OpenedAs

NewFile(v, f, n) == v.name[f] = n /\ v.seekPos[f] = 0

LEMMA Opens ==
  ASSUME NEW s, NEW A, NEW H, NEW O, Sound(s, A, H, O), Started(s.v, A),
         HasRoom(s.v), NEW n \in Name, NEW creat, NEW excl,
         NEW f, f = NewSlot(s.v), NEW t, t = fileNameOpenFile(s, n, creat, excl)
  PROVE  /\ f \in Handle /\ f \notin A /\ Besides(s.v, t.v, f)
         /\ Openable(s.k, n, creat, excl) =>
              /\ Sound(t, A \cup {f}, H \cup {f}, O) /\ Spare(t.v)
              /\ NewFile(t.v, f, n) /\ OpenData(s.k, t.k, n)
         /\ ~ Openable(s.k, n, creat, excl) =>
              Sound(t, A, H, O) /\ Started(t.v, A) /\ SameData(s.k, t.k)
<1>1. PICK r : r = MadeRoom(s)
  OBVIOUS
<1>2. PICK B : B = A \cup {f}
  OBVIOUS
<1>3. /\ Sound(r, B, H, O) /\ Started(r.v, A)
      /\ f \in Handle /\ f \notin A /\ f \notin InUse(r.v)
      /\ r.v.nfile < PgNofile /\ r.v.nfile + r.v.others < OsMax
      /\ r.v.name = s.v.name /\ At(r.v) = At(s.v)
      /\ SameData(s.k, r.k)
  BY <1>1, <1>2, RoomMade
<1>4. f \in B
  BY <1>2
<1>5. CASE Openable(s.k, n, creat, excl)
  <2>1. PICK o : o = KernelOpen(r, f, n)
    OBVIOUS
  <2>2. PICK x : x = Insert(o.v, f)
    OBVIOUS
  <2>3. PICK y : y = [v |-> [x EXCEPT !.name[f] = n, !.seekPos[f] = 0], k |-> o.k]
    OBVIOUS
  <2>4. t = y
    BY <1>1, <1>5, <2>1, <2>2, <2>3 DEF fileNameOpenFile
  <2>5. IsPair(y) /\ NamedAs(x, y.v, f, n) /\ y.k = o.k
    BY <2>3 DEF IsPair, NamedAs
  <2>6. Sound(y, B, H \cup {f}, O) /\ OpenedAs(r, y, f, n)
    BY <1>3, <1>4, <2>1, <2>2, <2>5, OpensNow
  <2>7. Besides(s.v, y.v, f) /\ Spare(y.v)
    BY <1>3, <2>6 DEF Besides, Spare, OpenedAs
  <2>8. OpenData(s.k, y.k, n)
    BY <1>3, <2>6 DEF OpenData, SameData, OpenedAs
  <2>9. NewFile(y.v, f, n)
    BY <2>6 DEF OpenedAs, NewFile
  <2> QED BY <1>2, <1>3, <1>5, <2>4, <2>6, <2>7, <2>8, <2>9
<1>6. CASE ~ Openable(s.k, n, creat, excl)
  <2>1. PICK y : y = [v |-> FreeVfd(r.v, f), k |-> r.k]
    OBVIOUS
  <2>2. t = y
    <3>1. PICK a : a = r.v
      OBVIOUS
    <3>2. PICK b : b = r.k
      OBVIOUS
    <3>3. r = [v |-> a, k |-> b]
      BY <1>3, <3>1, <3>2, SoundType
    <3>4. t = [r EXCEPT !.v = FreeVfd(@, f)]
      BY <1>1, <1>6 DEF fileNameOpenFile
    <3> QED BY <2>1, <3>3, <3>4
  <2>3. IsPair(y) /\ y.k = r.k /\ y.v = FreeVfd(r.v, f)
    BY <2>1 DEF IsPair
  <2>4. FreedAs(r.v, y.v, f)
    <3>1. IsVfd(r.v)
      BY <1>3, SoundType, IsVfdType
    <3> QED BY <2>3, <3>1, FreeVfdFields
  <2>5. /\ Sound(y, B \ {f}, H \ {f}, O)
        /\ Besides(r.v, y.v, f) /\ (Spare(r.v) => Spare(y.v))
    BY <1>3, <1>4, <2>3, <2>4, Frees
  <2>6. B \ {f} = A /\ H \ {f} = H
    <3>1. H \subseteq A
      BY DEF Sound
    <3> QED BY <1>2, <1>3, <3>1
  <2>7. y.v.osRanOut = r.v.osRanOut
    BY <2>4 DEF FreedAs
  <2>8. Started(y.v, A)
    BY <1>3, <2>5, <2>7 DEF Started
  <2>9. Besides(s.v, y.v, f) /\ SameData(s.k, y.k)
    BY <1>3, <2>3, <2>5 DEF Besides
  <2> QED BY <1>3, <1>6, <2>2, <2>5, <2>6, <2>8, <2>9
<1> QED BY <1>5, <1>6

-----------------------------------------------------------------------------
(* The calls on a file that a caller holds.                                *)

\* The file of slot f is at position i, in the kernel too if it is open.
MovedAs(v, w, f, i) ==
  w = [size |-> v.size, fd |-> v.fd, dirty |-> v.dirty, nextFree |-> v.nextFree,
       more |-> v.more, less |-> v.less,
       seekPos |-> [v.seekPos EXCEPT ![f] = i], name |-> v.name,
       kpos |-> [v.kpos EXCEPT ![f] = IF v.fd[f] THEN i ELSE v.kpos[f]],
       link |-> v.link, nfile |-> v.nfile, freeFd |-> v.freeFd,
       osRanOut |-> v.osRanOut, others |-> v.others]

\* A position that file f can be at.
CanBe(v, f, i) == i >= -1 /\ (v.fd[f] => i >= 0)

\* The position of file f has been set.
PosSet(v, w, f, i) == At(w) = [At(v) EXCEPT ![f] = i]

LEMMA Moves ==
  ASSUME NEW s, NEW A, NEW H, NEW O, Sound(s, A, H, O), NEW f \in Slot,
         NEW i \in Int, CanBe(s.v, f, i),
         NEW t, IsPair(t), t.k = s.k, MovedAs(s.v, t.v, f, i)
  PROVE  /\ Sound(t, A, H, O) /\ t.v.name = s.v.name
         /\ t.v.fd = s.v.fd /\ t.v.link = s.v.link
         /\ PosSet(s.v, t.v, f, SeekFrom0(i))
         /\ (Spare(s.v) => Spare(t.v))
<1>1. PICK v : v = s.v
  OBVIOUS
<1>2. PICK w : w = t.v
  OBVIOUS
<1>3. v \in Vfds /\ InRing(v) /\ Placed(v)
  BY <1>1, SoundType DEF Proper
<1>4. MovedAs(v, w, f, i)
  BY <1>1, <1>2
<1>5. /\ w.size = v.size /\ w.fd = v.fd /\ w.dirty = v.dirty
      /\ w.nextFree = v.nextFree /\ w.more = v.more /\ w.less = v.less
      /\ w.name = v.name /\ w.link = v.link /\ w.nfile = v.nfile
      /\ w.freeFd = v.freeFd /\ w.osRanOut = v.osRanOut /\ w.others = v.others
      /\ w.seekPos = [v.seekPos EXCEPT ![f] = i]
      /\ w.kpos = [v.kpos EXCEPT ![f] = IF v.fd[f] THEN i ELSE v.kpos[f]]
  BY <1>4 DEF MovedAs
<1>6. v.seekPos \in [Slot -> Int] /\ v.kpos \in [Slot -> Int]
  BY <1>3, VfdTypes
<1>7. w.seekPos \in [Slot -> Int] /\ w.seekPos[f] = i
  BY <1>5, <1>6
<1>8. w.kpos \in [Slot -> Int] /\ w.kpos[f] = IF v.fd[f] THEN i ELSE v.kpos[f]
  <2>1. PICK j : j = IF v.fd[f] THEN i ELSE v.kpos[f]
    OBVIOUS
  <2>2. j \in Int
    BY <1>6, <2>1
  <2>3. w.kpos = [v.kpos EXCEPT ![f] = j]
    BY <1>5, <2>1
  <2> QED BY <1>6, <2>1, <2>2, <2>3
<1>9. \A e \in Slot : e # f => w.seekPos[e] = v.seekPos[e] /\ w.kpos[e] = v.kpos[e]
  BY <1>5, <1>6
<1>10. w \in Vfds
  <2>1. /\ v.size \in 0 .. MaxVfd /\ v.fd \in [Slot -> BOOLEAN]
        /\ v.dirty \in [Slot -> BOOLEAN]
        /\ v.nextFree \in [Slot -> Slot] /\ v.more \in [Slot -> Slot]
        /\ v.less \in [Slot -> Slot]
        /\ v.name \in [Slot -> Name \cup {Absent}]
        /\ v.link \in [Slot -> Name \cup {Absent}]
        /\ v.nfile \in Int /\ v.freeFd \in Nat /\ v.osRanOut \in BOOLEAN
        /\ v.others \in 0 .. OsMax - 1
    BY <1>3 DEF Vfds
  <2>2. IsVfd(w)
    BY <1>4 DEF MovedAs, IsVfd
  <2> QED BY <1>5, <1>7, <1>8, <2>1, <2>2 DEF IsVfd, Vfds
<1>11. Edits(v, w)
  BY <1>5, <1>10 DEF Edits
<1>12. InUse(w) = InUse(v)
  BY <1>5 DEF InUse
<1>13. InRing(w)
  BY <1>3, <1>5, <1>12 DEF InRing
<1>14. Placed(w)
  <2> SUFFICES ASSUME NEW e \in Slot
               PROVE  /\ w.fd[e] => w.kpos[e] = w.seekPos[e] /\ w.seekPos[e] >= 0
                      /\ ~ w.fd[e] => w.kpos[e] = -1 /\ w.seekPos[e] >= -1
    BY DEF Placed
  <2>1. /\ v.fd[e] => v.kpos[e] = v.seekPos[e] /\ v.seekPos[e] >= 0
        /\ ~ v.fd[e] => v.kpos[e] = -1 /\ v.seekPos[e] >= -1
    BY <1>3 DEF Placed
  <2>2. CASE e = f
    BY <1>1, <1>5, <1>7, <1>8, <2>1, <2>2 DEF CanBe
  <2>3. CASE e # f
    BY <1>5, <1>9, <2>1, <2>3
  <2> QED BY <2>2, <2>3
<1>15. Sound(t, A, H, O)
  <2>1. PICK u : u = [v |-> w, k |-> s.k]
    OBVIOUS
  <2>2. Sound(u, A, H, O)
    BY <1>1, <1>11, <1>13, <1>14, <2>1, EditSound
  <2>3. t = u
    BY <1>2, <2>1 DEF IsPair
  <2> QED BY <2>2, <2>3
<1>16. Spare(v) => Spare(w)
  BY <1>5, <1>12 DEF Spare
<1>17. PosSet(v, w, f, SeekFrom0(i))
  <2>1. \A e \in Slot : At(w)[e] = IF e = f THEN SeekFrom0(i) ELSE At(v)[e]
    BY <1>7, <1>9 DEF At
  <2>2. At(w) = [e \in Slot |-> At(w)[e]] /\ At(v) = [e \in Slot |-> At(v)[e]]
    BY DEF At
  <2> QED BY <2>1, <2>2 DEF PosSet
<1> QED BY <1>1, <1>2, <1>5, <1>15, <1>16, <1>17

\* The kernel has the held file f open where fd.c says.
LEMMA Position ==
  ASSUME NEW s, NEW A, NEW H, NEW O, Sound(s, A, H, O), NEW f \in H
  PROVE  /\ f \in Slot /\ f \in Handle /\ f \in A /\ At(s.v)[f] \in Nat
         /\ s.v.name[f] \in Name /\ s.k[s.v.name[f]] # Absent
         /\ s.v.seekPos[f] \in Int
         /\ s.v.seekPos[f] >= 0 => At(s.v)[f] = s.v.seekPos[f]
         /\ s.v.fd[f] => /\ s.v.kpos[f] = s.v.seekPos[f] /\ s.v.seekPos[f] >= 0
                         /\ s.v.link[f] = s.v.name[f]
<1>1. f \in A /\ Proper(s.v, A) /\ s.v \in Vfds /\ Placed(s.v) /\ Linked(s.v, s.k, H)
  BY DEF Sound, Proper
<1>2. f \in Slot /\ f \in Handle
  BY <1>1, InUseFacts, SlotFacts
<1>3. s.v.seekPos \in [Slot -> Int]
  BY <1>1, VfdTypes
<1>4. s.v.fd[f] => f \in InUse(s.v)
  BY <1>2 DEF InUse
<1>5. At(s.v)[f] = SeekFrom0(s.v.seekPos[f])
  BY <1>2 DEF At
<1>6. /\ At(s.v)[f] \in Nat /\ s.v.seekPos[f] \in Int
      /\ s.v.seekPos[f] >= 0 => At(s.v)[f] = s.v.seekPos[f]
  BY <1>2, <1>3, <1>5 DEF SeekFrom0
<1> QED BY <1>1, <1>2, <1>4, <1>6 DEF Placed, Linked

\* The page at the position is read, or the end of the file, or nothing.
ReadsAs(s, t, f, r) ==
  LET i == At(s.v)[f]
      d == s.k[s.v.name[f]].data
  IN  \/ r = Fail /\ At(t.v) = At(s.v)
      \/ r = Eof /\ ~(i < Len(d)) /\ At(t.v) = At(s.v)
      \/ /\ i < Len(d) /\ r = d[i + 1]
         /\ At(t.v) = [At(s.v) EXCEPT ![f] = i + 1]

LEMMA Reads ==
  ASSUME NEW s, NEW A, NEW H, NEW O, Sound(s, A, H, O), Spare(s.v), NEW f \in H,
         NEW ok \in BOOLEAN, NEW t, t = FileRead(s, f, ok),
         NEW r, r = ReadResult(FileAccess(s, f, ok), f)
  PROVE  /\ Sound(t, A, H, O) /\ Spare(t.v) /\ t.v.name = s.v.name
         /\ SameData(s.k, t.k) /\ ReadsAs(s, t, f, r)
<1>1. PICK a : a = FileAccess(s, f, ok)
  OBVIOUS
<1>2. Sound(a, A, H, O) /\ Same(s, a) /\ Spare(a.v)
  BY <1>1, Access
<1>3. /\ a.v.name = s.v.name /\ At(a.v) = At(s.v) /\ SameData(s.k, a.k)
  BY <1>2 DEF Same
<1>4. PICK n : n = s.v.name[f]
  OBVIOUS
<1>5. PICK i : i = At(s.v)[f]
  OBVIOUS
<1>6. PICK d : d = s.k[n].data
  OBVIOUS
<1>7. n \in Name /\ s.k[n] # Absent /\ i \in Nat /\ f \in Slot
  BY <1>4, <1>5, Position
<1>8. a.v.fd[f] => a.v.kpos[f] = i /\ a.v.link[f] = n /\ a.v.seekPos[f] = i
  BY <1>2, <1>3, <1>4, <1>5, Position
<1>9. d \in Seq(Pages) /\ a.k[n].data = d
  <2>1. s.k \in Store
    BY SoundType
  <2>2. d \in Seq(Pages)
    BY <1>6, <1>7, <2>1, StoreFacts
  <2> QED BY <1>3, <1>6, <1>7, <2>2 DEF SameData
<1>10. r = IF ~ a.v.fd[f] THEN Fail ELSE IF i >= Len(d) THEN Eof ELSE d[i + 1]
  <2>1. r = ReadResult(a, f)
    BY <1>1
  <2>2. CASE ~ a.v.fd[f]
    BY <2>1, <2>2 DEF ReadResult
  <2>3. CASE a.v.fd[f]
    BY <1>8, <1>9, <2>1, <2>3 DEF ReadResult, Length
  <2> QED BY <2>2, <2>3
<1>11. Len(d) \in Nat
  BY <1>9
<1>12. CASE ~ a.v.fd[f] \/ i >= Len(d)
  <2>1. r \in {Fail, Eof} /\ (r = Fail \/ (r = Eof /\ i >= Len(d)))
    BY <1>10, <1>12
  <2>2. t = a
    BY <1>1, <2>1 DEF FileRead
  <2>3. i >= Len(d) => ~(i < Len(d))
    BY <1>7, <1>11
  <2>4. ReadsAs(s, t, f, r)
    BY <1>3, <1>4, <1>5, <1>6, <2>1, <2>2, <2>3 DEF ReadsAs
  <2> QED BY <1>2, <1>3, <2>2, <2>4
<1>13. CASE a.v.fd[f] /\ ~(i >= Len(d))
  <2>1. r = d[i + 1] /\ i < Len(d)
    BY <1>7, <1>10, <1>11, <1>13
  <2>2. d[i + 1] \in Pages
    <3>1. i + 1 \in 1 .. Len(d)
      BY <1>7, <1>11, <2>1
    <3> QED BY <1>9, <3>1
  <2>3. r \notin {Fail, Eof}
    BY <2>1, <2>2, VfdAssumption DEF Pages
  <2>4. PICK v : v = a.v
    OBVIOUS
  <2>5. PICK w : w = [v EXCEPT !.kpos[f] = @ + 1, !.seekPos[f] = @ + 1]
    OBVIOUS
  <2>6. t = [v |-> w, k |-> a.k]
    <3>1. ReadResult(a, f) \notin {Fail, Eof}
      BY <1>1, <2>3
    <3> QED BY <1>1, <2>4, <2>5, <3>1 DEF FileRead
  <2>7. PICK j : j = i + 1
    OBVIOUS
  <2>8. MovedAs(v, w, f, j)
    <3>1. IsVfd(v)
      BY <1>2, <2>4, SoundType, IsVfdType
    <3>2. w = [size |-> v.size, fd |-> v.fd, dirty |-> v.dirty,
               nextFree |-> v.nextFree, more |-> v.more, less |-> v.less,
               seekPos |-> [v.seekPos EXCEPT ![f] = v.seekPos[f] + 1],
               name |-> v.name, kpos |-> [v.kpos EXCEPT ![f] = v.kpos[f] + 1],
               link |-> v.link, nfile |-> v.nfile, freeFd |-> v.freeFd,
               osRanOut |-> v.osRanOut, others |-> v.others]
      BY <2>5, <3>1 DEF IsVfd
    <3>3. v.fd[f] /\ v.seekPos[f] + 1 = j /\ v.kpos[f] + 1 = j
      BY <1>3, <1>5, <1>8, <1>13, <2>4, <2>7
    <3> QED BY <3>2, <3>3 DEF MovedAs
  <2>9. IsPair(t) /\ t.k = a.k /\ t.v = w
    BY <2>6 DEF IsPair
  <2>10. MovedAs(a.v, t.v, f, j) /\ j \in Nat
    BY <1>7, <2>4, <2>7, <2>8, <2>9
  <2>11. /\ Sound(t, A, H, O) /\ t.v.name = a.v.name
         /\ At(t.v) = [At(a.v) EXCEPT ![f] = j] /\ Spare(t.v)
    <3>1. j \in Int /\ CanBe(a.v, f, j) /\ SeekFrom0(j) = j
      BY <2>10 DEF SeekFrom0, CanBe
    <3>2. Sound(a, A, H, O) /\ f \in Slot /\ Spare(a.v)
      BY <1>2, <1>7
    <3>3. /\ Sound(t, A, H, O) /\ t.v.name = a.v.name
          /\ PosSet(a.v, t.v, f, SeekFrom0(j)) /\ Spare(t.v)
      BY <2>9, <2>10, <3>1, <3>2, Moves
    <3> QED BY <3>1, <3>3 DEF PosSet
  <2>12. ReadsAs(s, t, f, r)
    BY <1>3, <1>4, <1>5, <1>6, <2>1, <2>7, <2>11 DEF ReadsAs
  <2> QED BY <1>3, <2>9, <2>11, <2>12
<1> QED BY <1>12, <1>13

\* The position FileSeek goes to.
SeekTo(s, f, off, whence) ==
  CASE whence = "SET" -> off
    [] whence = "CUR" -> At(s.v)[f] + off
    [] whence = "END" -> Len(s.k[s.v.name[f]].data) + off

\* A seek to the end of a file that is not open then fails.
SeekLost(t, f, whence) == whence = "END" /\ ~ t.v.fd[f]

SeeksAs(s, t, f, off, whence) ==
  IF SeekLost(t, f, whence) THEN At(t.v) = [At(s.v) EXCEPT ![f] = 0]
  ELSE /\ SeekTo(s, f, off, whence) \in Nat
       /\ t.v.seekPos[f] = SeekTo(s, f, off, whence)
       /\ At(t.v) = [At(s.v) EXCEPT ![f] = SeekTo(s, f, off, whence)]

LEMMA Seeks ==
  ASSUME NEW s, NEW A, NEW H, NEW O, Sound(s, A, H, O), Spare(s.v), NEW f \in H,
         NEW off \in Nat, NEW whence \in {"SET", "CUR", "END"}, NEW ok \in BOOLEAN,
         whence = "CUR" => s.v.seekPos[f] >= 0,
         NEW t, t = FileSeek(s, f, off, whence, ok)
  PROVE  /\ Sound(t, A, H, O) /\ Spare(t.v) /\ t.v.name = s.v.name
         /\ SameData(s.k, t.k) /\ SeeksAs(s, t, f, off, whence)
<1>1. PICK a : a = IF whence = "END" /\ ~ s.v.fd[f] THEN FileAccess(s, f, ok) ELSE s
  OBVIOUS
<1>2. Sound(a, A, H, O) /\ Same(s, a) /\ Spare(a.v)
  <2>1. CASE whence = "END" /\ ~ s.v.fd[f]
    <3>1. a = FileAccess(s, f, ok)
      BY <1>1, <2>1
    <3> QED BY <3>1, Access
  <2>2. CASE ~(whence = "END" /\ ~ s.v.fd[f])
    <3>1. a = s
      BY <1>1, <2>2
    <3> QED BY <2>2, <3>1 DEF Same, SameData
  <2> QED BY <2>1, <2>2
<1>3. a.v.name = s.v.name /\ At(a.v) = At(s.v) /\ SameData(s.k, a.k)
  BY <1>2 DEF Same
<1>4. PICK n : n = s.v.name[f]
  OBVIOUS
<1>5. PICK d : d = s.k[n].data
  OBVIOUS
<1>6. /\ n \in Name /\ s.k[n] # Absent /\ f \in Slot /\ At(s.v)[f] \in Nat
      /\ s.v.seekPos[f] >= 0 => At(s.v)[f] = s.v.seekPos[f]
      /\ (s.v.fd[f] => s.v.kpos[f] = s.v.seekPos[f])
  BY <1>4, Position
<1>7. a.v.fd[f] => a.v.link[f] = n
  BY <1>2, <1>3, <1>4, Position
<1>8. Len(d) \in Nat /\ a.k[n].data = d
  <2>1. s.k \in Store
    BY SoundType
  <2>2. d \in Seq(Pages)
    BY <1>5, <1>6, <2>1, StoreFacts
  <2> QED BY <1>3, <1>5, <1>6, <2>2 DEF SameData
<1>9. PICK j : j = SeekTo(s, f, off, whence)
  OBVIOUS
<1>10. j \in Nat
  <2>0. off \in Nat /\ At(s.v)[f] + off \in Nat /\ Len(d) + off \in Nat
    BY <1>6, <1>8
  <2>1. CASE whence = "SET"
    BY <1>9, <2>0, <2>1 DEF SeekTo
  <2>2. CASE whence = "CUR"
    BY <1>9, <2>0, <2>2 DEF SeekTo
  <2>3. CASE whence = "END"
    BY <1>4, <1>5, <1>9, <2>0, <2>3 DEF SeekTo
  <2> QED BY <2>1, <2>2, <2>3
<1>11. PICK i : i = IF whence = "END" /\ ~ a.v.fd[f] THEN -1 ELSE j
  OBVIOUS
<1>12. i = CASE whence = "SET" -> off
             [] whence = "CUR" ->
                  (IF s.v.fd[f] THEN s.v.kpos[f] ELSE s.v.seekPos[f]) + off
             [] whence = "END" -> IF a.v.fd[f] THEN Length(a, f) + off ELSE -1
  <2>1. CASE whence = "SET"
    BY <1>9, <1>11, <2>1 DEF SeekTo
  <2>2. CASE whence = "CUR"
    BY <1>6, <1>9, <1>11, <2>2 DEF SeekTo
  <2>3. CASE whence = "END" /\ a.v.fd[f]
    <3>1. Length(a, f) = Len(d)
      BY <1>7, <1>8, <2>3 DEF Length
    <3> QED BY <1>4, <1>5, <1>9, <1>11, <2>3, <3>1 DEF SeekTo
  <2>4. CASE whence = "END" /\ ~ a.v.fd[f]
    BY <1>11, <2>4
  <2> QED BY <2>1, <2>2, <2>3, <2>4
<1>13. PICK v : v = a.v
  OBVIOUS
<1>14. PICK w : w = [v EXCEPT !.seekPos[f] = i, !.kpos[f] = IF v.fd[f] THEN i ELSE @]
  OBVIOUS
<1>15. t = [v |-> w, k |-> a.k]
  BY <1>1, <1>12, <1>13, <1>14 DEF FileSeek
<1>16. MovedAs(v, w, f, i)
  <2>1. IsVfd(v)
    BY <1>2, <1>13, SoundType, IsVfdType
  <2> QED BY <1>14, <2>1 DEF IsVfd, MovedAs
<1>17. IsPair(t) /\ t.k = a.k /\ t.v = w
  BY <1>15 DEF IsPair
<1>18. MovedAs(a.v, t.v, f, i)
  BY <1>13, <1>16, <1>17
<1>19. /\ Sound(t, A, H, O) /\ t.v.name = a.v.name /\ t.v.fd = a.v.fd
       /\ At(t.v) = [At(a.v) EXCEPT ![f] = SeekFrom0(i)] /\ Spare(t.v)
  <2>1. i \in Int /\ CanBe(a.v, f, i)
    BY <1>10, <1>11 DEF CanBe
  <2>2. Sound(a, A, H, O) /\ f \in Slot /\ Spare(a.v)
    BY <1>2, <1>6
  <2>3. /\ Sound(t, A, H, O) /\ t.v.name = a.v.name /\ t.v.fd = a.v.fd
        /\ PosSet(a.v, t.v, f, SeekFrom0(i)) /\ Spare(t.v)
    BY <1>17, <1>18, <2>1, <2>2, Moves
  <2> QED BY <2>3 DEF PosSet
<1>20. SeeksAs(s, t, f, off, whence)
  <2>1. SeekLost(t, f, whence) <=> whence = "END" /\ ~ a.v.fd[f]
    BY <1>19 DEF SeekLost
  <2>2. CASE whence = "END" /\ ~ a.v.fd[f]
    <3>1. SeekFrom0(i) = 0
      BY <1>11, <2>2 DEF SeekFrom0
    <3> QED BY <1>3, <1>19, <2>1, <2>2, <3>1 DEF SeeksAs
  <2>3. CASE ~(whence = "END" /\ ~ a.v.fd[f])
    <3>1. i = j /\ SeekFrom0(i) = j
      BY <1>10, <1>11, <2>3 DEF SeekFrom0
    <3>2. t.v.seekPos[f] = j
      <4>1. v.seekPos \in [Slot -> Int]
        BY <1>2, <1>13, SoundType, VfdTypes
      <4> QED BY <1>6, <1>16, <1>17, <3>1, <4>1 DEF MovedAs
    <3> QED BY <1>3, <1>9, <1>10, <1>19, <2>1, <2>3, <3>1, <3>2 DEF SeeksAs
  <2> QED BY <2>2, <2>3
<1> QED BY <1>3, <1>17, <1>19, <1>20

\* The mark FD_DIRTY of slot f is b.
MarkedAs(v, w, f, b) ==
  w = [size |-> v.size, fd |-> v.fd, dirty |-> [v.dirty EXCEPT ![f] = b],
       nextFree |-> v.nextFree, more |-> v.more, less |-> v.less,
       seekPos |-> v.seekPos, name |-> v.name, kpos |-> v.kpos, link |-> v.link,
       nfile |-> v.nfile, freeFd |-> v.freeFd, osRanOut |-> v.osRanOut,
       others |-> v.others]

LEMMA MarkFacts ==
  ASSUME NEW v, v \in Vfds, NEW f \in Slot, NEW b \in BOOLEAN, NEW w, MarkedAs(v, w, f, b)
  PROVE  /\ w \in Vfds /\ w.size = v.size /\ w.fd = v.fd
         /\ w.nextFree = v.nextFree /\ w.more = v.more /\ w.less = v.less
         /\ w.seekPos = v.seekPos /\ w.name = v.name /\ w.kpos = v.kpos
         /\ w.link = v.link /\ w.nfile = v.nfile /\ w.freeFd = v.freeFd
         /\ w.osRanOut = v.osRanOut /\ w.others = v.others
         /\ w.dirty[f] = b /\ \A e \in Slot : e # f => w.dirty[e] = v.dirty[e]
<1>1. /\ w.size = v.size /\ w.fd = v.fd
      /\ w.nextFree = v.nextFree /\ w.more = v.more /\ w.less = v.less
      /\ w.seekPos = v.seekPos /\ w.name = v.name /\ w.kpos = v.kpos
      /\ w.link = v.link /\ w.nfile = v.nfile /\ w.freeFd = v.freeFd
      /\ w.osRanOut = v.osRanOut /\ w.others = v.others
      /\ w.dirty = [v.dirty EXCEPT ![f] = b]
  BY DEF MarkedAs
<1>2. v.dirty \in [Slot -> BOOLEAN]
  BY VfdTypes
<1>3. w.dirty \in [Slot -> BOOLEAN]
  <2>1. w.dirty = [v.dirty EXCEPT ![f] = b]
    BY <1>1
  <2> QED BY <1>2, <2>1
<1>4. w.dirty[f] = b /\ \A e \in Slot : e # f => w.dirty[e] = v.dirty[e]
  <2>1. w.dirty = [v.dirty EXCEPT ![f] = b]
    BY <1>1
  <2> QED BY <1>2, <2>1
<1>5. w \in Vfds
  <2>1. /\ v.size \in 0 .. MaxVfd /\ v.fd \in [Slot -> BOOLEAN]
        /\ v.nextFree \in [Slot -> Slot] /\ v.more \in [Slot -> Slot]
        /\ v.less \in [Slot -> Slot] /\ v.seekPos \in [Slot -> Int]
        /\ v.kpos \in [Slot -> Int]
        /\ v.name \in [Slot -> Name \cup {Absent}]
        /\ v.link \in [Slot -> Name \cup {Absent}]
        /\ v.nfile \in Int /\ v.freeFd \in Nat /\ v.osRanOut \in BOOLEAN
        /\ v.others \in 0 .. OsMax - 1
    BY DEF Vfds
  <2>2. IsVfd(w)
    BY DEF MarkedAs, IsVfd
  <2> QED BY <1>1, <1>3, <2>1, <2>2 DEF IsVfd, Vfds
<1> QED BY <1>1, <1>4, <1>5

\* Another view of the same descriptors.
LEMMA MarkProper ==
  ASSUME NEW v, NEW A, Proper(v, A), NEW f \in Slot, NEW b \in BOOLEAN,
         NEW w, MarkedAs(v, w, f, b)
  PROVE  Proper(w, A) /\ InUse(w) = InUse(v)
<1>1. v \in Vfds /\ InRing(v) /\ Listed(v, A) /\ Counted(v) /\ Placed(v)
  BY DEF Proper
<1>2. /\ w \in Vfds /\ w.size = v.size /\ w.fd = v.fd
      /\ w.nextFree = v.nextFree /\ w.more = v.more /\ w.less = v.less
      /\ w.seekPos = v.seekPos /\ w.kpos = v.kpos
      /\ w.nfile = v.nfile /\ w.others = v.others
  BY <1>1, MarkFacts
<1>3. InUse(w) = InUse(v)
  BY <1>2 DEF InUse
<1>4. Unused(w, A) = Unused(v, A)
  BY <1>2 DEF Unused
<1>5. InRing(w) /\ Counted(w) /\ Placed(w)
  BY <1>1, <1>2, <1>3 DEF InRing, Counted, Placed
<1>6. Listed(w, A)
  BY <1>1, <1>2, <1>3, <1>4 DEF Listed
<1> QED BY <1>2, <1>3, <1>5, <1>6 DEF Proper

\* FileSync forces the file before it takes the mark away.
LEMMA Syncs ==
  ASSUME NEW s, NEW A, NEW H, NEW O, Sound(s, A, H, O), NEW f \in H,
         NEW t, t = FileSync(s, f)
  PROVE  Sound(t, A, H, O) /\ Same(s, t) /\ (Spare(s.v) => Spare(t.v))
<1>1. CASE ~(s.v.fd[f] /\ s.v.dirty[f])
  <2>1. t = s
    BY <1>1 DEF FileSync
  <2> QED BY <2>1 DEF Same, SameData
<1>2. CASE s.v.fd[f] /\ s.v.dirty[f]
  <2>1. PICK v : v = s.v
    OBVIOUS
  <2>2. PICK k : k = s.k
    OBVIOUS
  <2>3. PICK n : n = v.link[f]
    OBVIOUS
  <2>4. PICK w : w = [v EXCEPT !.dirty[f] = FALSE]
    OBVIOUS
  <2>5. PICK l : l = Fsync(k, n)
    OBVIOUS
  <2>6. t = [v |-> w, k |-> l]
    BY <1>2, <2>1, <2>2, <2>3, <2>4, <2>5 DEF FileSync
  <2>7. /\ f \in Slot /\ n \in Name /\ k[n] # Absent
        /\ v \in Vfds /\ Proper(v, A) /\ IsVfd(v) /\ k \in Store
    <3>1. v \in Vfds /\ Proper(v, A) /\ k \in Store
      BY <2>1, <2>2, SoundType
    <3>2. f \in Slot /\ n \in Name /\ k[n] # Absent
      BY <1>2, <2>1, <2>2, <2>3, Position
    <3> QED BY <3>1, <3>2, IsVfdType
  <2>8. MarkedAs(v, w, f, FALSE)
    BY <2>4, <2>7 DEF IsVfd, MarkedAs
  <2>9. FALSE \in BOOLEAN
    OBVIOUS
  <2>10. /\ w.fd = v.fd /\ w.link = v.link /\ w.name = v.name
         /\ w.seekPos = v.seekPos /\ w.freeFd = v.freeFd /\ w.size = v.size
         /\ w.nextFree = v.nextFree /\ w.others = v.others
         /\ \A e \in Slot : e # f => w.dirty[e] = v.dirty[e]
    <3>1. /\ w.fd = v.fd /\ w.link = v.link /\ w.name = v.name
          /\ w.seekPos = v.seekPos /\ w.freeFd = v.freeFd /\ w.size = v.size
          /\ w.nextFree = v.nextFree /\ w.others = v.others
          /\ w.dirty = [v.dirty EXCEPT ![f] = FALSE]
      BY <2>8 DEF MarkedAs
    <3>2. v.dirty \in [Slot -> BOOLEAN]
      BY <2>7, VfdTypes
    <3> QED BY <3>1, <3>2
  <2>11. Proper(w, A) /\ InUse(w) = InUse(v)
    BY <2>7, <2>8, <2>9, MarkProper
  <2>12. /\ l \in Store /\ SameData(k, l) /\ Forced(l, n)
         /\ \A m \in Name : m # n => l[m] = k[m]
    BY <2>5, <2>7, FsyncForces
  <2>13. Linked(w, l, H)
    <3>1. Linked(v, k, H)
      BY <2>1, <2>2 DEF Sound
    <3> QED BY <2>10, <2>11, <2>12, <3>1 DEF Linked, SameData
  <2>14. Tracked(w, l, O)
    <3> SUFFICES ASSUME NEW m \in Name, l[m] # Absent, ~ Forced(l, m), m \notin O
                 PROVE  m \in Dirty(w)
      BY DEF Tracked
    <3>1. m # n /\ l[m] = k[m]
      BY <2>12
    <3>2. m \in Dirty(v)
      <4>1. Tracked(v, k, O)
        BY <2>1, <2>2 DEF Sound
      <4> QED BY <3>1, <4>1 DEF Tracked, Forced
    <3>3. PICK e \in InUse(v) : v.dirty[e] /\ v.link[e] = m
      BY <3>2 DEF Dirty
    <3>4. e # f /\ e \in Slot /\ e \in InUse(w)
      BY <2>3, <2>11, <3>1, <3>3 DEF InUse
    <3>5. w.dirty[e] /\ w.link[e] = m
      BY <2>10, <3>3, <3>4
    <3> QED BY <3>4, <3>5 DEF Dirty
  <2>15. t.v = w /\ t.k = l /\ t = [v |-> t.v, k |-> t.k]
    BY <2>6
  <2>16. H \subseteq A
    BY DEF Sound
  <2>17. Sound(t, A, H, O)
    BY <2>11, <2>12, <2>13, <2>14, <2>15, <2>16 DEF Sound
  <2>18. Same(s, t)
    BY <2>1, <2>2, <2>10, <2>12, <2>15 DEF Same, At
  <2>19. Spare(s.v) => Spare(t.v)
    BY <2>1, <2>10, <2>11, <2>15 DEF Spare
  <2> QED BY <2>17, <2>18, <2>19
<1> QED BY <1>1, <1>2

\* The pages of file n become d: marked already, or no page lost from disk.
LEMMA Refiles ==
  ASSUME NEW s, NEW A, NEW H, NEW O, Sound(s, A, H, O), NEW n \in Name,
         s.k[n] # Absent, NEW d \in Seq(Pages), NEW t, IsPair(t), t.v = s.v,
         Filled(s.k, t.k, n, d, s.k[n].disk),
         n \in Dirty(s.v) \/ (Forced(s.k, n) => Forced(t.k, n))
  PROVE  Sound(t, A, H, O)
<1>1. PICK k : k = s.k
  OBVIOUS
<1>2. PICK l : l = t.k
  OBVIOUS
<1>3. PICK e : e = k[n].disk
  OBVIOUS
<1>4. k \in Store /\ e \in Seq(Pages)
  <2>1. k \in Store
    BY <1>1, SoundType
  <2> QED BY <1>1, <1>3, <2>1, StoreFacts
<1>5. Filled(k, l, n, d, e)
  BY <1>1, <1>2, <1>3
<1>6. /\ l \in Store /\ l[n] # Absent
      /\ \A m \in Name : m # n => l[m] = k[m]
  BY <1>4, <1>5, StoreMade
<1>7. Linked(s.v, l, H)
  BY <1>1, <1>6 DEF Sound, Linked
<1>8. Tracked(s.v, l, O)
  <2> SUFFICES ASSUME NEW m \in Name, l[m] # Absent, ~ Forced(l, m), m \notin O,
                      m \notin Dirty(s.v)
               PROVE  FALSE
    BY DEF Tracked
  <2>0. Tracked(s.v, k, O)
    BY <1>1 DEF Sound
  <2>1. CASE m = n
    <3>1. ~ Forced(k, n)
      BY <1>1, <1>2, <2>1
    <3> QED BY <1>1, <2>0, <2>1, <3>1 DEF Tracked
  <2>2. CASE m # n
    <3>1. l[m] = k[m]
      BY <1>6, <2>2
    <3>2. k[m] # Absent /\ ~ Forced(k, m)
      BY <3>1 DEF Forced
    <3> QED BY <2>0, <3>2 DEF Tracked
  <2> QED BY <2>1, <2>2
<1> QED BY <1>2, <1>6, <1>7, <1>8 DEF Sound, IsPair

Dirtied(v, w, f) == MarkedAs(v, w, f, TRUE)

LEMMA Marks ==
  ASSUME NEW s, NEW A, NEW H, NEW O, Sound(s, A, H, O), NEW f \in Slot,
         NEW t, IsPair(t), t.k = s.k, Dirtied(s.v, t.v, f)
  PROVE  /\ Sound(t, A, H, O) /\ t.v.name = s.v.name /\ At(t.v) = At(s.v)
         /\ t.v.fd = s.v.fd /\ t.v.link = s.v.link /\ t.v.kpos = s.v.kpos
         /\ t.v.dirty[f] /\ (Spare(s.v) => Spare(t.v))
<1>1. PICK v : v = s.v
  OBVIOUS
<1>2. PICK w : w = t.v
  OBVIOUS
<1>3. v \in Vfds /\ Proper(v, A)
  BY <1>1, SoundType
<1>4. PICK b : b = TRUE
  OBVIOUS
<1>5. MarkedAs(v, w, f, b) /\ b \in BOOLEAN
  BY <1>1, <1>2, <1>4 DEF Dirtied
<1>6. /\ w \in Vfds /\ w.size = v.size /\ w.fd = v.fd
      /\ w.nextFree = v.nextFree /\ w.seekPos = v.seekPos /\ w.name = v.name
      /\ w.kpos = v.kpos /\ w.link = v.link /\ w.nfile = v.nfile
      /\ w.freeFd = v.freeFd /\ w.others = v.others /\ w.dirty[f] = b
  BY <1>3, <1>5, MarkFacts
<1>7. \A e \in Slot : v.dirty[e] => w.dirty[e]
  <2>1. \A e \in Slot : e # f => w.dirty[e] = v.dirty[e]
    BY <1>3, <1>5, MarkFacts
  <2> QED BY <1>4, <1>6, <2>1
<1>8. Proper(w, A) /\ InUse(w) = InUse(v)
  BY <1>3, <1>5, MarkProper
<1>9. Edits(v, w) /\ InRing(w) /\ Placed(w)
  BY <1>6, <1>7, <1>8 DEF Edits, Proper
<1>10. Sound(t, A, H, O)
  <2>1. PICK u : u = [v |-> w, k |-> s.k]
    OBVIOUS
  <2>2. Sound(u, A, H, O)
    BY <1>1, <1>9, <2>1, EditSound
  <2>3. t = u
    BY <1>2, <2>1 DEF IsPair
  <2> QED BY <2>2, <2>3
<1>11. Spare(v) => Spare(w)
  BY <1>6, <1>8 DEF Spare
<1>12. At(w) = At(v)
  BY <1>6 DEF At
<1> QED BY <1>1, <1>2, <1>4, <1>6, <1>10, <1>11, <1>12

LEMMA PutFacts ==
  ASSUME NEW d \in Seq(Pages), NEW i \in Nat, NEW x \in Pages
  PROVE  Put(d, i, x) \in Seq(Pages)
<1>1. PICK m : m = IF i < Len(d) THEN Len(d) ELSE i + 1
  OBVIOUS
<1>2. Len(d) \in Nat /\ m \in Nat
  BY <1>1
<1>3. PICK g : g = [j \in 1 .. m |->
                     IF j = i + 1 THEN x ELSE IF j <= Len(d) THEN d[j] ELSE Zero]
  OBVIOUS
<1>4. ASSUME NEW j \in 1 .. m PROVE g[j] \in Pages
  <2>1. CASE j = i + 1
    BY <1>3, <2>1
  <2>2. CASE j # i + 1 /\ j <= Len(d)
    <3>1. j \in 1 .. Len(d)
      BY <1>2, <2>2
    <3>2. d[j] \in Pages
      BY <3>1
    <3> QED BY <1>3, <2>2, <3>2
  <2>3. CASE j # i + 1 /\ ~(j <= Len(d))
    <3>1. Zero \in Pages
      BY DEF Pages
    <3> QED BY <1>3, <2>3, <3>1
  <2> QED BY <2>1, <2>2, <2>3
<1>5. g \in [1 .. m -> Pages]
  BY <1>3, <1>4
<1>6. g \in Seq(Pages)
  BY <1>2, <1>5, SeqDef
<1> QED BY <1>1, <1>3, <1>6 DEF Put

\* The pages of file n are d now.
ChangedData(k, l, n, d) ==
  /\ l[n] # Absent /\ l[n].data = d
  /\ \A m \in Name : m # n => /\ l[m] = Absent <=> k[m] = Absent
                              /\ k[m] # Absent => l[m].data = k[m].data

DataSet(k, l, n, d) == l = [k EXCEPT ![n].data = d]

\* The store a write or a truncation leaves.
LEMMA FilledBy ==
  ASSUME NEW k, k \in Store, NEW n \in Name, k[n] # Absent, NEW d \in Seq(Pages),
         NEW l, DataSet(k, l, n, d)
  PROVE  Filled(k, l, n, d, k[n].disk) /\ ChangedData(k, l, n, d)
<1>1. PICK x : x = k[n]
  OBVIOUS
<1>2. PICK a : a = x.data
  OBVIOUS
<1>3. PICK e : e = x.disk
  OBVIOUS
<1>4. x = [data |-> a, disk |-> e] /\ e \in Seq(Pages)
  BY <1>1, <1>2, <1>3, StoreFacts
<1>5. [x EXCEPT !.data = d] = [data |-> d, disk |-> e]
  BY <1>4
<1>6. l = [k EXCEPT ![n] = [x EXCEPT !.data = d]]
  BY <1>1 DEF DataSet
<1>7. Filled(k, l, n, d, e)
  BY <1>5, <1>6 DEF Filled
<1>8. /\ l[n] # Absent /\ l[n].data = d
      /\ \A m \in Name : m # n => l[m] = k[m]
  BY <1>4, <1>7, StoreMade
<1> QED BY <1>1, <1>3, <1>7, <1>8 DEF ChangedData

\* The page is at the position now, or nothing was written.
WritesAs(s, t, f, x, full) ==
  LET n == s.v.name[f]
      i == At(s.v)[f]
  IN  IF full /\ t.v.fd[f]
      THEN /\ At(t.v) = [At(s.v) EXCEPT ![f] = i + 1]
           /\ ChangedData(s.k, t.k, n, Put(s.k[n].data, i, x))
      ELSE At(t.v) = At(s.v) /\ SameData(s.k, t.k)

LEMMA Writes ==
  ASSUME NEW s, NEW A, NEW H, NEW O, Sound(s, A, H, O), Spare(s.v), NEW f \in H,
         NEW x \in Page, NEW ok \in BOOLEAN, NEW full \in BOOLEAN,
         NEW t, t = FileWrite(s, f, x, ok, full)
  PROVE  /\ Sound(t, A, H, O) /\ Spare(t.v) /\ t.v.name = s.v.name
         /\ WritesAs(s, t, f, x, full)
<1>1. PICK a : a = FileAccess(s, f, ok)
  OBVIOUS
<1>2. Sound(a, A, H, O) /\ Same(s, a) /\ Spare(a.v)
  BY <1>1, Access
<1>3. a.v.name = s.v.name /\ At(a.v) = At(s.v) /\ SameData(s.k, a.k)
  BY <1>2 DEF Same
<1>4. PICK n : n = s.v.name[f]
  OBVIOUS
<1>5. PICK i : i = At(s.v)[f]
  OBVIOUS
<1>6. n \in Name /\ s.k[n] # Absent /\ i \in Nat /\ f \in Slot
  BY <1>4, <1>5, Position
<1>7. a.v.fd[f] => a.v.kpos[f] = i /\ a.v.link[f] = n /\ a.v.seekPos[f] = i
  BY <1>2, <1>3, <1>4, <1>5, Position
<1>8. PICK v : v = a.v
  OBVIOUS
<1>9. v \in Vfds /\ IsVfd(v)
  BY <1>2, <1>8, SoundType, IsVfdType
<1>10. PICK y : y = [v EXCEPT !.dirty[f] = TRUE]
  OBVIOUS
<1>11. MarkedAs(v, y, f, TRUE)
  BY <1>9, <1>10 DEF IsVfd, MarkedAs
<1>12. PICK c : c = [v |-> y, k |-> a.k]
  OBVIOUS
<1>13. IsPair(c) /\ c.k = a.k /\ c.v = y /\ Dirtied(a.v, c.v, f)
  BY <1>8, <1>11, <1>12 DEF IsPair, Dirtied
<1>14. /\ Sound(c, A, H, O) /\ c.v.name = a.v.name /\ At(c.v) = At(a.v)
       /\ c.v.fd = a.v.fd /\ c.v.link = a.v.link /\ c.v.kpos = a.v.kpos
       /\ c.v.dirty[f] /\ Spare(c.v)
  BY <1>2, <1>6, <1>13, Marks
<1>15. CASE ~(full /\ a.v.fd[f])
  <2>1. t = c
    BY <1>1, <1>8, <1>10, <1>12, <1>15 DEF FileWrite
  <2>2. WritesAs(s, t, f, x, full)
    BY <1>3, <1>13, <1>14, <1>15, <2>1 DEF WritesAs
  <2> QED BY <1>3, <1>14, <2>1, <2>2
<1>16. CASE full /\ a.v.fd[f]
  <2>1. PICK j : j = i + 1
    OBVIOUS
  <2>2. PICK z : z = [v EXCEPT !.kpos[f] = @ + 1, !.seekPos[f] = @ + 1]
    OBVIOUS
  <2>3. PICK w : w = [z EXCEPT !.dirty[f] = TRUE]
    OBVIOUS
  <2>4. PICK d : d = Put(a.k[n].data, i, x)
    OBVIOUS
  <2>5. PICK l : l = [a.k EXCEPT ![n].data = d]
    OBVIOUS
  <2>6. t = [v |-> w, k |-> l]
    BY <1>1, <1>7, <1>8, <1>16, <2>2, <2>3, <2>4, <2>5 DEF FileWrite
  <2>7. /\ v.fd[f] /\ v.kpos[f] + 1 = j /\ v.seekPos[f] + 1 = j /\ j \in Nat
        /\ v.link[f] = n
    BY <1>3, <1>5, <1>6, <1>7, <1>8, <1>16, <2>1
  <2>8. MovedAs(y, w, f, j)
    <3>1. z = [size |-> v.size, fd |-> v.fd, dirty |-> v.dirty,
               nextFree |-> v.nextFree, more |-> v.more, less |-> v.less,
               seekPos |-> [v.seekPos EXCEPT ![f] = v.seekPos[f] + 1],
               name |-> v.name, kpos |-> [v.kpos EXCEPT ![f] = v.kpos[f] + 1],
               link |-> v.link, nfile |-> v.nfile, freeFd |-> v.freeFd,
               osRanOut |-> v.osRanOut, others |-> v.others]
      BY <1>9, <2>2 DEF IsVfd
    <3>2. IsVfd(z)
      BY <3>1 DEF IsVfd
    <3>3. w = [size |-> z.size, fd |-> z.fd, dirty |-> [z.dirty EXCEPT ![f] = TRUE],
               nextFree |-> z.nextFree, more |-> z.more, less |-> z.less,
               seekPos |-> z.seekPos, name |-> z.name, kpos |-> z.kpos,
               link |-> z.link, nfile |-> z.nfile, freeFd |-> z.freeFd,
               osRanOut |-> z.osRanOut, others |-> z.others]
      BY <2>3, <3>2 DEF IsVfd
    <3>4. w = [size |-> v.size, fd |-> v.fd, dirty |-> [v.dirty EXCEPT ![f] = TRUE],
               nextFree |-> v.nextFree, more |-> v.more, less |-> v.less,
               seekPos |-> [v.seekPos EXCEPT ![f] = j],
               name |-> v.name, kpos |-> [v.kpos EXCEPT ![f] = j],
               link |-> v.link, nfile |-> v.nfile, freeFd |-> v.freeFd,
               osRanOut |-> v.osRanOut, others |-> v.others]
      BY <2>7, <3>1, <3>3
    <3>5. /\ y.size = v.size /\ y.fd = v.fd
          /\ y.nextFree = v.nextFree /\ y.more = v.more /\ y.less = v.less
          /\ y.seekPos = v.seekPos /\ y.name = v.name /\ y.kpos = v.kpos
          /\ y.link = v.link /\ y.nfile = v.nfile /\ y.freeFd = v.freeFd
          /\ y.osRanOut = v.osRanOut /\ y.others = v.others
          /\ y.dirty = [v.dirty EXCEPT ![f] = TRUE]
      BY <1>11 DEF MarkedAs
    <3> QED BY <2>7, <3>4, <3>5 DEF MovedAs
  <2>9. PICK b : b = [v |-> w, k |-> a.k]
    OBVIOUS
  <2>10. IsPair(b) /\ b.k = c.k /\ b.v = w /\ MovedAs(c.v, b.v, f, j)
    BY <1>13, <2>8, <2>9 DEF IsPair
  <2>11. /\ Sound(b, A, H, O) /\ b.v.name = c.v.name
         /\ b.v.fd = c.v.fd /\ b.v.link = c.v.link
         /\ At(b.v) = [At(c.v) EXCEPT ![f] = j] /\ Spare(b.v)
    <3>1. j \in Int /\ CanBe(c.v, f, j) /\ SeekFrom0(j) = j
      BY <2>7 DEF SeekFrom0, CanBe
    <3>2. Sound(c, A, H, O) /\ f \in Slot /\ Spare(c.v)
      BY <1>6, <1>14
    <3>3. /\ Sound(b, A, H, O) /\ b.v.name = c.v.name
          /\ b.v.fd = c.v.fd /\ b.v.link = c.v.link
          /\ PosSet(c.v, b.v, f, SeekFrom0(j)) /\ Spare(b.v)
      BY <2>10, <3>1, <3>2, Moves
    <3> QED BY <3>1, <3>3 DEF PosSet
  <2>12. w.dirty = c.v.dirty
    BY <1>13, <2>8 DEF MovedAs
  <2>13. n \in Dirty(b.v) /\ b.v.fd[f]
    <3>1. f \in InUse(b.v) /\ b.v.fd[f]
      BY <1>6, <1>14, <1>16, <2>11 DEF InUse
    <3>2. b.v.dirty[f] /\ b.v.link[f] = n
      BY <1>8, <1>14, <2>7, <2>10, <2>11, <2>12
    <3> QED BY <3>1, <3>2 DEF Dirty
  <2>14. a.k \in Store /\ a.k[n] # Absent /\ a.k[n].data = s.k[n].data
    <3>1. a.k \in Store
      BY <1>2, SoundType
    <3> QED BY <1>3, <1>6, <3>1 DEF SameData
  <2>15. d \in Seq(Pages)
    <3>1. x \in Pages
      BY DEF Pages
    <3>2. a.k[n].data \in Seq(Pages)
      BY <1>6, <2>14, StoreFacts
    <3> QED BY <1>6, <2>4, <3>1, <3>2, PutFacts
  <2>16. Filled(a.k, l, n, d, a.k[n].disk) /\ ChangedData(a.k, l, n, d)
    <3>1. DataSet(a.k, l, n, d)
      BY <2>5 DEF DataSet
    <3> QED BY <1>6, <2>14, <2>15, <3>1, FilledBy
  <2>17. IsPair(t) /\ t.v = b.v /\ t.k = l
    BY <2>6, <2>10 DEF IsPair
  <2>18. Sound(t, A, H, O)
    <3>1. b.k = a.k
      BY <2>9
    <3>2. Filled(b.k, t.k, n, d, b.k[n].disk) /\ b.k[n] # Absent
      BY <2>14, <2>16, <2>17, <3>1
    <3> QED BY <1>6, <2>11, <2>13, <2>15, <2>17, <3>2, Refiles
  <2>19. WritesAs(s, t, f, x, full)
    <3>0. At(t.v) = [At(s.v) EXCEPT ![f] = i + 1]
      BY <1>3, <1>14, <2>1, <2>11, <2>17
    <3>1. At(t.v) = [At(s.v) EXCEPT ![f] = i + 1] /\ full /\ t.v.fd[f]
      BY <1>16, <2>13, <2>17, <3>0
    <3>2. d = Put(s.k[n].data, i, x)
      BY <2>4, <2>14
    <3>3. ChangedData(s.k, t.k, n, d)
      BY <1>3, <2>16, <2>17 DEF ChangedData, SameData
    <3> QED BY <1>4, <1>5, <3>1, <3>2, <3>3 DEF WritesAs
  <2> QED BY <1>3, <1>14, <2>11, <2>17, <2>18, <2>19
<1> QED BY <1>15, <1>16

\* The file is cut, or it could not be opened.
TruncatesAs(s, t, f, j) ==
  LET n == s.v.name[f]
  IN  IF t.v.fd[f] THEN ChangedData(s.k, t.k, n, Cut(s.k[n].data, j))
      ELSE SameData(s.k, t.k)

LEMMA Truncates ==
  ASSUME NEW s, NEW A, NEW H, NEW O, Sound(s, A, H, O), Spare(s.v), NEW f \in H,
         NEW j \in Nat, j <= Len(s.k[s.v.name[f]].data), NEW ok \in BOOLEAN,
         NEW t, t = FileTruncate(s, f, j, ok)
  PROVE  /\ Sound(t, A, H, O) /\ Spare(t.v) /\ t.v.name = s.v.name
         /\ At(t.v) = At(s.v) /\ TruncatesAs(s, t, f, j)
<1>1. PICK b : b = FileSync(s, f)
  OBVIOUS
<1>2. Sound(b, A, H, O) /\ Same(s, b) /\ Spare(b.v)
  BY <1>1, Syncs
<1>3. PICK a : a = FileAccess(b, f, ok)
  OBVIOUS
<1>4. Sound(a, A, H, O) /\ Same(b, a) /\ Spare(a.v)
  BY <1>2, <1>3, Access
<1>5. a.v.name = s.v.name /\ At(a.v) = At(s.v) /\ SameData(s.k, a.k)
  <2>1. Same(s, a)
    BY <1>2, <1>4, SameTrans
  <2> QED BY <2>1 DEF Same
<1>6. PICK n : n = s.v.name[f]
  OBVIOUS
<1>7. n \in Name /\ s.k[n] # Absent /\ f \in Slot
  BY <1>6, Position
<1>8. a.v.fd[f] => a.v.link[f] = n
  BY <1>4, <1>5, <1>6, Position
<1>9. CASE ~ a.v.fd[f]
  <2>1. t = a
    BY <1>1, <1>3, <1>9 DEF FileTruncate
  <2>2. TruncatesAs(s, t, f, j)
    BY <1>5, <1>9, <2>1 DEF TruncatesAs
  <2> QED BY <1>4, <1>5, <2>1, <2>2
<1>10. CASE a.v.fd[f]
  <2>1. PICK d : d = Cut(a.k[n].data, j)
    OBVIOUS
  <2>2. PICK l : l = [a.k EXCEPT ![n].data = d]
    OBVIOUS
  <2>3. t = [v |-> a.v, k |-> l]
    BY <1>1, <1>3, <1>8, <1>10, <2>1, <2>2 DEF FileTruncate
  <2>4. a.k \in Store /\ a.k[n] # Absent /\ a.k[n].data = s.k[n].data
    <3>1. a.k \in Store
      BY <1>4, SoundType
    <3> QED BY <1>5, <1>7, <3>1 DEF SameData
  <2>5. PICK c : c = a.k[n].data
    OBVIOUS
  <2>6. c \in Seq(Pages) /\ j <= Len(c)
    BY <1>6, <1>7, <2>4, <2>5, StoreFacts
  <2>7. /\ d \in Seq(Pages) /\ Len(d) = j /\ \A i \in 1 .. j : d[i] = c[i]
    <3>1. d = SubSeq(c, 1, j)
      BY <2>1, <2>5 DEF Cut
    <3>2. Len(c) \in Nat /\ \A i \in 1 .. j : i \in 1 .. Len(c)
      BY <2>6
    <3> QED BY <2>6, <3>1, <3>2
  <2>8. Filled(a.k, l, n, d, a.k[n].disk) /\ ChangedData(a.k, l, n, d)
    <3>1. DataSet(a.k, l, n, d)
      BY <2>2 DEF DataSet
    <3> QED BY <1>7, <2>4, <2>7, <3>1, FilledBy
  <2>9. IsPair(t) /\ t.v = a.v /\ t.k = l
    BY <2>3 DEF IsPair
  <2>10. Forced(a.k, n) => Forced(t.k, n)
    <3> SUFFICES ASSUME Forced(a.k, n) PROVE Forced(l, n)
      BY <2>9
    <3>1. a.k[n].disk \in Seq(Pages)
      BY <1>7, <2>4, StoreFacts
    <3>2. l[n].data = d /\ l[n].disk = a.k[n].disk
      BY <1>7, <2>4, <2>7, <2>8, <3>1, StoreMade
    <3>3. \A i \in 1 .. j : i \in 1 .. Len(c)
      BY <2>6
    <3>4. \A i \in 1 .. Len(c) : i <= Len(a.k[n].disk) /\ a.k[n].disk[i] = c[i]
      BY <2>5 DEF Forced
    <3> QED BY <2>7, <3>2, <3>3, <3>4 DEF Forced
  <2>11. Sound(t, A, H, O)
    <3>1. Filled(a.k, t.k, n, d, a.k[n].disk)
      BY <2>8, <2>9
    <3> QED BY <1>4, <1>7, <2>4, <2>7, <2>9, <2>10, <3>1, Refiles
  <2>12. TruncatesAs(s, t, f, j)
    <3>1. d = Cut(s.k[n].data, j) /\ t.v.fd[f]
      BY <1>10, <2>1, <2>4, <2>9
    <3>2. ChangedData(s.k, t.k, n, d)
      BY <1>5, <2>8, <2>9 DEF ChangedData, SameData
    <3> QED BY <1>6, <3>1, <3>2 DEF TruncatesAs
  <2> QED BY <1>4, <1>5, <2>9, <2>11, <2>12
<1> QED BY <1>9, <1>10

\* What the recursive definition of CloseUpTo says of its function.
IsClosing(w, s) ==
  w = [i \in Slot |-> IF i = 0 THEN s ELSE FileInvalidate(w[i - 1], i)]

\* There is one.
LEMMA ClosingExists ==
  ASSUME NEW s
  PROVE  \E w : IsClosing(w, s)
<1> DEFINE Upto(w, m) ==
             w = [i \in 0 .. m |-> IF i = 0 THEN s ELSE FileInvalidate(w[i - 1], i)]
<1>1. ASSUME NEW n \in Nat PROVE \E w : Upto(w, n)
  <2>1. PICK B : B = {m \in Nat : ~\E w : Upto(w, m)}
    OBVIOUS
  <2>2. SUFFICES ASSUME B # {} PROVE FALSE
    BY <2>1
  <2>3. PICK m \in B : \A y \in B : m <= y
    <3>1. B \subseteq Nat
      BY <2>1
    <3> QED BY <2>2, <3>1, LeastOf
  <2>4. m \in Nat /\ ~\E w : Upto(w, m)
    BY <2>1, <2>3
  <2>5. CASE m = 0
    <3>1. PICK w : w = [i \in 0 .. 0 |-> s]
      OBVIOUS
    <3>2. Upto(w, 0)
      BY <3>1
    <3> QED BY <2>4, <2>5, <3>2
  <2>6. CASE m # 0
    <3>1. m - 1 \in Nat /\ ~(m <= m - 1)
      BY <2>4, <2>6
    <3>2. PICK w : Upto(w, m - 1)
      <4>1. m - 1 \notin B
        BY <2>3, <3>1
      <4> HIDE DEF Upto
      <4> QED BY <2>1, <3>1, <4>1
    <3>3. PICK e : e = [i \in 0 .. m |->
                          IF i = m THEN FileInvalidate(w[m - 1], m) ELSE w[i]]
      OBVIOUS
    <3>4. \A i \in 0 .. m : e[i] = IF i = 0 THEN s ELSE FileInvalidate(e[i - 1], i)
      <4> SUFFICES ASSUME NEW i \in 0 .. m
                   PROVE  e[i] = IF i = 0 THEN s ELSE FileInvalidate(e[i - 1], i)
        OBVIOUS
      <4>1. CASE i = m
        <5>1. e[i] = FileInvalidate(w[m - 1], m) /\ e[m - 1] = w[m - 1]
          BY <2>4, <3>1, <3>3, <4>1
        <5> QED BY <2>6, <4>1, <5>1
      <4>2. CASE i # m /\ i # 0
        <5>1. i \in 0 .. m - 1 /\ i - 1 \in 0 .. m /\ i - 1 # m
          BY <2>4, <4>2
        <5>2. e[i] = w[i] /\ e[i - 1] = w[i - 1]
          BY <3>3, <4>2, <5>1
        <5>3. w[i] = FileInvalidate(w[i - 1], i)
          BY <3>2, <4>2, <5>1
        <5> QED BY <4>2, <5>2, <5>3
      <4>3. CASE i # m /\ i = 0
        <5>1. w[0] = s
          BY <2>4, <3>1, <3>2
        <5> QED BY <2>4, <3>3, <4>3, <5>1
      <4> QED BY <4>1, <4>2, <4>3
    <3>5. Upto(e, m)
      BY <3>3, <3>4
    <3> QED BY <2>4, <3>5
  <2> QED BY <2>5, <2>6
<1>2. PICK w : Upto(w, MaxVfd - 1)
  <2>1. MaxVfd - 1 \in Nat
    BY SlotFacts
  <2> HIDE DEF Upto
  <2> QED BY <1>1, <2>1
<1>3. IsClosing(w, s)
  BY <1>2 DEF IsClosing, Slot
<1> QED BY <1>3

LEMMA ClosesAll ==
  ASSUME NEW s, NEW A, NEW H, NEW O, Sound(s, A, H, O), Started(s.v, A),
         NEW t, t = CloseUpTo(s)
  PROVE  Sound(t, A, H, O) /\ Same(s, t) /\ Started(t.v, A)
<1> DEFINE W(h) == h = [i \in Slot |-> IF i = 0 THEN s ELSE FileInvalidate(h[i - 1], i)]
<1>1. PICK w : w = CHOOSE h : W(h)
  OBVIOUS
<1>2. W(w)
  <2>1. \E h : W(h)
    <3>1. PICK h : IsClosing(h, s)
      BY ClosingExists
    <3>2. W(h)
      BY <3>1 DEF IsClosing
    <3> HIDE DEF W
    <3> QED BY <3>2
  <2> HIDE DEF W
  <2> QED BY <1>1, <2>1
<1>3. t = w[MaxVfd - 1]
  BY <1>1 DEF CloseUpTo
<1> DEFINE Good(u) == Sound(u, A, H, O) /\ Same(s, u) /\ Started(u.v, A)
<1>4. \A i \in Slot : Good(w[i])
  <2>1. PICK B : B = {i \in Slot : ~ Good(w[i])}
    OBVIOUS
  <2>2. SUFFICES ASSUME B # {} PROVE FALSE
    BY <2>1
  <2>3. PICK i \in B : \A y \in B : i <= y
    <3>1. B \subseteq Nat
      BY <2>1, SlotFacts
    <3> QED BY <2>2, <3>1, LeastOf
  <2>4. i \in Slot /\ ~ Good(w[i]) /\ i \in Nat /\ 0 \in Slot
    BY <2>1, <2>3, SlotFacts
  <2>5. CASE i = 0
    <3>1. w[i] = s
      BY <1>2, <2>4, <2>5
    <3>2. Good(s)
      BY DEF Same, SameData
    <3> HIDE DEF Good
    <3> QED BY <2>4, <3>1, <3>2
  <2>6. CASE i # 0
    <3>1. i - 1 \in Slot /\ ~(i <= i - 1)
      BY <2>4, <2>6, SlotFacts DEF Slot
    <3>2. PICK u : u = w[i - 1]
      OBVIOUS
    <3>3. Good(u)
      <4> HIDE DEF Good
      <4> QED BY <2>1, <2>3, <3>1, <3>2
    <3>4. PICK x : x = FileInvalidate(u, i)
      OBVIOUS
    <3>5. w[i] = x
      BY <1>2, <2>4, <2>6, <3>2, <3>4
    <3>6. /\ Sound(x, A, H, O) /\ Same(u, x) /\ (x = u \/ x.v.freeFd > 0)
      BY <2>4, <3>3, <3>4, Invalidates
    <3>7. Same(s, x)
      BY <3>3, <3>6, SameTrans
    <3>8. Started(x.v, A)
      BY <3>3, <3>6 DEF Started, Spare
    <3>9. Good(x)
      BY <3>6, <3>7, <3>8
    <3> HIDE DEF Good
    <3> QED BY <2>4, <3>5, <3>9
  <2> QED BY <2>5, <2>6
<1>5. MaxVfd - 1 \in Slot
  BY SlotFacts DEF Slot
<1> QED BY <1>3, <1>4, <1>5

-----------------------------------------------------------------------------
(* The invariant.  V, k and h stand for the variables vfd, file and held.  *)

\* The slots in use in a process, and those whose file its callers still use.
Taken(g) == {f \in Handle : g[f] # "free"}
Kept(g) == {f \in Handle : g[f] = "held"}

Helds == [Handle -> {"free", "held", "dropped"}]

Each(v, k, g) ==
  /\ Proper(v, Taken(g)) /\ Started(v, Taken(g)) /\ Linked(v, k, Kept(g))
  /\ \A f \in Slot : v.seekPos[f] <= MaxLen

Whole(V, k, h) ==
  /\ V \in [Proc -> Vfds] /\ k \in Store /\ h \in [Proc -> Helds]
  /\ \A p \in Proc : Each(V[p], k, h[p])
  /\ \A n \in Name : k[n] = Absent \/ Forced(k, n) \/ \E p \in Proc : n \in Dirty(V[p])

Inv == Whole(vfd, file, held)

\* The names of the files that are marked in processes other than p.
Elsewhere(V, p) == {n \in Name : \E q \in Proc : q # p /\ n \in Dirty(V[q])}

\* The state is V1 and h1 in process p, and as it was in the others.
Apart(V, V1, p) == \A q \in Proc : q # p => V1[q] = V[q]

Present(k, l) == \A n \in Name : k[n] # Absent => l[n] # Absent

LEMMA WholeSound ==
  ASSUME NEW V, NEW k, NEW h, Whole(V, k, h), NEW p \in Proc,
         NEW s, s = [v |-> V[p], k |-> k]
  PROVE  /\ Sound(s, Taken(h[p]), Kept(h[p]), Elsewhere(V, p))
         /\ Started(s.v, Taken(h[p]))
<1>1. s.v = V[p] /\ s.k = k /\ s = [v |-> s.v, k |-> s.k]
  OBVIOUS
<1>2. Each(V[p], k, h[p]) /\ k \in Store
  BY DEF Whole
<1>3. Kept(h[p]) \subseteq Taken(h[p])
  BY DEF Kept, Taken
<1>4. Tracked(V[p], k, Elsewhere(V, p))
  <2> SUFFICES ASSUME NEW n \in Name, k[n] # Absent, ~ Forced(k, n),
                      n \notin Dirty(V[p])
               PROVE  n \in Elsewhere(V, p)
    BY DEF Tracked
  <2>1. PICK q \in Proc : n \in Dirty(V[q])
    BY DEF Whole
  <2>2. q # p
    BY <2>1
  <2> QED BY <2>1, <2>2 DEF Elsewhere
<1> QED BY <1>1, <1>2, <1>3, <1>4 DEF Each, Sound

\* A call of process p, whose callers' files are then as g says.
LEMMA CallKeeps ==
  ASSUME NEW V, NEW k, NEW h, Whole(V, k, h), NEW p \in Proc, NEW s, NEW g \in Helds,
         Sound(s, Taken(g), Kept(g), Elsewhere(V, p)), Started(s.v, Taken(g)),
         WithinBounds(s), Present(k, s.k),
         NEW V1, V1 = [V EXCEPT ![p] = s.v],
         NEW h1, h1 \in [Proc -> Helds], h1[p] = g, Apart(h, h1, p)
  PROVE  Whole(V1, s.k, h1)
<1>1. s.v \in Vfds /\ s.k \in Store /\ Proper(s.v, Taken(g))
  BY SoundType
<1>2. V1 \in [Proc -> Vfds] /\ V1[p] = s.v /\ Apart(V, V1, p)
  BY <1>1 DEF Whole, Apart
<1>3. ASSUME NEW q \in Proc PROVE Each(V1[q], s.k, h1[q])
  <2>1. CASE q = p
    <3>1. Linked(s.v, s.k, Kept(g))
      BY DEF Sound
    <3>2. \A f \in Slot : s.v.seekPos[f] <= MaxLen
      BY DEF WithinBounds
    <3> QED BY <1>1, <1>2, <2>1, <3>1, <3>2 DEF Each
  <2>2. CASE q # p
    <3>1. V1[q] = V[q] /\ h1[q] = h[q]
      BY <1>2, <2>2 DEF Apart
    <3>2. Each(V[q], k, h[q])
      BY DEF Whole
    <3>3. Linked(V[q], s.k, Kept(h[q]))
      BY <3>2 DEF Each, Linked, Present
    <3> QED BY <3>1, <3>2, <3>3 DEF Each
  <2> QED BY <2>1, <2>2
<1>4. ASSUME NEW n \in Name, s.k[n] # Absent, ~ Forced(s.k, n)
      PROVE  \E q \in Proc : n \in Dirty(V1[q])
  <2>1. n \in Dirty(s.v) \/ n \in Elsewhere(V, p)
    BY <1>4 DEF Sound, Tracked
  <2>2. CASE n \in Dirty(s.v)
    BY <1>2, <2>2
  <2>3. CASE n \in Elsewhere(V, p)
    <3>1. PICK q \in Proc : q # p /\ n \in Dirty(V[q])
      BY <2>3 DEF Elsewhere
    <3>2. V1[q] = V[q]
      BY <1>2, <3>1 DEF Apart
    <3> QED BY <3>1, <3>2
  <2> QED BY <2>1, <2>2, <2>3
<1> QED BY <1>1, <1>2, <1>3, <1>4 DEF Whole

LEMMA SamePresent ==
  ASSUME NEW k, NEW l, SameData(k, l)
  PROVE  Present(k, l)
BY DEF SameData, Present

LEMMA InitInv == Init => Inv
<1> SUFFICES ASSUME Init PROVE Inv
  OBVIOUS
<1>1. PICK v : v = Fresh
  OBVIOUS
<1>2. /\ v.size = 0 /\ v.fd = [f \in Slot |-> FALSE]
      /\ v.dirty = [f \in Slot |-> FALSE] /\ v.nextFree = [f \in Slot |-> 0]
      /\ v.more = [f \in Slot |-> 0] /\ v.less = [f \in Slot |-> 0]
      /\ v.seekPos = [f \in Slot |-> 0] /\ v.name = [f \in Slot |-> Absent]
      /\ v.kpos = [f \in Slot |-> -1] /\ v.link = [f \in Slot |-> Absent]
      /\ v.nfile = 0 /\ v.freeFd = 0 /\ v.osRanOut = FALSE /\ v.others = 0
  BY <1>1 DEF Fresh
<1>3. /\ MaxVfd \in Nat /\ OsMax \in Nat /\ OsMax # 0 /\ PgNofile \in Nat
      /\ 0 \in Slot /\ MaxLen \in Nat
  BY VfdAssumption, SlotFacts
<1>4. v \in Vfds
  <2>1. 0 \in 0 .. MaxVfd /\ 0 \in 0 .. OsMax - 1 /\ 0 \in Int /\ 0 \in Nat /\ FALSE \in BOOLEAN
    BY <1>3
  <2>2. v.fd \in [Slot -> BOOLEAN] /\ v.dirty \in [Slot -> BOOLEAN]
    BY <1>2
  <2>3. /\ v.nextFree \in [Slot -> Slot] /\ v.more \in [Slot -> Slot]
        /\ v.less \in [Slot -> Slot]
    BY <1>2, <1>3
  <2>4. v.seekPos \in [Slot -> Int]
    BY <1>2
  <2>5. v.kpos \in [Slot -> Int]
    BY <1>2
  <2>6. v.name \in [Slot -> Name \cup {Absent}] /\ v.link \in [Slot -> Name \cup {Absent}]
    BY <1>2
  <2>7. IsVfd(v)
    BY <1>1 DEF Fresh, IsVfd
  <2> QED BY <1>2, <2>1, <2>2, <2>3, <2>4, <2>5, <2>6, <2>7 DEF IsVfd, Vfds
<1>5. InUse(v) = {}
  BY <1>2 DEF InUse
<1>6. PICK g : g = [f \in Slot |-> 0]
  OBVIOUS
<1>7. Circle(g, {})
  <2>1. PICK q : q = [i \in 0 .. 0 |-> 0]
    OBVIOUS
  <2>2. q \in [0 .. 0 -> Slot] /\ q[0] = 0
    BY <1>3, <2>1
  <2>3. \A i \in 0 .. 0 : i = 0 /\ g[q[i]] = 0 /\ q[Succ(i, 0)] = 0
    BY <1>3, <1>6, <2>2 DEF Succ
  <2>4. {} = {q[i] : i \in 1 .. 0}
    OBVIOUS
  <2>5. Orders(q, 0, g, {})
    BY <2>2, <2>3, <2>4 DEF Orders
  <2> QED BY <2>5 DEF Circle
<1>8. InRing(v)
  <2>1. v.less = g /\ v.more = g
    BY <1>2, <1>6
  <2>2. Back(g, g, {})
    BY <1>3, <1>6 DEF Back
  <2> QED BY <1>5, <1>7, <2>1, <2>2 DEF InRing
<1>9. Listed(v, {})
  <2>1. Unused(v, {}) = {}
    <3>1. \A f \in Handle : f \in Nat
      BY SlotFacts
    <3> QED BY <1>2, <3>1 DEF Unused
  <2> QED BY <1>2, <1>5, <1>6, <1>7, <2>1 DEF Listed
<1>10. Counted(v)
  <2>1. Cardinality(InUse(v)) = 0
    BY <1>5, FS_EmptySet
  <2> QED BY <1>2, <1>3, <2>1 DEF Counted
<1>11. Placed(v)
  BY <1>2 DEF Placed
<1>12. Dirty(v) = {}
  BY <1>5 DEF Dirty
<1>13. PICK h : h = [f \in Handle |-> "free"]
  OBVIOUS
<1>14. Taken(h) = {} /\ Kept(h) = {} /\ h \in Helds
  BY <1>13 DEF Taken, Kept, Helds
<1>15. Started(v, {})
  BY <1>2 DEF Started
<1>16. Linked(v, file, {})
  BY <1>5 DEF Linked
<1>17. \A f \in Slot : v.seekPos[f] <= MaxLen
  BY <1>2, <1>3
<1>18. Each(v, file, h)
  BY <1>4, <1>8, <1>9, <1>10, <1>11, <1>14, <1>15, <1>16, <1>17 DEF Each, Proper
<1>19. vfd = [p \in Proc |-> v] /\ held = [p \in Proc |-> h]
  BY <1>1, <1>13 DEF Init
<1>20. file \in Store /\ \A n \in Name : file[n] = Absent
  BY DEF Init, Store
<1>21. vfd \in [Proc -> Vfds] /\ held \in [Proc -> Helds]
  BY <1>4, <1>14, <1>19
<1> QED BY <1>18, <1>19, <1>20, <1>21 DEF Inv, Whole

UnlinkedAs(v, w, n) ==
  w = [size |-> v.size, fd |-> v.fd, dirty |-> v.dirty, nextFree |-> v.nextFree,
       more |-> v.more, less |-> v.less, seekPos |-> v.seekPos, name |-> v.name,
       kpos |-> v.kpos,
       link |-> [f \in Slot |-> IF v.link[f] = n THEN Absent ELSE v.link[f]],
       nfile |-> v.nfile, freeFd |-> v.freeFd, osRanOut |-> v.osRanOut,
       others |-> v.others]

\* The slots of a process after file n has gone.
DroppedAs(v, g, g1, n) ==
  \A f \in Handle :
    g1[f] = IF g[f] = "held" /\ v.name[f] = n THEN "dropped" ELSE g[f]

\* Nothing has changed for the files other than n.
FilesBesides(k, l, n) == \A m \in Name : m # n => l[m] = k[m]
MarksBesides(v, w, n) == \A m \in Name : m # n /\ m \in Dirty(v) => m \in Dirty(w)

LEMMA UnlinkEach ==
  ASSUME NEW v, NEW k, NEW g, Each(v, k, g), NEW n \in Name,
         NEW w, w = UnlinkedIn(v, n), NEW l, FilesBesides(k, l, n),
         NEW g1, DroppedAs(v, g, g1, n)
  PROVE  /\ w \in Vfds /\ Each(w, l, g1) /\ MarksBesides(v, w, n)
         /\ w.name = v.name /\ w.seekPos = v.seekPos
<1>1. PICK A : A = Taken(g)
  OBVIOUS
<1>2. PICK H : H = Kept(g)
  OBVIOUS
<1>3. PICK H1 : H1 = Kept(g1)
  OBVIOUS
<1>4. /\ v \in Vfds /\ InRing(v) /\ Listed(v, A) /\ Counted(v) /\ Placed(v)
      /\ Started(v, A) /\ Linked(v, k, H) /\ \A f \in Slot : v.seekPos[f] <= MaxLen
  BY <1>1, <1>2 DEF Each, Proper
<1>5. IsVfd(v)
  BY <1>4, IsVfdType
<1>6. UnlinkedAs(v, w, n)
  BY <1>5 DEF UnlinkedIn, IsVfd, UnlinkedAs
<1>7. /\ w.size = v.size /\ w.fd = v.fd /\ w.dirty = v.dirty
      /\ w.nextFree = v.nextFree /\ w.more = v.more /\ w.less = v.less
      /\ w.seekPos = v.seekPos /\ w.name = v.name /\ w.kpos = v.kpos
      /\ w.nfile = v.nfile /\ w.freeFd = v.freeFd
      /\ w.osRanOut = v.osRanOut /\ w.others = v.others
      /\ w.link = [f \in Slot |-> IF v.link[f] = n THEN Absent ELSE v.link[f]]
  BY <1>6 DEF UnlinkedAs
<1>8. /\ v.size \in 0 .. MaxVfd /\ v.fd \in [Slot -> BOOLEAN]
      /\ v.dirty \in [Slot -> BOOLEAN]
      /\ v.nextFree \in [Slot -> Slot] /\ v.more \in [Slot -> Slot]
      /\ v.less \in [Slot -> Slot] /\ v.seekPos \in [Slot -> Int]
      /\ v.name \in [Slot -> Name \cup {Absent}] /\ v.kpos \in [Slot -> Int]
      /\ v.link \in [Slot -> Name \cup {Absent}]
      /\ v.nfile \in Int /\ v.freeFd \in Nat /\ v.osRanOut \in BOOLEAN
      /\ v.others \in 0 .. OsMax - 1
  BY <1>4 DEF Vfds
<1>9. w.link \in [Slot -> Name \cup {Absent}]
  <2>1. v.link \in [Slot -> Name \cup {Absent}]
    BY <1>8
  <2>2. w.link = [f \in Slot |-> IF v.link[f] = n THEN Absent ELSE v.link[f]]
    BY <1>7
  <2> QED BY <2>1, <2>2
<1>10. w \in Vfds
  <2>1. IsVfd(w)
    BY <1>6 DEF UnlinkedAs, IsVfd
  <2> QED BY <1>7, <1>8, <1>9, <2>1 DEF IsVfd, Vfds
<1>11. InUse(w) = InUse(v)
  BY <1>7 DEF InUse
<1>12. Taken(g1) = A
  BY <1>1 DEF Taken, DroppedAs
<1>13. \A f \in Handle : f \in H1 <=> f \in H /\ v.name[f] # n
  BY <1>2, <1>3 DEF Kept, DroppedAs
<1>14. Proper(w, A)
  <2>1. Unused(w, A) = Unused(v, A)
    BY <1>7 DEF Unused
  <2>2. InRing(w) /\ Counted(w) /\ Placed(w)
    BY <1>4, <1>7, <1>11 DEF InRing, Counted, Placed
  <2>3. Listed(w, A)
    BY <1>4, <1>7, <1>11, <2>1 DEF Listed
  <2> QED BY <1>10, <2>2, <2>3 DEF Proper
<1>15. Started(w, A)
  BY <1>4, <1>7, <1>11 DEF Started, Spare
<1>16. Linked(w, l, H1)
  <2>0. H1 \subseteq Handle /\ H \subseteq Handle
    BY <1>2, <1>3 DEF Kept
  <2>1. ASSUME NEW f \in H1 PROVE w.name[f] \in Name /\ l[w.name[f]] # Absent
    <3>1. f \in H /\ v.name[f] # n
      BY <1>13, <2>0
    <3>2. v.name[f] \in Name /\ k[v.name[f]] # Absent
      BY <1>4, <3>1 DEF Linked
    <3> QED BY <1>7, <3>1, <3>2 DEF FilesBesides
  <2>2. ASSUME NEW f \in InUse(w)
        PROVE  w.link[f] = IF f \in H1 THEN w.name[f] ELSE Absent
    <3>1. f \in InUse(v) /\ f \in Slot /\ f \in Handle
      <4>1. f \in InUse(v) /\ f \in Slot
        BY <1>11 DEF InUse
      <4>2. InUse(v) \subseteq Handle
        BY <1>4 DEF Listed
      <4> QED BY <4>1, <4>2
    <3>2. v.link[f] = IF f \in H THEN v.name[f] ELSE Absent
      BY <1>4, <3>1 DEF Linked
    <3>3. w.link[f] = IF v.link[f] = n THEN Absent ELSE v.link[f]
      BY <1>7, <3>1
    <3>4. f \in H1 <=> f \in H /\ v.name[f] # n
      BY <1>13, <3>1
    <3> QED BY <1>7, <3>2, <3>3, <3>4
  <2> QED BY <2>1, <2>2 DEF Linked
<1>17. ASSUME NEW m \in Name, m # n, m \in Dirty(v) PROVE m \in Dirty(w)
  <2>1. PICK e \in InUse(v) : v.dirty[e] /\ v.link[e] = m
    BY <1>17 DEF Dirty
  <2>2. e \in InUse(w) /\ e \in Slot
    BY <1>11, <2>1 DEF InUse
  <2>3. w.dirty[e] /\ w.link[e] = m
    BY <1>7, <1>17, <2>1, <2>2
  <2> QED BY <2>2, <2>3 DEF Dirty
<1>18. Each(w, l, g1)
  BY <1>3, <1>4, <1>7, <1>12, <1>14, <1>15, <1>16 DEF Each
<1> QED BY <1>7, <1>10, <1>17, <1>18 DEF MarksBesides

\* The file of a name goes, and with it every link to it.
Unlinking(V, k, h, V1, l, h1, n) ==
  /\ V1 = [q \in Proc |-> UnlinkedIn(V[q], n)]
  /\ l = [k EXCEPT ![n] = Absent]
  /\ h1 = [q \in Proc |-> [f \in Handle |->
       IF h[q][f] = "held" /\ V[q].name[f] = n THEN "dropped" ELSE h[q][f]]]

LEMMA UnlinkKeeps ==
  ASSUME NEW V, NEW k, NEW h, Whole(V, k, h), NEW n \in Name,
         NEW V1, NEW l, NEW h1, Unlinking(V, k, h, V1, l, h1, n)
  PROVE  Whole(V1, l, h1)
<1>a. V1 = [q \in Proc |-> UnlinkedIn(V[q], n)]
  BY DEF Unlinking
<1>b. l = [k EXCEPT ![n] = Absent]
  BY DEF Unlinking
<1>c. h1 = [q \in Proc |-> [f \in Handle |->
        IF h[q][f] = "held" /\ V[q].name[f] = n THEN "dropped" ELSE h[q][f]]]
  BY DEF Unlinking
<1>1. k \in Store /\ h \in [Proc -> Helds]
  BY DEF Whole
<1>2. l \in Store /\ l[n] = Absent /\ \A m \in Name : m # n => l[m] = k[m]
  BY <1>1, <1>b DEF Store
<1>3. ASSUME NEW q \in Proc
      PROVE  /\ V1[q] \in Vfds /\ Each(V1[q], l, h1[q]) /\ h1[q] \in Helds
             /\ \A m \in Name : m # n /\ m \in Dirty(V[q]) => m \in Dirty(V1[q])
  <2>1. Each(V[q], k, h[q])
    BY DEF Whole
  <2>2. V1[q] = UnlinkedIn(V[q], n)
    BY <1>a
  <2>3. DroppedAs(V[q], h[q], h1[q], n)
    BY <1>c DEF DroppedAs
  <2>4. h1[q] \in Helds
    <3>1. h[q] \in [Handle -> {"free", "held", "dropped"}]
      BY <1>1 DEF Helds
    <3>2. h1[q] = [f \in Handle |->
            IF h[q][f] = "held" /\ V[q].name[f] = n THEN "dropped" ELSE h[q][f]]
      BY <1>c
    <3> QED BY <3>1, <3>2 DEF Helds
  <2>5. FilesBesides(k, l, n)
    BY <1>2 DEF FilesBesides
  <2>6. V1[q] \in Vfds /\ Each(V1[q], l, h1[q]) /\ MarksBesides(V[q], V1[q], n)
    BY <2>1, <2>2, <2>3, <2>5, UnlinkEach
  <2> QED BY <2>4, <2>6 DEF MarksBesides
<1>4. V1 \in [Proc -> Vfds]
  BY <1>a, <1>3
<1>5. h1 \in [Proc -> Helds]
  BY <1>c, <1>3
<1>6. ASSUME NEW m \in Name, l[m] # Absent, ~ Forced(l, m)
      PROVE  \E q \in Proc : m \in Dirty(V1[q])
  <2>1. m # n /\ l[m] = k[m]
    BY <1>2, <1>6
  <2>2. k[m] # Absent /\ ~ Forced(k, m)
    BY <1>6, <2>1 DEF Forced
  <2>3. PICK q \in Proc : m \in Dirty(V[q])
    BY <2>2 DEF Whole
  <2> QED BY <1>3, <2>1, <2>3
<1> QED BY <1>2, <1>3, <1>4, <1>5, <1>6 DEF Whole

\* The rest of a process takes or gives back a descriptor.
LEMMA OthersKeep ==
  ASSUME Inv, NEW p \in Proc, NEW d \in {-1, 1}, Others(p, d)
  PROVE  Inv'
<1>1. PICK v : v = vfd[p]
  OBVIOUS
<1>2. PICK j : j = v.others + d
  OBVIOUS
<1>3. PICK w : w = [v EXCEPT !.others = j]
  OBVIOUS
<1>4. v \in Vfds /\ IsVfd(v) /\ Each(v, file, held[p]) /\ vfd \in [Proc -> Vfds]
  BY <1>1, IsVfdType DEF Inv, Whole
<1>5. w = [size |-> v.size, fd |-> v.fd, dirty |-> v.dirty,
           nextFree |-> v.nextFree, more |-> v.more, less |-> v.less,
           seekPos |-> v.seekPos, name |-> v.name, kpos |-> v.kpos,
           link |-> v.link, nfile |-> v.nfile, freeFd |-> v.freeFd,
           osRanOut |-> v.osRanOut, others |-> j]
  BY <1>3, <1>4 DEF IsVfd
<1>6. /\ w.size = v.size /\ w.fd = v.fd /\ w.dirty = v.dirty
      /\ w.nextFree = v.nextFree /\ w.more = v.more /\ w.less = v.less
      /\ w.seekPos = v.seekPos /\ w.name = v.name /\ w.kpos = v.kpos
      /\ w.link = v.link /\ w.nfile = v.nfile /\ w.freeFd = v.freeFd
      /\ w.osRanOut = v.osRanOut /\ w.others = j
  BY <1>5
<1>7. vfd' = [vfd EXCEPT ![p] = w]
  BY <1>1, <1>2, <1>3 DEF Others
<1>8. /\ file' = file /\ held' = held /\ j \in 0 .. OsMax - 1
      /\ Cardinality(InUse(v)) + j <= OsMax
  <2>1. /\ file' = file /\ held' = held /\ v.others + d \in 0 .. OsMax - 1
        /\ Cardinality(InUse(v)) + v.others + d <= OsMax
    BY <1>1 DEF Others
  <2>2. Proper(v, Taken(held[p]))
    BY <1>4 DEF Each
  <2>3. Cardinality(InUse(v)) \in Nat /\ v.others \in Nat /\ d \in Int
    BY <1>4, <2>2, InUseFacts, VfdTypes
  <2>4. Cardinality(InUse(v)) + j <= OsMax
    BY <1>2, <2>1, <2>3
  <2> QED BY <1>2, <2>1, <2>4
<1>9. w \in Vfds
  BY <1>4, <1>5, <1>6, <1>8 DEF Vfds
<1>10. PICK A : A = Taken(held[p])
  OBVIOUS
<1>11. InUse(w) = InUse(v) /\ Dirty(w) = Dirty(v)
  <2>1. InUse(w) = InUse(v)
    BY <1>6 DEF InUse
  <2> QED BY <1>6, <2>1 DEF Dirty
<1>12. Each(w, file, held[p])
  <2>1. /\ InRing(v) /\ Listed(v, A) /\ Counted(v) /\ Placed(v) /\ Started(v, A)
        /\ Linked(v, file, Kept(held[p])) /\ \A f \in Slot : v.seekPos[f] <= MaxLen
    BY <1>4, <1>10 DEF Each, Proper
  <2>2. Unused(w, A) = Unused(v, A)
    BY <1>6 DEF Unused
  <2>3. InRing(w) /\ Placed(w) /\ Started(w, A)
    BY <1>6, <1>11, <2>1 DEF InRing, Placed, Started, Spare
  <2>4. Listed(w, A)
    BY <1>6, <1>11, <2>1, <2>2 DEF Listed
  <2>5. Counted(w)
    BY <1>6, <1>8, <1>11, <2>1 DEF Counted
  <2>6. Linked(w, file, Kept(held[p]))
    BY <1>6, <1>11, <2>1 DEF Linked
  <2> QED BY <1>6, <1>9, <1>10, <2>1, <2>3, <2>4, <2>5, <2>6 DEF Each, Proper
<1>13. vfd' \in [Proc -> Vfds] /\ vfd'[p] = w /\ \A q \in Proc : q # p => vfd'[q] = vfd[q]
  BY <1>4, <1>7, <1>9
<1>14. \A q \in Proc : Each(vfd'[q], file, held[q]) /\ Dirty(vfd'[q]) = Dirty(vfd[q])
  <2> SUFFICES ASSUME NEW q \in Proc
               PROVE  Each(vfd'[q], file, held[q]) /\ Dirty(vfd'[q]) = Dirty(vfd[q])
    OBVIOUS
  <2>1. CASE q = p
    BY <1>1, <1>11, <1>12, <1>13, <2>1
  <2>2. CASE q # p
    BY <1>13, <2>2 DEF Inv, Whole
  <2> QED BY <2>1, <2>2
<1>15. \A n \in Name : file[n] = Absent \/ Forced(file, n)
                       \/ \E q \in Proc : n \in Dirty(vfd'[q])
  BY <1>14 DEF Inv, Whole
<1>16. Whole(vfd', file, held)
  BY <1>13, <1>14, <1>15 DEF Whole, Inv
<1> QED BY <1>8, <1>16 DEF Inv

-----------------------------------------------------------------------------
(* Every step keeps the invariant.                                         *)

\* What the invariant says of the state that a call of process p starts from.
LEMMA StateSound ==
  ASSUME Inv, NEW p \in Proc, NEW s, s = State(p)
  PROVE  /\ Sound(s, Taken(held[p]), Kept(held[p]), Elsewhere(vfd, p))
         /\ Started(s.v, Taken(held[p])) /\ s.v = vfd[p] /\ s.k = file
         /\ held[p] \in Helds /\ \A f \in Slot : s.v.seekPos[f] <= MaxLen
<1>1. s = [v |-> vfd[p], k |-> file]
  BY DEF State
<1>2. s.v = vfd[p] /\ s.k = file
  BY <1>1
<1>3. Whole(vfd, file, held)
  BY DEF Inv
<1>4. /\ Sound(s, Taken(held[p]), Kept(held[p]), Elsewhere(vfd, p))
      /\ Started(s.v, Taken(held[p]))
  BY <1>1, <1>3, WholeSound
<1>5. held[p] \in Helds /\ \A f \in Slot : s.v.seekPos[f] <= MaxLen
  BY <1>2, <1>3 DEF Whole, Each
<1> QED BY <1>2, <1>4, <1>5

\* A held slot is a taken one, so that there is a descriptor to be had.
LEMMA HeldFacts ==
  ASSUME NEW g, NEW v, Started(v, Taken(g)), NEW f \in Handle, g[f] # "free"
  PROVE  f \in Taken(g) /\ Spare(v)
<1>1. f \in Taken(g)
  BY DEF Taken
<1> QED BY <1>1 DEF Started

LEMMA CallInv ==
  ASSUME Inv, NEW p \in Proc, NEW s, NEW r, Becomes(p, s, r), NEW g \in Helds,
         Sound(s, Taken(g), Kept(g), Elsewhere(vfd, p)), Started(s.v, Taken(g)),
         Present(file, s.k), held' \in [Proc -> Helds], held'[p] = g,
         Apart(held, held', p)
  PROVE  Inv'
<1>1. WithinBounds(s) /\ vfd' = [vfd EXCEPT ![p] = s.v] /\ file' = s.k
  BY DEF Becomes
<1>2. Whole(vfd, file, held)
  BY DEF Inv
<1>3. PICK V1 : V1 = vfd'
  OBVIOUS
<1>4. PICK h1 : h1 = held'
  OBVIOUS
<1>5. /\ V1 = [vfd EXCEPT ![p] = s.v] /\ h1 \in [Proc -> Helds] /\ h1[p] = g
      /\ Apart(held, h1, p)
  BY <1>1, <1>3, <1>4
<1>6. Whole(V1, s.k, h1)
  BY <1>1, <1>2, <1>5, CallKeeps
<1> QED BY <1>1, <1>3, <1>4, <1>6 DEF Inv

LEMMA KeepsInv ==
  ASSUME Inv, NEW p \in Proc, NEW s, NEW r, Keeps(p, s, r),
         Sound(s, Taken(held[p]), Kept(held[p]), Elsewhere(vfd, p)),
         Started(s.v, Taken(held[p])), Present(file, s.k)
  PROVE  Inv'
<1>1. Becomes(p, s, r) /\ held' = held
  BY DEF Keeps
<1>2. held \in [Proc -> Helds]
  BY DEF Inv, Whole
<1>3. PICK g : g = held[p]
  OBVIOUS
<1>4. /\ g \in Helds /\ held' \in [Proc -> Helds] /\ held'[p] = g
      /\ Apart(held, held', p)
  BY <1>1, <1>2, <1>3 DEF Apart
<1>5. Sound(s, Taken(g), Kept(g), Elsewhere(vfd, p)) /\ Started(s.v, Taken(g))
  BY <1>3
<1> QED BY <1>1, <1>4, <1>5, CallInv

LEMMA CloseAllInv ==
  ASSUME Inv, NEW p \in Proc, closeAllVfds(p)
  PROVE  Inv'
<1>1. PICK s : s = State(p)
  OBVIOUS
<1>2. PICK t : t = CloseUpTo(s)
  OBVIOUS
<1>3. Keeps(p, t, Ok)
  BY <1>1, <1>2 DEF closeAllVfds, Hidden
<1>4. /\ Sound(s, Taken(held[p]), Kept(held[p]), Elsewhere(vfd, p))
      /\ Started(s.v, Taken(held[p])) /\ s.k = file
  BY <1>1, StateSound
<1>5. /\ Sound(t, Taken(held[p]), Kept(held[p]), Elsewhere(vfd, p))
      /\ Same(s, t) /\ Started(t.v, Taken(held[p]))
  BY <1>2, <1>4, ClosesAll
<1>6. Present(file, t.k)
  BY <1>4, <1>5, SamePresent DEF Same
<1> QED BY <1>3, <1>5, <1>6, KeepsInv

LEMMA AllocateFileInv ==
  ASSUME Inv, NEW p \in Proc, AllocateFile(p)
  PROVE  Inv'
<1>1. PICK s : s = State(p)
  OBVIOUS
<1>2. PICK t : t = TryAgain(s, FALSE)
  OBVIOUS
<1>3. Keeps(p, t, Ok)
  BY <1>1, <1>2 DEF AllocateFile, Hidden
<1>4. /\ Sound(s, Taken(held[p]), Kept(held[p]), Elsewhere(vfd, p))
      /\ Started(s.v, Taken(held[p])) /\ s.k = file
  BY <1>1, StateSound
<1>5. /\ Sound(t, Taken(held[p]), Kept(held[p]), Elsewhere(vfd, p))
      /\ Same(s, t) /\ (t = s \/ t.v.freeFd > 0)
  <2>1. FALSE \in BOOLEAN
    OBVIOUS
  <2> QED BY <1>2, <1>4, <2>1, TriesAgain
<1>6. Present(file, t.k)
  BY <1>4, <1>5, SamePresent DEF Same
<1>7. Started(t.v, Taken(held[p]))
  BY <1>4, <1>5 DEF Started, Spare
<1> QED BY <1>3, <1>5, <1>6, <1>7, KeepsInv

\* The calls on a file that a caller holds.
LEMMA HoldsFacts ==
  ASSUME Inv, NEW p \in Proc, NEW f \in Handle, Holds(p, f), NEW s, s = State(p)
  PROVE  /\ Sound(s, Taken(held[p]), Kept(held[p]), Elsewhere(vfd, p))
         /\ Spare(s.v) /\ f \in Kept(held[p]) /\ s.v = vfd[p] /\ s.k = file
<1>1. /\ Sound(s, Taken(held[p]), Kept(held[p]), Elsewhere(vfd, p))
      /\ Started(s.v, Taken(held[p])) /\ s.k = file /\ s.v = vfd[p]
  BY StateSound
<1>2. held[p][f] # "free" /\ f \in Kept(held[p])
  BY DEF Holds, Kept
<1> QED BY <1>1, <1>2, HeldFacts

LEMMA FileCallInv ==
  ASSUME Inv, NEW p \in Proc, NEW t, NEW r, Keeps(p, t, r),
         Sound(t, Taken(held[p]), Kept(held[p]), Elsewhere(vfd, p)),
         Spare(t.v), Present(file, t.k)
  PROVE  Inv'
<1>1. Started(t.v, Taken(held[p]))
  BY DEF Started
<1> QED BY <1>1, KeepsInv

LEMMA ChangePresent ==
  ASSUME NEW k, NEW l, NEW n, NEW d, ChangedData(k, l, n, d)
  PROVE  Present(k, l)
BY DEF ChangedData, Present

LEMMA ReadInv ==
  ASSUME Inv, NEW p \in Proc, NEW f \in Handle, NEW ok \in BOOLEAN, DoRead(p, f, ok)
  PROVE  Inv'
<1>1. PICK s : s = State(p)
  OBVIOUS
<1>2. PICK t : t = FileRead(s, f, ok)
  OBVIOUS
<1>3. PICK r : r = ReadResult(FileAccess(s, f, ok), f)
  OBVIOUS
<1>4. Keeps(p, t, r) /\ Holds(p, f)
  BY <1>1, <1>2, <1>3 DEF DoRead
<1>5. /\ Sound(s, Taken(held[p]), Kept(held[p]), Elsewhere(vfd, p))
      /\ Spare(s.v) /\ f \in Kept(held[p]) /\ s.k = file
  BY <1>1, <1>4, HoldsFacts
<1>6. /\ Sound(t, Taken(held[p]), Kept(held[p]), Elsewhere(vfd, p)) /\ Spare(t.v)
      /\ SameData(s.k, t.k)
  BY <1>2, <1>3, <1>5, Reads
<1> QED BY <1>4, <1>5, <1>6, SamePresent, FileCallInv

LEMMA WriteInv ==
  ASSUME Inv, NEW p \in Proc, NEW f \in Handle, NEW x \in Page, NEW ok \in BOOLEAN,
         NEW full \in BOOLEAN, DoWrite(p, f, x, ok, full)
  PROVE  Inv'
<1>1. PICK s : s = State(p)
  OBVIOUS
<1>2. PICK t : t = FileWrite(s, f, x, ok, full)
  OBVIOUS
<1>3. PICK r : r = IF full THEN Done(t, f) ELSE Fail
  OBVIOUS
<1>4. Keeps(p, t, r) /\ Holds(p, f)
  BY <1>1, <1>2, <1>3 DEF DoWrite
<1>5. /\ Sound(s, Taken(held[p]), Kept(held[p]), Elsewhere(vfd, p))
      /\ Spare(s.v) /\ f \in Kept(held[p]) /\ s.k = file
  BY <1>1, <1>4, HoldsFacts
<1>6. /\ Sound(t, Taken(held[p]), Kept(held[p]), Elsewhere(vfd, p)) /\ Spare(t.v)
      /\ WritesAs(s, t, f, x, full)
  BY <1>2, <1>5, Writes
<1>7. Present(s.k, t.k)
  BY <1>6, SamePresent, ChangePresent DEF WritesAs
<1> QED BY <1>4, <1>5, <1>6, <1>7, FileCallInv

LEMMA SeekInv ==
  ASSUME Inv, NEW p \in Proc, NEW f \in Handle, NEW off \in Nat,
         NEW whence \in {"SET", "CUR", "END"}, NEW ok \in BOOLEAN,
         DoSeek(p, f, off, whence, ok)
  PROVE  Inv'
<1>1. PICK s : s = State(p)
  OBVIOUS
<1>2. PICK t : t = FileSeek(s, f, off, whence, ok)
  OBVIOUS
<1>3. PICK r : r = IF whence = "END" THEN Done(t, f) ELSE Ok
  OBVIOUS
<1>4. /\ Keeps(p, t, r) /\ Holds(p, f)
      /\ whence = "CUR" => vfd[p].seekPos[f] >= 0
  BY <1>1, <1>2, <1>3 DEF DoSeek
<1>5. /\ Sound(s, Taken(held[p]), Kept(held[p]), Elsewhere(vfd, p))
      /\ Spare(s.v) /\ f \in Kept(held[p]) /\ s.k = file /\ s.v = vfd[p]
  BY <1>1, <1>4, HoldsFacts
<1>6. /\ Sound(t, Taken(held[p]), Kept(held[p]), Elsewhere(vfd, p)) /\ Spare(t.v)
      /\ SameData(s.k, t.k)
  BY <1>2, <1>4, <1>5, Seeks
<1> QED BY <1>4, <1>5, <1>6, SamePresent, FileCallInv

LEMMA TruncateInv ==
  ASSUME Inv, NEW p \in Proc, NEW f \in Handle, NEW j \in Nat, NEW ok \in BOOLEAN,
         DoTruncate(p, f, j, ok)
  PROVE  Inv'
<1>1. PICK s : s = State(p)
  OBVIOUS
<1>2. PICK t : t = FileTruncate(s, f, j, ok)
  OBVIOUS
<1>4. Keeps(p, t, Done(t, f)) /\ Holds(p, f) /\ j <= Len(file[vfd[p].name[f]].data)
  BY <1>1, <1>2 DEF DoTruncate
<1>5. /\ Sound(s, Taken(held[p]), Kept(held[p]), Elsewhere(vfd, p))
      /\ Spare(s.v) /\ f \in Kept(held[p]) /\ s.k = file /\ s.v = vfd[p]
  BY <1>1, <1>4, HoldsFacts
<1>6. /\ Sound(t, Taken(held[p]), Kept(held[p]), Elsewhere(vfd, p)) /\ Spare(t.v)
      /\ TruncatesAs(s, t, f, j)
  <2>1. j <= Len(s.k[s.v.name[f]].data)
    BY <1>4, <1>5
  <2> QED BY <1>2, <1>5, <2>1, Truncates
<1>7. Present(s.k, t.k)
  BY <1>6, SamePresent, ChangePresent DEF TruncatesAs
<1> QED BY <1>4, <1>5, <1>6, <1>7, FileCallInv

LEMMA SyncInv ==
  ASSUME Inv, NEW p \in Proc, NEW f \in Handle, DoSync(p, f)
  PROVE  Inv'
<1>1. PICK s : s = State(p)
  OBVIOUS
<1>2. PICK t : t = FileSync(s, f)
  OBVIOUS
<1>4. Keeps(p, t, Ok) /\ Holds(p, f)
  BY <1>1, <1>2 DEF DoSync, Hidden
<1>5. /\ Sound(s, Taken(held[p]), Kept(held[p]), Elsewhere(vfd, p))
      /\ Spare(s.v) /\ f \in Kept(held[p]) /\ s.k = file
  BY <1>1, <1>4, HoldsFacts
<1>6. /\ Sound(t, Taken(held[p]), Kept(held[p]), Elsewhere(vfd, p)) /\ Spare(t.v)
      /\ Same(s, t)
  BY <1>2, <1>5, Syncs
<1>7. Present(file, t.k)
  BY <1>5, <1>6, SamePresent DEF Same
<1> QED BY <1>4, <1>6, <1>7, FileCallInv

LEMMA InvalidateInv ==
  ASSUME Inv, NEW p \in Proc, NEW f \in Handle, DoInvalidate(p, f)
  PROVE  Inv'
<1>1. PICK s : s = State(p)
  OBVIOUS
<1>2. PICK t : t = FileInvalidate(s, f)
  OBVIOUS
<1>4. Keeps(p, t, Ok) /\ Holds(p, f)
  BY <1>1, <1>2 DEF DoInvalidate, Hidden
<1>5. /\ Sound(s, Taken(held[p]), Kept(held[p]), Elsewhere(vfd, p))
      /\ Spare(s.v) /\ f \in Kept(held[p]) /\ s.k = file
  BY <1>1, <1>4, HoldsFacts
<1>6. /\ Sound(t, Taken(held[p]), Kept(held[p]), Elsewhere(vfd, p))
      /\ Same(s, t) /\ (t = s \/ t.v.freeFd > 0)
  BY <1>2, <1>5, SlotFacts, Invalidates
<1>7. Present(file, t.k) /\ Spare(t.v)
  BY <1>5, <1>6, SamePresent DEF Same, Spare
<1> QED BY <1>4, <1>6, <1>7, FileCallInv

\* The slots of one process after one of them is given to or back by a caller.
HeldAs(h, h1, p, f, x) == h1 = [h EXCEPT ![p][f] = x]
SlotAs(g, g1, f, x) == \A e \in Handle : g1[e] = IF e = f THEN x ELSE g[e]

LEMMA HeldSet ==
  ASSUME NEW h, h \in [Proc -> Helds], NEW p \in Proc, NEW f \in Handle,
         NEW x, x \in {"free", "held"}, NEW h1, HeldAs(h, h1, p, f, x),
         NEW g, g = h1[p]
  PROVE  /\ g \in Helds /\ h1 \in [Proc -> Helds] /\ Apart(h, h1, p)
         /\ SlotAs(h[p], g, f, x)
<1>0. h1 = [h EXCEPT ![p][f] = x]
  BY DEF HeldAs
<1>1. PICK c : c = [h[p] EXCEPT ![f] = x]
  OBVIOUS
<1>2. h[p] \in [Handle -> {"free", "held", "dropped"}]
  BY DEF Helds
<1>3. /\ c \in [Handle -> {"free", "held", "dropped"}]
      /\ \A e \in Handle : c[e] = IF e = f THEN x ELSE h[p][e]
  BY <1>1, <1>2
<1>4. h1 = [h EXCEPT ![p] = c]
  BY <1>0, <1>1
<1>5. c \in Helds
  BY <1>3 DEF Helds
<1>6. h1 \in [Proc -> Helds] /\ h1[p] = c /\ \A q \in Proc : q # p => h1[q] = h[q]
  BY <1>4, <1>5
<1> QED BY <1>3, <1>5, <1>6 DEF Apart, SlotAs

LEMMA OpenInv ==
  ASSUME Inv, NEW p \in Proc, NEW n \in Name, NEW creat \in BOOLEAN,
         NEW excl \in BOOLEAN, DoOpen(p, n, creat, excl)
  PROVE  Inv'
<1>1. PICK s : s = State(p)
  OBVIOUS
<1>2. PICK t : t = fileNameOpenFile(s, n, creat, excl)
  OBVIOUS
<1>3. PICK f : f = NewSlot(s.v)
  OBVIOUS
<1>4. PICK A : A = Taken(held[p])
  OBVIOUS
<1>5. PICK H : H = Kept(held[p])
  OBVIOUS
<1>6. PICK O : O = Elsewhere(vfd, p)
  OBVIOUS
<1>7. Sound(s, A, H, O) /\ Started(s.v, A) /\ s.k = file /\ s.v = vfd[p]
  BY <1>1, <1>4, <1>5, <1>6, StateSound
<1>8. HasRoom(s.v)
  BY <1>7 DEF DoOpen
<1>9. /\ f \in Handle /\ f \notin A
      /\ Openable(s.k, n, creat, excl) =>
              /\ Sound(t, A \cup {f}, H \cup {f}, O) /\ Spare(t.v)
              /\ OpenData(s.k, t.k, n)
      /\ ~ Openable(s.k, n, creat, excl) =>
              Sound(t, A, H, O) /\ Started(t.v, A) /\ SameData(s.k, t.k)
  BY <1>2, <1>3, <1>7, <1>8, Opens
<1>10. f # Fail
  BY <1>9, VfdAssumption DEF Handle, Slot
<1>11. CASE Openable(s.k, n, creat, excl)
  <2>1. Becomes(p, t, Ok) /\ held' = [held EXCEPT ![p][f] = "held"]
    <3>1. Opened(s, n, creat, excl) = f
      BY <1>3, <1>11 DEF Opened
    <3> QED BY <1>1, <1>2, <1>10, <3>1 DEF DoOpen
  <2>2. PICK h1 : h1 = held'
    OBVIOUS
  <2>3. PICK g : g = h1[p]
    OBVIOUS
  <2>4. held \in [Proc -> Helds]
    BY DEF Inv, Whole
  <2>5. /\ g \in Helds /\ h1 \in [Proc -> Helds] /\ Apart(held, h1, p)
        /\ SlotAs(held[p], g, f, "held")
    <3>1. PICK x : x = "held"
      OBVIOUS
    <3>2. HeldAs(held, h1, p, f, x) /\ x \in {"free", "held"}
      BY <2>1, <2>2, <3>1 DEF HeldAs
    <3>3. /\ g \in Helds /\ h1 \in [Proc -> Helds] /\ Apart(held, h1, p)
          /\ SlotAs(held[p], g, f, x)
      BY <1>9, <2>3, <2>4, <3>2, HeldSet
    <3> QED BY <3>1, <3>3
  <2>6. Taken(g) = A \cup {f} /\ Kept(g) = H \cup {f}
    BY <1>4, <1>5, <1>9, <2>5 DEF Taken, Kept, SlotAs
  <2>7. Sound(t, Taken(g), Kept(g), Elsewhere(vfd, p)) /\ Started(t.v, Taken(g))
    BY <1>6, <1>9, <1>11, <2>6 DEF Started
  <2>8. Present(file, t.k)
    BY <1>7, <1>9, <1>11 DEF OpenData, Present
  <2>9. held' \in [Proc -> Helds] /\ held'[p] = g /\ Apart(held, held', p) /\ g \in Helds
    BY <2>2, <2>3, <2>5
  <2> QED BY <2>1, <2>7, <2>8, <2>9, CallInv
<1>12. CASE ~ Openable(s.k, n, creat, excl)
  <2>1. Keeps(p, t, Fail)
    <3>1. Opened(s, n, creat, excl) = Fail
      BY <1>12 DEF Opened
    <3> QED BY <1>1, <1>2, <3>1 DEF DoOpen, Keeps
  <2>2. Sound(t, Taken(held[p]), Kept(held[p]), Elsewhere(vfd, p))
    BY <1>4, <1>5, <1>6, <1>9, <1>12
  <2>3. Started(t.v, Taken(held[p]))
    BY <1>4, <1>9, <1>12
  <2>4. Present(file, t.k)
    BY <1>7, <1>9, <1>12, SamePresent
  <2> QED BY <2>1, <2>2, <2>3, <2>4, KeepsInv
<1> QED BY <1>11, <1>12

\* What is known of a file that FileClose closes: the rest of FileUnlink needs
\* it too.
LEMMA CloseFacts ==
  ASSUME Inv, NEW p \in Proc, NEW f \in Handle, held[p][f] # "free",
         NEW s, s = State(p), NEW t, t = FileClose(s, f),
         NEW h1, HeldAs(held, h1, p, f, "free"), NEW g, g = h1[p]
  PROVE  /\ g \in Helds /\ h1 \in [Proc -> Helds] /\ Apart(held, h1, p)
         /\ Sound(t, Taken(g), Kept(g), Elsewhere(vfd, p)) /\ Started(t.v, Taken(g))
         /\ Besides(vfd[p], t.v, f) /\ SameData(file, t.k)
<1>1. PICK A : A = Taken(held[p])
  OBVIOUS
<1>2. PICK H : H = Kept(held[p])
  OBVIOUS
<1>3. PICK O : O = Elsewhere(vfd, p)
  OBVIOUS
<1>4. Sound(s, A, H, O) /\ Started(s.v, A) /\ s.k = file /\ s.v = vfd[p]
  BY <1>1, <1>2, <1>3, StateSound
<1>5. f \in A /\ Spare(s.v)
  BY <1>1, <1>4, HeldFacts
<1>6. /\ Sound(t, A \ {f}, H \ {f}, O) /\ Spare(t.v)
      /\ Besides(s.v, t.v, f) /\ SameData(s.k, t.k)
  BY <1>4, <1>5, Closes
<1>7. held \in [Proc -> Helds]
  BY DEF Inv, Whole
<1>8. /\ g \in Helds /\ h1 \in [Proc -> Helds] /\ Apart(held, h1, p)
      /\ SlotAs(held[p], g, f, "free")
  BY <1>7, HeldSet
<1>9. Taken(g) = A \ {f} /\ Kept(g) = H \ {f}
  BY <1>1, <1>2, <1>8 DEF Taken, Kept, SlotAs
<1>10. Sound(t, Taken(g), Kept(g), Elsewhere(vfd, p)) /\ Started(t.v, Taken(g))
  BY <1>3, <1>6, <1>9 DEF Started
<1>11. Besides(vfd[p], t.v, f) /\ SameData(file, t.k)
  BY <1>4, <1>6
<1> QED BY <1>8, <1>10, <1>11

LEMMA CloseInv ==
  ASSUME Inv, NEW p \in Proc, NEW f \in Handle, DoClose(p, f)
  PROVE  Inv'
<1>1. PICK s : s = State(p)
  OBVIOUS
<1>2. PICK t : t = FileClose(s, f)
  OBVIOUS
<1>3. PICK h1 : h1 = [held EXCEPT ![p][f] = "free"]
  OBVIOUS
<1>4. PICK g : g = h1[p]
  OBVIOUS
<1>5. Becomes(p, t, Ok) /\ held' = h1 /\ held[p][f] # "free"
  BY <1>1, <1>2, <1>3 DEF DoClose
<1>6. /\ g \in Helds /\ h1 \in [Proc -> Helds] /\ Apart(held, h1, p)
      /\ Sound(t, Taken(g), Kept(g), Elsewhere(vfd, p)) /\ Started(t.v, Taken(g))
      /\ SameData(file, t.k)
  <2>1. HeldAs(held, h1, p, f, "free")
    BY <1>3 DEF HeldAs
  <2> QED BY <1>1, <1>2, <1>4, <1>5, <2>1, CloseFacts
<1>7. Present(file, t.k)
  BY <1>6, SamePresent
<1>8. held' \in [Proc -> Helds] /\ held'[p] = g /\ Apart(held, held', p)
  BY <1>4, <1>5, <1>6
<1> QED BY <1>5, <1>6, <1>7, <1>8, CallInv

LEMMA FileNameUnlinkInv ==
  ASSUME Inv, NEW n \in Name, FileNameUnlink(n)
  PROVE  Inv'
<1>1. PICK V1 : V1 = vfd'
  OBVIOUS
<1>2. PICK l : l = file'
  OBVIOUS
<1>3. PICK h1 : h1 = held'
  OBVIOUS
<1>4. Unlinking(vfd, file, held, V1, l, h1, n)
  BY <1>1, <1>2, <1>3 DEF FileNameUnlink, UnlinkFrom, Unlinking
<1>7. Whole(vfd, file, held)
  BY DEF Inv
<1>8. Whole(V1, l, h1)
  BY <1>4, <1>7, UnlinkKeeps
<1> QED BY <1>1, <1>2, <1>3, <1>8 DEF Inv

LEMMA FileUnlinkInv ==
  ASSUME Inv, NEW p \in Proc, NEW f \in Handle, FileUnlink(p, f)
  PROVE  Inv'
<1>1. PICK s : s = State(p)
  OBVIOUS
<1>2. PICK t : t = FileClose(s, f)
  OBVIOUS
<1>3. PICK n : n = vfd[p].name[f]
  OBVIOUS
<1>4. PICK h1 : h1 = [held EXCEPT ![p][f] = "free"]
  OBVIOUS
<1>5. PICK V1 : V1 = [vfd EXCEPT ![p] = t.v]
  OBVIOUS
<1>6. PICK g : g = h1[p]
  OBVIOUS
<1>7. Holds(p, f) /\ WithinBounds(t) /\ UnlinkFrom(V1, h1, n)
  BY <1>1, <1>2, <1>3, <1>4, <1>5 DEF FileUnlink
<1>8. /\ g \in Helds /\ h1 \in [Proc -> Helds] /\ Apart(held, h1, p)
      /\ Sound(t, Taken(g), Kept(g), Elsewhere(vfd, p)) /\ Started(t.v, Taken(g))
      /\ SameData(file, t.k)
  <2>1. HeldAs(held, h1, p, f, "free")
    BY <1>4 DEF HeldAs
  <2>2. held[p][f] # "free"
    BY <1>7 DEF Holds
  <2> QED BY <1>1, <1>2, <1>6, <2>1, <2>2, CloseFacts
<1>9. Whole(V1, t.k, h1)
  <2>1. Whole(vfd, file, held)
    BY DEF Inv
  <2>2. Present(file, t.k)
    BY <1>8, SamePresent
  <2> QED BY <1>5, <1>6, <1>7, <1>8, <2>1, <2>2, CallKeeps
<1>10. n \in Name /\ file \in Store /\ t.k \in Store /\ FilesBesides(file, t.k, n)
  <2>1. /\ Sound(s, Taken(held[p]), Kept(held[p]), Elsewhere(vfd, p))
        /\ f \in Kept(held[p]) /\ s.v = vfd[p] /\ s.k = file
    BY <1>1, <1>7, HoldsFacts
  <2>2. /\ n \in Name /\ file[n] # Absent /\ (s.v.fd[f] => s.v.link[f] = n)
    BY <1>3, <2>1, Position
  <2>3. file \in Store /\ t.k \in Store
    BY <1>8, <2>1, SoundType
  <2>4. t.k = IF s.v.fd[f] /\ s.v.dirty[f] THEN Fsync(file, s.v.link[f]) ELSE file
    BY <1>2, <2>1 DEF FileClose
  <2>5. CASE s.v.fd[f] /\ s.v.dirty[f]
    <3>1. t.k = Fsync(file, n)
      BY <2>2, <2>4, <2>5
    <3>2. \A m \in Name : m # n => t.k[m] = file[m]
      BY <2>2, <2>3, <3>1, FsyncForces
    <3> QED BY <2>2, <2>3, <3>2 DEF FilesBesides
  <2>6. CASE ~(s.v.fd[f] /\ s.v.dirty[f])
    <3>1. t.k = file
      BY <2>4, <2>6
    <3> QED BY <2>2, <2>3, <3>1 DEF FilesBesides
  <2> QED BY <2>5, <2>6
<1>11. [t.k EXCEPT ![n] = Absent] = [file EXCEPT ![n] = Absent]
  BY <1>10 DEF FilesBesides, Store
<1>12. PICK V2 : V2 = vfd'
  OBVIOUS
<1>13. PICK l : l = file'
  OBVIOUS
<1>14. PICK h2 : h2 = held'
  OBVIOUS
<1>15. Unlinking(V1, t.k, h1, V2, l, h2, n)
  BY <1>7, <1>11, <1>12, <1>13, <1>14 DEF UnlinkFrom, Unlinking
<1>16. Whole(V2, l, h2)
  BY <1>9, <1>10, <1>15, UnlinkKeeps
<1> QED BY <1>12, <1>13, <1>14, <1>16 DEF Inv

\* The reopening of a file fails only if the kernel is asked to open it.
LEMMA OkType ==
  ASSUME Inv, NEW p \in Proc, NEW f \in Handle, NEW ok \in {TRUE} \cup {vfd[p].fd[f]}
  PROVE  ok \in BOOLEAN
<1>1. vfd[p] \in Vfds
  BY DEF Inv, Whole
<1>2. vfd[p].fd \in [Slot -> BOOLEAN]
  BY <1>1, VfdTypes
<1>3. f \in Slot
  BY SlotFacts
<1>4. vfd[p].fd[f] \in BOOLEAN
  BY <1>2, <1>3
<1> QED BY <1>4, Zenon

\* A call on file f of process p.
FileCall(p, f) ==
  \/ DoClose(p, f) \/ FileUnlink(p, f)
  \/ DoSync(p, f) \/ DoInvalidate(p, f)
  \/ DoSeek(p, f, 1, "CUR", TRUE)
  \/ \E i \in 0 .. MaxLen : DoSeek(p, f, i, "SET", TRUE)
  \/ \E ok \in {TRUE} \cup {vfd[p].fd[f]} :
       \/ DoRead(p, f, ok) \/ DoSeek(p, f, 0, "END", ok)
       \/ \E i \in 0 .. MaxLen : DoTruncate(p, f, i, ok)
       \/ \E x \in Page, full \in BOOLEAN : DoWrite(p, f, x, ok, full)

LEMMA NextCases ==
  ASSUME Next
  PROVE  \/ \E n \in Name : FileNameUnlink(n)
         \/ \E p \in Proc :
              \/ closeAllVfds(p) \/ AllocateFile(p)
              \/ \E d \in {-1, 1} : Others(p, d)
              \/ \E n \in Name, c, e \in BOOLEAN : DoOpen(p, n, c, e)
              \/ \E f \in Handle : FileCall(p, f)
BY Zenon DEF Next, FileCall

\* A seek, with an argument and to a place that the bounds allow.
SeekCall(p, f, off, whence, ok) ==
  DoSeek(p, f, off, whence, ok) /\ (whence = "END" => off = 0)

LEMMA SeekCases ==
  ASSUME NEW p, NEW f,
         \/ DoSeek(p, f, 1, "CUR", TRUE)
         \/ \E i \in 0 .. MaxLen : DoSeek(p, f, i, "SET", TRUE)
         \/ \E ok \in BOOLEAN : DoSeek(p, f, 0, "END", ok)
  PROVE  \E off \in Nat, whence \in {"SET", "CUR", "END"}, ok \in BOOLEAN :
           SeekCall(p, f, off, whence, ok)
<1>1. 1 \in Nat /\ 0 \in Nat /\ 0 .. MaxLen \subseteq Nat
  BY VfdAssumption
<1>2. TRUE \in BOOLEAN /\ "SET" # "END" /\ "CUR" # "END"
  OBVIOUS
<1> QED BY <1>1, <1>2, Zenon DEF SeekCall

LEMMA FileCallStep ==
  ASSUME Inv, NEW p \in Proc, NEW f \in Handle, FileCall(p, f)
  PROVE  Inv'
<1>1. CASE DoClose(p, f) \/ FileUnlink(p, f) \/ DoSync(p, f) \/ DoInvalidate(p, f)
  BY <1>1, CloseInv, FileUnlinkInv, SyncInv, InvalidateInv
<1>2. ASSUME \/ DoSeek(p, f, 1, "CUR", TRUE)
             \/ \E i \in 0 .. MaxLen : DoSeek(p, f, i, "SET", TRUE)
             \/ \E ok \in BOOLEAN : DoSeek(p, f, 0, "END", ok)
      PROVE  Inv'
  <2>1. PICK off \in Nat, whence \in {"SET", "CUR", "END"}, ok \in BOOLEAN :
          SeekCall(p, f, off, whence, ok)
    BY <1>2, SeekCases
  <2>2. DoSeek(p, f, off, whence, ok)
    BY <2>1 DEF SeekCall
  <2> QED BY <2>2, SeekInv
<1>3. ASSUME NEW ok \in {TRUE} \cup {vfd[p].fd[f]}, DoRead(p, f, ok)
      PROVE  Inv'
  <2>1. ok \in BOOLEAN
    BY OkType
  <2> QED BY <1>3, <2>1, ReadInv
<1>4. ASSUME NEW ok \in {TRUE} \cup {vfd[p].fd[f]}, NEW i \in 0 .. MaxLen,
             DoTruncate(p, f, i, ok)
      PROVE  Inv'
  <2>1. ok \in BOOLEAN
    BY OkType
  <2>2. i \in Nat
    BY VfdAssumption
  <2> QED BY <1>4, <2>1, <2>2, TruncateInv
<1>5. ASSUME NEW ok \in {TRUE} \cup {vfd[p].fd[f]}, NEW x \in Page,
             NEW full \in BOOLEAN, DoWrite(p, f, x, ok, full)
      PROVE  Inv'
  <2>1. ok \in BOOLEAN
    BY OkType
  <2> QED BY <1>5, <2>1, WriteInv
<1>6. ASSUME NEW ok \in {TRUE} \cup {vfd[p].fd[f]}, DoSeek(p, f, 0, "END", ok)
      PROVE  Inv'
  <2>1. ok \in BOOLEAN
    BY OkType
  <2> QED BY <1>2, <1>6, <2>1
<1> QED BY <1>1, <1>2, <1>3, <1>4, <1>5, <1>6 DEF FileCall

LEMMA StepInv ==
  ASSUME Inv, [Next]_vars
  PROVE  Inv'
<1>1. CASE UNCHANGED vars
  BY <1>1 DEF vars, Inv
<1>2. CASE Next
  <2>1. ASSUME NEW n \in Name, FileNameUnlink(n) PROVE Inv'
    BY <2>1, FileNameUnlinkInv
  <2>2. ASSUME NEW p \in Proc, closeAllVfds(p) PROVE Inv'
    BY <2>2, CloseAllInv
  <2>3. ASSUME NEW p \in Proc, AllocateFile(p) PROVE Inv'
    BY <2>3, AllocateFileInv
  <2>4. ASSUME NEW p \in Proc, NEW d \in {-1, 1}, Others(p, d) PROVE Inv'
    BY <2>4, OthersKeep
  <2>5. ASSUME NEW p \in Proc, NEW n \in Name, NEW c \in BOOLEAN, NEW e \in BOOLEAN,
               DoOpen(p, n, c, e)
        PROVE  Inv'
    BY <2>5, OpenInv
  <2>6. ASSUME NEW p \in Proc, NEW f \in Handle, FileCall(p, f) PROVE Inv'
    BY <2>6, FileCallStep
  <2> QED BY <1>2, <2>1, <2>2, <2>3, <2>4, <2>5, <2>6, NextCases
<1> QED BY <1>1, <1>2

LEMMA AlwaysInv == Spec => []Inv
<1>1. Init => Inv
  BY InitInv
<1>2. Inv /\ [Next]_vars => Inv'
  BY StepInv
<1> QED BY <1>1, <1>2, PTL DEF Spec

-----------------------------------------------------------------------------
(* The properties.                                                         *)

LEMMA EachFacts ==
  ASSUME Inv, NEW p \in Proc, NEW v, v = vfd[p]
  PROVE  /\ v \in Vfds /\ InRing(v) /\ Listed(v, Taken(held[p])) /\ Counted(v)
         /\ Placed(v) /\ Linked(v, file, Kept(held[p]))
         /\ \A f \in Slot : v.seekPos[f] <= MaxLen
BY DEF Inv, Whole, Each, Proper

\* The part of TypeOK about one process.
LEMMA TypedVfd ==
  ASSUME Inv, NEW p \in Proc, NEW v, v = vfd[p]
  PROVE  /\ v.size \in 0 .. MaxVfd /\ v.nfile \in Int /\ v.freeFd \in Nat
         /\ {v.fd, v.dirty} \subseteq [Slot -> BOOLEAN]
         /\ {v.nextFree, v.more, v.less} \subseteq [Slot -> Slot]
         /\ {v.seekPos, v.kpos} \subseteq [Slot -> -1 .. MaxLen]
         /\ {v.name, v.link} \subseteq [Slot -> Name \cup {Absent}]
         /\ v.others \in 0 .. OsMax - 1
<1>1. /\ v \in Vfds /\ Placed(v) /\ \A f \in Slot : v.seekPos[f] <= MaxLen
  BY EachFacts
<1>2. /\ v.size \in 0 .. MaxVfd /\ v.nfile \in Int /\ v.freeFd \in Nat
      /\ v.others \in 0 .. OsMax - 1
  BY <1>1 DEF Vfds
<1>3. v.fd \in [Slot -> BOOLEAN] /\ v.dirty \in [Slot -> BOOLEAN]
  BY <1>1 DEF Vfds
<1>4. /\ v.nextFree \in [Slot -> Slot] /\ v.more \in [Slot -> Slot]
      /\ v.less \in [Slot -> Slot]
  BY <1>1 DEF Vfds
<1>5. /\ v.name \in [Slot -> Name \cup {Absent}]
      /\ v.link \in [Slot -> Name \cup {Absent}]
  BY <1>1 DEF Vfds
<1>6. v.seekPos \in [Slot -> Int] /\ v.kpos \in [Slot -> Int] /\ MaxLen \in Nat
  BY <1>1, VfdAssumption DEF Vfds
<1>7. \A f \in Slot : v.seekPos[f] \in -1 .. MaxLen
  <2> SUFFICES ASSUME NEW f \in Slot
               PROVE  v.seekPos[f] \in -1 .. MaxLen
    OBVIOUS
  <2>1. v.seekPos[f] \in Int /\ v.seekPos[f] <= MaxLen /\ v.seekPos[f] >= -1
    BY <1>1, <1>6 DEF Placed
  <2> QED BY <1>6, <2>1
<1>8. \A f \in Slot : v.kpos[f] \in -1 .. MaxLen
  BY <1>1, <1>6, <1>7 DEF Placed
<1>9. v.seekPos \in [Slot -> -1 .. MaxLen] /\ v.kpos \in [Slot -> -1 .. MaxLen]
  BY <1>6, <1>7, <1>8
<1> QED BY <1>2, <1>3, <1>4, <1>5, <1>9

\* The ring of process p.
LEMMA RingOf ==
  ASSUME Inv, NEW p \in Proc
  PROVE  LET v == vfd[p]
             n == Cardinality(InUse(v))
             w == Path(v.less, v.less[0])
         IN  /\ {w[i] : i \in 0 .. n - 1} = InUse(v)
             /\ w[n] = 0
             /\ \A f \in InUse(v) \cup {0} : v.more[v.less[f]] = f
<1>1. PICK v : v = vfd[p]
  OBVIOUS
<1>2. PICK U : U = InUse(v)
  OBVIOUS
<1>3. PICK g : g = v.less
  OBVIOUS
<1>4. InRing(v)
  BY <1>1, EachFacts
<1>5. Circle(g, U) /\ \A f \in U \cup {0} : v.more[g[f]] = f
  BY <1>2, <1>3, <1>4 DEF InRing, Back
<1>6. LET w == Path(g, g[0])
          n == Cardinality(U)
      IN  {w[i] : i \in 0 .. n - 1} = U /\ w[n] = 0
  BY <1>5, PathRound
<1> QED BY <1>1, <1>2, <1>3, <1>5, <1>6

\* RingWhole: in every reachable state the LRU ring of fd.c holds exactly the
\* files open in the kernel, in both directions, and the variables have their
\* types; the file that AssertLruRoom closes is therefore an open one.
THEOREM RingIsWhole == Spec => []RingWhole
<1>1. Inv => RingWhole
  <2> SUFFICES ASSUME Inv PROVE RingWhole
    OBVIOUS
  <2>1. TypeOK
    <3>1. held \in [Proc -> [Handle -> {"free", "held", "dropped"}]]
      BY DEF Inv, Whole, Helds
    <3> QED BY <3>1, TypedVfd DEF TypeOK
  <2> QED BY <2>1, RingOf DEF RingWhole
<1> QED BY <1>1, AlwaysInv, PTL

\* The free list of process p.
LEMMA FreeOf ==
  ASSUME Inv, NEW p \in Proc
  PROVE  LET v == vfd[p]
             free == {f \in Handle : f < v.size /\ held[p][f] = "free"}
             n == Cardinality(free)
             w == Path(v.nextFree, v.nextFree[0])
         IN  /\ {w[i] : i \in 0 .. n - 1} = free
             /\ w[n] = 0
             /\ \A f \in Handle : f >= v.size => held[p][f] = "free"
<1>1. PICK v : v = vfd[p]
  OBVIOUS
<1>2. PICK U : U = {f \in Handle : f < v.size /\ held[p][f] = "free"}
  OBVIOUS
<1>3. PICK g : g = v.nextFree
  OBVIOUS
<1>4. PICK A : A = Taken(held[p])
  OBVIOUS
<1>5. Listed(v, A) /\ v \in Vfds
  BY <1>1, <1>4, EachFacts
<1>6. U = Unused(v, A)
  BY <1>2, <1>4 DEF Unused, Taken
<1>7. Circle(g, U)
  BY <1>3, <1>5, <1>6 DEF Listed
<1>8. LET w == Path(g, g[0])
          n == Cardinality(U)
      IN  {w[i] : i \in 0 .. n - 1} = U /\ w[n] = 0
  BY <1>7, PathRound
<1>9. ASSUME NEW f \in Handle, f >= v.size, held[p][f] # "free" PROVE FALSE
  <2>1. f \in A
    BY <1>4, <1>9 DEF Taken
  <2>2. f < v.size
    BY <1>5, <2>1 DEF Listed
  <2>3. f \in Int /\ v.size \in Int
    BY <1>5, SlotFacts DEF Vfds
  <2> QED BY <1>9, <2>2, <2>3
<1>10. \A f \in Handle : f >= v.size => held[p][f] = "free"
  BY <1>9
<1> QED BY <1>1, <1>2, <1>3, <1>8, <1>10

\* SlotsOwned: AllocateVfd and FreeVfd give every slot of VfdCache to one
\* caller at a time and lose none, also when opens fail and the array grows.
THEOREM SlotsAreOwned == Spec => []SlotsOwned
<1>1. Inv => SlotsOwned
  BY FreeOf DEF SlotsOwned
<1> QED BY <1>1, AlwaysInv, PTL

\* DescriptorsBounded: the counter nfile never falls behind the number of
\* descriptors, and fd.c keeps to pg_nofile(), whatever the process opens
\* besides.
THEOREM DescriptorsAreBounded == Spec => []DescriptorsBounded
<1>1. Inv => DescriptorsBounded
  <2> SUFFICES ASSUME Inv, NEW p \in Proc
               PROVE  LET n == Cardinality(InUse(vfd[p]))
                      IN  n <= vfd[p].nfile /\ n <= PgNofile
    BY DEF DescriptorsBounded
  <2>1. PICK v : v = vfd[p]
    OBVIOUS
  <2>2. v \in Vfds /\ Counted(v)
    BY <2>1, EachFacts
  <2>3. v.nfile \in Int
    BY <2>2, VfdTypes
  <2> QED BY <2>1, <2>2, <2>3 DEF Counted
<1> QED BY <1>1, AlwaysInv, PTL

\* WritesTracked: a page that is not on disk belongs to a file that some
\* process has open and marked FD_DIRTY, so that the eviction of the file, its
\* sync and its closing still force the page.
THEOREM WritesAreTracked == Spec => []WritesTracked
<1>1. Inv => WritesTracked
  <2> SUFFICES ASSUME Inv, NEW n \in Name, file[n] # Absent,
                      NEW i \in 1 .. Len(file[n].data), ~ OnDisk(n, i)
               PROVE  \E p \in Proc : \E f \in InUse(vfd[p]) :
                        vfd[p].dirty[f] /\ vfd[p].link[f] = n
    BY DEF WritesTracked
  <2>1. ~ Forced(file, n)
    BY DEF Forced, OnDisk
  <2>2. PICK p \in Proc : n \in Dirty(vfd[p])
    BY <2>1 DEF Inv, Whole
  <2>3. \E f \in InUse(vfd[p]) : vfd[p].dirty[f] /\ vfd[p].link[f] = n
    BY <2>2 DEF Dirty
  <2> QED BY <2>3
<1> QED BY <1>1, AlwaysInv, PTL

-----------------------------------------------------------------------------
(* What callers see.  Under the invariant the position of a file is the one *)
(* that fd.c keeps, open in the kernel or not.                              *)

HandleOf(v, g, f) ==
  IF g[f] = "held" THEN [name |-> v.name[f], pos |-> At(v)[f]] ELSE Absent

Row(v, g) == [f \in Handle |-> HandleOf(v, g, f)]
View(V, h) == [p \in Proc |-> Row(V[p], h[p])]
DataOf(k) == [n \in Name |-> IF k[n] = Absent THEN Absent ELSE k[n].data]

LEMMA HandlesNow == Inv => HandleView = View(vfd, held)
<1> SUFFICES ASSUME Inv PROVE HandleView = View(vfd, held)
  OBVIOUS
<1>1. ASSUME NEW p \in Proc, NEW f \in Handle
      PROVE  PosOf(p, f) = At(vfd[p])[f]
  <2>1. PICK v : v = vfd[p]
    OBVIOUS
  <2>2. Placed(v) /\ f \in Slot
    BY <2>1, EachFacts, SlotFacts
  <2>3. At(v)[f] = SeekFrom0(v.seekPos[f])
    BY <2>2 DEF At
  <2>4. v.seekPos[f] \in Int
    BY <2>1, <2>2, EachFacts, VfdTypes
  <2> QED BY <2>1, <2>2, <2>3, <2>4 DEF Placed, PosOf, SeekFrom0
<1> QED BY <1>1 DEF HandleView, View, Row, HandleOf, Holds

LEMMA HandlesNext == Inv' => (HandleView = View(vfd, held))'
BY HandlesNow, PTL

LEMMA DatasNow == DataView = DataOf(file) /\ DataView' = DataOf(file')
BY DEF DataView, DataOf

LEMMA SameDatas ==
  ASSUME NEW k, NEW l, SameData(k, l)
  PROVE  DataOf(l) = DataOf(k)
BY DEF DataOf, SameData

DataChange(x, y, n, d) == y = [x EXCEPT ![n] = d]

LEMMA ChangedDatas ==
  ASSUME NEW k, NEW l, NEW n \in Name, NEW d, ChangedData(k, l, n, d),
         NEW x, x = DataOf(k), NEW y, y = DataOf(l)
  PROVE  DataChange(x, y, n, d)
<1>1. l[n] # Absent /\ l[n].data = d
  BY DEF ChangedData
<1>2. y[n] = d
  BY <1>1 DEF DataOf
<1>3. \A m \in Name : m # n => y[m] = x[m]
  BY DEF DataOf, ChangedData
<1>4. x = [m \in Name |-> x[m]] /\ y = [m \in Name |-> y[m]]
  BY DEF DataOf
<1> QED BY <1>2, <1>3, <1>4 DEF DataChange

\* A row is what its callers' files are.
LEMMA RowSame ==
  ASSUME NEW v, NEW w, NEW g, NEW g1,
         \A f \in Handle : /\ g1[f] = "held" <=> g[f] = "held"
                           /\ g[f] = "held" => /\ w.name[f] = v.name[f]
                                               /\ At(w)[f] = At(v)[f]
  PROVE  Row(w, g1) = Row(v, g)
BY DEF Row, HandleOf

RowChange(x, y, f, c) == y = [x EXCEPT ![f] = c]

LEMMA RowChanged ==
  ASSUME NEW v, NEW w, NEW g, NEW g1, NEW f \in Handle, Besides(v, w, f),
         \A e \in Handle : e # f => g1[e] = g[e],
         NEW x, x = Row(v, g), NEW y, y = Row(w, g1),
         NEW c, c = HandleOf(w, g1, f)
  PROVE  RowChange(x, y, f, c)
<1>1. y[f] = c
  BY DEF Row
<1>2. \A e \in Handle : e # f => y[e] = x[e]
  <2> SUFFICES ASSUME NEW e \in Handle, e # f PROVE y[e] = x[e]
    OBVIOUS
  <2>1. e \in Slot
    BY SlotFacts
  <2>2. w.name[e] = v.name[e] /\ At(w)[e] = At(v)[e] /\ g1[e] = g[e]
    BY <2>1 DEF Besides
  <2>3. y[e] = HandleOf(w, g1, e) /\ x[e] = HandleOf(v, g, e)
    BY DEF Row
  <2> QED BY <2>2, <2>3 DEF HandleOf
<1>3. x = [e \in Handle |-> x[e]] /\ y = [e \in Handle |-> y[e]]
  BY DEF Row
<1> QED BY <1>1, <1>2, <1>3 DEF RowChange

\* The view after a call of process p.
ViewChange(x, y, p, f, c) == y = [x EXCEPT ![p][f] = c]

LEMMA ViewRows ==
  ASSUME NEW V, NEW h, NEW V1, NEW h1, NEW p \in Proc,
         Apart(V, V1, p), Apart(h, h1, p),
         NEW x, x = View(V, h), NEW y, y = View(V1, h1)
  PROVE  /\ Row(V1[p], h1[p]) = Row(V[p], h[p]) => y = x
         /\ \A f, c : RowChange(Row(V[p], h[p]), Row(V1[p], h1[p]), f, c)
                      => ViewChange(x, y, p, f, c)
<1>1. x[p] = Row(V[p], h[p]) /\ y[p] = Row(V1[p], h1[p])
  BY DEF View
<1>2. \A q \in Proc : q # p => y[q] = x[q]
  BY DEF View, Apart
<1>3. x = [q \in Proc |-> x[q]] /\ y = [q \in Proc |-> y[q]]
  BY DEF View
<1>4. ASSUME x[p] = y[p] PROVE y = x
  <2>1. \A q \in Proc : y[q] = x[q]
    BY <1>2, <1>4
  <2> QED BY <1>3, <2>1
<1>5. ASSUME NEW f, NEW c, RowChange(x[p], y[p], f, c) PROVE ViewChange(x, y, p, f, c)
  <2>1. PICK r : r = [x[p] EXCEPT ![f] = c]
    OBVIOUS
  <2>2. y[p] = r
    BY <1>5, <2>1 DEF RowChange
  <2>3. y = [x EXCEPT ![p] = r]
    BY <1>2, <1>3, <2>2
  <2> QED BY <2>1, <2>3 DEF ViewChange
<1> QED BY <1>1, <1>4, <1>5

\* What a call of process p that ends in t makes of the view.
LEMMA CallView ==
  ASSUME Inv, Inv', NEW p \in Proc, NEW t, NEW r, Becomes(p, t, r),
         Apart(held, held', p)
  PROVE  /\ out' = r /\ file' = t.k /\ vfd'[p] = t.v
         /\ Row(t.v, held'[p]) = Row(vfd[p], held[p]) => HandleView' = HandleView
         /\ \A f, c : RowChange(Row(vfd[p], held[p]), Row(t.v, held'[p]), f, c)
                      => ViewChange(HandleView, HandleView', p, f, c)
         /\ SameData(file, t.k) => DataView' = DataView
<1>1. out' = r /\ file' = t.k /\ vfd' = [vfd EXCEPT ![p] = t.v]
  BY DEF Becomes
<1>2. vfd \in [Proc -> Vfds]
  BY DEF Inv, Whole
<1>3. vfd'[p] = t.v /\ Apart(vfd, vfd', p)
  BY <1>1, <1>2 DEF Apart
<1>4. PICK V1 : V1 = vfd'
  OBVIOUS
<1>5. PICK h1 : h1 = held'
  OBVIOUS
<1>6. PICK x : x = HandleView
  OBVIOUS
<1>7. PICK y : y = HandleView'
  OBVIOUS
<1>8. x = View(vfd, held)
  BY <1>6, HandlesNow
<1>9. y = View(V1, h1)
  BY <1>4, <1>5, <1>7, HandlesNext
<1>10. Apart(vfd, V1, p) /\ Apart(held, h1, p)
  BY <1>3, <1>4, <1>5
<1>11. /\ Row(V1[p], h1[p]) = Row(vfd[p], held[p]) => y = x
       /\ \A f, c : RowChange(Row(vfd[p], held[p]), Row(V1[p], h1[p]), f, c)
                    => ViewChange(x, y, p, f, c)
  BY <1>8, <1>9, <1>10, ViewRows
<1>12. V1[p] = t.v /\ h1[p] = held'[p]
  BY <1>3, <1>4, <1>5
<1>13. SameData(file, t.k) => DataView' = DataView
  BY <1>1, DatasNow, SameDatas
<1> QED BY <1>1, <1>3, <1>6, <1>7, <1>11, <1>12, <1>13

\* A call that keeps who holds what.
LEMMA KeepView ==
  ASSUME Inv, Inv', NEW p \in Proc, NEW t, NEW r, Keeps(p, t, r),
         t.v.name = vfd[p].name
  PROVE  /\ out' = r /\ file' = t.k /\ WithinBounds(t)
         /\ At(t.v) = At(vfd[p]) => HandleView' = HandleView
         /\ \A f \in Handle : \A i : Holds(p, f) /\ PosSet(vfd[p], t.v, f, i)
              => ViewChange(HandleView, HandleView', p, f,
                            [name |-> vfd[p].name[f], pos |-> i])
         /\ SameData(file, t.k) => DataView' = DataView
<1>1. Becomes(p, t, r) /\ held' = held /\ WithinBounds(t)
  BY DEF Keeps, Becomes
<1>2. Apart(held, held', p)
  BY <1>1 DEF Apart
<1>3. /\ out' = r /\ file' = t.k
      /\ Row(t.v, held'[p]) = Row(vfd[p], held[p]) => HandleView' = HandleView
      /\ \A f, c : RowChange(Row(vfd[p], held[p]), Row(t.v, held'[p]), f, c)
                   => ViewChange(HandleView, HandleView', p, f, c)
      /\ SameData(file, t.k) => DataView' = DataView
  BY <1>1, <1>2, CallView
<1>4. held'[p] = held[p]
  BY <1>1
<1>5. ASSUME At(t.v) = At(vfd[p]) PROVE HandleView' = HandleView
  <2>1. Row(t.v, held[p]) = Row(vfd[p], held[p])
    BY <1>5 DEF Row, HandleOf
  <2> QED BY <1>3, <1>4, <2>1
<1>6. ASSUME NEW f \in Handle, NEW i, Holds(p, f), PosSet(vfd[p], t.v, f, i)
      PROVE  ViewChange(HandleView, HandleView', p, f,
                        [name |-> vfd[p].name[f], pos |-> i])
  <2>1. PICK v : v = vfd[p]
    OBVIOUS
  <2>2. At(v) = [e \in Slot |-> At(v)[e]]
    BY DEF At
  <2>3. At(t.v) = [At(v) EXCEPT ![f] = i]
    BY <1>6, <2>1 DEF PosSet
  <2>4. At(t.v)[f] = i /\ \A e \in Slot : e # f => At(t.v)[e] = At(v)[e]
    BY <2>2, <2>3, SlotFacts
  <2>5. Besides(v, t.v, f)
    BY <2>1, <2>4 DEF Besides
  <2>6. PICK g : g = held[p]
    OBVIOUS
  <2>7. PICK c : c = HandleOf(t.v, g, f)
    OBVIOUS
  <2>8. c = [name |-> vfd[p].name[f], pos |-> i]
    BY <1>6, <2>4, <2>6, <2>7 DEF HandleOf, Holds
  <2>9. RowChange(Row(v, g), Row(t.v, g), f, c)
    BY <2>5, <2>7, RowChanged
  <2>10. ViewChange(HandleView, HandleView', p, f, c)
    BY <1>3, <1>4, <2>1, <2>6, <2>9
  <2> QED BY <2>8, <2>10
<1> QED BY <1>1, <1>3, <1>5, <1>6

\* What the caller of file f sees.
Sees(p, f, n, i, d) ==
  /\ HandleView[p][f] = [name |-> n, pos |-> i] /\ HandleView[p][f] # Absent
  /\ DataView[n] = d /\ d = file[n].data

LEMMA HeldView ==
  ASSUME Inv, NEW p \in Proc, NEW f \in Handle, Holds(p, f),
         NEW n, n = vfd[p].name[f], NEW i, i = At(vfd[p])[f]
  PROVE  n \in Name /\ i \in 0 .. MaxLen /\ file[n] # Absent
         /\ Sees(p, f, n, i, file[n].data)
<1>1. PICK s : s = State(p)
  OBVIOUS
<1>2. /\ Sound(s, Taken(held[p]), Kept(held[p]), Elsewhere(vfd, p))
      /\ f \in Kept(held[p]) /\ s.v = vfd[p] /\ s.k = file
  BY <1>1, HoldsFacts
<1>3. n \in Name /\ file[n] # Absent /\ i \in Nat /\ f \in Slot
  BY <1>2, Position
<1>4. i <= MaxLen
  <2>1. \A e \in Slot : vfd[p].seekPos[e] <= MaxLen
    BY EachFacts
  <2>2. i = SeekFrom0(vfd[p].seekPos[f])
    BY <1>3 DEF At
  <2> QED BY <1>3, <2>1, <2>2, VfdAssumption DEF SeekFrom0
<1>5. i \in 0 .. MaxLen
  BY <1>3, <1>4, VfdAssumption
<1>6. HandleView[p][f] = [name |-> n, pos |-> i]
  <2>1. HandleView[p] = Row(vfd[p], held[p])
    BY HandlesNow DEF View
  <2>2. HandleView[p][f] = HandleOf(vfd[p], held[p], f)
    BY <2>1 DEF Row
  <2> QED BY <2>2 DEF HandleOf, Holds
<1>7. HandleView[p][f] # Absent
  <2>1. [name |-> n, pos |-> i] \in [name : Name, pos : 0 .. MaxLen]
    BY <1>3, <1>5
  <2> QED BY <1>6, <2>1, VfdAssumption
<1>8. DataView[n] = file[n].data
  BY <1>3 DEF DataView
<1> QED BY <1>3, <1>5, <1>6, <1>7, <1>8 DEF Sees

\* MoveTo of Files.
LEMMA MovesTo ==
  ASSUME NEW p \in Proc, NEW f \in Handle, NEW n, NEW i, NEW d, Sees(p, f, n, i, d),
         NEW j, ViewChange(HandleView, HandleView', p, f, [name |-> n, pos |-> j])
  PROVE  F!MoveTo(p, f, j)
<1>1. PICK x : x = HandleView
  OBVIOUS
<1>2. PICK y : y = HandleView'
  OBVIOUS
<1>3. x[p][f] = [name |-> n, pos |-> i]
  BY <1>1 DEF Sees
<1>4. [x[p][f] EXCEPT !.pos = j] = [name |-> n, pos |-> j]
  BY <1>3
<1>5. y = [x EXCEPT ![p][f] = [name |-> n, pos |-> j]]
  BY <1>1, <1>2 DEF ViewChange
<1>6. y = [x EXCEPT ![p][f].pos = j]
  BY <1>4, <1>5
<1> QED BY <1>1, <1>2, <1>6 DEF F!MoveTo

-----------------------------------------------------------------------------
(* Each call is a step of Files.                                           *)

LEMMA OtherMaps ==
  ASSUME Inv, Inv', NEW p \in Proc, NEW t, Hidden(p, t),
         t.v.name = vfd[p].name, At(t.v) = At(vfd[p]), SameData(file, t.k)
  PROVE  F!Other
<1>1. call' = <<"other">> /\ Keeps(p, t, Ok)
  BY DEF Hidden
<1>2. out' = Ok /\ HandleView' = HandleView /\ DataView' = DataView
  BY <1>1, KeepView
<1> QED BY <1>1, <1>2 DEF F!Other

LEMMA FailsMaps ==
  ASSUME Inv, Inv', NEW p \in Proc, NEW t, Keeps(p, t, Fail),
         t.v.name = vfd[p].name, At(t.v) = At(vfd[p]), SameData(file, t.k)
  PROVE  F!Fails
<1>1. out' = Fail /\ HandleView' = HandleView /\ DataView' = DataView
  BY KeepView
<1> QED BY <1>1 DEF F!Fails

LEMMA ReadMaps ==
  ASSUME Inv, Inv', NEW p \in Proc, NEW f \in Handle, NEW ok \in BOOLEAN,
         DoRead(p, f, ok)
  PROVE  F!Read(p, f) \/ F!Fails
<1>1. PICK s : s = State(p)
  OBVIOUS
<1>2. PICK t : t = FileRead(s, f, ok)
  OBVIOUS
<1>3. PICK r : r = ReadResult(FileAccess(s, f, ok), f)
  OBVIOUS
<1>4. Keeps(p, t, r) /\ Holds(p, f) /\ call' = <<"read", p, f>>
  BY <1>1, <1>2, <1>3 DEF DoRead
<1>5. /\ Sound(s, Taken(held[p]), Kept(held[p]), Elsewhere(vfd, p))
      /\ Spare(s.v) /\ f \in Kept(held[p]) /\ s.k = file /\ s.v = vfd[p]
  BY <1>1, <1>4, HoldsFacts
<1>6. t.v.name = s.v.name /\ SameData(s.k, t.k) /\ ReadsAs(s, t, f, r)
  BY <1>2, <1>3, <1>5, Reads
<1>7. PICK n : n = vfd[p].name[f]
  OBVIOUS
<1>8. PICK i : i = At(vfd[p])[f]
  OBVIOUS
<1>9. PICK d : d = file[n].data
  OBVIOUS
<1>10. n \in Name /\ Sees(p, f, n, i, d)
  BY <1>4, <1>7, <1>8, <1>9, HeldView
<1>11. t.v.name = vfd[p].name /\ SameData(file, t.k)
  BY <1>5, <1>6
<1>12. /\ out' = r /\ DataView' = DataView
       /\ At(t.v) = At(vfd[p]) => HandleView' = HandleView
       /\ PosSet(vfd[p], t.v, f, i + 1)
            => ViewChange(HandleView, HandleView', p, f, [name |-> n, pos |-> i + 1])
  BY <1>4, <1>7, <1>11, KeepView
<1>13. /\ F!Pos(p, f) = i /\ F!Of(p, f) = d /\ HandleView[p][f] # Absent
  BY <1>10 DEF F!Pos, F!Of, Sees
<1>14. CASE r = Fail /\ At(t.v) = At(s.v)
  <2>1. out' = Fail /\ HandleView' = HandleView
    BY <1>5, <1>12, <1>14
  <2> QED BY <1>12, <2>1 DEF F!Fails
<1>15. CASE r = Eof /\ ~(i < Len(d)) /\ At(t.v) = At(s.v)
  <2>1. out' = Eof /\ HandleView' = HandleView
    BY <1>5, <1>12, <1>15
  <2> QED BY <1>4, <1>12, <1>13, <1>15, <2>1 DEF F!Read
<1>16. CASE i < Len(d) /\ r = d[i + 1] /\ PosSet(s.v, t.v, f, i + 1)
  <2>1. F!MoveTo(p, f, i + 1)
    BY <1>5, <1>10, <1>12, <1>16, MovesTo
  <2>2. out' = d[i + 1]
    BY <1>12, <1>16
  <2> HIDE DEF F!MoveTo
  <2> QED BY <1>4, <1>12, <1>13, <1>16, <2>1, <2>2 DEF F!Read
<1>17. \/ r = Fail /\ At(t.v) = At(s.v)
       \/ r = Eof /\ ~(i < Len(d)) /\ At(t.v) = At(s.v)
       \/ i < Len(d) /\ r = d[i + 1] /\ PosSet(s.v, t.v, f, i + 1)
  BY <1>5, <1>6, <1>7, <1>8, <1>9 DEF ReadsAs, PosSet
<1> QED BY <1>14, <1>15, <1>16, <1>17

LEMMA PutIs ==
  ASSUME NEW d, NEW i, NEW x
  PROVE  F!Put(d, i, x) = Put(d, i, x) /\ F!Cut(d, i) = Cut(d, i)
BY DEF F!Put, Put, F!Cut, Cut

LEMMA WriteMaps ==
  ASSUME Inv, Inv', NEW p \in Proc, NEW f \in Handle, NEW x \in Page,
         NEW ok \in BOOLEAN, NEW full \in BOOLEAN, DoWrite(p, f, x, ok, full)
  PROVE  F!Write(p, f, x) \/ F!Fails
<1>1. PICK s : s = State(p)
  OBVIOUS
<1>2. PICK t : t = FileWrite(s, f, x, ok, full)
  OBVIOUS
<1>3. PICK r : r = IF full THEN Done(t, f) ELSE Fail
  OBVIOUS
<1>4. Keeps(p, t, r) /\ Holds(p, f) /\ call' = <<"write", p, f, x>>
  BY <1>1, <1>2, <1>3 DEF DoWrite
<1>5. /\ Sound(s, Taken(held[p]), Kept(held[p]), Elsewhere(vfd, p))
      /\ Spare(s.v) /\ f \in Kept(held[p]) /\ s.k = file /\ s.v = vfd[p]
  BY <1>1, <1>4, HoldsFacts
<1>6. t.v.name = s.v.name /\ WritesAs(s, t, f, x, full)
  BY <1>2, <1>5, Writes
<1>7. PICK n : n = vfd[p].name[f]
  OBVIOUS
<1>8. PICK i : i = At(vfd[p])[f]
  OBVIOUS
<1>9. PICK d : d = file[n].data
  OBVIOUS
<1>10. n \in Name /\ Sees(p, f, n, i, d)
  BY <1>4, <1>7, <1>8, <1>9, HeldView
<1>11. t.v.name = vfd[p].name
  BY <1>5, <1>6
<1>12. /\ out' = r /\ file' = t.k
       /\ At(t.v) = At(vfd[p]) => HandleView' = HandleView
       /\ PosSet(vfd[p], t.v, f, i + 1)
            => ViewChange(HandleView, HandleView', p, f, [name |-> n, pos |-> i + 1])
       /\ SameData(file, t.k) => DataView' = DataView
  BY <1>4, <1>7, <1>11, KeepView
<1>13. CASE full /\ t.v.fd[f]
  <2>1. PICK e : e = Put(d, i, x)
    OBVIOUS
  <2>2. PosSet(vfd[p], t.v, f, i + 1) /\ ChangedData(file, t.k, n, e)
    BY <1>5, <1>6, <1>7, <1>8, <1>9, <1>13, <2>1 DEF WritesAs, PosSet
  <2>3. F!MoveTo(p, f, i + 1)
    BY <1>10, <1>12, <2>2, MovesTo
  <2>4. DataChange(DataView, DataView', n, e)
    <3>1. PICK X : X = DataView
      OBVIOUS
    <3>2. PICK Y : Y = DataView'
      OBVIOUS
    <3>3. X = DataOf(file) /\ Y = DataOf(t.k)
      BY <1>12, <3>1, <3>2, DatasNow
    <3>4. DataChange(X, Y, n, e)
      BY <1>10, <2>2, <3>3, ChangedDatas
    <3> QED BY <3>1, <3>2, <3>4
  <2>5. out' = Ok
    BY <1>3, <1>12, <1>13 DEF Done
  <2>6. /\ HandleView[p][f].name = n /\ F!Pos(p, f) = i /\ DataView[n] = d
        /\ HandleView[p][f] # Absent
    BY <1>10 DEF F!Pos, Sees
  <2>7. e = F!Put(DataView[n], F!Pos(p, f), x)
    BY <2>1, <2>6, PutIs
  <2>8. DataView' = [DataView EXCEPT ![n] = F!Put(@, F!Pos(p, f), x)]
    BY <2>4, <2>7 DEF DataChange
  <2>9. F!MoveTo(p, f, F!Pos(p, f) + 1)
    BY <2>3, <2>6
  <2> QED BY <1>4, <2>5, <2>6, <2>8, <2>9 DEF F!Write
<1>14. CASE ~(full /\ t.v.fd[f])
  <2>1. At(t.v) = At(vfd[p]) /\ SameData(file, t.k)
    BY <1>5, <1>6, <1>14 DEF WritesAs
  <2>2. r = Fail
    BY <1>3, <1>14 DEF Done
  <2> QED BY <1>4, <1>11, <2>1, <2>2, FailsMaps
<1> QED BY <1>13, <1>14

LEMMA SeekMaps ==
  ASSUME Inv, Inv', NEW p \in Proc, NEW f \in Handle, NEW off \in Nat,
         NEW whence \in {"SET", "CUR", "END"}, NEW ok \in BOOLEAN,
         SeekCall(p, f, off, whence, ok)
  PROVE  off \in 0 .. MaxLen /\ (F!Seek(p, f, off, whence) \/ F!SeekFails(p, f, off))
<1>1. PICK s : s = State(p)
  OBVIOUS
<1>2. PICK t : t = FileSeek(s, f, off, whence, ok)
  OBVIOUS
<1>3. PICK r : r = IF whence = "END" THEN Done(t, f) ELSE Ok
  OBVIOUS
<1>4. /\ Keeps(p, t, r) /\ Holds(p, f) /\ call' = <<"seek", p, f, off, whence>>
      /\ whence = "CUR" => vfd[p].seekPos[f] >= 0
      /\ whence = "END" => off = 0
  BY <1>1, <1>2, <1>3 DEF SeekCall, DoSeek
<1>5. /\ Sound(s, Taken(held[p]), Kept(held[p]), Elsewhere(vfd, p))
      /\ Spare(s.v) /\ f \in Kept(held[p]) /\ s.k = file /\ s.v = vfd[p]
  BY <1>1, <1>4, HoldsFacts
<1>6. t.v.name = s.v.name /\ SameData(s.k, t.k) /\ SeeksAs(s, t, f, off, whence)
  <2>1. whence = "CUR" => s.v.seekPos[f] >= 0
    BY <1>4, <1>5
  <2> QED BY <1>2, <1>5, <2>1, Seeks
<1>7. PICK n : n = vfd[p].name[f]
  OBVIOUS
<1>8. PICK i : i = At(vfd[p])[f]
  OBVIOUS
<1>9. PICK d : d = file[n].data
  OBVIOUS
<1>10. n \in Name /\ i \in 0 .. MaxLen /\ Sees(p, f, n, i, d) /\ file[n] # Absent
  BY <1>4, <1>7, <1>8, <1>9, HeldView
<1>11. t.v.name = vfd[p].name /\ SameData(file, t.k)
  BY <1>5, <1>6
<1>12. /\ out' = r /\ DataView' = DataView /\ WithinBounds(t)
       /\ \A j : PosSet(vfd[p], t.v, f, j)
            => ViewChange(HandleView, HandleView', p, f, [name |-> n, pos |-> j])
  BY <1>4, <1>7, <1>11, KeepView
<1>13. /\ F!Pos(p, f) = i /\ F!Of(p, f) = d /\ HandleView[p][f] # Absent
  BY <1>10 DEF F!Pos, F!Of, Sees
<1>14. CASE SeekLost(t, f, whence)
  <2>1. whence = "END" /\ r = Fail
    BY <1>3, <1>14 DEF SeekLost, Done
  <2>2. PosSet(vfd[p], t.v, f, 0)
    BY <1>5, <1>6, <1>14 DEF SeeksAs, PosSet
  <2>3. F!MoveTo(p, f, 0)
    BY <1>10, <1>12, <2>2, MovesTo
  <2>4. off \in 0 .. MaxLen
    BY <1>4, <2>1, VfdAssumption
  <2> HIDE DEF F!MoveTo
  <2>5. F!SeekFails(p, f, off)
    BY <1>4, <1>12, <1>13, <2>1, <2>3 DEF F!SeekFails
  <2> QED BY <2>4, <2>5
<1>15. CASE ~ SeekLost(t, f, whence)
  <2>1. PICK j : j = SeekTo(s, f, off, whence)
    OBVIOUS
  <2>2. j \in Nat /\ PosSet(vfd[p], t.v, f, j) /\ t.v.seekPos[f] = j
    BY <1>5, <1>6, <1>15, <2>1 DEF SeeksAs, PosSet
  <2>3. F!MoveTo(p, f, j)
    BY <1>10, <1>12, <2>2, MovesTo
  <2>4. r = Ok
    BY <1>3, <1>15 DEF SeekLost, Done
  <2>5. Len(d) \in Nat /\ i \in Nat /\ MaxLen \in Nat
    <3>1. file \in Store
      BY DEF Inv, Whole
    <3>2. d \in Seq(Pages)
      BY <1>9, <1>10, <3>1, StoreFacts
    <3> QED BY <1>10, <3>2, VfdAssumption
  <2>6. j = F!Target(p, f, off, whence) /\ off <= j
    <3>1. CASE whence = "SET"
      BY <2>1, <3>1 DEF SeekTo, F!Target
    <3>2. CASE whence = "CUR"
      BY <1>5, <1>8, <1>13, <2>1, <2>5, <3>2 DEF SeekTo, F!Target
    <3>3. CASE whence = "END"
      <4>1. Len(s.k[s.v.name[f]].data) = Len(d) /\ Len(F!Of(p, f)) = Len(d)
        BY <1>5, <1>7, <1>9, <1>13
      <4>2. j = Len(d) + off
        BY <2>1, <3>3, <4>1 DEF SeekTo
      <4>3. F!Target(p, f, off, whence) = off + Len(d)
        BY <3>3, <4>1 DEF F!Target
      <4> QED BY <2>5, <4>2, <4>3
    <3> QED BY <3>1, <3>2, <3>3
  <2>7. j <= MaxLen
    <3>1. f \in Slot
      BY SlotFacts
    <3> QED BY <1>12, <2>2, <3>1 DEF WithinBounds
  <2>8. off \in 0 .. MaxLen
    BY <2>2, <2>5, <2>6, <2>7
  <2> HIDE DEF F!MoveTo
  <2>9. F!Seek(p, f, off, whence)
    BY <1>4, <1>12, <1>13, <2>3, <2>4, <2>6 DEF F!Seek
  <2> QED BY <2>8, <2>9
<1> QED BY <1>14, <1>15

LEMMA TruncateMaps ==
  ASSUME Inv, Inv', NEW p \in Proc, NEW f \in Handle, NEW j \in Nat,
         NEW ok \in BOOLEAN, DoTruncate(p, f, j, ok)
  PROVE  F!Truncate(p, f, j) \/ F!Fails
<1>1. PICK s : s = State(p)
  OBVIOUS
<1>2. PICK t : t = FileTruncate(s, f, j, ok)
  OBVIOUS
<1>3. PICK r : r = Done(t, f)
  OBVIOUS
<1>4. /\ Keeps(p, t, r) /\ Holds(p, f) /\ call' = <<"truncate", p, f, j>>
      /\ j <= Len(file[vfd[p].name[f]].data)
  BY <1>1, <1>2, <1>3 DEF DoTruncate
<1>5. /\ Sound(s, Taken(held[p]), Kept(held[p]), Elsewhere(vfd, p))
      /\ Spare(s.v) /\ f \in Kept(held[p]) /\ s.k = file /\ s.v = vfd[p]
  BY <1>1, <1>4, HoldsFacts
<1>6. /\ t.v.name = s.v.name /\ At(t.v) = At(s.v) /\ TruncatesAs(s, t, f, j)
  <2>1. j <= Len(s.k[s.v.name[f]].data)
    BY <1>4, <1>5
  <2> QED BY <1>2, <1>5, <2>1, Truncates
<1>7. PICK n : n = vfd[p].name[f]
  OBVIOUS
<1>8. PICK i : i = At(vfd[p])[f]
  OBVIOUS
<1>9. PICK d : d = file[n].data
  OBVIOUS
<1>10. n \in Name /\ Sees(p, f, n, i, d)
  BY <1>4, <1>7, <1>8, <1>9, HeldView
<1>11. t.v.name = vfd[p].name /\ At(t.v) = At(vfd[p])
  BY <1>5, <1>6
<1>12. out' = r /\ file' = t.k /\ HandleView' = HandleView
  BY <1>4, <1>11, KeepView
<1>13. CASE t.v.fd[f]
  <2>1. PICK e : e = Cut(d, j)
    OBVIOUS
  <2>2. ChangedData(file, t.k, n, e)
    BY <1>5, <1>6, <1>7, <1>9, <1>13, <2>1 DEF TruncatesAs
  <2>4. DataChange(DataView, DataView', n, e)
    <3>1. PICK X : X = DataView
      OBVIOUS
    <3>2. PICK Y : Y = DataView'
      OBVIOUS
    <3>3. X = DataOf(file) /\ Y = DataOf(t.k)
      BY <1>12, <3>1, <3>2, DatasNow
    <3>4. DataChange(X, Y, n, e)
      BY <1>10, <2>2, <3>3, ChangedDatas
    <3> QED BY <3>1, <3>2, <3>4
  <2>5. out' = Ok
    BY <1>3, <1>12, <1>13 DEF Done
  <2>6. /\ HandleView[p][f].name = n /\ F!Of(p, f) = d /\ DataView[n] = d
        /\ HandleView[p][f] # Absent
    BY <1>10 DEF F!Of, Sees
  <2>7. e = F!Cut(DataView[n], j)
    BY <2>1, <2>6, PutIs
  <2>8. DataView' = [DataView EXCEPT ![n] = F!Cut(@, j)]
    BY <2>4, <2>7 DEF DataChange
  <2>9. j <= Len(F!Of(p, f))
    BY <1>4, <1>7, <1>9, <2>6
  <2> QED BY <1>4, <1>12, <2>5, <2>6, <2>8, <2>9 DEF F!Truncate
<1>14. CASE ~ t.v.fd[f]
  <2>1. SameData(file, t.k)
    BY <1>5, <1>6, <1>14 DEF TruncatesAs
  <2>2. r = Fail
    BY <1>3, <1>14 DEF Done
  <2> QED BY <1>4, <1>11, <2>1, <2>2, FailsMaps
<1> QED BY <1>13, <1>14

LEMMA SyncMaps ==
  ASSUME Inv, Inv', NEW p \in Proc, NEW f \in Handle, DoSync(p, f)
  PROVE  F!Other
<1>1. PICK s : s = State(p)
  OBVIOUS
<1>2. PICK t : t = FileSync(s, f)
  OBVIOUS
<1>4. Hidden(p, t) /\ Holds(p, f)
  BY <1>1, <1>2 DEF DoSync
<1>5. /\ Sound(s, Taken(held[p]), Kept(held[p]), Elsewhere(vfd, p))
      /\ Spare(s.v) /\ f \in Kept(held[p]) /\ s.k = file /\ s.v = vfd[p]
  BY <1>1, <1>4, HoldsFacts
<1>6. Same(s, t)
  BY <1>2, <1>5, Syncs
<1>7. t.v.name = vfd[p].name /\ At(t.v) = At(vfd[p]) /\ SameData(file, t.k)
  BY <1>5, <1>6 DEF Same
<1> QED BY <1>4, <1>7, OtherMaps

LEMMA InvalidateMaps ==
  ASSUME Inv, Inv', NEW p \in Proc, NEW f \in Handle, DoInvalidate(p, f)
  PROVE  F!Other
<1>1. PICK s : s = State(p)
  OBVIOUS
<1>2. PICK t : t = FileInvalidate(s, f)
  OBVIOUS
<1>4. Hidden(p, t) /\ Holds(p, f)
  BY <1>1, <1>2 DEF DoInvalidate
<1>5. /\ Sound(s, Taken(held[p]), Kept(held[p]), Elsewhere(vfd, p))
      /\ s.k = file /\ s.v = vfd[p]
  BY <1>1, <1>4, HoldsFacts
<1>6. Same(s, t)
  BY <1>2, <1>5, SlotFacts, Invalidates
<1>7. t.v.name = vfd[p].name /\ At(t.v) = At(vfd[p]) /\ SameData(file, t.k)
  BY <1>5, <1>6 DEF Same
<1> QED BY <1>4, <1>7, OtherMaps

LEMMA CloseAllMaps ==
  ASSUME Inv, Inv', NEW p \in Proc, closeAllVfds(p)
  PROVE  F!Other
<1>1. PICK s : s = State(p)
  OBVIOUS
<1>2. PICK t : t = CloseUpTo(s)
  OBVIOUS
<1>3. Hidden(p, t)
  BY <1>1, <1>2 DEF closeAllVfds
<1>4. /\ Sound(s, Taken(held[p]), Kept(held[p]), Elsewhere(vfd, p))
      /\ Started(s.v, Taken(held[p])) /\ s.k = file /\ s.v = vfd[p]
  BY <1>1, StateSound
<1>5. Same(s, t)
  BY <1>2, <1>4, ClosesAll
<1>6. t.v.name = vfd[p].name /\ At(t.v) = At(vfd[p]) /\ SameData(file, t.k)
  BY <1>4, <1>5 DEF Same
<1> QED BY <1>3, <1>6, OtherMaps

LEMMA AllocateFileMaps ==
  ASSUME Inv, Inv', NEW p \in Proc, AllocateFile(p)
  PROVE  F!Other
<1>1. PICK s : s = State(p)
  OBVIOUS
<1>2. PICK t : t = TryAgain(s, FALSE)
  OBVIOUS
<1>3. Hidden(p, t)
  BY <1>1, <1>2 DEF AllocateFile
<1>4. /\ Sound(s, Taken(held[p]), Kept(held[p]), Elsewhere(vfd, p))
      /\ Started(s.v, Taken(held[p])) /\ s.k = file /\ s.v = vfd[p]
  BY <1>1, StateSound
<1>5. Same(s, t)
  <2>1. FALSE \in BOOLEAN
    OBVIOUS
  <2> QED BY <1>2, <1>4, <2>1, TriesAgain
<1>6. t.v.name = vfd[p].name /\ At(t.v) = At(vfd[p]) /\ SameData(file, t.k)
  BY <1>4, <1>5 DEF Same
<1> QED BY <1>3, <1>6, OtherMaps

LEMMA OthersMaps ==
  ASSUME Inv, Inv', NEW p \in Proc, NEW d \in {-1, 1}, Others(p, d)
  PROVE  F!Other
<1>1. PICK w : w = [vfd[p] EXCEPT !.others = vfd[p].others + d]
  OBVIOUS
<1>2. IsVfd(vfd[p]) /\ vfd \in [Proc -> Vfds]
  BY IsVfdType DEF Inv, Whole
<1>3. w.name = vfd[p].name /\ At(w) = At(vfd[p])
  BY <1>1, <1>2 DEF IsVfd, At
<1>4. /\ vfd' = [vfd EXCEPT ![p] = w] /\ held' = held /\ file' = file /\ out' = Ok
      /\ call' = <<"other">>
  BY <1>1 DEF Others
<1>5. \A q \in Proc : vfd'[q].name = vfd[q].name /\ At(vfd'[q]) = At(vfd[q])
  BY <1>2, <1>3, <1>4
<1>6. View(vfd', held') = View(vfd, held)
  BY <1>4, <1>5 DEF View, Row, HandleOf
<1>7. HandleView' = HandleView
  BY <1>6, HandlesNow, HandlesNext
<1>8. DataView' = DataView
  BY <1>4, DatasNow
<1> QED BY <1>4, <1>7, <1>8 DEF F!Other

LEMMA OpenMaps ==
  ASSUME Inv, Inv', NEW p \in Proc, NEW n \in Name, NEW creat \in BOOLEAN,
         NEW excl \in BOOLEAN, DoOpen(p, n, creat, excl)
  PROVE  (\E f \in Handle : F!Open(p, f, n)) \/ F!Fails
<1>1. PICK s : s = State(p)
  OBVIOUS
<1>2. PICK t : t = fileNameOpenFile(s, n, creat, excl)
  OBVIOUS
<1>3. PICK f : f = NewSlot(s.v)
  OBVIOUS
<1>4. PICK A : A = Taken(held[p])
  OBVIOUS
<1>5. PICK H : H = Kept(held[p])
  OBVIOUS
<1>6. PICK O : O = Elsewhere(vfd, p)
  OBVIOUS
<1>7. Sound(s, A, H, O) /\ Started(s.v, A) /\ s.k = file /\ s.v = vfd[p]
  BY <1>1, <1>4, <1>5, <1>6, StateSound
<1>8. HasRoom(s.v)
  BY <1>7 DEF DoOpen
<1>9. /\ f \in Handle /\ f \notin A /\ Besides(s.v, t.v, f)
      /\ Openable(s.k, n, creat, excl) => /\ NewFile(t.v, f, n)
                                          /\ OpenData(s.k, t.k, n)
      /\ ~ Openable(s.k, n, creat, excl) => SameData(s.k, t.k)
  <2>0. f \in Handle
    <3>1. PICK r : r = MadeRoom(s)
      OBVIOUS
    <3> QED BY <1>3, <1>7, <1>8, <3>1, RoomMade
  <2>1. f \notin A
    BY <1>2, <1>3, <1>7, <1>8, Opens
  <2>2. Besides(s.v, t.v, f)
    BY <1>2, <1>3, <1>7, <1>8, Opens
  <2>3. Openable(s.k, n, creat, excl) => OpenData(s.k, t.k, n)
    BY <1>2, <1>3, <1>7, <1>8, Opens
  <2>4. Openable(s.k, n, creat, excl) => NewFile(t.v, f, n)
    BY <1>2, <1>3, <1>7, <1>8, Opens
  <2>5. ~ Openable(s.k, n, creat, excl) => SameData(s.k, t.k)
    BY <1>2, <1>3, <1>7, <1>8, Opens
  <2> QED BY <2>0, <2>1, <2>2, <2>3, <2>4, <2>5
<1>10. f # Fail
  BY <1>9, VfdAssumption DEF Handle, Slot
<1>11. held[p][f] = "free"
  BY <1>4, <1>9 DEF Taken
<1>12. PICK g : g = held[p]
  OBVIOUS
<1>13. HandleView[p][f] = Absent
  <2>1. HandleView[p] = Row(vfd[p], held[p])
    BY HandlesNow DEF View
  <2> QED BY <1>9, <1>11, <2>1 DEF Row, HandleOf
<1>14. CASE Openable(s.k, n, creat, excl)
  <2>1. Becomes(p, t, Ok) /\ HeldAs(held, held', p, f, "held")
    <3>1. Opened(s, n, creat, excl) = f
      BY <1>3, <1>14 DEF Opened
    <3> QED BY <1>1, <1>2, <1>10, <3>1 DEF DoOpen, HeldAs
  <2>2. PICK h1 : h1 = held'
    OBVIOUS
  <2>3. PICK g1 : g1 = h1[p]
    OBVIOUS
  <2>4. held \in [Proc -> Helds]
    BY DEF Inv, Whole
  <2>5. Apart(held, h1, p) /\ SlotAs(held[p], g1, f, "held")
    <3>1. PICK x : x = "held"
      OBVIOUS
    <3>2. HeldAs(held, h1, p, f, x) /\ x \in {"free", "held"}
      BY <2>1, <2>2, <3>1
    <3>3. Apart(held, h1, p) /\ SlotAs(held[p], g1, f, x)
      BY <1>9, <2>3, <2>4, <3>2, HeldSet
    <3> QED BY <3>1, <3>3
  <2>6. Apart(held, held', p) /\ held'[p] = g1
    BY <2>2, <2>3, <2>5
  <2>7. PICK c : c = HandleOf(t.v, g1, f)
    OBVIOUS
  <2>8. c = [name |-> n, pos |-> 0]
    <3>1. At(t.v)[f] = 0
      BY <1>9, <1>14, SlotFacts DEF At, SeekFrom0, NewFile
    <3> QED BY <1>9, <1>14, <2>5, <2>7, <3>1 DEF HandleOf, SlotAs, NewFile
  <2>9. RowChange(Row(s.v, g), Row(t.v, g1), f, c)
    <3>1. \A e \in Handle : e # f => g1[e] = g[e]
      BY <1>12, <2>5 DEF SlotAs
    <3> QED BY <1>9, <2>7, <3>1, RowChanged
  <2>10. /\ out' = Ok /\ file' = t.k /\ ViewChange(HandleView, HandleView', p, f, c)
    BY <1>7, <1>12, <2>1, <2>6, <2>9, CallView
  <2>11. HandleView' = [HandleView EXCEPT ![p][f] = [name |-> n, pos |-> 0]]
    BY <2>8, <2>10 DEF ViewChange
  <2>12. DataView' = [DataView EXCEPT ![n] = IF @ = Absent THEN <<>> ELSE @]
    <3>1. PICK X : X = DataView
      OBVIOUS
    <3>2. PICK Y : Y = DataView'
      OBVIOUS
    <3>3. X = DataOf(file) /\ Y = DataOf(t.k)
      BY <2>10, <3>1, <3>2, DatasNow
    <3>4. OpenData(file, t.k, n)
      BY <1>7, <1>9, <1>14
    <3>5. X[n] = Absent <=> file[n] = Absent
      <4>1. file \in Store
        BY <1>7, SoundType
      <4>2. file[n] # Absent => file[n].data \in Seq(Pages)
        BY <4>1, StoreFacts
      <4>3. file[n] # Absent => file[n].data # Absent
        BY <4>2, VfdAssumption DEF Pages
      <4> QED BY <3>3, <4>3 DEF DataOf
    <3>6. Y[n] = t.k[n].data
      BY <3>3, <3>4 DEF DataOf, OpenData
    <3>7. t.k[n].data = IF file[n] = Absent THEN <<>> ELSE file[n].data
      BY <3>4 DEF OpenData
    <3>8. file[n] # Absent => X[n] = file[n].data
      BY <3>3 DEF DataOf
    <3>9. PICK e : e = IF X[n] = Absent THEN <<>> ELSE X[n]
      OBVIOUS
    <3>10. Y[n] = e
      BY <3>5, <3>6, <3>7, <3>8, <3>9
    <3>11. \A m \in Name : m # n => Y[m] = X[m]
      BY <3>3, <3>4 DEF DataOf, OpenData
    <3>12. X = [m \in Name |-> X[m]] /\ Y = [m \in Name |-> Y[m]]
      BY <3>3 DEF DataOf
    <3>13. Y = [X EXCEPT ![n] = e]
      BY <3>10, <3>11, <3>12
    <3> QED BY <3>1, <3>2, <3>9, <3>13
  <2>13. F!Open(p, f, n)
    <3>1. call' = <<"open", p, n>>
      BY DEF DoOpen
    <3> QED BY <1>13, <2>10, <2>11, <2>12, <3>1 DEF F!Open
  <2> QED BY <1>9, <2>13
<1>15. CASE ~ Openable(s.k, n, creat, excl)
  <2>1. Becomes(p, t, Fail) /\ held' = held
    <3>1. Opened(s, n, creat, excl) = Fail
      BY <1>15 DEF Opened
    <3> QED BY <1>1, <1>2, <3>1 DEF DoOpen
  <2>2. Apart(held, held', p) /\ held'[p] = g
    BY <1>12, <2>1 DEF Apart
  <2>3. Row(t.v, g) = Row(vfd[p], g)
    <3>1. ASSUME NEW e \in Handle, g[e] = "held"
          PROVE  t.v.name[e] = vfd[p].name[e] /\ At(t.v)[e] = At(vfd[p])[e]
      <4>1. e # f /\ e \in Slot
        BY <1>11, <1>12, <3>1, SlotFacts
      <4> QED BY <1>7, <1>9, <4>1 DEF Besides
    <3> QED BY <3>1, RowSame
  <2>4. SameData(file, t.k)
    BY <1>7, <1>9, <1>15
  <2>5. out' = Fail /\ HandleView' = HandleView /\ DataView' = DataView
    BY <1>12, <2>1, <2>2, <2>3, <2>4, CallView
  <2> QED BY <2>5 DEF F!Fails
<1> QED BY <1>14, <1>15

LEMMA CloseMaps ==
  ASSUME Inv, Inv', NEW p \in Proc, NEW f \in Handle, DoClose(p, f)
  PROVE  F!Close(p, f)
<1>1. PICK s : s = State(p)
  OBVIOUS
<1>2. PICK t : t = FileClose(s, f)
  OBVIOUS
<1>3. PICK h1 : h1 = held'
  OBVIOUS
<1>4. PICK g1 : g1 = h1[p]
  OBVIOUS
<1>5. PICK g : g = held[p]
  OBVIOUS
<1>6. /\ Becomes(p, t, Ok) /\ HeldAs(held, h1, p, f, "free") /\ held[p][f] # "free"
      /\ call' = <<"close", p, f>>
  BY <1>1, <1>2, <1>3 DEF DoClose, HeldAs
<1>7. Apart(held, h1, p) /\ Besides(vfd[p], t.v, f) /\ SameData(file, t.k)
  BY <1>1, <1>2, <1>4, <1>6, CloseFacts
<1>8. SlotAs(held[p], g1, f, "free")
  <2>1. held \in [Proc -> Helds]
    BY DEF Inv, Whole
  <2> QED BY <1>4, <1>6, <2>1, HeldSet
<1>9. Apart(held, held', p) /\ held'[p] = g1
  BY <1>3, <1>4, <1>7
<1>10. /\ out' = Ok /\ DataView' = DataView
       /\ Row(t.v, g1) = Row(vfd[p], g) => HandleView' = HandleView
       /\ \A c : RowChange(Row(vfd[p], g), Row(t.v, g1), f, c)
                   => ViewChange(HandleView, HandleView', p, f, c)
  BY <1>5, <1>6, <1>7, <1>9, CallView
<1>11. PICK c : c = HandleOf(t.v, g1, f)
  OBVIOUS
<1>12. c = Absent
  BY <1>8, <1>11 DEF HandleOf, SlotAs
<1>13. RowChange(Row(vfd[p], g), Row(t.v, g1), f, c)
  <2>1. \A e \in Handle : e # f => g1[e] = g[e]
    BY <1>5, <1>8 DEF SlotAs
  <2> QED BY <1>7, <1>11, <2>1, RowChanged
<1>14. ViewChange(HandleView, HandleView', p, f, c)
  BY <1>10, <1>13
<1>15. HandleView' = [HandleView EXCEPT ![p][f] = Absent]
  BY <1>12, <1>14 DEF ViewChange
<1> QED BY <1>6, <1>10, <1>15 DEF F!Close

\* V and h show the callers the files other than n as they are.
Agrees(V, h, n) ==
  \A q \in Proc : \A e \in Handle :
    /\ h[q][e] = "held" /\ V[q].name[e] # n
         <=> held[q][e] = "held" /\ vfd[q].name[e] # n
    /\ h[q][e] = "held" /\ V[q].name[e] # n
         => V[q].name[e] = vfd[q].name[e] /\ At(V[q])[e] = At(vfd[q])[e]

LEMMA UnlinkMaps ==
  ASSUME Inv, Inv', NEW n \in Name, NEW V, V \in [Proc -> Vfds], NEW h,
         UnlinkFrom(V, h, n), Agrees(V, h, n)
  PROVE  F!Gone(n)
<1>1. file[n] # Absent /\ out' = Ok
  BY DEF UnlinkFrom
<1>2. file \in Store
  BY DEF Inv, Whole
<1>3. DataView[n] # Absent
  <2>1. file[n].data \in Seq(Pages)
    BY <1>1, <1>2, StoreFacts
  <2>2. file[n].data # Absent
    BY <2>1, VfdAssumption DEF Pages
  <2> QED BY <1>1, <2>2 DEF DataView
<1>4. DataView' = [DataView EXCEPT ![n] = Absent]
  <2>1. file' = [file EXCEPT ![n] = Absent]
    BY DEF UnlinkFrom
  <2>2. file'[n] = Absent /\ \A m \in Name : m # n => file'[m] = file[m]
    BY <1>2, <2>1 DEF Store
  <2> QED BY <2>2 DEF DataView
<1>5. ASSUME NEW q \in Proc, NEW e \in Handle
      PROVE  HandleView'[q][e] = IF HandleView[q][e] # Absent /\ HandleView[q][e].name = n
                                 THEN Absent ELSE HandleView[q][e]
  <2>1. PICK y : y = HandleView'[q][e]
    OBVIOUS
  <2>2. y = HandleOf(vfd'[q], held'[q], e)
    BY <2>1, HandlesNext DEF View, Row
  <2>3. vfd'[q].name = V[q].name /\ At(vfd'[q]) = At(V[q])
    <3>1. vfd'[q] = UnlinkedIn(V[q], n)
      BY DEF UnlinkFrom
    <3>2. IsVfd(V[q])
      BY IsVfdType
    <3>3. UnlinkedAs(V[q], vfd'[q], n)
      BY <3>1, <3>2 DEF UnlinkedIn, IsVfd, UnlinkedAs
    <3> QED BY <3>3 DEF UnlinkedAs, At
  <2>4. held'[q][e] = IF h[q][e] = "held" /\ V[q].name[e] = n THEN "dropped" ELSE h[q][e]
    BY DEF UnlinkFrom
  <2>5. y = IF h[q][e] = "held" /\ V[q].name[e] # n
            THEN [name |-> V[q].name[e], pos |-> At(V[q])[e]] ELSE Absent
    BY <2>2, <2>3, <2>4 DEF HandleOf
  <2>6. y = IF held[q][e] = "held" /\ vfd[q].name[e] # n
            THEN [name |-> vfd[q].name[e], pos |-> At(vfd[q])[e]] ELSE Absent
    BY <2>5 DEF Agrees
  <2>7. PICK x : x = HandleView[q][e]
    OBVIOUS
  <2>8. x = HandleOf(vfd[q], held[q], e)
    BY <2>7, HandlesNow DEF View, Row
  <2>9. CASE held[q][e] = "held"
    <3>1. x = [name |-> vfd[q].name[e], pos |-> At(vfd[q])[e]]
      BY <2>8, <2>9 DEF HandleOf
    <3>2. x # Absent
      <4>1. Holds(q, e)
        BY <2>9 DEF Holds
      <4>2. PICK m : m = vfd[q].name[e]
        OBVIOUS
      <4>3. PICK i : i = At(vfd[q])[e]
        OBVIOUS
      <4>4. Sees(q, e, m, i, file[m].data)
        BY <4>1, <4>2, <4>3, HeldView
      <4> QED BY <2>7, <4>4 DEF Sees
    <3>3. x.name = vfd[q].name[e]
      BY <3>1
    <3> QED BY <2>1, <2>6, <2>7, <2>9, <3>1, <3>2, <3>3
  <2>10. CASE held[q][e] # "held"
    <3>1. x = Absent /\ y = Absent
      BY <2>6, <2>8, <2>10 DEF HandleOf
    <3> QED BY <2>1, <2>7, <3>1
  <2> QED BY <2>9, <2>10
<1>6. HandleView' = [q \in Proc |-> [e \in Handle |-> HandleView'[q][e]]]
  BY HandlesNext DEF View, Row
<1>7. HandleView' = [q \in Proc |-> [e \in Handle |->
        IF HandleView[q][e] # Absent /\ HandleView[q][e].name = n
        THEN Absent ELSE HandleView[q][e]]]
  BY <1>5, <1>6
<1> QED BY <1>1, <1>3, <1>4, <1>7 DEF F!Gone

LEMMA FileNameUnlinkMaps ==
  ASSUME Inv, Inv', NEW n \in Name, FileNameUnlink(n)
  PROVE  F!Unlink(n)
<1>1. vfd \in [Proc -> Vfds]
  BY DEF Inv, Whole
<1>2. Agrees(vfd, held, n)
  BY DEF Agrees
<1>3. UnlinkFrom(vfd, held, n) /\ call' = <<"unlink", n>>
  BY DEF FileNameUnlink
<1>4. F!Gone(n)
  BY <1>1, <1>2, <1>3, UnlinkMaps
<1> QED BY <1>3, <1>4 DEF F!Unlink

LEMMA FileUnlinkMaps ==
  ASSUME Inv, Inv', NEW p \in Proc, NEW f \in Handle, FileUnlink(p, f)
  PROVE  F!UnlinkOpen(p, f)
<1>1. PICK s : s = State(p)
  OBVIOUS
<1>2. PICK t : t = FileClose(s, f)
  OBVIOUS
<1>3. PICK n : n = vfd[p].name[f]
  OBVIOUS
<1>4. PICK h1 : HeldAs(held, h1, p, f, "free")
  BY DEF HeldAs
<1>5. PICK V1 : V1 = [vfd EXCEPT ![p] = t.v]
  OBVIOUS
<1>6. PICK g : g = h1[p]
  OBVIOUS
<1>7. Holds(p, f) /\ UnlinkFrom(V1, h1, n)
  BY <1>1, <1>2, <1>3, <1>4, <1>5 DEF FileUnlink, HeldAs
<1>8. /\ Apart(held, h1, p) /\ Besides(vfd[p], t.v, f)
      /\ Sound(t, Taken(g), Kept(g), Elsewhere(vfd, p))
  <2>1. held[p][f] # "free"
    BY <1>7 DEF Holds
  <2> QED BY <1>1, <1>2, <1>4, <1>6, <2>1, CloseFacts
<1>9. SlotAs(held[p], g, f, "free")
  <2>1. held \in [Proc -> Helds]
    BY DEF Inv, Whole
  <2> QED BY <1>4, <1>6, <2>1, HeldSet
<1>10. V1 \in [Proc -> Vfds] /\ V1[p] = t.v /\ Apart(vfd, V1, p)
  <2>1. t.v \in Vfds
    BY <1>8, SoundType
  <2>2. vfd \in [Proc -> Vfds]
    BY DEF Inv, Whole
  <2> QED BY <1>5, <2>1, <2>2 DEF Apart
<1>11. Agrees(V1, h1, n)
  <2> SUFFICES ASSUME NEW q \in Proc, NEW e \in Handle
               PROVE  /\ h1[q][e] = "held" /\ V1[q].name[e] # n
                           <=> held[q][e] = "held" /\ vfd[q].name[e] # n
                      /\ h1[q][e] = "held" /\ V1[q].name[e] # n
                           => /\ V1[q].name[e] = vfd[q].name[e]
                              /\ At(V1[q])[e] = At(vfd[q])[e]
    BY DEF Agrees
  <2>1. CASE q # p
    <3>1. V1[q] = vfd[q] /\ h1[q] = held[q]
      BY <1>8, <1>10, <2>1 DEF Apart
    <3> QED BY <3>1
  <2>2. CASE q = p /\ e # f
    <3>1. h1[q][e] = held[q][e]
      BY <1>6, <1>9, <2>2 DEF SlotAs
    <3>2. V1[q].name[e] = vfd[q].name[e] /\ At(V1[q])[e] = At(vfd[q])[e]
      BY <1>8, <1>10, <2>2, SlotFacts DEF Besides
    <3> QED BY <3>1, <3>2
  <2>3. CASE q = p /\ e = f
    <3>1. h1[q][e] = "free" /\ vfd[q].name[e] = n
      BY <1>3, <1>6, <1>9, <2>3 DEF SlotAs
    <3> QED BY <3>1
  <2> QED BY <2>1, <2>2, <2>3
<1>12. n \in Name /\ HandleView[p][f] # Absent /\ HandleView[p][f].name = n
  <2>1. PICK i : i = At(vfd[p])[f]
    OBVIOUS
  <2>2. n \in Name /\ Sees(p, f, n, i, file[n].data)
    BY <1>3, <1>7, <2>1, HeldView
  <2> QED BY <2>2 DEF Sees
<1>13. F!Gone(n)
  BY <1>7, <1>10, <1>11, <1>12, UnlinkMaps
<1>14. call' = <<"unlink", p, f>>
  BY DEF FileUnlink
<1> QED BY <1>12, <1>13, <1>14 DEF F!UnlinkOpen

LEMMA FileCallMaps ==
  ASSUME Inv, Inv', NEW p \in Proc, NEW f \in Handle, FileCall(p, f)
  PROVE  F!Next
<1>1. CASE DoClose(p, f)
  <2>1. F!Close(p, f)
    BY <1>1, CloseMaps
  <2> QED BY <2>1 DEF F!Next
<1>2. CASE FileUnlink(p, f)
  <2>1. F!UnlinkOpen(p, f)
    BY <1>2, FileUnlinkMaps
  <2> QED BY <2>1 DEF F!Next
<1>3. CASE DoSync(p, f) \/ DoInvalidate(p, f)
  <2>1. F!Other
    BY <1>3, SyncMaps, InvalidateMaps
  <2> QED BY <2>1 DEF F!Next
<1>4. ASSUME \/ DoSeek(p, f, 1, "CUR", TRUE)
             \/ \E i \in 0 .. MaxLen : DoSeek(p, f, i, "SET", TRUE)
             \/ \E ok \in BOOLEAN : DoSeek(p, f, 0, "END", ok)
      PROVE  F!Next
  <2>1. PICK off \in Nat, whence \in {"SET", "CUR", "END"}, ok \in BOOLEAN :
          SeekCall(p, f, off, whence, ok)
    BY <1>4, SeekCases
  <2>2. off \in 0 .. MaxLen /\ (F!Seek(p, f, off, whence) \/ F!SeekFails(p, f, off))
    BY <2>1, SeekMaps
  <2> QED BY <2>2 DEF F!Next
<1>5. ASSUME NEW ok \in {TRUE} \cup {vfd[p].fd[f]}, DoRead(p, f, ok)
      PROVE  F!Next
  <2>1. ok \in BOOLEAN
    BY OkType
  <2>2. F!Read(p, f) \/ F!Fails
    BY <1>5, <2>1, ReadMaps
  <2> QED BY <2>2 DEF F!Next
<1>6. ASSUME NEW ok \in {TRUE} \cup {vfd[p].fd[f]}, NEW i \in 0 .. MaxLen,
             DoTruncate(p, f, i, ok)
      PROVE  F!Next
  <2>1. ok \in BOOLEAN
    BY OkType
  <2>2. i \in Nat
    BY VfdAssumption
  <2>3. F!Truncate(p, f, i) \/ F!Fails
    BY <1>6, <2>1, <2>2, TruncateMaps
  <2> QED BY <2>3 DEF F!Next
<1>7. ASSUME NEW ok \in {TRUE} \cup {vfd[p].fd[f]}, NEW x \in Page,
             NEW full \in BOOLEAN, DoWrite(p, f, x, ok, full)
      PROVE  F!Next
  <2>1. ok \in BOOLEAN
    BY OkType
  <2>2. F!Write(p, f, x) \/ F!Fails
    BY <1>7, <2>1, WriteMaps
  <2> QED BY <2>2 DEF F!Next
<1>8. ASSUME NEW ok \in {TRUE} \cup {vfd[p].fd[f]}, DoSeek(p, f, 0, "END", ok)
      PROVE  F!Next
  <2>1. ok \in BOOLEAN
    BY OkType
  <2> QED BY <1>4, <1>8, <2>1
<1> QED BY <1>1, <1>2, <1>3, <1>4, <1>5, <1>6, <1>7, <1>8 DEF FileCall

LEMMA StepMaps ==
  ASSUME Inv, Inv', [Next]_vars
  PROVE  [F!Next]_(F!vars)
<1>1. CASE UNCHANGED vars
  <2>1. vfd' = vfd /\ file' = file /\ held' = held /\ out' = out
        /\ call' = call
    BY <1>1 DEF vars
  <2>2. HandleView' = HandleView /\ DataView' = DataView
    BY <2>1 DEF HandleView, DataView, Holds, PosOf
  <2> QED BY <2>1, <2>2 DEF F!vars
<1>2. CASE Next
  <2>1. ASSUME NEW n \in Name, FileNameUnlink(n) PROVE F!Next
    <3>1. F!Unlink(n)
      BY <2>1, FileNameUnlinkMaps
    <3> QED BY <3>1 DEF F!Next
  <2>2. ASSUME NEW p \in Proc, closeAllVfds(p) PROVE F!Next
    <3>1. F!Other
      BY <2>2, CloseAllMaps
    <3> QED BY <3>1 DEF F!Next
  <2>3. ASSUME NEW p \in Proc, AllocateFile(p) PROVE F!Next
    <3>1. F!Other
      BY <2>3, AllocateFileMaps
    <3> QED BY <3>1 DEF F!Next
  <2>4. ASSUME NEW p \in Proc, NEW d \in {-1, 1}, Others(p, d) PROVE F!Next
    <3>1. F!Other
      BY <2>4, OthersMaps
    <3> QED BY <3>1 DEF F!Next
  <2>5. ASSUME NEW p \in Proc, NEW n \in Name, NEW c \in BOOLEAN, NEW e \in BOOLEAN,
               DoOpen(p, n, c, e)
        PROVE  F!Next
    <3>1. (\E f \in Handle : F!Open(p, f, n)) \/ F!Fails
      BY <2>5, OpenMaps
    <3> QED BY <3>1 DEF F!Next
  <2>6. ASSUME NEW p \in Proc, NEW f \in Handle, FileCall(p, f) PROVE F!Next
    BY <2>6, FileCallMaps
  <2> QED BY <1>2, <2>1, <2>2, <2>3, <2>4, <2>5, <2>6, NextCases
<1> QED BY <1>1, <1>2

LEMMA InitMaps == Init => F!Init
<1> SUFFICES ASSUME Init PROVE F!Init
  OBVIOUS
<1>1. HandleView = [p \in Proc |-> [f \in Handle |-> Absent]]
  BY DEF Init, HandleView, Holds
<1>2. DataView = [n \in Name |-> Absent]
  BY DEF Init, DataView
<1> QED BY <1>1, <1>2 DEF Init, F!Init

\* LikeOpenFiles: to its callers fd.c is Files, a system without a limit on
\* open files.  LruDelete and LruInsert, the growth of VfdCache and a sync are
\* invisible, and what is read, written or sought next on a file closed behind
\* its caller's back is at the position where the caller left it, on the file
\* and with the arguments of the call.  Only a seek to the end of a file that
\* cannot be opened again loses the position (fd.c:766-770).
THEOREM FilesStayOpen == Spec => LikeOpenFiles
<1>1. Inv /\ Inv' /\ [Next]_vars => [F!Next]_(F!vars)
  BY StepMaps
<1> QED BY <1>1, InitMaps, AlwaysInv, PTL DEF Spec, LikeOpenFiles, F!Spec
=============================================================================
