---------------------------- MODULE SInval_proofs ----------------------------
(***************************************************************************)
(* Proofs about SInval.  The two linked lists of the segment are read off  *)
(* one ordering of the entries: first the chain of messages, then the free *)
(* entries.  SISetDataEntry moves the border between them by one,          *)
(* SIDelDataEntry moves the first entry to the border.                     *)
(***************************************************************************)
EXTENDS SInval, FiniteSetTheorems, WellFoundedInduction, TLAPS

-----------------------------------------------------------------------------
(* The chains, seen as one ordering c of the entries.                      *)

\* The entry at place i of a chain that ends before place n.
Place(c, i, n) == IF i = n THEN InvalidOffset ELSE c[i]

\* c lists the chain of messages and then the chain of free entries.
Lists(c, S) ==
  /\ c \in [Entry -> Entry]
  /\ \A i, j \in Entry : c[i] = c[j] => i = j
  /\ \A e \in Entry : \E i \in Entry : c[i] = e
  /\ S.startChain = Place(c, 0, S.num)
  /\ S.endChain = IF S.num = 0 THEN InvalidOffset ELSE c[S.num - 1]
  /\ S.startFree = Place(c, S.num, MaxMessages)
  /\ \A i \in Entry :
       S.next[c[i]] = IF i < S.num THEN Place(c, i + 1, S.num)
                      ELSE Place(c, i + 1, MaxMessages)

\* A segment whose lists are whole and whose limits are within the chain.
Good(S) ==
  /\ S \in Seg
  /\ \E c : Lists(c, S)
  /\ \A s \in Slot : S.limit[s] <= S.num

\* The messages slot s has not read.
View(S, c, s) ==
  [i \in 1 .. S.num - S.limit[s] |-> S.data[c[S.limit[s] + i - 1]]]

LEMMA EntryFacts ==
  /\ MaxMessages \in Nat /\ MaxMessages > 0
  /\ \A i : i \in Entry <=> i \in Nat /\ i < MaxMessages
  /\ InvalidOffset \notin Entry
BY SInvalAssumption DEF Entry, InvalidOffset

LEMMA SegTypes ==
  ASSUME NEW S, S \in Seg
  PROVE  /\ S.num \in 0 .. MaxMessages /\ S.num \in Nat
         /\ S.next \in [Entry -> Entry \cup {InvalidOffset}]
         /\ S.data \in [Entry -> Msg \cup {NoTag}]
         /\ S.limit \in [Slot -> -1 .. MaxMessages]
         /\ S.reset \in [Slot -> BOOLEAN]
         /\ S.tag \in [Slot -> Backend \cup {NoTag}]
         /\ S.startFree \in Entry \cup {InvalidOffset}
         /\ S.startChain \in Entry \cup {InvalidOffset}
         /\ S.endChain \in Entry \cup {InvalidOffset}
         /\ S = [startFree |-> S.startFree, startChain |-> S.startChain,
                 endChain |-> S.endChain, num |-> S.num, next |-> S.next,
                 data |-> S.data, limit |-> S.limit, reset |-> S.reset,
                 tag |-> S.tag]
BY SInvalAssumption DEF Seg

\* Every set of naturals that is not empty has a least element.
LEMMA LeastOf ==
  ASSUME NEW T, T \subseteq Nat, T # {}
  PROVE  \E x \in T : \A y \in T : x <= y
<1>1. PICK R : R = OpToRel(<, Nat)
  OBVIOUS
<1>2. IsWellFoundedOn(R, Nat)
  BY <1>1, NatLessThanWellFounded
<1>3. PICK x \in T : \A y \in T : ~(<<y, x>> \in R)
  BY <1>2, WFMin
<1>4. ASSUME NEW y \in T PROVE x <= y
  <2>1. x \in Nat /\ y \in Nat
    OBVIOUS
  <2>2. y < x => <<y, x>> \in R
    BY <1>1, <2>1 DEF OpToRel
  <2>3. ~(y < x)
    BY <1>3, <2>2
  <2> QED BY <2>1, <2>3
<1> QED BY <1>4

-----------------------------------------------------------------------------
(* Walks along a chain.                                                    *)

\* What the recursive definition of Walk says of its function.
IsWalk(w, S, e) ==
  w = [k \in 0 .. MaxMessages |->
         IF k = 0 THEN e
         ELSE IF w[k - 1] = InvalidOffset THEN InvalidOffset
         ELSE S.next[w[k - 1]]]

\* It says it of one function only.
LEMMA WalkIs ==
  ASSUME NEW S, NEW e, NEW v, IsWalk(v, S, e)
  PROVE  Walk(S, e) = v
<1> DEFINE W(h) == h = [k \in 0 .. MaxMessages |->
                          IF k = 0 THEN e
                          ELSE IF h[k - 1] = InvalidOffset THEN InvalidOffset
                          ELSE S.next[h[k - 1]]]
<1>1. PICK w : w = CHOOSE h : W(h)
  OBVIOUS
<1>2. W(w)
  <2>1. \E h : W(h)
    BY DEF IsWalk
  <2> HIDE DEF W
  <2> QED BY <1>1, <2>1
<1>3. Walk(S, e) = w
  BY <1>1 DEF Walk
<1>4. PICK B : B = {k \in 0 .. MaxMessages : w[k] # v[k]}
  OBVIOUS
<1>5. B = {}
  <2> SUFFICES ASSUME B # {} PROVE FALSE
    OBVIOUS
  <2>1. B \subseteq Nat
    BY <1>4
  <2>2. PICK k \in B : \A y \in B : k <= y
    BY <2>1, LeastOf
  <2>3. k \in 0 .. MaxMessages /\ w[k] # v[k]
    BY <1>4, <2>2
  <2>4. CASE k = 0
    <3>1. w[k] = e /\ v[k] = e
      BY <1>2, <2>3, <2>4 DEF IsWalk
    <3> QED BY <2>3, <3>1
  <2>5. CASE k # 0
    <3>1. k - 1 \in 0 .. MaxMessages /\ ~(k <= k - 1)
      BY <2>3, <2>5, EntryFacts
    <3>2. w[k - 1] = v[k - 1]
      BY <1>4, <2>2, <3>1
    <3>3. w[k] = IF w[k - 1] = InvalidOffset THEN InvalidOffset ELSE S.next[w[k - 1]]
      BY <1>2, <2>3, <2>5
    <3>4. v[k] = IF v[k - 1] = InvalidOffset THEN InvalidOffset ELSE S.next[v[k - 1]]
      BY <2>3, <2>5 DEF IsWalk
    <3> QED BY <2>3, <3>2, <3>3, <3>4
  <2> QED BY <2>4, <2>5
<1>6. w = v
  <2>1. w = [k \in 0 .. MaxMessages |-> w[k]]
    BY <1>2
  <2>2. v = [k \in 0 .. MaxMessages |-> v[k]]
    BY DEF IsWalk
  <2> QED BY <1>4, <1>5, <2>1, <2>2
<1> QED BY <1>3, <1>6

\* The places from j on, up to n: a stretch of one of the two chains.
Stretch(S, j, n) ==
  /\ j \in Nat /\ n \in Nat /\ j <= n /\ n <= MaxMessages
  /\ n = S.num \/ (n = MaxMessages /\ S.num <= j)

\* From place j on, a walk passes the places up to n.
Along(c, j, n) ==
  [k \in 0 .. MaxMessages |-> IF j + k < n THEN c[j + k] ELSE InvalidOffset]

LEMMA WalkAlong ==
  ASSUME NEW S, S \in Seg, NEW c, Lists(c, S), NEW j, NEW n, Stretch(S, j, n)
  PROVE  Walk(S, Place(c, j, n)) = Along(c, j, n)
<1>1. PICK e : e = Place(c, j, n)
  OBVIOUS
<1>2. PICK v : v = Along(c, j, n)
  OBVIOUS
<1>n. j \in Nat /\ n \in Nat /\ MaxMessages \in Nat /\ n <= MaxMessages /\ j <= n
  BY EntryFacts DEF Stretch
<1>3. \A k \in 0 .. MaxMessages :
        v[k] = IF j + k < n THEN c[j + k] ELSE InvalidOffset
  BY <1>2 DEF Along
<1>4. ASSUME NEW k \in 0 .. MaxMessages
      PROVE  v[k] = IF k = 0 THEN e
                    ELSE IF v[k - 1] = InvalidOffset THEN InvalidOffset
                    ELSE S.next[v[k - 1]]
  <2>1. CASE k = 0
    <3>1. 0 \in 0 .. MaxMessages /\ j + 0 = j /\ (j < n <=> j # n)
      BY <1>n
    <3>2. v[0] = IF j < n THEN c[j] ELSE InvalidOffset
      BY <1>3, <3>1
    <3> QED BY <1>1, <2>1, <3>1, <3>2 DEF Place
  <2>2. CASE k # 0
    <3>1. k - 1 \in 0 .. MaxMessages /\ j + (k - 1) \in Nat /\ (j + (k - 1)) + 1 = j + k
      BY <1>n, <2>2
    <3>2. v[k - 1] = IF j + (k - 1) < n THEN c[j + (k - 1)] ELSE InvalidOffset
      BY <1>3, <3>1
    <3>3. PICK i : i = j + (k - 1)
      OBVIOUS
    <3>4. CASE i < n
      <4>1. i \in Entry /\ c[i] \in Entry /\ c[i] # InvalidOffset
        BY <1>n, <3>1, <3>3, <3>4, EntryFacts DEF Lists
      <4>2. v[k - 1] = c[i]
        BY <3>2, <3>3, <3>4
      <4>3. S.next[c[i]] = Place(c, i + 1, n)
        <5>1. S.next[c[i]] = IF i < S.num THEN Place(c, i + 1, S.num)
                             ELSE Place(c, i + 1, MaxMessages)
          BY <4>1 DEF Lists
        <5>2. n = S.num => i < S.num
          BY <3>4
        <5>3. S.num \in Nat
          BY SegTypes
        <5>4. n = MaxMessages /\ S.num <= j => ~(i < S.num)
          BY <1>n, <3>1, <3>3, <5>3
        <5> QED BY <5>1, <5>2, <5>4 DEF Stretch
      <4>4. i + 1 = j + k /\ (j + k < n <=> i + 1 # n)
        BY <1>n, <3>1, <3>3, <3>4
      <4>5. v[k] = IF j + k < n THEN c[j + k] ELSE InvalidOffset
        BY <1>3
      <4>6. Place(c, i + 1, n) = v[k]
        BY <4>4, <4>5 DEF Place
      <4> QED BY <2>2, <4>1, <4>2, <4>3, <4>6
    <3>5. CASE ~(i < n)
      <4>1. ~(j + k < n)
        BY <1>n, <3>1, <3>3, <3>5
      <4>2. v[k] = InvalidOffset
        BY <1>3, <4>1
      <4>3. v[k - 1] = InvalidOffset
        BY <3>2, <3>3, <3>5
      <4> QED BY <2>2, <4>2, <4>3
    <3> QED BY <3>4, <3>5
  <2> QED BY <2>1, <2>2
<1>5. v = [k \in 0 .. MaxMessages |-> v[k]]
  BY <1>2 DEF Along
<1>6. IsWalk(v, S, e)
  BY <1>4, <1>5 DEF IsWalk
<1>7. Walk(S, e) = v
  BY <1>6, WalkIs
<1> QED BY <1>1, <1>2, <1>7

\* The chain from place j on is that stretch.
LEMMA ChainAlong ==
  ASSUME NEW S, S \in Seg, NEW c, Lists(c, S), NEW j, NEW n, Stretch(S, j, n)
  PROVE  /\ Chain(S, Place(c, j, n)) = [i \in 1 .. n - j |-> c[j + i - 1]]
         /\ Len(Chain(S, Place(c, j, n))) = n - j
<1>n. j \in Nat /\ n \in Nat /\ MaxMessages \in Nat /\ n <= MaxMessages /\ j <= n
      /\ n - j \in Nat
  BY EntryFacts DEF Stretch
<1>1. PICK w : w = Walk(S, Place(c, j, n))
  OBVIOUS
<1>2. w = Along(c, j, n)
  BY <1>1, WalkAlong
<1>3. PICK K : K = {k \in 0 .. MaxMessages - 1 : w[k] # InvalidOffset}
  OBVIOUS
<1>4. K = 0 .. (n - j) - 1
  <2>1. ASSUME NEW k \in 0 .. MaxMessages - 1
        PROVE  w[k] # InvalidOffset <=> k \in 0 .. (n - j) - 1
    <3>1. w[k] = IF j + k < n THEN c[j + k] ELSE InvalidOffset
      BY <1>n, <1>2 DEF Along
    <3>2. j + k < n <=> k \in 0 .. (n - j) - 1
      BY <1>n
    <3>3. j + k < n => j + k \in Entry
      BY <1>n, EntryFacts
    <3>4. j + k < n => c[j + k] # InvalidOffset
      BY <3>3, EntryFacts DEF Lists
    <3> QED BY <3>1, <3>2, <3>4
  <2>2. 0 .. (n - j) - 1 \subseteq 0 .. MaxMessages - 1
    BY <1>n
  <2> QED BY <1>3, <2>1, <2>2
<1>5. Cardinality(K) = n - j
  <2>1. PICK x : x = (n - j) - 1
    OBVIOUS
  <2>2. 0 \in Int /\ x \in Int
    BY <1>n, <2>1
  <2>3. Cardinality(0 .. x) = IF 0 > x THEN 0 ELSE x - 0 + 1
    BY <2>2, FS_Interval
  <2>4. (IF 0 > x THEN 0 ELSE x - 0 + 1) = n - j
    BY <1>n, <2>1
  <2> QED BY <1>4, <2>1, <2>3, <2>4
<1>6. Chain(S, Place(c, j, n)) = [i \in 1 .. n - j |-> w[i - 1]]
  BY <1>1, <1>3, <1>5 DEF Chain
<1>7. ASSUME NEW i \in 1 .. n - j PROVE w[i - 1] = c[j + i - 1]
  <2>1. i - 1 \in 0 .. MaxMessages /\ j + (i - 1) < n /\ j + (i - 1) = j + i - 1
    BY <1>n
  <2> QED BY <1>2, <2>1 DEF Along
<1>8. Chain(S, Place(c, j, n)) = [i \in 1 .. n - j |-> c[j + i - 1]]
  BY <1>6, <1>7
<1> QED BY <1>n, <1>8

\* What a slot has not read, read off the ordering.
LEMMA UnreadIs ==
  ASSUME NEW S, S \in Seg, NEW c, Lists(c, S), NEW s \in Slot,
         0 <= S.limit[s], S.limit[s] <= S.num
  PROVE  Unread(S, s) = View(S, c, s) /\ Len(Unread(S, s)) = S.num - S.limit[s]
<1>1. PICK l : l = S.limit[s]
  OBVIOUS
<1>2. PICK n : n = S.num
  OBVIOUS
<1>n. l \in Nat /\ n \in Nat /\ l <= n /\ n <= MaxMessages /\ MaxMessages \in Nat
      /\ n - l \in Nat
  BY <1>1, <1>2, SegTypes, EntryFacts
<1>3. Stretch(S, 0, n) /\ Stretch(S, l, n)
  <2>1. 0 \in Nat /\ 0 <= n
    BY <1>n
  <2> QED BY <1>n, <1>2, <2>1 DEF Stretch
<1>4. S.startChain = Place(c, 0, n)
  BY <1>2 DEF Lists
<1>5. Walk(S, S.startChain)[l] = Place(c, l, n)
  <2>1. PICK e : e = Place(c, 0, n)
    OBVIOUS
  <2>2. Walk(S, e) = Along(c, 0, n)
    BY <1>3, <2>1, WalkAlong
  <2>3. l \in 0 .. MaxMessages /\ 0 + l = l /\ (l < n <=> l # n)
    BY <1>n
  <2>4. Along(c, 0, n)[l] = IF l < n THEN c[l] ELSE InvalidOffset
    BY <2>3 DEF Along
  <2> QED BY <1>4, <2>1, <2>2, <2>3, <2>4 DEF Place
<1>6. PICK q : q = Chain(S, Place(c, l, n))
  OBVIOUS
<1>7. q = [i \in 1 .. n - l |-> c[l + i - 1]] /\ Len(q) = n - l
  BY <1>3, <1>6, ChainAlong
<1>8. Unread(S, s) = [i \in 1 .. Len(q) |-> S.data[q[i]]]
  BY <1>1, <1>n, <1>5, <1>6 DEF Unread
<1>9. Unread(S, s) = [i \in 1 .. n - l |-> S.data[c[l + i - 1]]]
  BY <1>7, <1>8
<1> QED BY <1>1, <1>2, <1>9, <1>n DEF View

-----------------------------------------------------------------------------
(* What the routines do to the ordering.                                   *)

\* Message m is entered behind the others.
Entered(S, c, m, T) == T.data = [S.data EXCEPT ![c[S.num]] = m]

LEMMA SetData ==
  ASSUME NEW S, S \in Seg, NEW c, Lists(c, S), S.num < MaxMessages,
         NEW m \in Msg, NEW T, T = SISetDataEntry(S, m)
  PROVE  /\ T \in Seg /\ Lists(c, T)
         /\ T.num = S.num + 1
         /\ T.limit = S.limit /\ T.reset = S.reset /\ T.tag = S.tag
         /\ Entered(S, c, m, T)
<1>1. PICK n : n = S.num
  OBVIOUS
<1>n. n \in Nat /\ n < MaxMessages /\ MaxMessages \in Nat /\ n \in Entry
      /\ n + 1 \in Nat /\ n + 1 <= MaxMessages
  BY <1>1, SegTypes, EntryFacts
<1>2. PICK e : e = S.startFree
  OBVIOUS
<1>3. e = c[n] /\ e \in Entry
  BY <1>1, <1>n, <1>2 DEF Lists, Place
<1>4. PICK g : g = IF S.endChain = InvalidOffset THEN S.next
                   ELSE [S.next EXCEPT ![S.endChain] = e]
  OBVIOUS
<1>5. PICK h : h = [g EXCEPT ![e] = InvalidOffset]
  OBVIOUS
<1>6. PICK d : d = [S.data EXCEPT ![e] = m]
  OBVIOUS
<1>7. PICK a : a = IF S.endChain = InvalidOffset THEN e ELSE S.startChain
  OBVIOUS
<1>8. T = [startFree |-> S.next[e], startChain |-> a, endChain |-> e,
           num |-> n + 1, next |-> h, data |-> d, limit |-> S.limit,
           reset |-> S.reset, tag |-> S.tag]
  <2>1. S = [startFree |-> S.startFree, startChain |-> S.startChain,
             endChain |-> S.endChain, num |-> S.num, next |-> S.next,
             data |-> S.data, limit |-> S.limit, reset |-> S.reset,
             tag |-> S.tag]
    BY SegTypes
  <2>2. T = [S EXCEPT !.num = n + 1, !.startFree = S.next[e], !.data = d,
                      !.next = h, !.startChain = a, !.endChain = e]
    BY <1>1, <1>2, <1>4, <1>5, <1>6, <1>7 DEF SISetDataEntry
  <2> QED BY <2>1, <2>2
<1>9. /\ T.startFree = S.next[e] /\ T.startChain = a /\ T.endChain = e
      /\ T.num = n + 1 /\ T.next = h /\ T.data = d /\ T.limit = S.limit
      /\ T.reset = S.reset /\ T.tag = S.tag
  BY <1>8
<1>10. S.endChain = InvalidOffset <=> n = 0
  <2>1. n # 0 => n - 1 \in Entry
    BY <1>n, EntryFacts
  <2>2. n # 0 => c[n - 1] \in Entry
    BY <2>1 DEF Lists
  <2> QED BY <1>1, <2>2, EntryFacts DEF Lists
<1>11. g \in [Entry -> Entry \cup {InvalidOffset}]
  <2>1. S.next \in [Entry -> Entry \cup {InvalidOffset}]
    BY SegTypes
  <2> QED BY <1>3, <1>4, <2>1
<1>12. h \in [Entry -> Entry \cup {InvalidOffset}]
  BY <1>5, <1>11
<1>13. d \in [Entry -> Msg \cup {NoTag}]
  <2>1. S.data \in [Entry -> Msg \cup {NoTag}]
    BY SegTypes
  <2> QED BY <1>6, <2>1
<1>14. T \in Seg
  <2>1. a \in Entry \cup {InvalidOffset}
    BY <1>3, <1>7, SegTypes
  <2>2. S.next[e] \in Entry \cup {InvalidOffset}
    BY <1>3, SegTypes
  <2>3. n + 1 \in 0 .. MaxMessages
    BY <1>n
  <2>4. /\ S.limit \in [Slot -> -1 .. MaxMessages]
        /\ S.reset \in [Slot -> BOOLEAN]
        /\ S.tag \in [Slot -> Backend \cup {NoTag}]
    BY SegTypes
  <2> QED BY <1>3, <1>8, <1>12, <1>13, <2>1, <2>2, <2>3, <2>4 DEF Seg
<1>15. Lists(c, T)
  <2>0. /\ c \in [Entry -> Entry]
        /\ \A i, j \in Entry : c[i] = c[j] => i = j
        /\ \A x \in Entry : \E i \in Entry : c[i] = x
    BY DEF Lists
  <2>1. T.startChain = Place(c, 0, n + 1)
    <3>1. n + 1 # 0
      BY <1>n
    <3>2. n # 0 => S.startChain = c[0]
      BY <1>1 DEF Lists, Place
    <3> QED BY <1>3, <1>7, <1>9, <1>10, <3>1, <3>2 DEF Place
  <2>2. T.endChain = IF n + 1 = 0 THEN InvalidOffset ELSE c[(n + 1) - 1]
    <3>1. n + 1 # 0 /\ (n + 1) - 1 = n
      BY <1>n
    <3> QED BY <1>3, <1>9, <3>1
  <2>3. T.startFree = Place(c, n + 1, MaxMessages)
    <3>1. ~(n < n)
      BY <1>n
    <3>2. S.next[c[n]] = Place(c, n + 1, MaxMessages)
      BY <1>1, <1>n, <3>1 DEF Lists
    <3> QED BY <1>3, <1>9, <3>2
  <2>4. ASSUME NEW i \in Entry
        PROVE  h[c[i]] = IF i < n + 1 THEN Place(c, i + 1, n + 1)
                         ELSE Place(c, i + 1, MaxMessages)
    <3>0. S.next[c[i]] = IF i < n THEN Place(c, i + 1, n)
                         ELSE Place(c, i + 1, MaxMessages)
      BY <1>1 DEF Lists
    <3>i. i \in Nat
      BY EntryFacts
    <3>c. c[i] \in Entry
      BY <2>0
    <3>1. CASE i = n
      <4>1. h[c[i]] = InvalidOffset
        BY <1>3, <1>5, <1>11, <3>1
      <4>2. i < n + 1 /\ i + 1 = n + 1
        BY <1>n, <3>1
      <4> QED BY <4>1, <4>2 DEF Place
    <3>2. CASE i # n
      <4>1. c[i] # e
        BY <1>n, <1>3, <2>0, <3>2
      <4>2. h[c[i]] = g[c[i]]
        BY <1>5, <1>11, <3>c, <4>1
      <4>3. CASE i = n - 1
        <5>1. n # 0 /\ i < n /\ i < n + 1 /\ i + 1 = n /\ i + 1 # n + 1
          BY <1>n, <3>i, <4>3
        <5>2. S.endChain = c[i] /\ S.endChain # InvalidOffset
          BY <1>1, <1>10, <4>3, <5>1 DEF Lists
        <5>3. g = [S.next EXCEPT ![c[i]] = e]
          BY <1>4, <5>2
        <5>4. g[c[i]] = e
          BY <3>c, <5>3, SegTypes
        <5> QED BY <1>3, <4>2, <5>1, <5>4 DEF Place
      <4>4. CASE i # n - 1
        <5>1. S.endChain # c[i]
          <6>1. CASE n = 0
            BY <1>10, <3>c, <6>1, EntryFacts
          <6>2. CASE n # 0
            <7>1. n - 1 \in Entry
              BY <1>n, <6>2, EntryFacts
            <7>2. S.endChain = c[n - 1]
              BY <1>1, <6>2 DEF Lists
            <7> QED BY <2>0, <4>4, <7>1, <7>2
          <6> QED BY <6>1, <6>2
        <5>2. S.next \in [Entry -> Entry \cup {InvalidOffset}]
          BY SegTypes
        <5>3. g[c[i]] = S.next[c[i]]
          BY <1>4, <3>c, <5>1, <5>2
        <5>4. (i < n <=> i < n + 1) /\ i + 1 # n /\ i + 1 # n + 1
          BY <1>n, <3>i, <3>2, <4>4
        <5>5. Place(c, i + 1, n) = Place(c, i + 1, n + 1)
          BY <5>4 DEF Place
        <5> QED BY <3>0, <4>2, <5>3, <5>4, <5>5
      <4> QED BY <4>3, <4>4
    <3> QED BY <3>1, <3>2
  <2>5. T.num = n + 1 /\ T.next = h
    BY <1>9
  <2> QED BY <2>0, <2>1, <2>2, <2>3, <2>4, <2>5 DEF Lists
<1> QED BY <1>1, <1>3, <1>6, <1>9, <1>14, <1>15 DEF Entered

\* The first of the n messages, moved behind the others.
Rotated(c, n) ==
  [i \in Entry |-> IF i < n - 1 THEN c[i + 1] ELSE IF i = n - 1 THEN c[0] ELSE c[i]]

\* It is a listing of the entries as c is: place k of c is found again.
LEMMA RotatedLists ==
  ASSUME NEW S, S \in Seg, NEW c, Lists(c, S), S.num > 0, NEW r, r = Rotated(c, S.num)
  PROVE  /\ r \in [Entry -> Entry]
         /\ \A i, j \in Entry : r[i] = r[j] => i = j
         /\ \A e \in Entry : \E i \in Entry : r[i] = e
         /\ \A i \in Entry : r[i] = IF i < S.num - 1 THEN c[i + 1]
                                    ELSE IF i = S.num - 1 THEN c[0] ELSE c[i]
<1>1. PICK n : n = S.num
  OBVIOUS
<1>n. n \in Nat /\ n > 0 /\ n <= MaxMessages /\ MaxMessages \in Nat /\ n - 1 \in Nat
  BY <1>1, SegTypes, EntryFacts
<1>c. /\ c \in [Entry -> Entry]
      /\ \A i, j \in Entry : c[i] = c[j] => i = j
      /\ \A e \in Entry : \E i \in Entry : c[i] = e
  BY DEF Lists
<1> DEFINE P(i) == IF i < n - 1 THEN i + 1 ELSE IF i = n - 1 THEN 0 ELSE i
<1>2. \A i \in Entry : P(i) \in Entry
  BY <1>n, EntryFacts
<1>3. \A i, j \in Entry : P(i) = P(j) => i = j
  BY <1>n, EntryFacts
<1>4. ASSUME NEW k \in Entry PROVE \E i \in Entry : P(i) = k
  <2>k. k \in Nat /\ k < MaxMessages
    BY EntryFacts
  <2>1. CASE k = 0
    <3>1. n - 1 \in Entry /\ P(n - 1) = k
      BY <1>n, <2>1, EntryFacts
    <3> QED BY <3>1
  <2>2. CASE k # 0 /\ k < n
    <3>1. k - 1 \in Entry /\ P(k - 1) = k
      BY <1>n, <2>k, <2>2, EntryFacts
    <3> QED BY <3>1
  <2>3. CASE ~(k < n)
    <3>1. P(k) = k
      BY <1>n, <2>k, <2>3
    <3> QED BY <3>1
  <2> QED BY <2>1, <2>2, <2>3
<1>5. \A i \in Entry : r[i] = c[P(i)]
  BY <1>1 DEF Rotated
<1>6. r = [i \in Entry |-> r[i]]
  BY DEF Rotated
<1>7. \A i \in Entry : r[i] = IF i < n - 1 THEN c[i + 1]
                              ELSE IF i = n - 1 THEN c[0] ELSE c[i]
  BY <1>1 DEF Rotated
<1> HIDE DEF P
<1>8. r \in [Entry -> Entry]
  <2>1. \A i \in Entry : r[i] \in Entry
    BY <1>c, <1>2, <1>5
  <2> QED BY <1>6, <2>1
<1>9. \A i, j \in Entry : r[i] = r[j] => i = j
  BY <1>c, <1>2, <1>3, <1>5
<1>10. ASSUME NEW e \in Entry PROVE \E i \in Entry : r[i] = e
  <2>1. PICK k \in Entry : c[k] = e
    BY <1>c
  <2>2. PICK i \in Entry : P(i) = k
    BY <1>4
  <2> QED BY <1>5, <2>1, <2>2
<1> QED BY <1>1, <1>7, <1>8, <1>9, <1>10

\* The limits after the first message is gone.
Fewer(S, T) ==
  \A s \in Slot : T.limit[s] = IF S.limit[s] > 0 THEN S.limit[s] - 1 ELSE S.limit[s]

LEMMA DelData ==
  ASSUME NEW S, S \in Seg, NEW c, Lists(c, S), S.num > 0,
         NEW T, T = SIDelDataEntry(S)
  PROVE  /\ T \in Seg /\ Lists(Rotated(c, S.num), T)
         /\ T.num = S.num - 1
         /\ T.reset = S.reset /\ T.tag = S.tag /\ T.data = S.data
         /\ Fewer(S, T)
<1>1. PICK n : n = S.num
  OBVIOUS
<1>n. n \in Nat /\ n > 0 /\ n <= MaxMessages /\ MaxMessages \in Nat /\ n - 1 \in Nat
      /\ 0 \in Entry /\ n - 1 \in Entry
  BY <1>1, SegTypes, EntryFacts
<1>c. /\ c \in [Entry -> Entry]
      /\ \A i, j \in Entry : c[i] = c[j] => i = j
  BY DEF Lists
<1>2. PICK e : e = S.startChain
  OBVIOUS
<1>3. e = c[0] /\ e \in Entry
  BY <1>1, <1>n, <1>2, <1>c DEF Lists, Place
<1>4. PICK z : z = IF S.next[e] = InvalidOffset THEN InvalidOffset ELSE S.endChain
  OBVIOUS
<1>5. PICK h : h = [S.next EXCEPT ![e] = S.startFree]
  OBVIOUS
<1>6. PICK L : L = [s \in Slot |-> IF S.limit[s] > 0 THEN S.limit[s] - 1
                                   ELSE S.limit[s]]
  OBVIOUS
<1>7. T = [startFree |-> e, startChain |-> S.next[e], endChain |-> z,
           num |-> n - 1, next |-> h, data |-> S.data, limit |-> L,
           reset |-> S.reset, tag |-> S.tag]
  <2>1. S = [startFree |-> S.startFree, startChain |-> S.startChain,
             endChain |-> S.endChain, num |-> S.num, next |-> S.next,
             data |-> S.data, limit |-> S.limit, reset |-> S.reset,
             tag |-> S.tag]
    BY SegTypes
  <2>2. PICK U : U = [S EXCEPT !.num = n - 1, !.startChain = S.next[e],
                               !.endChain = z, !.next = h, !.startFree = e]
    OBVIOUS
  <2>3. U = [startFree |-> e, startChain |-> S.next[e], endChain |-> z,
             num |-> n - 1, next |-> h, data |-> S.data, limit |-> S.limit,
             reset |-> S.reset, tag |-> S.tag]
    BY <2>1, <2>2
  <2>4. T = SIDecProcLimit(U)
    BY <1>1, <1>2, <1>4, <1>5, <2>2 DEF SIDelDataEntry
  <2>5. T = [U EXCEPT !.limit = L]
    BY <1>6, <2>3, <2>4 DEF SIDecProcLimit
  <2> QED BY <2>3, <2>5
<1>8. /\ T.startFree = e /\ T.startChain = S.next[e] /\ T.endChain = z
      /\ T.num = n - 1 /\ T.next = h /\ T.data = S.data /\ T.limit = L
      /\ T.reset = S.reset /\ T.tag = S.tag
  BY <1>7
<1>9. Fewer(S, T)
  BY <1>6, <1>8 DEF Fewer
<1>10. T \in Seg
  <2>1. h \in [Entry -> Entry \cup {InvalidOffset}]
    BY <1>5, SegTypes
  <2>2. L \in [Slot -> -1 .. MaxMessages]
    <3>1. \A s \in Slot : S.limit[s] \in -1 .. MaxMessages
      BY SegTypes
    <3>2. ASSUME NEW s \in Slot PROVE L[s] \in -1 .. MaxMessages
      BY <1>6, <1>n, <3>1
    <3> QED BY <1>6, <3>2
  <2>3. S.next[e] \in Entry \cup {InvalidOffset} /\ z \in Entry \cup {InvalidOffset}
    BY <1>3, <1>4, SegTypes
  <2>4. n - 1 \in 0 .. MaxMessages
    BY <1>n
  <2>5. /\ S.data \in [Entry -> Msg \cup {NoTag}]
        /\ S.reset \in [Slot -> BOOLEAN]
        /\ S.tag \in [Slot -> Backend \cup {NoTag}]
    BY SegTypes
  <2> QED BY <1>3, <1>7, <2>1, <2>2, <2>3, <2>4, <2>5 DEF Seg
<1>11. PICK r : r = Rotated(c, n)
  OBVIOUS
<1>12. /\ r \in [Entry -> Entry]
       /\ \A i, j \in Entry : r[i] = r[j] => i = j
       /\ \A x \in Entry : \E i \in Entry : r[i] = x
       /\ \A i \in Entry : r[i] = IF i < n - 1 THEN c[i + 1]
                                  ELSE IF i = n - 1 THEN c[0] ELSE c[i]
  BY <1>1, <1>n, <1>11, RotatedLists
<1>13. S.next[e] = Place(c, 1, n)
  <2>1. 0 < n /\ 0 + 1 = 1
    BY <1>n
  <2>2. S.next[c[0]] = Place(c, 0 + 1, n)
    BY <1>1, <1>n, <2>1 DEF Lists
  <2> QED BY <1>3, <2>1, <2>2
<1>14. T.startChain = Place(r, 0, n - 1)
  <2>1. (1 = n <=> 0 = n - 1) /\ (n # 1 => 0 < n - 1) /\ 0 + 1 = 1
    BY <1>n
  <2>2. n # 1 => r[0] = c[1]
    BY <1>n, <1>12, <2>1
  <2> QED BY <1>8, <1>13, <2>1, <2>2 DEF Place
<1>15. T.endChain = IF n - 1 = 0 THEN InvalidOffset ELSE r[(n - 1) - 1]
  <2>1. CASE n = 1
    <3>1. z = InvalidOffset
      BY <1>4, <1>13, <2>1 DEF Place
    <3> QED BY <1>8, <2>1, <3>1
  <2>2. CASE n # 1
    <3>1. /\ n - 1 # 0 /\ 1 # n /\ 1 \in Entry /\ (n - 1) - 1 \in Entry
          /\ (n - 1) - 1 < n - 1 /\ ((n - 1) - 1) + 1 = n - 1 /\ n # 0
      BY <1>n, <2>2, EntryFacts
    <3>2. S.next[e] = c[1] /\ c[1] \in Entry
      BY <1>c, <1>13, <3>1 DEF Place
    <3>3. z = S.endChain
      BY <1>4, <3>2, EntryFacts
    <3>4. S.endChain = c[n - 1]
      BY <1>1, <3>1 DEF Lists
    <3>5. r[(n - 1) - 1] = c[n - 1]
      BY <1>12, <3>1
    <3> QED BY <1>8, <3>1, <3>3, <3>4, <3>5
  <2> QED BY <2>1, <2>2
<1>16. T.startFree = Place(r, n - 1, MaxMessages)
  <2>1. n - 1 # MaxMessages /\ ~(n - 1 < n - 1)
    BY <1>n
  <2>2. r[n - 1] = c[0]
    BY <1>n, <1>12, <2>1
  <2> QED BY <1>3, <1>8, <2>1, <2>2 DEF Place
<1>17. ASSUME NEW i \in Entry
       PROVE  h[r[i]] = IF i < n - 1 THEN Place(r, i + 1, n - 1)
                        ELSE Place(r, i + 1, MaxMessages)
  <2>i. i \in Nat /\ i < MaxMessages
    BY EntryFacts
  <2>s. S.next \in [Entry -> Entry \cup {InvalidOffset}]
    BY SegTypes
  <2>f. S.startFree = Place(c, n, MaxMessages)
    BY <1>1 DEF Lists
  <2>g. \A k \in Entry : S.next[c[k]] = IF k < n THEN Place(c, k + 1, n)
                                        ELSE Place(c, k + 1, MaxMessages)
    BY <1>1 DEF Lists
  <2>h. \A k \in Entry : k # 0 => h[c[k]] = S.next[c[k]]
    BY <1>c, <1>n, <1>3, <1>5, <2>s
  <2>1. CASE i < n - 1
    <3>1. i + 1 \in Entry /\ i + 1 # 0 /\ i + 1 < n /\ (i + 1) + 1 \in Nat
      BY <1>n, <2>i, <2>1, EntryFacts
    <3>2. r[i] = c[i + 1]
      BY <1>12, <2>1
    <3>3. h[r[i]] = Place(c, (i + 1) + 1, n)
      BY <2>g, <2>h, <3>1, <3>2
    <3>4. (i + 1) + 1 = n <=> i + 1 = n - 1
      BY <1>n, <2>i
    <3>5. i + 1 # n - 1 => r[i + 1] = c[(i + 1) + 1]
      <4>1. i + 1 # n - 1 => i + 1 < n - 1
        BY <1>n, <2>i, <2>1
      <4> QED BY <1>12, <3>1, <4>1
    <3>6. Place(c, (i + 1) + 1, n) = Place(r, i + 1, n - 1)
      BY <3>4, <3>5 DEF Place
    <3> QED BY <2>1, <3>3, <3>6
  <2>2. CASE i = n - 1
    <3>1. ~(i < n - 1) /\ i + 1 = n
      BY <1>n, <2>2
    <3>2. r[i] = c[0]
      BY <1>12, <2>2, <3>1
    <3>3. h[r[i]] = Place(c, n, MaxMessages)
      BY <1>3, <1>5, <2>f, <2>s, <3>2
    <3>4. n # MaxMessages => n \in Entry /\ ~(n < n - 1) /\ n # n - 1
      BY <1>n, EntryFacts
    <3>5. n # MaxMessages => r[n] = c[n]
      BY <1>12, <3>4
    <3>6. Place(c, n, MaxMessages) = Place(r, n, MaxMessages)
      BY <3>5 DEF Place
    <3> QED BY <3>1, <3>3, <3>6
  <2>3. CASE i > n - 1
    <3>1. ~(i < n - 1) /\ i # n - 1 /\ i # 0 /\ ~(i < n)
      BY <1>n, <2>i, <2>3
    <3>2. r[i] = c[i]
      BY <1>12, <3>1
    <3>3. h[r[i]] = Place(c, i + 1, MaxMessages)
      BY <2>g, <2>h, <3>1, <3>2
    <3>4. i + 1 # MaxMessages => i + 1 \in Entry /\ ~(i + 1 < n - 1) /\ i + 1 # n - 1
      BY <1>n, <2>i, <2>3, EntryFacts
    <3>5. i + 1 # MaxMessages => r[i + 1] = c[i + 1]
      BY <1>12, <3>4
    <3>6. Place(c, i + 1, MaxMessages) = Place(r, i + 1, MaxMessages)
      BY <3>5 DEF Place
    <3> QED BY <3>1, <3>3, <3>6
  <2>4. i < n - 1 \/ i = n - 1 \/ i > n - 1
    BY <1>n, <2>i
  <2> QED BY <2>1, <2>2, <2>3, <2>4
<1>18. Lists(r, T)
  <2>1. T.num = n - 1 /\ T.next = h
    BY <1>8
  <2>2. \A i \in Entry : T.next[r[i]] = IF i < T.num THEN Place(r, i + 1, T.num)
                                       ELSE Place(r, i + 1, MaxMessages)
    BY <1>17, <2>1
  <2>3. T.endChain = IF T.num = 0 THEN InvalidOffset ELSE r[T.num - 1]
    BY <1>15, <2>1
  <2>4. T.startChain = Place(r, 0, T.num) /\ T.startFree = Place(r, T.num, MaxMessages)
    BY <1>14, <1>16, <2>1
  <2> QED BY <1>12, <2>2, <2>3, <2>4 DEF Lists
<1> QED BY <1>1, <1>8, <1>9, <1>10, <1>11, <1>18

-----------------------------------------------------------------------------
(* What the routines do to the messages a slot has not read.               *)

LEMMA AppendIs ==
  ASSUME NEW X, NEW n \in Nat, NEW q \in [1 .. n -> X], NEW x \in X,
         NEW r \in [1 .. n + 1 -> X], r[n + 1] = x, \A i \in 1 .. n : r[i] = q[i]
  PROVE  r = Append(q, x)
<1>1. q \in Seq(X) /\ Len(q) = n
  OBVIOUS
<1>a. PICK a : a = Append(q, x)
  OBVIOUS
<1>2. /\ a \in Seq(X) /\ Len(a) = n + 1
      /\ \A i \in 1 .. n : a[i] = q[i]
      /\ a[n + 1] = x
  BY <1>a, <1>1
<1>3. a = [i \in 1 .. n + 1 |-> a[i]]
  <2>1. a \in [1 .. Len(a) -> X]
    BY <1>2
  <2> QED BY <1>2, <2>1
<1>4. ASSUME NEW i \in 1 .. n + 1 PROVE r[i] = a[i]
  <2>1. CASE i = n + 1
    BY <1>2, <2>1
  <2>2. CASE i # n + 1
    <3>1. i \in 1 .. n
      BY <2>2
    <3> QED BY <1>2, <2>2, <3>1
  <2> QED BY <2>1, <2>2
<1> QED BY <1>a, <1>3, <1>4

\* The messages seen from slot s are messages.
LEMMA ViewType ==
  ASSUME NEW S, S \in Seg, NEW c, Lists(c, S), NEW s \in Slot,
         0 <= S.limit[s], S.limit[s] <= S.num
  PROVE  View(S, c, s) \in [1 .. S.num - S.limit[s] -> Msg \cup {NoTag}]
<1>1. ASSUME NEW i \in 1 .. S.num - S.limit[s]
      PROVE  S.data[c[S.limit[s] + i - 1]] \in Msg \cup {NoTag}
  <2>1. /\ S.limit[s] \in Nat /\ S.num \in Nat /\ S.num <= MaxMessages
        /\ MaxMessages \in Nat
    BY SegTypes, EntryFacts
  <2>2. S.limit[s] + i - 1 \in Nat /\ S.limit[s] + i - 1 < MaxMessages
    BY <2>1
  <2>3. c[S.limit[s] + i - 1] \in Entry
    BY <2>2, EntryFacts DEF Lists
  <2> QED BY <2>3, SegTypes
<1> QED BY <1>1 DEF View

LEMMA PostUnread ==
  ASSUME NEW S, S \in Seg, NEW c, Lists(c, S), S.num < MaxMessages, NEW m \in Msg,
         NEW T, T = SISetDataEntry(S, m), NEW s \in Slot,
         0 <= S.limit[s], S.limit[s] <= S.num
  PROVE  Unread(T, s) = Append(Unread(S, s), m)
<1>1. /\ T \in Seg /\ Lists(c, T) /\ T.num = S.num + 1 /\ T.limit = S.limit
      /\ T.data = [S.data EXCEPT ![c[S.num]] = m]
  BY SetData DEF Entered
<1>2. PICK l : l = S.limit[s]
  OBVIOUS
<1>3. PICK n : n = S.num
  OBVIOUS
<1>n. l \in Nat /\ n \in Nat /\ l <= n /\ n < MaxMessages /\ MaxMessages \in Nat
      /\ n \in Entry /\ n - l \in Nat /\ (n + 1) - l = (n - l) + 1
  BY <1>2, <1>3, SegTypes, EntryFacts
<1>4. Unread(S, s) = View(S, c, s)
  BY UnreadIs
<1>5. Unread(T, s) = View(T, c, s)
  <2>1. 0 <= T.limit[s] /\ T.limit[s] <= T.num
    BY <1>1, <1>2, <1>3, <1>n
  <2> QED BY <1>1, <2>1, UnreadIs
<1>6. PICK q : q = View(S, c, s)
  OBVIOUS
<1>7. q \in [1 .. n - l -> Msg \cup {NoTag}]
  BY <1>2, <1>3, <1>6, ViewType
<1>8. PICK r : r = [i \in 1 .. (n - l) + 1 |-> IF i = (n - l) + 1 THEN m ELSE q[i]]
  OBVIOUS
<1>9. r = Append(q, m)
  <2>1. PICK X : X = Msg \cup {NoTag}
    OBVIOUS
  <2>2. PICK k : k = n - l
    OBVIOUS
  <2>3. k \in Nat /\ m \in X /\ q \in [1 .. k -> X]
    BY <1>n, <1>7, <2>1, <2>2
  <2>4. r \in [1 .. k + 1 -> X] /\ r[k + 1] = m /\ \A i \in 1 .. k : r[i] = q[i]
    BY <1>8, <2>2, <2>3
  <2> QED BY <2>3, <2>4, AppendIs
<1>10. ASSUME NEW i \in 1 .. (n - l) + 1 PROVE T.data[c[l + i - 1]] = r[i]
  <2>1. i \in Nat /\ l + i - 1 \in Nat /\ l + i - 1 <= n /\ l + i - 1 \in Entry
        /\ (i = (n - l) + 1 <=> l + i - 1 = n)
    BY <1>n, EntryFacts
  <2>2. PICK k : k = l + i - 1
    OBVIOUS
  <2>3. c[k] \in Entry /\ c[n] \in Entry /\ (c[k] = c[n] <=> k = n)
    BY <1>n, <2>1, <2>2 DEF Lists
  <2>4. T.data[c[k]] = IF k = n THEN m ELSE S.data[c[k]]
    BY <1>1, <1>3, <2>3, SegTypes
  <2>5. i # (n - l) + 1 => q[i] = S.data[c[k]]
    <3>1. i # (n - l) + 1 => i \in 1 .. n - l
      BY <1>n
    <3> QED BY <1>2, <1>3, <1>6, <2>2, <3>1 DEF View
  <2> QED BY <1>8, <2>1, <2>2, <2>4, <2>5
<1>11. View(T, c, s) = r
  <2>1. View(T, c, s) = [i \in 1 .. (n - l) + 1 |-> T.data[c[l + i - 1]]]
    BY <1>1, <1>2, <1>3, <1>n DEF View
  <2>2. r = [i \in 1 .. (n - l) + 1 |-> r[i]]
    BY <1>8
  <2> QED BY <1>10, <2>1, <2>2
<1> QED BY <1>4, <1>5, <1>6, <1>9, <1>11

LEMMA PostGood ==
  ASSUME NEW S, Good(S), S.num < MaxMessages, NEW m \in Msg,
         NEW T, T = SISetDataEntry(S, m)
  PROVE  /\ Good(T) /\ T.num = S.num + 1
         /\ T.limit = S.limit /\ T.reset = S.reset /\ T.tag = S.tag
         /\ \A s \in Slot : 0 <= S.limit[s] => Unread(T, s) = Append(Unread(S, s), m)
<1>1. PICK c : Lists(c, S)
  BY DEF Good
<1>2. S \in Seg /\ \A s \in Slot : S.limit[s] <= S.num
  BY DEF Good
<1>s. S \in Seg
  BY <1>2
<1>3. /\ T \in Seg /\ Lists(c, T) /\ T.num = S.num + 1
      /\ T.limit = S.limit /\ T.reset = S.reset /\ T.tag = S.tag
  BY <1>1, <1>s, SetData
<1>4. \A s \in Slot : T.limit[s] <= T.num
  <2>1. \A s \in Slot : S.limit[s] \in Int /\ S.num \in Int
    BY <1>2, SegTypes
  <2> QED BY <1>2, <1>3, <2>1
<1>5. \A s \in Slot : 0 <= S.limit[s] => Unread(T, s) = Append(Unread(S, s), m)
  BY <1>1, <1>2, PostUnread
<1> QED BY <1>3, <1>4, <1>5 DEF Good

\* A message that slot s has read is dropped.
LEMMA DropUnread ==
  ASSUME NEW S, S \in Seg, NEW c, Lists(c, S), S.num > 0,
         NEW T, T = SIDelDataEntry(S), NEW s \in Slot,
         0 < S.limit[s], S.limit[s] <= S.num
  PROVE  Unread(T, s) = Unread(S, s)
<1>1. /\ T \in Seg /\ Lists(Rotated(c, S.num), T) /\ T.num = S.num - 1
      /\ T.data = S.data /\ T.limit[s] = S.limit[s] - 1
  BY DelData DEF Fewer
<1>2. PICK l : l = S.limit[s]
  OBVIOUS
<1>3. PICK n : n = S.num
  OBVIOUS
<1>n. /\ l \in Nat /\ n \in Nat /\ 0 < l /\ l <= n /\ n <= MaxMessages
      /\ MaxMessages \in Nat /\ (n - 1) - (l - 1) = n - l
      /\ 0 <= l - 1 /\ l - 1 <= n - 1 /\ 0 <= l
  BY <1>2, <1>3, SegTypes, EntryFacts
<1>4. PICK r : r = Rotated(c, n)
  OBVIOUS
<1>5. Unread(S, s) = View(S, c, s)
  BY <1>2, <1>n, UnreadIs
<1>6. Unread(T, s) = View(T, r, s)
  BY <1>1, <1>2, <1>3, <1>4, <1>n, UnreadIs
<1>7. ASSUME NEW i \in 1 .. n - l PROVE r[(l - 1) + i - 1] = c[l + i - 1]
  <2>1. /\ (l - 1) + i - 1 \in Entry /\ (l - 1) + i - 1 < n - 1
        /\ ((l - 1) + i - 1) + 1 = l + i - 1
    BY <1>n, EntryFacts
  <2> QED BY <1>4, <2>1 DEF Rotated
<1>8. View(T, r, s) = [i \in 1 .. n - l |-> S.data[r[(l - 1) + i - 1]]]
  BY <1>1, <1>2, <1>3, <1>n DEF View
<1>9. View(S, c, s) = [i \in 1 .. n - l |-> S.data[c[l + i - 1]]]
  BY <1>2, <1>3 DEF View
<1>10. View(T, r, s) = View(S, c, s)
  BY <1>7, <1>8, <1>9
<1> QED BY <1>5, <1>6, <1>10

LEMMA DropGood ==
  ASSUME NEW S, Good(S), S.num > 0, NEW T, T = SIDelDataEntry(S)
  PROVE  /\ Good(T) /\ T.num = S.num - 1
         /\ T.reset = S.reset /\ T.tag = S.tag /\ Fewer(S, T)
         /\ \A s \in Slot : 0 < S.limit[s] => Unread(T, s) = Unread(S, s)
<1>1. PICK c : Lists(c, S)
  BY DEF Good
<1>2. S \in Seg /\ \A s \in Slot : S.limit[s] <= S.num
  BY DEF Good
<1>3. /\ T \in Seg /\ Lists(Rotated(c, S.num), T) /\ T.num = S.num - 1
      /\ T.reset = S.reset /\ T.tag = S.tag /\ Fewer(S, T)
  BY <1>1, <1>2, DelData
<1>4. ASSUME NEW s \in Slot PROVE T.limit[s] <= T.num
  <2>1. S.limit[s] \in Int /\ S.num \in Nat /\ S.limit[s] <= S.num
    BY <1>2, SegTypes
  <2>2. T.limit[s] = IF S.limit[s] > 0 THEN S.limit[s] - 1 ELSE S.limit[s]
    BY <1>3 DEF Fewer
  <2> QED BY <1>3, <2>1, <2>2
<1>5. \A s \in Slot : 0 < S.limit[s] => Unread(T, s) = Unread(S, s)
  BY <1>1, <1>2, DropUnread
<1>6. \E x : Lists(x, T)
  BY <1>3
<1> QED BY <1>3, <1>4, <1>5, <1>6 DEF Good

\* T has the chains and the messages of S.
SameChains(S, T) ==
  /\ T.num = S.num /\ T.next = S.next /\ T.data = S.data
  /\ T.startChain = S.startChain /\ T.endChain = S.endChain
  /\ T.startFree = S.startFree

LEMMA SameGood ==
  ASSUME NEW S, Good(S), NEW T, T \in Seg, SameChains(S, T),
         \A s \in Slot : T.limit[s] <= T.num
  PROVE  /\ Good(T)
         /\ \A s \in Slot : T.limit[s] = S.limit[s] => Unread(T, s) = Unread(S, s)
<1>1. PICK c : Lists(c, S)
  BY DEF Good
<1>2. Lists(c, T)
  BY <1>1 DEF Lists, SameChains
<1>3. Good(T)
  BY <1>2 DEF Good
<1>4. ASSUME NEW s \in Slot, T.limit[s] = S.limit[s] PROVE Unread(T, s) = Unread(S, s)
  <2>1. S \in Seg /\ S.limit[s] <= S.num /\ S.limit[s] \in Int
    BY SegTypes DEF Good
  <2>2. CASE S.limit[s] < 0
    BY <1>4, <2>2 DEF Unread
  <2>3. CASE ~(S.limit[s] < 0)
    <3>1. 0 <= S.limit[s] /\ 0 <= T.limit[s] /\ T.limit[s] <= T.num
      BY <1>4, <2>1, <2>3
    <3>2. Unread(S, s) = View(S, c, s)
      BY <1>1, <2>1, <3>1, UnreadIs
    <3>3. Unread(T, s) = View(T, c, s)
      BY <1>2, <3>1, UnreadIs
    <3>4. View(T, c, s) = View(S, c, s)
      BY <1>4 DEF View, SameChains
    <3> QED BY <3>2, <3>3, <3>4
  <2> QED BY <2>2, <2>3
<1> QED BY <1>3, <1>4

LEMMA MarkGood ==
  ASSUME NEW S, Good(S), NEW T, T = SISetProcStateInvalid(S)
  PROVE  /\ Good(T) /\ T.num = S.num /\ T.limit = S.limit /\ T.tag = S.tag
         /\ \A s \in Slot : T.reset[s] = (S.reset[s] \/ S.limit[s] = 0)
         /\ \A s \in Slot : Unread(T, s) = Unread(S, s)
<1>1. PICK R : R = [s \in Slot |-> S.reset[s] \/ S.limit[s] = 0]
  OBVIOUS
<1>2. S \in Seg /\ \A s \in Slot : S.limit[s] <= S.num
  BY DEF Good
<1>3. T = [startFree |-> S.startFree, startChain |-> S.startChain,
           endChain |-> S.endChain, num |-> S.num, next |-> S.next,
           data |-> S.data, limit |-> S.limit, reset |-> R, tag |-> S.tag]
  <2>1. S = [startFree |-> S.startFree, startChain |-> S.startChain,
             endChain |-> S.endChain, num |-> S.num, next |-> S.next,
             data |-> S.data, limit |-> S.limit, reset |-> S.reset,
             tag |-> S.tag]
    BY <1>2, SegTypes
  <2>2. T = [S EXCEPT !.reset = R]
    BY <1>1 DEF SISetProcStateInvalid
  <2> QED BY <2>1, <2>2
<1>4. R \in [Slot -> BOOLEAN]
  BY <1>1
<1>5. T \in Seg
  BY <1>2, <1>3, <1>4, SegTypes DEF Seg
<1>6. SameChains(S, T) /\ T.limit = S.limit /\ T.tag = S.tag /\ T.reset = R
  BY <1>3 DEF SameChains
<1>7. /\ Good(T)
      /\ \A s \in Slot : T.limit[s] = S.limit[s] => Unread(T, s) = Unread(S, s)
  <2>1. \A s \in Slot : T.limit[s] <= T.num
    BY <1>2, <1>6 DEF SameChains
  <2> QED BY <1>5, <1>6, <2>1, SameGood
<1> QED BY <1>1, <1>6, <1>7 DEF SameChains

\* T differs from S, if at all, in slot s.
Elsewhere(S, T, s) ==
  \A r \in Slot \ {s} : /\ T.limit[r] = S.limit[r] /\ T.reset[r] = S.reset[r]
                         /\ Unread(T, r) = Unread(S, r)

LEMMA ReadGood ==
  ASSUME NEW S, Good(S), NEW s \in Slot, 0 <= S.limit[s],
         NEW T, T = SIReadEntryData(S, s)
  PROVE  /\ Good(T) /\ T.num = S.num /\ T.tag = S.tag
         /\ T.limit[s] = S.num /\ T.reset[s] = FALSE
         /\ Unread(T, s) = <<>>
         /\ Elsewhere(S, T, s)
<1>2. S \in Seg /\ \A r \in Slot : S.limit[r] <= S.num
  BY DEF Good
<1>c. PICK c : Lists(c, S)
  BY DEF Good
<1>n. S.num \in Nat /\ S.limit[s] \in Nat /\ S.num <= MaxMessages
      /\ MaxMessages \in Nat
  BY <1>2, SegTypes, EntryFacts
<1>3. Len(Unread(S, s)) = S.num - S.limit[s]
  BY <1>c, <1>2, UnreadIs
<1>4. S.limit[s] + Len(Unread(S, s)) = S.num
  BY <1>n, <1>3
<1>5. PICK L : L = [S.limit EXCEPT ![s] = S.num]
  OBVIOUS
<1>6. PICK R : R = [S.reset EXCEPT ![s] = FALSE]
  OBVIOUS
<1>7. T = [startFree |-> S.startFree, startChain |-> S.startChain,
           endChain |-> S.endChain, num |-> S.num, next |-> S.next,
           data |-> S.data, limit |-> L, reset |-> R, tag |-> S.tag]
  <2>1. S = [startFree |-> S.startFree, startChain |-> S.startChain,
             endChain |-> S.endChain, num |-> S.num, next |-> S.next,
             data |-> S.data, limit |-> S.limit, reset |-> S.reset,
             tag |-> S.tag]
    BY <1>2, SegTypes
  <2>2. (IF S.reset[s] THEN S.num ELSE S.limit[s] + Len(Unread(S, s))) = S.num
    BY <1>4
  <2>3. T = [S EXCEPT !.reset = R, !.limit = L]
    BY <1>5, <1>6, <2>2 DEF SIReadEntryData
  <2> QED BY <2>1, <2>3
<1>8. L \in [Slot -> -1 .. MaxMessages]
  <2>1. S.num \in -1 .. MaxMessages
    BY <1>n
  <2> QED BY <1>2, <1>5, <2>1, SegTypes
<1>9. R \in [Slot -> BOOLEAN]
  <2>1. S.reset \in [Slot -> BOOLEAN]
    BY <1>2, SegTypes
  <2>2. FALSE \in BOOLEAN
    BY Zenon
  <2> QED BY <1>6, <2>1, <2>2, Zenon
<1>10. T \in Seg
  BY <1>2, <1>7, <1>8, <1>9, SegTypes DEF Seg
<1>11. SameChains(S, T) /\ T.limit = L /\ T.reset = R /\ T.tag = S.tag
  BY <1>7 DEF SameChains
<1>12. /\ L[s] = S.num /\ \A r \in Slot \ {s} : L[r] = S.limit[r]
  BY <1>2, <1>5, SegTypes
<1>13. /\ R[s] = FALSE /\ \A r \in Slot \ {s} : R[r] = S.reset[r]
  BY <1>2, <1>6, SegTypes
<1>14. \A r \in Slot : T.limit[r] <= T.num
  <2>1. S.num <= S.num
    BY <1>n
  <2>2. T.num = S.num
    BY <1>11 DEF SameChains
  <2> QED BY <1>2, <1>11, <1>12, <2>1, <2>2
<1>15. /\ Good(T)
       /\ \A r \in Slot : T.limit[r] = S.limit[r] => Unread(T, r) = Unread(S, r)
  BY <1>10, <1>11, <1>14, SameGood
<1>16. Unread(T, s) = <<>>
  <2>1. PICK d : Lists(d, T)
    BY <1>15 DEF Good
  <2>2. T.limit[s] = S.num /\ T.num = S.num
    BY <1>11, <1>12 DEF SameChains
  <2>3. 0 <= T.limit[s] /\ T.limit[s] <= T.num /\ T.num - T.limit[s] = 0
    BY <1>n, <2>2
  <2>4. Unread(T, s) = View(T, d, s)
    BY <1>10, <2>1, <2>3, UnreadIs
  <2>5. View(T, d, s) = [i \in 1 .. 0 |-> T.data[d[T.limit[s] + i - 1]]]
    BY <2>3 DEF View
  <2>6. View(T, d, s) = <<>>
    BY <2>5
  <2> QED BY <2>4, <2>6
<1> QED BY <1>11, <1>12, <1>13, <1>15, <1>16 DEF SameChains, Elsewhere

-----------------------------------------------------------------------------
(* Expiry.                                                                 *)

\* What the recursive definition in SIDelExpiredDataEntries says.
IsDel(d, S, n) ==
  d = [k \in 0 .. n |-> IF k = 0 THEN S ELSE SIDelDataEntry(d[k - 1])]

LEMMA DelExists ==
  ASSUME NEW S, NEW n \in Nat
  PROVE  \E d : IsDel(d, S, n)
<1>1. PICK B : B = {m \in Nat : ~\E d : IsDel(d, S, m)}
  OBVIOUS
<1>2. SUFFICES ASSUME B # {} PROVE FALSE
  BY <1>1
<1>3. PICK m \in B : \A y \in B : m <= y
  <2>1. B \subseteq Nat
    BY <1>1
  <2> QED BY <1>2, <2>1, LeastOf
<1>4. m \in Nat /\ ~\E d : IsDel(d, S, m)
  BY <1>1, <1>3
<1>5. CASE m = 0
  <2>1. PICK d : d = [k \in 0 .. 0 |-> S]
    OBVIOUS
  <2>2. IsDel(d, S, 0)
    BY <2>1 DEF IsDel
  <2> QED BY <1>4, <1>5, <2>2
<1>6. CASE m # 0
  <2>1. m - 1 \in Nat /\ ~(m <= m - 1)
    BY <1>4, <1>6
  <2>2. m - 1 \notin B
    BY <1>3, <2>1
  <2>3. PICK d : IsDel(d, S, m - 1)
    BY <1>1, <2>1, <2>2
  <2>4. PICK e : e = [k \in 0 .. m |-> IF k = m THEN SIDelDataEntry(d[m - 1]) ELSE d[k]]
    OBVIOUS
  <2>5. ASSUME NEW k \in 0 .. m
        PROVE  e[k] = IF k = 0 THEN S ELSE SIDelDataEntry(e[k - 1])
    <3>1. CASE k = m
      <4>1. e[k] = SIDelDataEntry(d[m - 1]) /\ e[m - 1] = d[m - 1]
        BY <1>4, <2>1, <2>4, <3>1
      <4> QED BY <1>6, <3>1, <4>1
    <3>2. CASE k # m /\ k # 0
      <4>1. k \in 0 .. m - 1 /\ k - 1 \in 0 .. m /\ k - 1 # m
        BY <1>4, <3>2
      <4>2. e[k] = d[k] /\ e[k - 1] = d[k - 1]
        BY <2>4, <3>2, <4>1
      <4>3. d[k] = SIDelDataEntry(d[k - 1])
        BY <2>3, <3>2, <4>1 DEF IsDel
      <4> QED BY <3>2, <4>2, <4>3
    <3>3. CASE k # m /\ k = 0
      <4>1. d[0] = S
        BY <1>4, <2>1, <2>3 DEF IsDel
      <4> QED BY <1>4, <2>4, <3>3, <4>1
    <3> QED BY <3>1, <3>2, <3>3
  <2>6. IsDel(e, S, m)
    BY <2>4, <2>5 DEF IsDel
  <2> QED BY <1>4, <2>6
<1> QED BY <1>5, <1>6

\* T is S with its first k messages gone, and nobody's among them.
Shed(S, T, k) ==
  /\ Good(T) /\ T.num = S.num - k /\ T.reset = S.reset /\ T.tag = S.tag
  /\ \A s \in Slot : T.limit[s] = IF S.limit[s] < 0 THEN S.limit[s]
                                  ELSE S.limit[s] - k
  /\ \A s \in Slot : 0 <= S.limit[s] =>
       0 <= T.limit[s] /\ Unread(T, s) = Unread(S, s)

LEMMA ShedOne ==
  ASSUME NEW S, Good(S), NEW k \in Nat, k < S.num, NEW U, Shed(S, U, k),
         \A s \in Slot : 0 <= S.limit[s] => k + 1 <= S.limit[s]
  PROVE  Shed(S, SIDelDataEntry(U), k + 1)
<1>1. PICK T : T = SIDelDataEntry(U)
  OBVIOUS
<1>2. S \in Seg /\ S.num \in Nat /\ \A s \in Slot : S.limit[s] \in Int
  BY SegTypes DEF Good
<1>3. Good(U) /\ U.num = S.num - k /\ U.num > 0
  BY <1>2 DEF Shed
<1>4. /\ Good(T) /\ T.num = U.num - 1
      /\ T.reset = U.reset /\ T.tag = U.tag /\ Fewer(U, T)
      /\ \A s \in Slot : 0 < U.limit[s] => Unread(T, s) = Unread(U, s)
  BY <1>1, <1>3, DropGood
<1>5. T.num = S.num - (k + 1)
  BY <1>2, <1>3, <1>4
<1>6. ASSUME NEW s \in Slot
      PROVE  /\ T.limit[s] = IF S.limit[s] < 0 THEN S.limit[s] ELSE S.limit[s] - (k + 1)
             /\ 0 <= S.limit[s] => 0 < U.limit[s] /\ 0 <= T.limit[s]
  <2>1. U.limit[s] = IF S.limit[s] < 0 THEN S.limit[s] ELSE S.limit[s] - k
    BY DEF Shed
  <2>2. T.limit[s] = IF U.limit[s] > 0 THEN U.limit[s] - 1 ELSE U.limit[s]
    BY <1>4 DEF Fewer
  <2>3. S.limit[s] \in Int /\ (0 <= S.limit[s] => k + 1 <= S.limit[s])
    BY <1>2
  <2> QED BY <2>1, <2>2, <2>3
<1>7. ASSUME NEW s \in Slot, 0 <= S.limit[s] PROVE Unread(T, s) = Unread(S, s)
  BY <1>4, <1>6, <1>7 DEF Shed
<1>8. Shed(S, T, k + 1)
  BY <1>4, <1>5, <1>6, <1>7 DEF Shed
<1> QED BY <1>1, <1>8

LEMMA ShedNone == ASSUME NEW S, Good(S) PROVE Shed(S, S, 0)
<1>1. S \in Seg /\ S.num \in Nat /\ \A s \in Slot : S.limit[s] \in Int
  BY SegTypes DEF Good
<1>2. S.num = S.num - 0 /\ \A s \in Slot : S.limit[s] = S.limit[s] - 0
  BY <1>1
<1> QED BY <1>2 DEF Shed

LEMMA ShedMany ==
  ASSUME NEW S, Good(S), NEW d, IsDel(d, S, MaxMessages), NEW n \in Nat, n <= S.num,
         \A s \in Slot : 0 <= S.limit[s] => n <= S.limit[s]
  PROVE  Shed(S, d[n], n)
<1>n. S \in Seg /\ S.num \in Nat /\ S.num <= MaxMessages /\ MaxMessages \in Nat
      /\ \A s \in Slot : S.limit[s] \in Int
  BY SegTypes, EntryFacts DEF Good
<1>1. PICK B : B = {k \in 0 .. n : ~Shed(S, d[k], k)}
  OBVIOUS
<1>2. B = {}
  <2> SUFFICES ASSUME B # {} PROVE FALSE
    OBVIOUS
  <2>1. B \subseteq Nat
    BY <1>1
  <2>2. PICK k \in B : \A y \in B : k <= y
    BY <2>1, LeastOf
  <2>3. k \in 0 .. n /\ ~Shed(S, d[k], k)
    BY <1>1, <2>2
  <2>4. CASE k = 0
    <3>1. d[0] = S
      BY <1>n DEF IsDel
    <3> QED BY <2>3, <2>4, <3>1, ShedNone
  <2>5. CASE k # 0
    <3>1. PICK j : j = k - 1
      OBVIOUS
    <3>2. j \in Nat /\ j \in 0 .. n /\ ~(k <= j) /\ j + 1 = k /\ j < S.num
      BY <1>n, <2>3, <2>5, <3>1
    <3>3. Shed(S, d[j], j)
      BY <1>1, <2>2, <3>2
    <3>4. \A s \in Slot : 0 <= S.limit[s] => j + 1 <= S.limit[s]
      BY <1>n, <2>3, <3>2
    <3>5. PICK U : U = d[j]
      OBVIOUS
    <3>6. Shed(S, SIDelDataEntry(U), j + 1)
      BY <3>2, <3>3, <3>4, <3>5, ShedOne
    <3>7. k \in 0 .. MaxMessages
      BY <1>n, <2>3
    <3>8. d[k] = SIDelDataEntry(d[k - 1])
      BY <2>5, <3>7 DEF IsDel
    <3> QED BY <2>3, <3>1, <3>2, <3>5, <3>6, <3>8
  <2> QED BY <2>4, <2>5
<1>3. n \in 0 .. n
  OBVIOUS
<1> QED BY <1>1, <1>2, <1>3

\* Expiry takes nobody's messages.
LEMMA ExpireGood ==
  ASSUME NEW S, Good(S), NEW T, T = SIDelExpiredDataEntries(S)
  PROVE  \E n \in Nat : Shed(S, T, n)
<1>1. PICK A : A = {S.limit[s] : s \in {s \in Slot : S.limit[s] >= 0}}
  OBVIOUS
<1>n. S \in Seg /\ S.num \in Nat /\ S.num <= MaxMessages /\ MaxMessages \in Nat
      /\ \A s \in Slot : S.limit[s] \in Int /\ S.limit[s] <= S.num
  BY SegTypes, EntryFacts DEF Good
<1>2. CASE A = {}
  <2>1. T = S
    BY <1>1, <1>2 DEF SIDelExpiredDataEntries
  <2> QED BY <2>1, ShedNone
<1>3. CASE A # {}
  <2>1. A \subseteq Nat
    BY <1>1, <1>n
  <2>2. PICK n : n = CHOOSE min \in A : \A l \in A : min <= l
    OBVIOUS
  <2>3. n \in A /\ \A l \in A : n <= l
    BY <1>3, <2>1, <2>2, LeastOf
  <2>4. n \in Nat /\ n <= S.num /\ \A s \in Slot : 0 <= S.limit[s] => n <= S.limit[s]
    BY <1>1, <1>n, <2>1, <2>3
  <2> DEFINE D(h) == h = [k \in 0 .. MaxMessages |->
                            IF k = 0 THEN S ELSE SIDelDataEntry(h[k - 1])]
  <2>5. PICK d : d = CHOOSE h : D(h)
    OBVIOUS
  <2>6. D(d)
    <3>1. \E h : D(h)
      BY <1>n, DelExists DEF IsDel
    <3> HIDE DEF D
    <3> QED BY <2>5, <3>1
  <2>7. IsDel(d, S, MaxMessages)
    BY <2>6 DEF IsDel
  <2>8. T = d[n]
    BY <1>1, <1>3, <2>2, <2>5 DEF SIDelExpiredDataEntries
  <2> HIDE DEF D
  <2> QED BY <2>4, <2>7, <2>8, ShedMany
<1> QED BY <1>2, <1>3

-----------------------------------------------------------------------------
(* The invariant.                                                          *)

\* A backend that has not left has its tag in its slot; one that reads is
\* counted there.
Owned(b) ==
  /\ pc[b] = "out" => id[b] = 0
  /\ pc[b] # "out" => id[b] \in Slot /\ seg.tag[id[b]] = b
  /\ pc[b] = "up" => 0 <= seg.limit[id[b]]

IInv == TypeOK /\ Good(seg) /\ \A b \in Backend : Owned(b)

\* A segment that a critical section may lead to.
Reached(S) ==
  /\ Good(S) /\ S.tag = seg.tag
  /\ \A b \in Backend : pc[b] = "up" => 0 <= S.limit[id[b]]

\* The segment and the slots of the backends that read are what the section
\* leads to, whatever exits fall into it.
Led(S) ==
  /\ seg'.reset = S.reset
  /\ pc' \in [Backend -> PC] /\ id' = id
  /\ \A b \in Backend : pc'[b] = "up" <=> pc[b] = "up"
  /\ \A b \in Backend : pc[b] = "up" =>
       /\ seg'.limit[id[b]] = S.limit[id[b]]
       /\ Unread(seg', id[b]) = Unread(S, id[b])

\* No two backends that have not left share a slot.
LEMMA SlotsApart ==
  ASSUME IInv, NEW b \in Backend, NEW c \in Backend, b # c,
         pc[b] # "out", pc[c] # "out"
  PROVE  id[b] # id[c]
BY DEF IInv, Owned

LEMMA SectionLeads ==
  ASSUME IInv, NEW S, Reached(S), Section(S)
  PROVE  IInv' /\ Led(S)
<1>0. PICK R \in SUBSET Racing(S) : \E Z \in SUBSET R :
        /\ seg' = [S EXCEPT !.limit = [s \in Slot |->
                     IF \E b \in Z : id[b] = s THEN 0 ELSE S.limit[s]]]
        /\ pc' = [b \in Backend |-> IF b \in R THEN "exitTag" ELSE pc[b]]
        /\ UNCHANGED id
  BY DEF Section
<1>1. PICK Z \in SUBSET R :
        /\ seg' = [S EXCEPT !.limit = [s \in Slot |->
                     IF \E b \in Z : id[b] = s THEN 0 ELSE S.limit[s]]]
        /\ pc' = [b \in Backend |-> IF b \in R THEN "exitTag" ELSE pc[b]]
        /\ UNCHANGED id
  BY <1>0
<1>2. PICK L : L = [s \in Slot |-> IF \E b \in Z : id[b] = s THEN 0 ELSE S.limit[s]]
  OBVIOUS
<1>3. S \in Seg /\ S.tag = seg.tag /\ Good(S)
  BY DEF Reached, Good
<1>n. S.num \in Nat /\ S.num <= MaxMessages /\ MaxMessages \in Nat
  BY <1>3, SegTypes, EntryFacts
<1>4. seg' = [startFree |-> S.startFree, startChain |-> S.startChain,
              endChain |-> S.endChain, num |-> S.num, next |-> S.next,
              data |-> S.data, limit |-> L, reset |-> S.reset, tag |-> S.tag]
  <2>1. S = [startFree |-> S.startFree, startChain |-> S.startChain,
             endChain |-> S.endChain, num |-> S.num, next |-> S.next,
             data |-> S.data, limit |-> S.limit, reset |-> S.reset,
             tag |-> S.tag]
    BY <1>3, SegTypes
  <2>2. seg' = [S EXCEPT !.limit = L]
    BY <1>1, <1>2
  <2> QED BY <2>1, <2>2
<1>5. ASSUME NEW s \in Slot
      PROVE  L[s] \in -1 .. MaxMessages /\ L[s] <= S.num
  <2>1. S.limit[s] \in -1 .. MaxMessages /\ S.limit[s] <= S.num
    BY <1>3, SegTypes DEF Good
  <2>2. L[s] = 0 \/ L[s] = S.limit[s]
    BY <1>2
  <2>3. 0 \in -1 .. MaxMessages /\ 0 <= S.num
    BY <1>n
  <2> QED BY <2>1, <2>2, <2>3
<1>6. L \in [Slot -> -1 .. MaxMessages]
  BY <1>2, <1>5
<1>7. PICK T : T = seg'
  OBVIOUS
<1>8. T \in Seg
  BY <1>3, <1>4, <1>6, <1>7, SegTypes DEF Seg
<1>9. SameChains(S, T) /\ T.limit = L /\ T.reset = S.reset /\ T.tag = S.tag
  BY <1>4, <1>7 DEF SameChains
<1>10. \A s \in Slot : T.limit[s] <= T.num
  BY <1>5, <1>9 DEF SameChains
<1>11. /\ Good(T)
       /\ \A s \in Slot : T.limit[s] = S.limit[s] => Unread(T, s) = Unread(S, s)
  BY <1>3, <1>8, <1>9, <1>10, SameGood
<1>12. \A b \in R : b \in Backend /\ pc[b] = "exitLimit"
  BY <1>1 DEF Racing
<1>13. pc \in [Backend -> PC] /\ id \in [Backend -> Slot \cup {0}]
  BY DEF IInv, TypeOK
<1>14. pc' \in [Backend -> PC] /\ id' = id
  BY <1>1, <1>13 DEF PC
<1>15. \A b \in Backend : /\ pc'[b] = "up" <=> pc[b] = "up"
                          /\ pc'[b] = "out" <=> pc[b] = "out"
  BY <1>1, <1>12
<1>16. ASSUME NEW b \in Backend, pc[b] = "up"
       PROVE  id[b] \in Slot /\ T.limit[id[b]] = S.limit[id[b]]
  <2>1. id[b] \in Slot
    BY <1>16 DEF IInv, Owned
  <2>2. \A z \in Z : id[z] # id[b]
    <3> SUFFICES ASSUME NEW z \in Z PROVE id[z] # id[b]
      OBVIOUS
    <3>1. z \in Backend /\ pc[z] = "exitLimit"
      BY <1>1, <1>12
    <3> QED BY <1>16, <3>1, SlotsApart
  <2> QED BY <1>2, <1>9, <2>1, <2>2
<1>17. Led(S)
  BY <1>7, <1>9, <1>11, <1>14, <1>15, <1>16 DEF Led
<1>18. ASSUME NEW b \in Backend PROVE Owned(b)'
  <2>1. Owned(b)
    BY DEF IInv
  <2>2. pc'[b] = "out" => id'[b] = 0
    BY <1>14, <1>15, <2>1 DEF Owned
  <2>3. pc'[b] # "out" => id'[b] \in Slot /\ seg'.tag[id'[b]] = b
    BY <1>3, <1>7, <1>9, <1>14, <1>15, <2>1 DEF Owned
  <2>4. pc'[b] = "up" => 0 <= seg'.limit[id'[b]]
    BY <1>7, <1>14, <1>15, <1>16 DEF Reached
  <2> QED BY <2>2, <2>3, <2>4 DEF Owned
<1>19. TypeOK'
  <2>1. id' \in [Backend -> Slot \cup {0}]
    BY <1>13, <1>14
  <2> QED BY <1>7, <1>8, <1>14, <2>1 DEF TypeOK
<1>20. Good(seg')
  BY <1>7, <1>11
<1> QED BY <1>17, <1>18, <1>19, <1>20 DEF IInv

-----------------------------------------------------------------------------
(* The steps of a backend.                                                 *)

\* What a registration leads to: message m is behind all others, and whoever
\* had not read the one that was dropped for it is told to reset.
Registered(S, m) ==
  \A s \in Slot : 0 <= seg.limit[s] =>
    /\ S.reset[s] = (seg.reset[s] \/ (seg.num = MaxMessages /\ seg.limit[s] = 0))
    /\ ~S.reset[s] => Unread(S, s) = Append(Unread(seg, s), m)

LEMMA RegisterReach ==
  ASSUME IInv, NEW m \in Msg, NEW P, NEW S,
         P = IF Full(seg) THEN SIDelDataEntry(SISetProcStateInvalid(seg)) ELSE seg,
         S = SISetDataEntry(P, m)
  PROVE  Reached(S) /\ Registered(S, m)
<1>1. Good(seg) /\ seg \in Seg
  BY DEF IInv, Good
<1>n. seg.num \in Nat /\ seg.num <= MaxMessages /\ MaxMessages \in Nat /\ MaxMessages > 0
  BY <1>1, SegTypes, EntryFacts
<1>l. \A s \in Slot : seg.limit[s] \in Int /\ seg.reset[s] \in BOOLEAN
  BY <1>1, SegTypes
<1>2. /\ Good(P) /\ P.num < MaxMessages /\ P.tag = seg.tag
      /\ \A s \in Slot : 0 <= seg.limit[s] =>
           /\ 0 <= P.limit[s]
           /\ P.reset[s] = (seg.reset[s] \/ (seg.num = MaxMessages /\ seg.limit[s] = 0))
           /\ ~P.reset[s] => Unread(P, s) = Unread(seg, s)
  <2>1. CASE ~Full(seg)
    <3>1. P = seg
      BY <2>1
    <3>2. seg.num # MaxMessages /\ seg.num < MaxMessages
      BY <1>n, <2>1 DEF Full
    <3> QED BY <1>1, <1>l, <3>1, <3>2
  <2>2. CASE Full(seg)
    <3>1. PICK M : M = SISetProcStateInvalid(seg)
      OBVIOUS
    <3>2. /\ Good(M) /\ M.num = seg.num /\ M.limit = seg.limit /\ M.tag = seg.tag
          /\ \A s \in Slot : M.reset[s] = (seg.reset[s] \/ seg.limit[s] = 0)
          /\ \A s \in Slot : Unread(M, s) = Unread(seg, s)
      BY <1>1, <3>1, MarkGood
    <3>3. P = SIDelDataEntry(M) /\ M.num > 0
      BY <1>n, <2>2, <3>1, <3>2 DEF Full
    <3>4. /\ Good(P) /\ P.num = M.num - 1
          /\ P.reset = M.reset /\ P.tag = M.tag /\ Fewer(M, P)
          /\ \A s \in Slot : 0 < M.limit[s] => Unread(P, s) = Unread(M, s)
      BY <3>2, <3>3, DropGood
    <3>5. P.num < MaxMessages
      BY <1>n, <3>2, <3>4
    <3>6. ASSUME NEW s \in Slot, 0 <= seg.limit[s]
          PROVE  /\ 0 <= P.limit[s]
                 /\ P.reset[s] = (seg.reset[s] \/ (seg.num = MaxMessages /\ seg.limit[s] = 0))
                 /\ ~P.reset[s] => Unread(P, s) = Unread(seg, s)
      <4>1. P.reset[s] = (seg.reset[s] \/ seg.limit[s] = 0)
        BY <3>2, <3>4
      <4>2. P.reset[s] = (seg.reset[s] \/ (seg.num = MaxMessages /\ seg.limit[s] = 0))
        BY <2>2, <4>1 DEF Full
      <4>3. P.limit[s] = IF seg.limit[s] > 0 THEN seg.limit[s] - 1 ELSE seg.limit[s]
        BY <3>2, <3>4 DEF Fewer
      <4>4. 0 <= P.limit[s]
        BY <1>l, <3>6, <4>3
      <4>5. ASSUME ~P.reset[s] PROVE Unread(P, s) = Unread(seg, s)
        <5>1. seg.limit[s] # 0
          BY <4>1, <4>5
        <5>2. 0 < M.limit[s]
          BY <1>l, <3>2, <3>6, <5>1
        <5> QED BY <3>2, <3>4, <5>2
      <4> QED BY <4>2, <4>4, <4>5
    <3> QED BY <3>2, <3>4, <3>5, <3>6
  <2> QED BY <2>1, <2>2
<1>3. /\ Good(S) /\ S.limit = P.limit /\ S.reset = P.reset /\ S.tag = P.tag
      /\ \A s \in Slot : 0 <= P.limit[s] => Unread(S, s) = Append(Unread(P, s), m)
  BY <1>2, PostGood
<1>4. Reached(S)
  <2>1. \A b \in Backend : pc[b] = "up" => id[b] \in Slot /\ 0 <= seg.limit[id[b]]
    BY DEF IInv, Owned
  <2> QED BY <1>2, <1>3, <2>1 DEF Reached
<1>5. Registered(S, m)
  BY <1>2, <1>3 DEF Registered
<1> QED BY <1>4, <1>5

\* What a read leads to: backend b has nothing left to read, and the others
\* have what they had.
Given(S, b) ==
  /\ S.reset[id[b]] = FALSE /\ Unread(S, id[b]) = <<>>
  /\ \A s \in Slot : 0 <= seg.limit[s] /\ s # id[b] =>
       S.reset[s] = seg.reset[s] /\ Unread(S, s) = Unread(seg, s)

LEMMA InvalidateReach ==
  ASSUME IInv, NEW b \in Backend, pc[b] = "up", NEW S,
         S = SIDelExpiredDataEntries(SIReadEntryData(seg, id[b]))
  PROVE  Reached(S) /\ Given(S, b)
<1>1. Good(seg) /\ seg \in Seg
  BY DEF IInv, Good
<1>n. seg.num \in Nat /\ \A s \in Slot : seg.limit[s] \in Int
  BY <1>1, SegTypes
<1>2. PICK i : i = id[b]
  OBVIOUS
<1>3. i \in Slot /\ 0 <= seg.limit[i]
  BY <1>2 DEF IInv, Owned
<1>4. PICK U : U = SIReadEntryData(seg, i)
  OBVIOUS
<1>5. /\ Good(U) /\ U.num = seg.num /\ U.tag = seg.tag
      /\ U.limit[i] = seg.num /\ U.reset[i] = FALSE
      /\ Unread(U, i) = <<>>
      /\ Elsewhere(seg, U, i)
  BY <1>1, <1>3, <1>4, ReadGood
<1>6. S = SIDelExpiredDataEntries(U)
  BY <1>2, <1>4
<1>7. PICK n \in Nat : Shed(U, S, n)
  BY <1>5, <1>6, ExpireGood
<1>8. \A s \in Slot : 0 <= seg.limit[s] => 0 <= U.limit[s]
  BY <1>n, <1>5 DEF Elsewhere
<1>9. \A s \in Slot : 0 <= U.limit[s] => 0 <= S.limit[s]
  BY <1>7 DEF Shed
<1>10. Reached(S)
  <2>1. \A c \in Backend : pc[c] = "up" => id[c] \in Slot /\ 0 <= seg.limit[id[c]]
    BY DEF IInv, Owned
  <2> QED BY <1>5, <1>7, <1>8, <1>9, <2>1 DEF Reached, Shed
<1>11. Given(S, b)
  <2>1. S.reset = U.reset /\ \A s \in Slot : 0 <= U.limit[s] => Unread(S, s) = Unread(U, s)
    BY <1>7 DEF Shed
  <2> QED BY <1>2, <1>3, <1>5, <1>8, <2>1 DEF Given, Elsewhere
<1> QED BY <1>10, <1>11

LEMMA RegisterStep ==
  ASSUME IInv, NEW b \in Backend, NEW m \in Msg, RegisterSharedInvalid(b, m)
  PROVE  IInv' /\ got' = <<>> /\ \E S : Led(S) /\ Registered(S, m)
<1>1. PICK P : P = IF Full(seg) THEN SIDelDataEntry(SISetProcStateInvalid(seg)) ELSE seg
  OBVIOUS
<1>2. PICK S : S = SISetDataEntry(P, m)
  OBVIOUS
<1>3. Reached(S) /\ Registered(S, m)
  BY <1>1, <1>2, RegisterReach
<1>4. Section(S) /\ got' = <<>>
  BY <1>1, <1>2 DEF RegisterSharedInvalid
<1>5. IInv' /\ Led(S)
  BY <1>3, <1>4, SectionLeads
<1> QED BY <1>3, <1>4, <1>5

LEMMA InvalidateStep ==
  ASSUME IInv, NEW b \in Backend, InvalidateSharedInvalid(b)
  PROVE  IInv' /\ pc[b] = "up" /\ \E S : Led(S) /\ Given(S, b)
<1>1. PICK S : S = SIDelExpiredDataEntries(SIReadEntryData(seg, id[b]))
  OBVIOUS
<1>2. pc[b] = "up" /\ Section(S)
  BY <1>1 DEF InvalidateSharedInvalid
<1>3. Reached(S) /\ Given(S, b)
  BY <1>1, <1>2, InvalidateReach
<1>4. IInv' /\ Led(S)
  BY <1>2, <1>3, SectionLeads
<1> QED BY <1>2, <1>3, <1>4

\* What another backend sees of a step that is not its own: nothing.
Kept(b) ==
  /\ pc'[b] = pc[b] /\ id'[b] = id[b]
  /\ pc[b] = "up" =>
       seg'.reset[id[b]] = seg.reset[id[b]] /\ Unread(seg', id[b]) = Unread(seg, id[b])

LEMMA JoinStep ==
  ASSUME IInv, NEW b \in Backend, InitSharedInvalidationState(b)
  PROVE  /\ IInv' /\ \A c \in Backend \ {b} : Kept(c)
         /\ pc[b] = "out" /\ pc'[b] = "up"
         /\ seg'.reset[id'[b]] = FALSE /\ Unread(seg', id'[b]) = <<>>
<1>1. PICK s \in Slot :
        /\ seg.tag[s] = NoTag
        /\ seg' = [seg EXCEPT !.tag = [seg.tag EXCEPT ![s] = b],
                              !.reset = [seg.reset EXCEPT ![s] = FALSE],
                              !.limit = [seg.limit EXCEPT ![s] = seg.num]]
        /\ id' = [id EXCEPT ![b] = s]
  BY DEF InitSharedInvalidationState
<1>2. pc[b] = "out" /\ pc' = [pc EXCEPT ![b] = "up"]
  BY DEF InitSharedInvalidationState
<1>3. seg \in Seg /\ Good(seg) /\ pc \in [Backend -> PC] /\ id \in [Backend -> Slot \cup {0}]
  BY DEF IInv, TypeOK
<1>n. seg.num \in Nat /\ seg.num <= MaxMessages /\ MaxMessages \in Nat
  BY <1>3, SegTypes, EntryFacts
<1>4. PICK G : G = [seg.tag EXCEPT ![s] = b]
  OBVIOUS
<1>5. PICK R : R = [seg.reset EXCEPT ![s] = FALSE]
  OBVIOUS
<1>6. PICK L : L = [seg.limit EXCEPT ![s] = seg.num]
  OBVIOUS
<1>7. PICK T : T = seg'
  OBVIOUS
<1>8. T = [startFree |-> seg.startFree, startChain |-> seg.startChain,
           endChain |-> seg.endChain, num |-> seg.num, next |-> seg.next,
           data |-> seg.data, limit |-> L, reset |-> R, tag |-> G]
  <2>1. seg = [startFree |-> seg.startFree, startChain |-> seg.startChain,
               endChain |-> seg.endChain, num |-> seg.num, next |-> seg.next,
               data |-> seg.data, limit |-> seg.limit, reset |-> seg.reset,
               tag |-> seg.tag]
    BY <1>3, SegTypes
  <2>2. T = [seg EXCEPT !.tag = G, !.reset = R, !.limit = L]
    BY <1>1, <1>4, <1>5, <1>6, <1>7
  <2> QED BY <2>1, <2>2
<1>9. G \in [Slot -> Backend \cup {NoTag}] /\ G[s] = b
      /\ \A r \in Slot : r # s => G[r] = seg.tag[r]
  BY <1>3, <1>4, SegTypes
<1>10. R \in [Slot -> BOOLEAN] /\ R[s] = FALSE
       /\ \A r \in Slot : r # s => R[r] = seg.reset[r]
  <2>1. seg.reset \in [Slot -> BOOLEAN]
    BY <1>3, SegTypes
  <2>2. FALSE \in BOOLEAN
    BY Zenon
  <2>3. R \in [Slot -> BOOLEAN]
    BY <1>5, <2>1, <2>2, Zenon
  <2> QED BY <1>5, <2>1, <2>3
<1>11. L \in [Slot -> -1 .. MaxMessages] /\ L[s] = seg.num
       /\ \A r \in Slot : r # s => L[r] = seg.limit[r]
  <2>1. seg.num \in -1 .. MaxMessages
    BY <1>n
  <2> QED BY <1>3, <1>6, <2>1, SegTypes
<1>12. T \in Seg
  BY <1>3, <1>8, <1>9, <1>10, <1>11, SegTypes DEF Seg
<1>13. SameChains(seg, T) /\ T.limit = L /\ T.reset = R /\ T.tag = G
  BY <1>8 DEF SameChains
<1>14. \A r \in Slot : T.limit[r] <= T.num
  <2>1. \A r \in Slot : seg.limit[r] <= seg.num
    BY <1>3 DEF Good
  <2>2. seg.num <= seg.num /\ T.num = seg.num
    BY <1>n, <1>13 DEF SameChains
  <2> QED BY <1>11, <1>13, <2>1, <2>2
<1>15. /\ Good(T)
       /\ \A r \in Slot : T.limit[r] = seg.limit[r] => Unread(T, r) = Unread(seg, r)
  BY <1>3, <1>12, <1>13, <1>14, SameGood
<1>16. pc'[b] = "up" /\ id'[b] = s
  BY <1>1, <1>2, <1>3
<1>17. \A c \in Backend \ {b} : pc'[c] = pc[c] /\ id'[c] = id[c]
  BY <1>1, <1>2, <1>3
<1>18. \A c \in Backend : pc[c] # "out" => id[c] \in Slot /\ id[c] # s
  <2>1. \A c \in Backend : c # NoTag
    BY SInvalAssumption
  <2> QED BY <1>1, <2>1 DEF IInv, Owned
<1>19. ASSUME NEW c \in Backend \ {b} PROVE Kept(c)
  BY <1>7, <1>10, <1>11, <1>13, <1>15, <1>17, <1>18 DEF Kept
<1>20. Unread(T, s) = <<>>
  <2>1. PICK d : Lists(d, T)
    BY <1>15 DEF Good
  <2>2. T.limit[s] = seg.num /\ T.num = seg.num
    BY <1>11, <1>13 DEF SameChains
  <2>3. 0 <= T.limit[s] /\ T.limit[s] <= T.num /\ T.num - T.limit[s] = 0
    BY <1>n, <2>2
  <2>4. Unread(T, s) = View(T, d, s)
    BY <1>12, <2>1, <2>3, UnreadIs
  <2>5. View(T, d, s) = [i \in 1 .. 0 |-> T.data[d[T.limit[s] + i - 1]]]
    BY <2>3 DEF View
  <2>6. View(T, d, s) = <<>>
    BY <2>5
  <2> QED BY <2>4, <2>6
<1>21. ASSUME NEW c \in Backend PROVE Owned(c)'
  <2>1. CASE c = b
    <3>1. 0 <= L[s]
      BY <1>n, <1>11
    <3> QED BY <1>7, <1>9, <1>13, <1>16, <2>1, <3>1 DEF Owned
  <2>2. CASE c # b
    <3>1. Owned(c)
      BY DEF IInv
    <3> QED BY <1>7, <1>9, <1>11, <1>13, <1>17, <1>18, <2>2, <3>1 DEF Owned
  <2> QED BY <2>1, <2>2
<1>22. TypeOK'
  <2>1. pc' \in [Backend -> PC]
    BY <1>2, <1>3 DEF PC
  <2>2. id' \in [Backend -> Slot \cup {0}]
    BY <1>1, <1>3
  <2> QED BY <1>7, <1>12, <2>1, <2>2 DEF TypeOK
<1> QED BY <1>2, <1>7, <1>10, <1>13, <1>15, <1>16, <1>19, <1>20, <1>21, <1>22 DEF IInv

\* Exit and Kill leave the segment alone.
LEMMA LeaveStep ==
  ASSUME IInv, NEW b \in Backend, Exit(b) \/ Kill(b)
  PROVE  /\ IInv' /\ \A c \in Backend \ {b} : Kept(c)
         /\ pc[b] = "up" /\ pc'[b] # "up" /\ got' = <<>>
<1>1. PICK x \in {"exitReset", "killed"} :
        pc[b] = "up" /\ pc' = [pc EXCEPT ![b] = x] /\ seg' = seg /\ id' = id /\ got' = <<>>
  BY DEF Exit, Kill
<1>2. pc \in [Backend -> PC] /\ x \in PC
  BY DEF IInv, TypeOK, PC
<1>3. pc' \in [Backend -> PC] /\ pc'[b] = x /\ \A c \in Backend \ {b} : pc'[c] = pc[c]
  BY <1>1, <1>2
<1>4. TypeOK' /\ Good(seg')
  BY <1>1, <1>3 DEF IInv, TypeOK
<1>5. ASSUME NEW c \in Backend PROVE Owned(c)'
  <2>1. Owned(c)
    BY DEF IInv
  <2>2. /\ pc'[c] = "out" => pc[c] = "out"
        /\ pc'[c] # "out" => pc[c] # "out"
        /\ pc'[c] = "up" => pc[c] = "up"
    BY <1>1, <1>3
  <2> QED BY <1>1, <2>1, <2>2 DEF Owned
<1>6. \A c \in Backend \ {b} : Kept(c)
  BY <1>1, <1>3 DEF Kept
<1>7. pc'[b] # "up"
  BY <1>3
<1> QED BY <1>1, <1>4, <1>5, <1>6, <1>7 DEF IInv

\* One of the three stores of an exit is to the slot that the backend still
\* has, or, with its tag, gives back.
LEMMA DeadStep ==
  ASSUME IInv, NEW b \in Backend, SISetDeadProcess(b)
  PROVE  /\ IInv' /\ \A c \in Backend \ {b} : Kept(c)
         /\ pc[b] # "up" /\ pc'[b] # "up" /\ got' = got
<1>3. seg \in Seg /\ Good(seg) /\ pc \in [Backend -> PC] /\ id \in [Backend -> Slot \cup {0}]
  BY DEF IInv, TypeOK
<1>n. seg.num \in Nat /\ MaxMessages \in Nat
  BY <1>3, SegTypes, EntryFacts
<1>p. pc[b] \in {"exitReset", "exitLimit", "exitTag"} /\ got' = got
  BY DEF SISetDeadProcess
<1>o. Owned(b)
  BY DEF IInv
<1>1. PICK i : i = id[b]
  OBVIOUS
<1>2. i \in Slot
  BY <1>o, <1>1, <1>p DEF Owned
<1>4. PICK R : R = IF pc[b] = "exitReset" THEN [seg.reset EXCEPT ![i] = FALSE]
                   ELSE seg.reset
  OBVIOUS
<1>5. PICK L : L = IF pc[b] = "exitLimit" THEN [seg.limit EXCEPT ![i] = -1]
                   ELSE seg.limit
  OBVIOUS
<1>6. PICK G : G = IF pc[b] = "exitTag" THEN [seg.tag EXCEPT ![i] = NoTag]
                   ELSE seg.tag
  OBVIOUS
<1>7. PICK T : T = seg'
  OBVIOUS
<1>8. T = [startFree |-> seg.startFree, startChain |-> seg.startChain,
           endChain |-> seg.endChain, num |-> seg.num, next |-> seg.next,
           data |-> seg.data, limit |-> L, reset |-> R, tag |-> G]
  <2>1. seg = [startFree |-> seg.startFree, startChain |-> seg.startChain,
               endChain |-> seg.endChain, num |-> seg.num, next |-> seg.next,
               data |-> seg.data, limit |-> seg.limit, reset |-> seg.reset,
               tag |-> seg.tag]
    BY <1>3, SegTypes
  <2>2. CASE pc[b] = "exitReset"
    <3>1. R = [seg.reset EXCEPT ![i] = FALSE] /\ L = seg.limit /\ G = seg.tag
      BY <1>4, <1>5, <1>6, <2>2
    <3>2. T = [seg EXCEPT !.reset = R]
      BY <1>1, <1>7, <2>2, <3>1 DEF SISetDeadProcess
    <3> QED BY <2>1, <3>1, <3>2
  <2>3. CASE pc[b] = "exitLimit"
    <3>1. L = [seg.limit EXCEPT ![i] = -1] /\ R = seg.reset /\ G = seg.tag
      BY <1>4, <1>5, <1>6, <2>3
    <3>2. T = [seg EXCEPT !.limit = L]
      BY <1>1, <1>7, <2>3, <3>1 DEF SISetDeadProcess
    <3> QED BY <2>1, <3>1, <3>2
  <2>4. CASE pc[b] = "exitTag"
    <3>1. G = [seg.tag EXCEPT ![i] = NoTag] /\ R = seg.reset /\ L = seg.limit
      BY <1>4, <1>5, <1>6, <2>4
    <3>2. T = [seg EXCEPT !.tag = G]
      BY <1>1, <1>7, <2>4, <3>1 DEF SISetDeadProcess
    <3> QED BY <2>1, <3>1, <3>2
  <2> QED BY <1>p, <2>2, <2>3, <2>4
<1>9. G \in [Slot -> Backend \cup {NoTag}] /\ (pc[b] # "exitTag" => G = seg.tag)
      /\ \A r \in Slot : r # i => G[r] = seg.tag[r]
  BY <1>3, <1>6, SegTypes
<1>10. R \in [Slot -> BOOLEAN] /\ \A r \in Slot : r # i => R[r] = seg.reset[r]
  <2>1. seg.reset \in [Slot -> BOOLEAN]
    BY <1>3, SegTypes
  <2>2. FALSE \in BOOLEAN
    BY Zenon
  <2>3. [seg.reset EXCEPT ![i] = FALSE] \in [Slot -> BOOLEAN]
    BY <2>1, <2>2, Zenon
  <2>4. R \in [Slot -> BOOLEAN]
    BY <1>4, <2>1, <2>3
  <2> QED BY <1>4, <2>1, <2>4
<1>11. L \in [Slot -> -1 .. MaxMessages] /\ (L[i] = -1 \/ L[i] = seg.limit[i])
       /\ \A r \in Slot : r # i => L[r] = seg.limit[r]
  <2>1. -1 \in -1 .. MaxMessages
    BY <1>n
  <2> QED BY <1>2, <1>3, <1>5, <2>1, SegTypes
<1>12. T \in Seg
  BY <1>3, <1>8, <1>9, <1>10, <1>11, SegTypes DEF Seg
<1>13. SameChains(seg, T) /\ T.limit = L /\ T.reset = R /\ T.tag = G
  BY <1>8 DEF SameChains
<1>14. \A r \in Slot : T.limit[r] <= T.num
  <2>1. \A r \in Slot : seg.limit[r] <= seg.num
    BY <1>3 DEF Good
  <2>2. -1 <= seg.num /\ T.num = seg.num
    BY <1>n, <1>13 DEF SameChains
  <2>3. \A r \in Slot : L[r] = -1 \/ L[r] = seg.limit[r]
    BY <1>2, <1>11
  <2> QED BY <1>13, <2>1, <2>2, <2>3
<1>15. /\ Good(T)
       /\ \A r \in Slot : T.limit[r] = seg.limit[r] => Unread(T, r) = Unread(seg, r)
  BY <1>3, <1>12, <1>13, <1>14, SameGood
<1>16. \A c \in Backend \ {b} : pc'[c] = pc[c] /\ id'[c] = id[c]
  BY <1>3 DEF SISetDeadProcess
<1>17. /\ pc'[b] \in PC \ {"up"} /\ pc[b] # "up"
       /\ pc'[b] = "out" <=> pc[b] = "exitTag"
       /\ id'[b] = IF pc[b] = "exitTag" THEN 0 ELSE i
  BY <1>1, <1>3 DEF SISetDeadProcess, PC
<1>18. \A c \in Backend \ {b} : pc[c] # "out" => id[c] \in Slot /\ id[c] # i
  <2> SUFFICES ASSUME NEW c \in Backend \ {b}, pc[c] # "out"
               PROVE  id[c] \in Slot /\ id[c] # i
    OBVIOUS
  <2>1. id[c] \in Slot
    BY DEF IInv, Owned
  <2>2. id[c] # id[b]
    BY <1>p, SlotsApart
  <2> QED BY <1>1, <2>1, <2>2
<1>19. ASSUME NEW c \in Backend \ {b} PROVE Kept(c)
  BY <1>7, <1>10, <1>11, <1>13, <1>15, <1>16, <1>18 DEF Kept
<1>20. ASSUME NEW c \in Backend PROVE Owned(c)'
  <2>1. CASE c = b
    <3>1. pc[b] # "exitTag" => G[i] = b
      BY <1>o, <1>1, <1>p, <1>9 DEF Owned
    <3> QED BY <1>2, <1>7, <1>13, <1>17, <2>1, <3>1 DEF Owned
  <2>2. CASE c # b
    <3>1. Owned(c)
      BY DEF IInv
    <3> QED BY <1>7, <1>9, <1>11, <1>13, <1>16, <1>18, <2>2, <3>1 DEF Owned
  <2> QED BY <2>1, <2>2
<1>21. TypeOK'
  <2>1. DOMAIN pc' = Backend /\ pc' = [c \in Backend |-> pc'[c]]
    BY <1>3 DEF SISetDeadProcess
  <2>2. DOMAIN id' = Backend /\ id' = [c \in Backend |-> id'[c]]
    BY <1>3 DEF SISetDeadProcess
  <2>3. \A c \in Backend : pc'[c] \in PC /\ id'[c] \in Slot \cup {0}
    BY <1>2, <1>3, <1>16, <1>17
  <2>4. pc' \in [Backend -> PC] /\ id' \in [Backend -> Slot \cup {0}]
    BY <2>1, <2>2, <2>3
  <2> QED BY <1>7, <1>12, <2>4 DEF TypeOK
<1> QED BY <1>p, <1>7, <1>15, <1>17, <1>19, <1>20, <1>21 DEF IInv

LEMMA InitInv == Init => IInv
<1> SUFFICES ASSUME Init PROVE IInv
  OBVIOUS
<1>n. MaxMessages \in Nat /\ MaxMessages > 0 /\ 0 \in Entry /\ 0 # MaxMessages
  BY EntryFacts
<1>1. PICK T : T = SISegInit
  OBVIOUS
<1>2. /\ T.startFree = 0 /\ T.startChain = InvalidOffset /\ T.endChain = InvalidOffset
      /\ T.num = 0 /\ T.limit = [s \in Slot |-> -1]
      /\ T.next = [e \in Entry |-> IF e = MaxMessages - 1 THEN InvalidOffset ELSE e + 1]
  BY <1>1 DEF SISegInit
<1>3. T \in Seg
  <2>1. \A e \in Entry : e # MaxMessages - 1 => e + 1 \in Entry
    BY <1>n, EntryFacts
  <2>2. [e \in Entry |-> IF e = MaxMessages - 1 THEN InvalidOffset ELSE e + 1]
          \in [Entry -> Entry \cup {InvalidOffset}]
    BY <2>1
  <2>3. 0 \in 0 .. MaxMessages /\ -1 \in -1 .. MaxMessages
    BY <1>n
  <2>4. [s \in Slot |-> FALSE] \in [Slot -> BOOLEAN]
    BY Zenon
  <2>5. /\ [s \in Slot |-> -1] \in [Slot -> -1 .. MaxMessages]
        /\ [e \in Entry |-> NoTag] \in [Entry -> Msg \cup {NoTag}]
        /\ [s \in Slot |-> NoTag] \in [Slot -> Backend \cup {NoTag}]
    BY <2>3
  <2> QED BY <1>1, <1>n, <2>2, <2>3, <2>4, <2>5 DEF SISegInit, Seg
<1>4. PICK c : c = [e \in Entry |-> e]
  OBVIOUS
<1>5. Lists(c, T)
  <2>1. \A i \in Entry : ~(i < 0) /\ (i = MaxMessages - 1 <=> i + 1 = MaxMessages)
                         /\ (i + 1 # MaxMessages => i + 1 \in Entry)
    BY <1>n, EntryFacts
  <2>2. \A i \in Entry : T.next[c[i]] = Place(c, i + 1, MaxMessages)
    BY <1>2, <1>4, <2>1 DEF Place
  <2>3. /\ c \in [Entry -> Entry]
        /\ \A i, j \in Entry : c[i] = c[j] => i = j
        /\ \A e \in Entry : \E i \in Entry : c[i] = e
    BY <1>4
  <2>4. /\ T.startChain = Place(c, 0, T.num)
        /\ T.endChain = IF T.num = 0 THEN InvalidOffset ELSE c[T.num - 1]
        /\ T.startFree = Place(c, T.num, MaxMessages)
    BY <1>n, <1>2, <1>4 DEF Place
  <2>5. \A i \in Entry : T.next[c[i]] = IF i < T.num THEN Place(c, i + 1, T.num)
                                        ELSE Place(c, i + 1, MaxMessages)
    BY <1>2, <2>1, <2>2
  <2> QED BY <2>3, <2>4, <2>5 DEF Lists
<1>6. Good(seg)
  <2>1. \A s \in Slot : T.limit[s] <= T.num
    BY <1>2
  <2>2. seg = T
    BY <1>1 DEF Init
  <2> QED BY <1>3, <1>5, <2>1, <2>2 DEF Good
<1>7. TypeOK
  BY <1>6 DEF Init, TypeOK, Good, PC
<1>8. \A b \in Backend : Owned(b)
  BY DEF Init, Owned
<1> QED BY <1>6, <1>7, <1>8 DEF IInv

LEMMA NextInv == IInv /\ [Next]_vars => IInv'
<1> SUFFICES ASSUME IInv, [Next]_vars PROVE IInv'
  OBVIOUS
<1>1. ASSUME NEW b \in Backend, InitSharedInvalidationState(b) PROVE IInv'
  BY <1>1, JoinStep
<1>2. ASSUME NEW b \in Backend, NEW m \in Msg, RegisterSharedInvalid(b, m) PROVE IInv'
  BY <1>2, RegisterStep
<1>3. ASSUME NEW b \in Backend, InvalidateSharedInvalid(b) PROVE IInv'
  BY <1>3, InvalidateStep
<1>4. ASSUME NEW b \in Backend, Exit(b) \/ Kill(b) PROVE IInv'
  BY <1>4, LeaveStep
<1>5. ASSUME NEW b \in Backend, SISetDeadProcess(b) PROVE IInv'
  BY <1>5, DeadStep
<1>6. CASE UNCHANGED vars
  BY <1>6 DEF vars, IInv, TypeOK, Owned
<1> QED BY <1>1, <1>2, <1>3, <1>4, <1>5, <1>6 DEF Next

THEOREM Invariance == Spec => []IInv
BY InitInv, NextInv, PTL DEF Spec

\* The offsets, counts and limits of the segment stay in range, however
\* registrations, reads, expiry, overflow and exits alternate: SISetDataEntry
\* always finds a free entry and SIDelDataEntry a first message.
THEOREM TypeCorrect == Spec => []TypeOK
BY Invariance, PTL DEF IInv

\* A backend that reads has its tag in its slot and is counted there, though
\* other backends leave their slots without SInvalLock, in the middle of its
\* critical sections and of everybody else's.
THEOREM SlotsAreOwned == Spec => []SlotOwned
<1>1. IInv => SlotOwned
  <2> SUFFICES ASSUME IInv, NEW b \in Backend, pc[b] = "up"
               PROVE  seg.tag[id[b]] = b /\ seg.limit[id[b]] >= 0
    BY DEF SlotOwned
  <2>1. Owned(b) /\ seg \in Seg
    BY DEF IInv, Good
  <2>2. id[b] \in Slot /\ seg.tag[id[b]] = b /\ 0 <= seg.limit[id[b]]
    BY <2>1 DEF Owned
  <2>3. seg.limit[id[b]] \in Int
    BY <2>1, <2>2, SegTypes
  <2> QED BY <2>2, <2>3
<1> QED BY <1>1, Invariance, PTL

LEMMA ChainsOf ==
  ASSUME NEW c, Lists(c, seg), seg \in Seg
  PROVE  ChainsWhole
<1>n. seg.num \in Nat /\ seg.num <= MaxMessages /\ MaxMessages \in Nat
      /\ 0 \in Nat /\ 0 <= seg.num
  BY SegTypes, EntryFacts
<1>1. PICK n : n = seg.num
  OBVIOUS
<1>2. Stretch(seg, 0, n) /\ Stretch(seg, n, MaxMessages)
  <2>1. n <= n /\ MaxMessages <= MaxMessages
    BY <1>n, <1>1
  <2> QED BY <1>n, <1>1, <2>1 DEF Stretch
<1> DEFINE used == Chain(seg, seg.startChain)
<1> DEFINE free == Chain(seg, seg.startFree)
<1>5. seg.startChain = Place(c, 0, n) /\ seg.startFree = Place(c, n, MaxMessages)
  BY <1>1 DEF Lists
<1>6. used = [i \in 1 .. n - 0 |-> c[0 + i - 1]] /\ Len(used) = n - 0
  BY <1>2, <1>5, ChainAlong
<1>7. free = [i \in 1 .. MaxMessages - n |-> c[n + i - 1]] /\ Len(free) = MaxMessages - n
  BY <1>2, <1>5, ChainAlong
<1> HIDE DEF used, free
<1>8. Len(used) = n /\ \A i \in 1 .. n : used[i] = c[i - 1]
  <2>1. n - 0 = n /\ \A i \in 1 .. n : 0 + i - 1 = i - 1
    BY <1>n, <1>1
  <2> QED BY <1>6, <2>1
<1>9. \A i \in 1 .. MaxMessages - n : free[i] = c[n + i - 1]
  BY <1>7
<1>10. {used[i] : i \in 1 .. Len(used)} \cup {free[i] : i \in 1 .. Len(free)} = Entry
  <2>1. ASSUME NEW i \in 1 .. n PROVE used[i] \in Entry
    <3>1. i - 1 \in Entry
      BY <1>n, <1>1, EntryFacts
    <3> QED BY <1>8, <3>1 DEF Lists
  <2>2. ASSUME NEW i \in 1 .. MaxMessages - n PROVE free[i] \in Entry
    <3>1. n + i - 1 \in Entry
      BY <1>n, <1>1, EntryFacts
    <3> QED BY <1>9, <3>1 DEF Lists
  <2>3. ASSUME NEW e \in Entry
        PROVE  \/ \E i \in 1 .. n : used[i] = e
               \/ \E i \in 1 .. MaxMessages - n : free[i] = e
    <3>1. PICK k \in Entry : c[k] = e
      BY DEF Lists
    <3>k. k \in Nat /\ k < MaxMessages
      BY EntryFacts
    <3>2. CASE k < n
      <4>1. k + 1 \in 1 .. n /\ (k + 1) - 1 = k
        BY <1>n, <1>1, <3>k, <3>2
      <4>2. used[k + 1] = e
        BY <1>8, <3>1, <4>1
      <4> QED BY <4>1, <4>2
    <3>3. CASE ~(k < n)
      <4>1. (k - n) + 1 \in 1 .. MaxMessages - n /\ n + ((k - n) + 1) - 1 = k
        BY <1>n, <1>1, <3>k, <3>3
      <4>2. free[(k - n) + 1] = e
        BY <1>9, <3>1, <4>1
      <4> QED BY <4>1, <4>2
    <3> QED BY <3>2, <3>3
  <2>4. Len(used) = n /\ Len(free) = MaxMessages - n
    BY <1>7, <1>8
  <2> QED BY <2>1, <2>2, <2>3, <2>4
<1>11. seg.endChain = IF used = <<>> THEN InvalidOffset ELSE used[Len(used)]
  <2>1. CASE n = 0
    <3>1. used = <<>>
      BY <1>6, <2>1
    <3> QED BY <1>1, <2>1, <3>1 DEF Lists
  <2>2. CASE n # 0
    <3>1. used # <<>>
      BY <1>8, <2>2
    <3>2. n \in 1 .. n
      BY <1>n, <1>1, <2>2
    <3>3. used[Len(used)] = c[n - 1]
      BY <1>8, <3>2
    <3> QED BY <1>1, <2>2, <3>1, <3>3 DEF Lists
  <2> QED BY <2>1, <2>2
<1>12. Len(used) = seg.num /\ Len(free) = MaxMessages - seg.num
  BY <1>1, <1>7, <1>8
<1> QED BY <1>10, <1>11, <1>12 DEF ChainsWhole, used, free

\* The chain of messages and the chain of free entries share the entries
\* between them, each once, and the counter and the end of the chain agree with
\* the links, after any sequence of SISetDataEntry and SIDelDataEntry.
THEOREM ChainsAreWhole == Spec => []ChainsWhole
<1>1. IInv => ChainsWhole
  BY ChainsOf DEF IInv, Good
<1> QED BY <1>1, Invariance, PTL

-----------------------------------------------------------------------------
(* The queues that the backends see.                                       *)

\* What InvalBus calls overrun and inbox.
Overrun == {b \in Up : seg.reset[id[b]]}
Inbox(b) == IF b \in Up /\ ~seg.reset[id[b]] THEN Unread(seg, id[b]) ELSE <<>>
Inboxes == [b \in Backend |-> Inbox(b)]

LEMMA UpIs == \A b : b \in Up <=> b \in Backend /\ pc[b] = "up"
BY DEF Up

\* A step that a backend does not notice.
LEMMA KeptShows ==
  ASSUME NEW b \in Backend, Kept(b)
  PROVE  /\ b \in Up' <=> b \in Up
         /\ b \in Overrun' <=> b \in Overrun
         /\ Inbox(b)' = Inbox(b)
<1>1. b \in Up' <=> b \in Up
  BY DEF Up, Kept
<1>2. b \in Up => seg'.reset[id'[b]] = seg.reset[id[b]]
                  /\ Unread(seg', id'[b]) = Unread(seg, id[b])
  BY DEF Up, Kept
<1>3. b \in Overrun' <=> b \in Overrun
  BY <1>1, <1>2 DEF Overrun
<1>4. Inbox(b)' = IF b \in Up' /\ ~seg'.reset[id'[b]] THEN Unread(seg', id'[b]) ELSE <<>>
  BY DEF Inbox
<1>5. Inbox(b)' = Inbox(b)
  BY <1>1, <1>2, <1>4 DEF Inbox
<1> QED BY <1>1, <1>3, <1>5

LEMMA JoinMaps ==
  ASSUME IInv, NEW b \in Backend, InitSharedInvalidationState(b)
  PROVE  Bus!Join(b)
<1>1. /\ \A c \in Backend \ {b} : Kept(c)
      /\ pc[b] = "out" /\ pc'[b] = "up"
      /\ seg'.reset[id'[b]] = FALSE /\ Unread(seg', id'[b]) = <<>>
  BY JoinStep
<1>2. got' = <<>>
  BY DEF InitSharedInvalidationState
<1>3. b \notin Up /\ b \in Up' /\ b \notin Overrun /\ b \notin Overrun'
  BY <1>1 DEF Up, Overrun
<1>4. Inbox(b) = <<>> /\ Inbox(b)' = <<>>
  <2>1. Inbox(b)' = IF b \in Up' /\ ~seg'.reset[id'[b]] THEN Unread(seg', id'[b]) ELSE <<>>
    BY DEF Inbox
  <2> QED BY <1>1, <1>3, <2>1 DEF Inbox
<1>5. \A c \in Backend \ {b} : /\ c \in Up' <=> c \in Up
                               /\ c \in Overrun' <=> c \in Overrun
                               /\ Inbox(c)' = Inbox(c)
  BY <1>1, KeptShows
<1>6. Up \subseteq Backend /\ Up' \subseteq Backend /\ Overrun \subseteq Backend
      /\ Overrun' \subseteq Backend
  BY DEF Up, Overrun
<1>7. Up' = Up \cup {b} /\ Overrun' = Overrun
  BY <1>3, <1>5, <1>6
<1>8. Inboxes' = Inboxes
  <2>1. \A c \in Backend : Inbox(c)' = Inbox(c)
    BY <1>4, <1>5
  <2> QED BY <2>1 DEF Inboxes
<1> QED BY <1>2, <1>3, <1>7, <1>8 DEF Bus!Join, Inboxes, Inbox, Overrun

LEMMA LeaveMaps ==
  ASSUME IInv, NEW b \in Backend, Exit(b) \/ Kill(b)
  PROVE  Bus!Leave(b)
<1>1. /\ \A c \in Backend \ {b} : Kept(c)
      /\ pc[b] = "up" /\ pc'[b] # "up" /\ got' = <<>>
  BY LeaveStep
<1>2. b \in Up /\ b \notin Up' /\ b \notin Overrun'
  BY <1>1 DEF Up, Overrun
<1>3. Inbox(b)' = <<>>
  BY <1>2 DEF Inbox
<1>4. \A c \in Backend \ {b} : /\ c \in Up' <=> c \in Up
                               /\ c \in Overrun' <=> c \in Overrun
                               /\ Inbox(c)' = Inbox(c)
  BY <1>1, KeptShows
<1>5. Up \subseteq Backend /\ Up' \subseteq Backend /\ Overrun \subseteq Backend
      /\ Overrun' \subseteq Backend
  BY DEF Up, Overrun
<1>6. Up' = Up \ {b} /\ Overrun' = Overrun \ {b}
  BY <1>2, <1>4, <1>5
<1>7. Inboxes' = [Inboxes EXCEPT ![b] = <<>>]
  <2>1. PICK B : B = Inboxes
    OBVIOUS
  <2>2. PICK C : C = Inboxes'
    OBVIOUS
  <2>3. B = [c \in Backend |-> Inbox(c)] /\ C = [c \in Backend |-> Inbox(c)']
    BY <2>1, <2>2 DEF Inboxes
  <2>4. C[b] = <<>> /\ \A c \in Backend \ {b} : C[c] = B[c]
    BY <1>3, <1>4, <2>3
  <2>5. C = [B EXCEPT ![b] = <<>>]
    BY <2>3, <2>4
  <2> QED BY <2>1, <2>2, <2>5
<1> QED BY <1>1, <1>2, <1>6, <1>7 DEF Bus!Leave, Inboxes, Inbox, Overrun

LEMMA DeadMaps ==
  ASSUME IInv, NEW b \in Backend, SISetDeadProcess(b)
  PROVE  Up' = Up /\ Overrun' = Overrun /\ Inboxes' = Inboxes /\ got' = got
<1>1. /\ \A c \in Backend \ {b} : Kept(c)
      /\ pc[b] # "up" /\ pc'[b] # "up" /\ got' = got
  BY DeadStep
<1>2. b \notin Up /\ b \notin Up' /\ b \notin Overrun /\ b \notin Overrun'
  BY <1>1 DEF Up, Overrun
<1>3. Inbox(b) = <<>> /\ Inbox(b)' = <<>>
  BY <1>2 DEF Inbox
<1>4. \A c \in Backend \ {b} : /\ c \in Up' <=> c \in Up
                               /\ c \in Overrun' <=> c \in Overrun
                               /\ Inbox(c)' = Inbox(c)
  BY <1>1, KeptShows
<1>5. Up \subseteq Backend /\ Up' \subseteq Backend /\ Overrun \subseteq Backend
      /\ Overrun' \subseteq Backend
  BY DEF Up, Overrun
<1>6. Up' = Up /\ Overrun' = Overrun
  BY <1>2, <1>4, <1>5
<1>7. \A c \in Backend : Inbox(c)' = Inbox(c)
  BY <1>3, <1>4
<1>8. Inboxes' = Inboxes
  BY <1>7 DEF Inboxes
<1> QED BY <1>1, <1>6, <1>8

\* After a critical section the backends see what it led to.
LEMMA LedShows ==
  ASSUME NEW S, Led(S)
  PROVE  /\ Up' = Up
         /\ \A b \in Up : b \in Overrun' <=> S.reset[id[b]]
         /\ \A b \in Up : Inbox(b)' = IF S.reset[id[b]] THEN <<>> ELSE Unread(S, id[b])
<1>1. Up' = Up
  BY DEF Led, Up
<1>2. ASSUME NEW b \in Up
      PROVE  /\ seg'.reset[id'[b]] = S.reset[id[b]]
             /\ Unread(seg', id'[b]) = Unread(S, id[b])
  <2>1. b \in Backend /\ pc[b] = "up"
    BY DEF Up
  <2> QED BY <2>1 DEF Led
<1>3. ASSUME NEW b \in Up PROVE b \in Overrun' <=> S.reset[id[b]]
  BY <1>1, <1>2 DEF Overrun
<1>4. ASSUME NEW b \in Up
      PROVE  Inbox(b)' = IF S.reset[id[b]] THEN <<>> ELSE Unread(S, id[b])
  <2>1. Inbox(b)' = IF b \in Up' /\ ~seg'.reset[id'[b]] THEN Unread(seg', id'[b]) ELSE <<>>
    BY DEF Inbox
  <2> QED BY <1>1, <1>2, <2>1
<1> QED BY <1>1, <1>3, <1>4

\* A backend is about to be overrun when the chain is full of messages for it.
LEMMA LateIs ==
  ASSUME IInv, NEW b \in Up
  PROVE  /\ b \in Overrun => Len(Inbox(b)) # MaxMessages
         /\ b \notin Overrun =>
              (Len(Inbox(b)) = MaxMessages <=> seg.num = MaxMessages /\ seg.limit[id[b]] = 0)
<1>1. b \in Backend /\ pc[b] = "up"
  BY DEF Up
<1>2. seg \in Seg /\ Good(seg) /\ id[b] \in Slot /\ 0 <= seg.limit[id[b]]
  BY <1>1 DEF IInv, Owned, Good
<1>n. /\ MaxMessages \in Nat /\ MaxMessages > 0 /\ seg.num \in Nat
      /\ seg.num <= MaxMessages /\ seg.limit[id[b]] \in Nat
      /\ seg.limit[id[b]] <= seg.num
  BY <1>2, SegTypes, EntryFacts DEF Good
<1>3. ASSUME b \in Overrun PROVE Len(Inbox(b)) # MaxMessages
  <2>1. Inbox(b) = <<>>
    BY <1>3 DEF Overrun, Inbox
  <2>2. Len(Inbox(b)) = 0
    BY <2>1
  <2> QED BY <1>n, <2>2
<1>4. ASSUME b \notin Overrun
      PROVE  Len(Inbox(b)) = MaxMessages <=> seg.num = MaxMessages /\ seg.limit[id[b]] = 0
  <2>1. Inbox(b) = Unread(seg, id[b])
    BY <1>4 DEF Overrun, Inbox
  <2>2. PICK c : Lists(c, seg)
    BY <1>2 DEF Good
  <2>3. PICK i : i = id[b]
    OBVIOUS
  <2>4. Len(Unread(seg, i)) = seg.num - seg.limit[i]
    BY <1>2, <1>n, <2>2, <2>3, UnreadIs
  <2>5. Len(Inbox(b)) = seg.num - seg.limit[id[b]]
    BY <2>1, <2>3, <2>4
  <2> QED BY <1>n, <2>5
<1> QED BY <1>3, <1>4

LEMMA RegisterMaps ==
  ASSUME IInv, NEW a \in Backend, NEW m \in Msg, RegisterSharedInvalid(a, m)
  PROVE  Bus!Post(m)
<1>1. PICK S : Led(S) /\ Registered(S, m)
  BY RegisterStep
<1>2. got' = <<>>
  BY RegisterStep
<1>3. /\ Up' = Up
      /\ \A b \in Up : b \in Overrun' <=> S.reset[id[b]]
      /\ \A b \in Up : Inbox(b)' = IF S.reset[id[b]] THEN <<>> ELSE Unread(S, id[b])
  BY <1>1, LedShows
<1>4. ASSUME NEW b \in Up
      PROVE  /\ S.reset[id[b]] <=> b \in Overrun \/ Len(Inbox(b)) = MaxMessages
             /\ ~S.reset[id[b]] => Unread(S, id[b]) = Append(Inbox(b), m)
  <2>1. b \in Backend /\ pc[b] = "up"
    BY DEF Up
  <2>2. id[b] \in Slot /\ 0 <= seg.limit[id[b]] /\ seg \in Seg
    BY <2>1 DEF IInv, Owned, Good
  <2>3. /\ S.reset[id[b]] = (seg.reset[id[b]]
                             \/ (seg.num = MaxMessages /\ seg.limit[id[b]] = 0))
        /\ ~S.reset[id[b]] => Unread(S, id[b]) = Append(Unread(seg, id[b]), m)
    BY <1>1, <2>2 DEF Registered
  <2>4. b \in Overrun <=> seg.reset[id[b]]
    BY DEF Overrun
  <2>5. ~seg.reset[id[b]] => Inbox(b) = Unread(seg, id[b])
    BY DEF Inbox
  <2>6. S.reset[id[b]] <=> b \in Overrun \/ Len(Inbox(b)) = MaxMessages
    BY <2>3, <2>4, LateIs
  <2>7. ~S.reset[id[b]] => Unread(S, id[b]) = Append(Inbox(b), m)
    BY <2>3, <2>5
  <2> QED BY <2>6, <2>7
<1>5. PICK B : B = Inboxes
  OBVIOUS
<1>6. PICK C : C = Inboxes'
  OBVIOUS
<1>7. PICK O : O = Overrun'
  OBVIOUS
<1>8. B = [b \in Backend |-> Inbox(b)] /\ C = [b \in Backend |-> Inbox(b)']
  BY <1>5, <1>6 DEF Inboxes
<1>u. Up \subseteq Backend /\ O \subseteq Up /\ Overrun \subseteq Up
  BY <1>3, <1>7 DEF Up, Overrun
<1>9. O = Overrun \cup {b \in Up : Len(B[b]) = MaxMessages}
  <2>1. \A b \in Up : b \in O <=> b \in Overrun \/ Len(B[b]) = MaxMessages
    BY <1>3, <1>4, <1>7, <1>8, <1>u
  <2> QED BY <1>u, <2>1
<1>10. ASSUME NEW b \in Backend
       PROVE  C[b] = IF b \in Up \ O THEN Append(B[b], m) ELSE <<>>
  <2>1. CASE b \in Up
    <3>1. C[b] = IF S.reset[id[b]] THEN <<>> ELSE Unread(S, id[b])
      BY <1>3, <1>8, <2>1
    <3>2. b \in O <=> S.reset[id[b]]
      BY <1>3, <1>7, <2>1
    <3>3. ~S.reset[id[b]] => Unread(S, id[b]) = Append(Inbox(b), m)
      BY <1>4, <2>1
    <3>4. Inbox(b) = B[b]
      BY <1>8
    <3> QED BY <2>1, <3>1, <3>2, <3>3, <3>4
  <2>2. CASE b \notin Up
    <3>1. Inbox(b)' = <<>>
      BY <1>3, <2>2 DEF Inbox
    <3> QED BY <1>8, <2>2, <3>1
  <2> QED BY <2>1, <2>2
<1>11. C = [b \in Backend |-> IF b \in Up \ O THEN Append(B[b], m) ELSE <<>>]
  BY <1>8, <1>10
<1> QED BY <1>2, <1>3, <1>5, <1>6, <1>7, <1>9, <1>11
        DEF Bus!Post, Bus!Late, Inboxes, Inbox, Overrun

LEMMA InvalidateMaps ==
  ASSUME IInv, NEW a \in Backend, InvalidateSharedInvalid(a)
  PROVE  Bus!Receive(a)
<1>1. PICK S : Led(S) /\ Given(S, a)
  BY InvalidateStep
<1>2. a \in Up /\ got' = <<a, IF seg.reset[id[a]] THEN Reset ELSE Unread(seg, id[a])>>
  BY DEF InvalidateSharedInvalid, Up
<1>3. /\ Up' = Up
      /\ \A b \in Up : b \in Overrun' <=> S.reset[id[b]]
      /\ \A b \in Up : Inbox(b)' = IF S.reset[id[b]] THEN <<>> ELSE Unread(S, id[b])
  BY <1>1, LedShows
<1>4. a \notin Overrun' /\ Inbox(a)' = <<>>
  BY <1>1, <1>2, <1>3 DEF Given
<1>5. ASSUME NEW b \in Up, b # a
      PROVE  (b \in Overrun' <=> b \in Overrun) /\ Inbox(b)' = Inbox(b)
  <2>1. b \in Backend /\ pc[b] = "up" /\ pc[a] = "up"
    BY <1>2 DEF Up
  <2>2. id[b] \in Slot /\ 0 <= seg.limit[id[b]]
    BY <2>1 DEF IInv, Owned
  <2>3. id[b] # id[a]
    BY <1>5, <2>1, SlotsApart
  <2>4. S.reset[id[b]] = seg.reset[id[b]] /\ Unread(S, id[b]) = Unread(seg, id[b])
    BY <1>1, <2>2, <2>3 DEF Given
  <2> QED BY <1>3, <2>4 DEF Overrun, Inbox
<1>6. PICK B : B = Inboxes
  OBVIOUS
<1>7. PICK C : C = Inboxes'
  OBVIOUS
<1>8. B = [b \in Backend |-> Inbox(b)] /\ C = [b \in Backend |-> Inbox(b)']
  BY <1>6, <1>7 DEF Inboxes
<1>9. ASSUME NEW b \in Backend PROVE C[b] = IF b = a THEN <<>> ELSE B[b]
  <2>1. CASE b \notin Up
    <3>1. Inbox(b)' = <<>> /\ Inbox(b) = <<>>
      BY <1>3, <2>1 DEF Inbox
    <3> QED BY <1>8, <3>1
  <2>2. CASE b \in Up
    BY <1>4, <1>5, <1>8, <2>2
  <2> QED BY <2>1, <2>2
<1>10. C = [B EXCEPT ![a] = <<>>]
  BY <1>8, <1>9
<1>11. Overrun' = Overrun \ {a}
  <2>1. Overrun' \subseteq Up /\ Overrun \subseteq Up
    BY <1>3 DEF Overrun
  <2> QED BY <1>4, <1>5, <2>1
<1>12. (IF seg.reset[id[a]] THEN Reset ELSE Unread(seg, id[a]))
         = (IF a \in Overrun THEN Reset ELSE B[a])
  <2>1. a \in Overrun <=> seg.reset[id[a]]
    BY <1>2 DEF Overrun
  <2>2. ~seg.reset[id[a]] => B[a] = Unread(seg, id[a])
    BY <1>2, <1>8 DEF Inbox
  <2> QED BY <2>1, <2>2
<1>13. got' = <<a, IF a \in Overrun THEN Reset ELSE B[a]>>
  BY <1>2, <1>12
<1> QED BY <1>2, <1>3, <1>6, <1>7, <1>10, <1>11, <1>13
        DEF Bus!Receive, Inboxes, Inbox, Overrun

LEMMA InitMaps == Init => Bus!Init
<1> SUFFICES ASSUME Init PROVE Bus!Init
  OBVIOUS
<1>1. Up = {} /\ got = <<>>
  BY DEF Init, Up
<1>2. Overrun = {} /\ Inboxes = [b \in Backend |-> <<>>]
  BY <1>1 DEF Overrun, Inboxes, Inbox
<1> QED BY <1>1, <1>2 DEF Bus!Init, Overrun, Inboxes, Inbox

\* The step that InvalBus takes for each step of the segment.
LEMMA NextMaps ==
  ASSUME IInv, [Next]_vars
  PROVE  Bus!Next \/ (Up' = Up /\ Overrun' = Overrun /\ Inboxes' = Inboxes /\ got' = got)
<1>1. ASSUME NEW b \in Backend, InitSharedInvalidationState(b) PROVE Bus!Next
  BY <1>1, JoinMaps DEF Bus!Next
<1>2. ASSUME NEW b \in Backend, NEW m \in Msg, RegisterSharedInvalid(b, m)
      PROVE  Bus!Next
  BY <1>2, RegisterMaps DEF Bus!Next
<1>3. ASSUME NEW b \in Backend, InvalidateSharedInvalid(b) PROVE Bus!Next
  BY <1>3, InvalidateMaps DEF Bus!Next
<1>4. ASSUME NEW b \in Backend, Exit(b) \/ Kill(b) PROVE Bus!Next
  BY <1>4, LeaveMaps DEF Bus!Next
<1>5. CASE UNCHANGED vars
  BY <1>5 DEF vars, Up, Overrun, Inboxes, Inbox
<1> QED BY <1>1, <1>2, <1>3, <1>4, <1>5, DeadMaps DEF Next

\* One chain in shared memory is a queue for each backend: a message reaches
\* every backend attached when it was registered, once and in order, unless
\* that backend had fallen MaxMessages behind, and then it is told to reset
\* (RegisterSharedInvalid, InvalidateSharedInvalid); expiry, slots reused and
\* backends that exit or die do not show.
THEOREM BusDelivers == Spec => Delivers
<1>1. Init => Bus!Init
  BY InitMaps
<1>2. IInv /\ [Next]_vars =>
        [Bus!Next]_<<Up, [b \in Backend |-> IF b \in Up /\ ~seg.reset[id[b]]
                                            THEN Unread(seg, id[b]) ELSE <<>>],
                     {b \in Up : seg.reset[id[b]]}, got>>
  <2> SUFFICES ASSUME IInv, [Next]_vars
               PROVE  [Bus!Next]_<<Up, [b \in Backend |->
                                          IF b \in Up /\ ~seg.reset[id[b]]
                                          THEN Unread(seg, id[b]) ELSE <<>>],
                                   {b \in Up : seg.reset[id[b]]}, got>>
    OBVIOUS
  <2>1. Bus!Next \/ (Up' = Up /\ Overrun' = Overrun /\ Inboxes' = Inboxes /\ got' = got)
    BY NextMaps
  <2> QED BY <2>1 DEF Overrun, Inboxes, Inbox
<1> QED BY <1>1, <1>2, Invariance, PTL DEF Spec, Delivers, Bus!Spec
=============================================================================
