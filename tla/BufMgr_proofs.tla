---------------------------- MODULE BufMgr_proofs ----------------------------
(***************************************************************************)
(* Proofs about BufMgr: the type invariant, the consistency of the pool    *)
(* (PoolInv) and that no request loses its buffer (RequestKept), for any   *)
(* number of backends, buffers and blocks and whatever I/O fails.          *)
(***************************************************************************)
EXTENDS BufMgr, FiniteSetTheorems, WellFoundedInduction, TLAPS

\* A pool whose descriptors are consistent: the invariant of every routine.
\* The free list is one ring: numbers can be given to its buffers that grow
\* from the head to the tail, so that no free buffer is on a ring of its own.
Ranked(S) ==
  \E r \in [Slot -> Nat] :
    \A i \in Slot : Linked(S, i) /\ i # FreeList => r[S.freePrev[i]] < r[i]

Ring(S) == FreeRing(S) /\ Ranked(S)

Good(S) == S \in Pool /\ Ring(S) /\ PinCount(S) /\ PinnedOrFree(S)
             /\ TableExact(S)

-----------------------------------------------------------------------------
(* What the one-field assignments change.                                  *)

LEMMA RefcountFields ==
  ASSUME NEW S, S \in Pool, NEW b \in Buffer, NEW n \in Nat
  PROVE  LET T == SetRefcount(S, b, n)
         IN  /\ T \in Pool
             /\ T.refcount = [S.refcount EXCEPT ![b] = n]
             /\ T.tag = S.tag /\ T.flags = S.flags /\ T.ioLock = S.ioLock
             /\ T.freeNext = S.freeNext /\ T.freePrev = S.freePrev
             /\ T.table = S.table /\ T.priv = S.priv /\ T.last = S.last
BY DEF SetRefcount, Pool

LEMMA PrivateFields ==
  ASSUME NEW S, S \in Pool, NEW p \in Proc, NEW b \in Buffer, NEW n \in Nat
  PROVE  LET T == SetPrivate(S, p, b, n)
         IN  /\ T \in Pool
             /\ T.priv = [S.priv EXCEPT ![p][b] = n]
             /\ T.refcount = S.refcount
             /\ T.tag = S.tag /\ T.flags = S.flags /\ T.ioLock = S.ioLock
             /\ T.freeNext = S.freeNext /\ T.freePrev = S.freePrev
             /\ T.table = S.table /\ T.last = S.last
<1>1. [S.priv EXCEPT ![p][b] = n]
        \in [Proc -> [Buffer -> Nat]]
  BY DEF Pool
<1> QED BY <1>1 DEF SetPrivate, Pool

LEMMA FlagsFields ==
  ASSUME NEW S, S \in Pool, NEW b \in Buffer, NEW on \in SUBSET Flag, NEW off
  PROVE  LET T == SetFlags(S, b, on, off)
         IN  /\ T \in Pool
             /\ T.flags = [S.flags EXCEPT ![b] = (S.flags[b] \cup on) \ off]
             /\ T.refcount = S.refcount
             /\ T.tag = S.tag /\ T.ioLock = S.ioLock
             /\ T.freeNext = S.freeNext /\ T.freePrev = S.freePrev
             /\ T.table = S.table /\ T.priv = S.priv /\ T.last = S.last
<1>1. [S.flags EXCEPT ![b] = (S.flags[b] \cup on) \ off]
        \in [Buffer -> SUBSET Flag]
  BY DEF Pool
<1> QED BY <1>1 DEF SetFlags, Pool

LEMMA IOLockFields ==
  ASSUME NEW S, S \in Pool, NEW b \in Buffer, NEW held \in BOOLEAN
  PROVE  LET T == SetIOLock(S, b, held)
         IN  /\ T \in Pool
             /\ T.ioLock = [S.ioLock EXCEPT ![b] = held]
             /\ T.flags = S.flags /\ T.refcount = S.refcount
             /\ T.tag = S.tag
             /\ T.freeNext = S.freeNext /\ T.freePrev = S.freePrev
             /\ T.table = S.table /\ T.priv = S.priv /\ T.last = S.last
BY DEF SetIOLock, Pool

-----------------------------------------------------------------------------
(* The free list.                                                          *)

LEMMA SlotFacts ==
  /\ FreeList \in Slot /\ FreeList \notin Buffer
  /\ \A b \in Buffer : b \in Slot /\ b # FreeList
  /\ \A i \in Slot : i # FreeList => i \in Buffer
  /\ InvalidDescriptor \notin Slot
  /\ NoBuffer \notin Buffer
  /\ NoBlock \notin Block
BY ConstantsAssumption
   DEF FreeList, Slot, Buffer, InvalidDescriptor, NoBuffer, NoBlock, Block

\* The ring depends only on the links and on who is marked free.
LEMMA RingFrame ==
  ASSUME NEW S, NEW T, S \in Pool, T \in Pool, Ring(S),
         T.freeNext = S.freeNext, T.freePrev = S.freePrev,
         \A b \in Buffer : "FREE" \in T.flags[b] <=> "FREE" \in S.flags[b]
  PROVE  Ring(T)
<1>1. \A i \in Slot : Linked(T, i) <=> Linked(S, i)
  BY SlotFacts DEF Linked
<1>2. FreeRing(T)
  BY <1>1 DEF Ring, FreeRing, Pool
<1>3. Ranked(T)
  BY <1>1 DEF Ring, Ranked
<1> QED BY <1>2, <1>3 DEF Ring

\* Taking a free buffer off the ring leaves a ring.
LEMMA UnlinkRing ==
  ASSUME NEW S, S \in Pool, Ring(S), NEW b \in Buffer,
         "FREE" \in S.flags[b]
  PROVE  /\ Unlink(S, b) \in Pool
         /\ Ring(Unlink(S, b))
         /\ "FREE" \notin Unlink(S, b).flags[b]
<1> DEFINE T == Unlink(S, b)
           n == S.freeNext[b]
           q == S.freePrev[b]
<1>1. /\ n \in Slot /\ q \in Slot /\ Linked(S, n) /\ Linked(S, q)
      /\ S.freePrev[n] = b /\ S.freeNext[q] = b
  BY SlotFacts DEF Ring, FreeRing, Linked
<1>2. T \in Pool
  BY <1>1, SlotFacts DEF Unlink, Pool, Flag
<1>3. /\ T.freeNext = [S.freeNext EXCEPT ![q] = n, ![b] = InvalidDescriptor]
      /\ T.freePrev = [S.freePrev EXCEPT ![n] = q, ![b] = InvalidDescriptor]
      /\ T.flags = [S.flags EXCEPT ![b] = @ \ {"FREE"}]
  BY DEF Unlink, Pool
<1>4. \A i \in Slot : Linked(T, i) <=> Linked(S, i) /\ i # b
  BY <1>3, SlotFacts DEF Linked, Pool
<1>5. /\ S.freeNext \in [Slot -> Slot \cup {InvalidDescriptor}]
      /\ S.freePrev \in [Slot -> Slot \cup {InvalidDescriptor}]
  BY DEF Pool
<1>6. ASSUME NEW i \in Slot, Linked(T, i)
      PROVE  /\ T.freeNext[i] \in Slot /\ T.freePrev[i] \in Slot
             /\ Linked(T, T.freeNext[i]) /\ Linked(T, T.freePrev[i])
             /\ T.freePrev[T.freeNext[i]] = i
             /\ T.freeNext[T.freePrev[i]] = i
  <2>1. Linked(S, i) /\ i # b
    BY <1>4, <1>6
  <2>2. /\ S.freeNext[i] \in Slot /\ S.freePrev[i] \in Slot
        /\ Linked(S, S.freeNext[i]) /\ Linked(S, S.freePrev[i])
        /\ S.freePrev[S.freeNext[i]] = i /\ S.freeNext[S.freePrev[i]] = i
    BY <2>1 DEF Ring, FreeRing
  <2>3. (n = b) <=> (q = b)
    BY <1>1
  <2>4. \A j \in Slot : j # b =>
          /\ T.freeNext[j] = IF j = q THEN n ELSE S.freeNext[j]
          /\ T.freePrev[j] = IF j = n THEN q ELSE S.freePrev[j]
    BY <1>3, <1>5
  <2>5. S.freeNext[i] = b <=> i = q
    BY <1>1, <2>2
  <2>6. S.freePrev[i] = b <=> i = n
    BY <1>1, <2>2
  <2> QED BY <1>1, <1>4, <2>1, <2>2, <2>3, <2>4, <2>5, <2>6, SlotFacts
<1>7. FreeRing(T) /\ "FREE" \notin T.flags[b]
  BY <1>2, <1>3, <1>4, <1>5, <1>6, SlotFacts DEF Ring, FreeRing, Pool
<1>8. Ranked(T)
  <2>1. PICK r \in [Slot -> Nat] :
          \A i \in Slot : Linked(S, i) /\ i # FreeList => r[S.freePrev[i]] < r[i]
    BY DEF Ring, Ranked
  <2>2. ASSUME NEW i \in Slot, Linked(T, i), i # FreeList PROVE r[T.freePrev[i]] < r[i]
    <3>1. Linked(S, i) /\ i # b /\ r[S.freePrev[i]] < r[i]
      BY <1>4, <2>1, <2>2
    <3>2. Linked(S, b) /\ b \in Slot /\ b # FreeList
      BY SlotFacts DEF Linked
    <3>3. CASE i = n
      <4>1. T.freePrev[i] = q
        BY <1>1, <1>3, <1>5, <3>1, <3>3
      <4>2. r[q] < r[b] /\ r[b] < r[n]
        BY <1>1, <2>1, <3>1, <3>2, <3>3
      <4> QED BY <1>1, <3>2, <3>3, <4>1, <4>2
    <3>4. CASE i # n
      BY <1>3, <1>5, <3>1, <3>4
    <3> QED BY <3>3, <3>4
  <2> QED BY <2>2 DEF Ranked
<1> QED BY <1>2, <1>7, <1>8 DEF Ring

\* Adding a buffer that is not on the ring leaves a ring.
LEMMA AddRing ==
  ASSUME NEW S, S \in Pool, Ring(S), NEW b \in Buffer,
         "FREE" \notin S.flags[b]
  PROVE  /\ AddBufferToFreelist(S, b) \in Pool
         /\ Ring(AddBufferToFreelist(S, b))
         /\ "FREE" \in AddBufferToFreelist(S, b).flags[b]
<1> DEFINE T == AddBufferToFreelist(S, b)
           q == S.freePrev[FreeList]
<1>1. q \in Slot /\ Linked(S, q) /\ S.freeNext[q] = FreeList /\ q # b
  BY SlotFacts DEF Ring, FreeRing, Linked
<1>2. T \in Pool
  BY <1>1, SlotFacts DEF AddBufferToFreelist, Pool, Flag
<1>3. /\ T.freeNext = [S.freeNext EXCEPT ![b] = FreeList, ![q] = b]
      /\ T.freePrev = [S.freePrev EXCEPT ![b] = q, ![FreeList] = b]
      /\ T.flags = [S.flags EXCEPT ![b] = @ \cup {"FREE"}]
  BY DEF AddBufferToFreelist, Pool
<1>4. \A i \in Slot : Linked(T, i) <=> Linked(S, i) \/ i = b
  BY <1>3, SlotFacts DEF Linked, Pool
<1>5. /\ S.freeNext \in [Slot -> Slot \cup {InvalidDescriptor}]
      /\ S.freePrev \in [Slot -> Slot \cup {InvalidDescriptor}]
  BY DEF Pool
<1>6. \A j \in Slot :
        /\ T.freeNext[j] = IF j = q THEN b ELSE IF j = b THEN FreeList
                           ELSE S.freeNext[j]
        /\ T.freePrev[j] = IF j = FreeList THEN b ELSE IF j = b THEN q
                           ELSE S.freePrev[j]
  BY <1>1, <1>3, <1>5, SlotFacts
<1>7. ASSUME NEW i \in Slot, Linked(S, i), i # b
      PROVE  /\ T.freeNext[i] \in Slot /\ T.freePrev[i] \in Slot
             /\ Linked(T, T.freeNext[i]) /\ Linked(T, T.freePrev[i])
             /\ T.freePrev[T.freeNext[i]] = i
             /\ T.freeNext[T.freePrev[i]] = i
  <2>1. /\ S.freeNext[i] \in Slot /\ S.freePrev[i] \in Slot
        /\ Linked(S, S.freeNext[i]) /\ Linked(S, S.freePrev[i])
        /\ S.freePrev[S.freeNext[i]] = i /\ S.freeNext[S.freePrev[i]] = i
    BY <1>7 DEF Ring, FreeRing
  <2>2. ~Linked(S, b)
    BY SlotFacts DEF Linked
  <2>3. (S.freeNext[i] = FreeList) <=> (i = q)
    BY <1>1, <2>1
  <2>4. (S.freePrev[i] = q) <=> (i = FreeList)
    BY <1>1, <2>1, SlotFacts
  <2> QED BY <1>1, <1>4, <1>6, <1>7, <2>1, <2>2, <2>3, <2>4, SlotFacts
<1>8. /\ T.freeNext[b] = FreeList /\ T.freePrev[b] = q
      /\ T.freePrev[FreeList] = b /\ T.freeNext[q] = b
      /\ Linked(T, FreeList) /\ Linked(T, q) /\ b \in Slot
  BY <1>1, <1>4, <1>6, SlotFacts DEF Linked
<1>9. ASSUME NEW i \in Slot, ~Linked(T, i)
      PROVE  T.freeNext[i] = InvalidDescriptor /\ T.freePrev[i] = InvalidDescriptor
  BY <1>1, <1>4, <1>6, <1>9, SlotFacts DEF Ring, FreeRing, Linked
<1> QED
  <2>1. FreeRing(T)
    BY <1>1, <1>4, <1>7, <1>8, <1>9, SlotFacts DEF FreeRing
  <2>2. Ranked(T)
    <3>1. PICK r \in [Slot -> Nat] :
            \A i \in Slot : Linked(S, i) /\ i # FreeList => r[S.freePrev[i]] < r[i]
      BY DEF Ring, Ranked
    <3>2. PICK k : k = [r EXCEPT ![b] = r[q] + 1]
      OBVIOUS
    <3>3. /\ k \in [Slot -> Nat] /\ k[b] = r[q] + 1 /\ r[q] \in Nat
          /\ \A i \in Slot : i # b => k[i] = r[i]
      BY <1>1, <1>8, <3>2
    <3>4. ASSUME NEW i \in Slot, Linked(T, i), i # FreeList
          PROVE  k[T.freePrev[i]] < k[i]
      <4>1. CASE i = b
        BY <1>1, <1>8, <3>3, <4>1
      <4>2. CASE i # b
        <5>1. Linked(S, i) /\ T.freePrev[i] = S.freePrev[i]
          BY <1>4, <1>6, <3>4, <4>2
        <5>2. S.freePrev[i] \in Slot /\ Linked(S, S.freePrev[i])
          BY <5>1 DEF Ring, FreeRing
        <5>3. S.freePrev[i] # b
          BY <5>2, SlotFacts DEF Linked
        <5> QED BY <3>1, <3>3, <3>4, <4>2, <5>1, <5>2, <5>3
      <4> QED BY <4>1, <4>2
    <3> QED BY <3>3, <3>4 DEF Ranked
  <2> QED BY <1>2, <1>3, <2>1, <2>2 DEF Pool, Ring

-----------------------------------------------------------------------------
(* The pin counts.                                                         *)

LEMMA HoldersFinite ==
  ASSUME NEW S, NEW b
  PROVE  IsFiniteSet(Holders(S, b)) /\ Cardinality(Holders(S, b)) \in Nat
BY ConstantsAssumption, FS_Subset, FS_CardinalityType DEF Holders

\* p comes to hold b, with x pins; nobody else's pins move.
LEMMA HoldersPin ==
  ASSUME NEW S, NEW T, S \in Pool, T \in Pool, NEW p \in Proc,
         NEW b \in Buffer, NEW x \in Nat \ {0},
         T.priv = [S.priv EXCEPT ![p][b] = x],
         T.last = S.last
  PROVE  /\ Cardinality(Holders(T, b)) =
              IF S.priv[p][b] + S.last[p][b] > 0
              THEN Cardinality(Holders(S, b))
              ELSE Cardinality(Holders(S, b)) + 1
         /\ \A c \in Buffer : c # b => Holders(T, c) = Holders(S, c)
<1>1. Holders(T, b) = Holders(S, b) \cup {p}
  BY DEF Holders, Pool
<1>2. p \in Holders(S, b) <=> S.priv[p][b] + S.last[p][b] > 0
  BY DEF Holders
<1>3. \A c \in Buffer : c # b => Holders(T, c) = Holders(S, c)
  BY DEF Holders, Pool
<1> QED BY <1>1, <1>2, <1>3, HoldersFinite, FS_AddElement

\* p gives up its last pin on b.
LEMMA HoldersUnpin ==
  ASSUME NEW S, NEW T, S \in Pool, T \in Pool, NEW p \in Proc,
         NEW b \in Buffer, S.priv[p][b] > 0, S.last[p][b] = 0,
         T.priv = [S.priv EXCEPT ![p][b] = 0],
         T.last = S.last
  PROVE  /\ Cardinality(Holders(T, b)) = Cardinality(Holders(S, b)) - 1
         /\ \A c \in Buffer : c # b => Holders(T, c) = Holders(S, c)
<1>1. Holders(T, b) = Holders(S, b) \ {p}
  BY DEF Holders, Pool
<1>2. p \in Holders(S, b)
  BY DEF Holders, Pool
<1>3. \A c \in Buffer : c # b => Holders(T, c) = Holders(S, c)
  BY DEF Holders, Pool
<1> QED BY <1>1, <1>2, <1>3, HoldersFinite, FS_RemoveElement, ZenonT(60)

-----------------------------------------------------------------------------
(* Every routine that edits the descriptors keeps them consistent.         *)

LEMMA TableFrame ==
  ASSUME NEW S, NEW T, TableExact(S), T.tag = S.tag, T.table = S.table,
         \A b \in Buffer : "DELETED" \in T.flags[b] <=> "DELETED" \in S.flags[b],
         S \in Pool
  PROVE  TableExact(T)
BY SlotFacts DEF TableExact, Pool

\* A buffer that no one holds has no pins at all.
LEMMA Unheld ==
  ASSUME NEW S, Good(S), NEW b \in Buffer, S.refcount[b] = 0, NEW p \in Proc
  PROVE  S.priv[p][b] = 0 /\ S.last[p][b] = 0
<1>1. Holders(S, b) = {}
  BY HoldersFinite, FS_EmptySet DEF Good, PinCount
<1>2. S.priv[p][b] \in Nat /\ S.last[p][b] \in Nat
  BY DEF Good, Pool
<1> QED BY <1>1, <1>2, SMTT(40) DEF Holders

\* Unlink beyond the ring (freelist.c, PinBuffer): only the flag BM_FREE.
LEMMA UnlinkFields ==
  ASSUME NEW S, S \in Pool, NEW b \in Buffer
  PROVE  LET T == Unlink(S, b)
         IN  /\ T.flags = [S.flags EXCEPT ![b] = S.flags[b] \ {"FREE"}]
             /\ T.tag = S.tag /\ T.table = S.table /\ T.ioLock = S.ioLock
             /\ T.refcount = S.refcount
             /\ T.priv = S.priv /\ T.last = S.last
<1>1. S = [tag |-> S.tag, flags |-> S.flags, refcount |-> S.refcount,
           ioLock |-> S.ioLock, freeNext |-> S.freeNext,
           freePrev |-> S.freePrev, table |-> S.table, priv |-> S.priv,
           last |-> S.last]
  BY DEF Pool
<1> QED BY <1>1 DEF Unlink

\* AddBufferToFreelist beyond the ring: only the flag BM_FREE.
LEMMA AddFields ==
  ASSUME NEW S, S \in Pool, NEW b \in Buffer
  PROVE  LET T == AddBufferToFreelist(S, b)
         IN  /\ T.flags = [S.flags EXCEPT ![b] = S.flags[b] \cup {"FREE"}]
             /\ T.tag = S.tag /\ T.table = S.table /\ T.ioLock = S.ioLock
             /\ T.refcount = S.refcount
             /\ T.priv = S.priv /\ T.last = S.last
<1>1. S = [tag |-> S.tag, flags |-> S.flags, refcount |-> S.refcount,
           ioLock |-> S.ioLock, freeNext |-> S.freeNext,
           freePrev |-> S.freePrev, table |-> S.table, priv |-> S.priv,
           last |-> S.last]
  BY DEF Pool
<1> QED BY <1>1 DEF AddBufferToFreelist

LEMMA PinGood ==
  ASSUME NEW S, Good(S), NEW p \in Proc, NEW b \in Buffer
  PROVE  LET T == PinBuffer(S, p, b)
         IN  /\ Good(T)
             /\ T.priv = [S.priv EXCEPT ![p][b] = S.priv[p][b] + 1]
             /\ T.last = S.last /\ T.tag = S.tag
<1> DEFINE U == IF S.refcount[b] = 0 THEN Unlink(S, b) ELSE S
           first == S.priv[p][b] = 0 /\ S.last[p][b] = 0
           V == IF first THEN SetRefcount(U, b, S.refcount[b] + 1) ELSE U
           T == SetPrivate(V, p, b, S.priv[p][b] + 1)
<1>0. S \in Pool /\ Ring(S) /\ PinCount(S) /\ PinnedOrFree(S) /\ TableExact(S)
  BY DEF Good
<1>1. /\ U \in Pool /\ Ring(U)
      /\ U.flags = [S.flags EXCEPT ![b] = S.flags[b] \ {"FREE"}]
      /\ U.tag = S.tag /\ U.table = S.table /\ U.refcount = S.refcount
      /\ U.priv = S.priv /\ U.last = S.last
  <2>1. CASE S.refcount[b] = 0
    <3>1. "FREE" \in S.flags[b]
      BY <1>0, <2>1 DEF PinnedOrFree
    <3> QED BY <1>0, <2>1, <3>1, UnlinkRing, UnlinkFields
  <2>2. CASE S.refcount[b] # 0
    BY <1>0, <2>2 DEF PinnedOrFree, Pool
  <2> QED BY <2>1, <2>2
<1>2. PinBuffer(S, p, b) = T
  BY DEF PinBuffer
<1>3. /\ S.priv[p][b] \in Nat /\ S.last[p][b] \in Nat /\ S.refcount[b] \in Nat
      /\ S.refcount \in [Buffer -> Nat] /\ S.flags \in [Buffer -> SUBSET Flag]
  BY <1>0 DEF Pool
<1> HIDE DEF U
<1>4. /\ V \in Pool
      /\ V.refcount = [S.refcount EXCEPT ![b] =
                         IF first THEN S.refcount[b] + 1 ELSE S.refcount[b]]
      /\ V.tag = S.tag /\ V.flags = U.flags
      /\ V.freeNext = U.freeNext /\ V.freePrev = U.freePrev
      /\ V.table = S.table /\ V.priv = S.priv /\ V.last = S.last
  <2>1. CASE first
    BY <1>1, <1>3, <2>1, RefcountFields
  <2>2. CASE ~first
    BY <1>1, <1>3, <2>2
  <2> QED BY <2>1, <2>2
<1> HIDE DEF V
<1>5. /\ T \in Pool
      /\ T.priv = [S.priv EXCEPT ![p][b] = S.priv[p][b] + 1]
      /\ T.refcount = [S.refcount EXCEPT ![b] =
                         IF first THEN S.refcount[b] + 1 ELSE S.refcount[b]]
      /\ T.tag = S.tag /\ T.flags = U.flags
      /\ T.freeNext = U.freeNext /\ T.freePrev = U.freePrev
      /\ T.table = S.table /\ T.last = S.last
  <2>1. S.priv[p][b] + 1 \in Nat
    BY <1>3
  <2>2. /\ T \in Pool
        /\ T.priv = [V.priv EXCEPT ![p][b] = S.priv[p][b] + 1]
        /\ T.refcount = V.refcount /\ T.tag = V.tag /\ T.flags = V.flags
        /\ T.freeNext = V.freeNext /\ T.freePrev = V.freePrev
        /\ T.table = V.table /\ T.last = V.last
    BY <1>4, <2>1, PrivateFields
  <2> QED BY <1>4, <2>2
<1> HIDE DEF T
<1>6. Ring(T)
  BY <1>1, <1>5, RingFrame
<1>7. TableExact(T)
  BY <1>0, <1>1, <1>3, <1>5, TableFrame
<1>8. PinCount(T)
  <2>1. S.priv[p][b] + 1 \in Nat \ {0}
    BY <1>3
  <2>2. /\ Cardinality(Holders(T, b)) =
             IF S.priv[p][b] + S.last[p][b] > 0
             THEN Cardinality(Holders(S, b))
             ELSE Cardinality(Holders(S, b)) + 1
        /\ \A c \in Buffer : c # b => Holders(T, c) = Holders(S, c)
    BY <1>0, <1>5, <2>1, HoldersPin
  <2> QED BY <1>0, <1>3, <1>5, <2>2 DEF PinCount
<1>9. PinnedOrFree(T)
  <2>1. T.refcount[b] > 0
    BY <1>3, <1>5, Unheld
  <2>2. \A c \in Buffer : c # b =>
          T.refcount[c] = S.refcount[c] /\ T.flags[c] = S.flags[c]
    BY <1>1, <1>3, <1>5
  <2>3. "FREE" \notin T.flags[b]
    BY <1>1, <1>3, <1>5
  <2> QED BY <1>0, <2>1, <2>2, <2>3 DEF PinnedOrFree
<1> QED BY <1>2, <1>5, <1>6, <1>7, <1>8, <1>9 DEF Good

LEMMA GiveUpGood ==
  ASSUME NEW S, Good(S), NEW p \in Proc, NEW b \in Buffer,
         S.priv[p][b] > 0, S.last[p][b] = 0
  PROVE  LET T == GiveUp(S, p, b)
         IN  /\ Good(T)
             /\ T.priv = [S.priv EXCEPT ![p][b] = 0]
             /\ T.last = S.last /\ T.tag = S.tag /\ T.table = S.table
<1> DEFINE W == SetPrivate(S, p, b, 0)
           V == SetRefcount(W, b, W.refcount[b] - 1)
           T == IF W.refcount[b] = 1 THEN AddBufferToFreelist(V, b) ELSE V
<1>0. S \in Pool /\ Ring(S) /\ PinCount(S) /\ PinnedOrFree(S) /\ TableExact(S)
  BY DEF Good
<1>1. GiveUp(S, p, b) = T
  BY DEF GiveUp, DropRef
<1>2. /\ S.priv[p][b] \in Nat /\ S.last[p][b] \in Nat /\ S.refcount[b] \in Nat
      /\ S.refcount \in [Buffer -> Nat] /\ S.flags \in [Buffer -> SUBSET Flag]
  BY <1>0 DEF Pool
<1>3. /\ S.refcount[b] = Cardinality(Holders(S, b)) /\ p \in Holders(S, b)
      /\ S.refcount[b] # 0
  <2>1. p \in Holders(S, b)
    BY <1>2 DEF Holders
  <2> QED BY <1>0, <2>1, HoldersFinite, FS_EmptySet DEF PinCount
<1>4. /\ W \in Pool /\ W.priv = [S.priv EXCEPT ![p][b] = 0]
      /\ W.refcount = S.refcount /\ W.tag = S.tag /\ W.flags = S.flags
      /\ W.freeNext = S.freeNext /\ W.freePrev = S.freePrev
      /\ W.table = S.table /\ W.last = S.last
  BY <1>0, PrivateFields
<1> HIDE DEF W
<1>5. /\ V \in Pool /\ V.priv = [S.priv EXCEPT ![p][b] = 0]
      /\ V.refcount = [S.refcount EXCEPT ![b] = S.refcount[b] - 1]
      /\ V.tag = S.tag /\ V.flags = S.flags
      /\ V.freeNext = S.freeNext /\ V.freePrev = S.freePrev
      /\ V.table = S.table /\ V.last = S.last
  <2>1. W.refcount[b] - 1 \in Nat
    BY <1>2, <1>3, <1>4
  <2>2. /\ V \in Pool /\ V.priv = W.priv
        /\ V.refcount = [W.refcount EXCEPT ![b] = W.refcount[b] - 1]
        /\ V.tag = W.tag /\ V.flags = W.flags
        /\ V.freeNext = W.freeNext /\ V.freePrev = W.freePrev
        /\ V.table = W.table /\ V.last = W.last
    BY <1>4, <2>1, RefcountFields
  <2> QED BY <1>4, <2>2
<1> HIDE DEF V
<1>6. "FREE" \notin V.flags[b]
  BY <1>0, <1>3, <1>5 DEF PinnedOrFree
<1>7. Ring(V)
  BY <1>0, <1>5, RingFrame
<1>8. /\ T \in Pool /\ Ring(T)
      /\ T.flags = [S.flags EXCEPT ![b] = IF S.refcount[b] = 1
                                          THEN S.flags[b] \cup {"FREE"}
                                          ELSE S.flags[b]]
      /\ T.priv = V.priv /\ T.refcount = V.refcount /\ T.tag = V.tag
      /\ T.table = V.table /\ T.last = V.last
  <2>1. CASE W.refcount[b] = 1
    <3>1. T = AddBufferToFreelist(V, b) /\ S.refcount[b] = 1
      BY <1>4, <2>1
    <3>2. T \in Pool /\ Ring(T)
      BY <1>5, <1>6, <1>7, <3>1, AddRing
    <3>3. LET A == AddBufferToFreelist(V, b)
          IN  /\ A.flags = [V.flags EXCEPT ![b] = V.flags[b] \cup {"FREE"}]
              /\ A.priv = V.priv /\ A.refcount = V.refcount /\ A.tag = V.tag
              /\ A.table = V.table /\ A.last = V.last
      <4>1. V \in Pool
        BY <1>5
      <4> QED BY <4>1, AddFields
    <3> QED BY <1>5, <3>1, <3>2, <3>3
  <2>2. CASE W.refcount[b] # 1
    BY <1>2, <1>4, <1>5, <1>7, <2>2
  <2> QED BY <2>1, <2>2
<1> HIDE DEF T
<1>9. TableExact(T)
  BY <1>0, <1>2, <1>5, <1>8, TableFrame
<1>10. PinCount(T)
  <2>1. /\ Cardinality(Holders(T, b)) = Cardinality(Holders(S, b)) - 1
        /\ \A c \in Buffer : c # b => Holders(T, c) = Holders(S, c)
    BY <1>0, <1>5, <1>8, HoldersUnpin
  <2> QED BY <1>0, <1>2, <1>5, <1>8, <2>1 DEF PinCount
<1>11. PinnedOrFree(T)
  <2>1. \A c \in Buffer : c # b =>
          T.refcount[c] = S.refcount[c] /\ T.flags[c] = S.flags[c]
    BY <1>2, <1>5, <1>8
  <2>2. T.refcount[b] = 0 <=> "FREE" \in T.flags[b]
    BY <1>2, <1>3, <1>5, <1>6, <1>8
  <2> QED BY <1>0, <2>1, <2>2 DEF PinnedOrFree
<1> QED BY <1>1, <1>5, <1>8, <1>9, <1>10, <1>11 DEF Good

\* Pins that are not the last one are private business.
LEMMA PrivateGood ==
  ASSUME NEW S, Good(S), NEW p \in Proc, NEW b \in Buffer, NEW n \in Nat,
         S.priv[p][b] + S.last[p][b] > 0, n + S.last[p][b] > 0
  PROVE  LET T == SetPrivate(S, p, b, n)
         IN  /\ Good(T)
             /\ T.priv = [S.priv EXCEPT ![p][b] = n]
             /\ T.last = S.last /\ T.tag = S.tag /\ T.table = S.table
<1> DEFINE T == SetPrivate(S, p, b, n)
<1>0. S \in Pool /\ Ring(S) /\ PinCount(S) /\ PinnedOrFree(S) /\ TableExact(S)
  BY DEF Good
<1>1. /\ T \in Pool /\ T.priv = [S.priv EXCEPT ![p][b] = n]
      /\ T.refcount = S.refcount /\ T.tag = S.tag /\ T.flags = S.flags
      /\ T.freeNext = S.freeNext /\ T.freePrev = S.freePrev
      /\ T.table = S.table /\ T.last = S.last
  BY <1>0, PrivateFields
<1> HIDE DEF T
<1>2. \A c \in Buffer : Holders(T, c) = Holders(S, c)
  BY <1>0, <1>1 DEF Holders, Pool
<1>3. Ring(T) /\ TableExact(T)
  BY <1>0, <1>1, RingFrame, TableFrame
<1>4. PinCount(T) /\ PinnedOrFree(T)
  BY <1>0, <1>1, <1>2 DEF PinCount, PinnedOrFree
<1> QED BY <1>1, <1>3, <1>4 DEF Good, T

LEMMA UnpinGood ==
  ASSUME NEW S, Good(S), NEW p \in Proc, NEW b \in Buffer, S.priv[p][b] > 0
  PROVE  LET T == UnpinBuffer(S, p, b)
         IN  /\ Good(T)
             /\ T.priv = [S.priv EXCEPT ![p][b] = S.priv[p][b] - 1]
             /\ T.last = S.last /\ T.tag = S.tag /\ T.table = S.table
<1>1. S.priv[p][b] \in Nat /\ S.last[p][b] \in Nat
  BY DEF Good, Pool
<1>2. CASE S.priv[p][b] = 1 /\ S.last[p][b] = 0
  <2>1. UnpinBuffer(S, p, b) = GiveUp(S, p, b)
    BY <1>2 DEF UnpinBuffer, GiveUp
  <2> QED BY <1>2, <2>1, GiveUpGood
<1>3. CASE ~(S.priv[p][b] = 1 /\ S.last[p][b] = 0)
  <2>1. UnpinBuffer(S, p, b) = SetPrivate(S, p, b, S.priv[p][b] - 1)
    BY <1>3 DEF UnpinBuffer
  <2>2. /\ S.priv[p][b] - 1 \in Nat
        /\ S.priv[p][b] - 1 + S.last[p][b] > 0
        /\ S.priv[p][b] + S.last[p][b] > 0
    <3>1. \A x, y \in Nat : x > 0 /\ ~(x = 1 /\ y = 0) =>
            x - 1 \in Nat /\ x - 1 + y > 0 /\ x + y > 0
      OBVIOUS
    <3> QED BY <1>1, <1>3, <3>1
  <2> DEFINE n == S.priv[p][b] - 1
  <2>3. n \in Nat /\ n + S.last[p][b] > 0
    BY <2>2
  <2> HIDE DEF n
  <2> DEFINE T == SetPrivate(S, p, b, n)
  <2>4. /\ Good(T)
        /\ T.priv = [S.priv EXCEPT ![p][b] = n]
        /\ T.last = S.last /\ T.tag = S.tag /\ T.table = S.table
    <3>1. S.priv[p][b] + S.last[p][b] > 0
      BY <2>2
    <3>2. \A k \in Nat : k + S.last[p][b] > 0 =>
            LET U == SetPrivate(S, p, b, k)
            IN  /\ Good(U)
                /\ U.priv = [S.priv EXCEPT ![p][b] = k]
                /\ U.last = S.last /\ U.tag = S.tag /\ U.table = S.table
      BY <3>1, PrivateGood
    <3> QED BY <2>3, <3>2, Zenon
  <2> QED BY <2>1, <2>4 DEF n
<1> QED BY <1>2, <1>3

\* The head of a non-empty free list is a buffer nobody holds.
LEMMA TakeGood ==
  ASSUME NEW S, Good(S), NEW p \in Proc, ~FreeListEmpty(S)
  PROVE  LET b == S.freeNext[FreeList]
             T == GetFreeBuffer(S, p)
         IN  /\ b \in Buffer /\ S.refcount[b] = 0
             /\ Good(T)
             /\ T.priv = [S.priv EXCEPT ![p][b] = 1]
             /\ T.last = S.last /\ T.tag = S.tag /\ T.table = S.table
             /\ T.refcount = [S.refcount EXCEPT ![b] = 1]
<1> DEFINE b == S.freeNext[FreeList]
           U == Unlink(S, b)
           V == SetRefcount(U, b, 1)
           T == SetPrivate(V, p, b, 1)
<1>0. S \in Pool /\ Ring(S) /\ PinCount(S) /\ PinnedOrFree(S) /\ TableExact(S)
  BY DEF Good
<1>1. b \in Buffer /\ "FREE" \in S.flags[b] /\ S.refcount[b] = 0
  <2>1. b \in Slot /\ Linked(S, b) /\ b # FreeList
    BY <1>0, SlotFacts DEF Ring, FreeRing, Linked, FreeListEmpty
  <2> QED BY <1>0, <2>1, SlotFacts DEF Linked, PinnedOrFree
<1>2. GetFreeBuffer(S, p) = T
  BY DEF GetFreeBuffer
<1>3. /\ S.refcount \in [Buffer -> Nat] /\ S.flags \in [Buffer -> SUBSET Flag]
      /\ S.priv \in [Proc -> [Buffer -> Nat]]
      /\ S.last \in [Proc -> [Buffer -> Nat]]
  BY <1>0 DEF Pool
<1> HIDE DEF b
<1>4. /\ U \in Pool /\ Ring(U)
      /\ U.flags = [S.flags EXCEPT ![b] = S.flags[b] \ {"FREE"}]
      /\ U.tag = S.tag /\ U.table = S.table /\ U.refcount = S.refcount
      /\ U.priv = S.priv /\ U.last = S.last
  BY <1>0, <1>1, UnlinkRing, UnlinkFields
<1> HIDE DEF U
<1>5. /\ V \in Pool /\ V.refcount = [S.refcount EXCEPT ![b] = 1]
      /\ V.tag = S.tag /\ V.flags = U.flags
      /\ V.freeNext = U.freeNext /\ V.freePrev = U.freePrev
      /\ V.table = S.table /\ V.priv = S.priv /\ V.last = S.last
  BY <1>1, <1>4, RefcountFields
<1> HIDE DEF V
<1>6. /\ T \in Pool /\ T.priv = [S.priv EXCEPT ![p][b] = 1]
      /\ T.refcount = [S.refcount EXCEPT ![b] = 1]
      /\ T.tag = S.tag /\ T.flags = U.flags
      /\ T.freeNext = U.freeNext /\ T.freePrev = U.freePrev
      /\ T.table = S.table /\ T.last = S.last
  BY <1>1, <1>5, PrivateFields
<1> HIDE DEF T
<1>7. Ring(T)
  BY <1>4, <1>6, RingFrame
<1>8. TableExact(T)
  BY <1>0, <1>3, <1>4, <1>6, TableFrame
<1>9. PinCount(T)
  <2>1. S.priv[p][b] = 0 /\ S.last[p][b] = 0
    BY <1>1, Unheld
  <2>2. /\ Cardinality(Holders(T, b)) = Cardinality(Holders(S, b)) + 1
        /\ \A c \in Buffer : c # b => Holders(T, c) = Holders(S, c)
    BY <1>0, <1>1, <1>6, <2>1, HoldersPin
  <2>3. Cardinality(Holders(S, b)) = 0
    BY <1>0, <1>1 DEF PinCount
  <2> QED BY <1>0, <1>1, <1>3, <1>6, <2>2, <2>3 DEF PinCount
<1>10. PinnedOrFree(T)
  <2>1. \A c \in Buffer : c # b =>
          T.refcount[c] = S.refcount[c] /\ T.flags[c] = S.flags[c]
    BY <1>1, <1>3, <1>4, <1>6
  <2>2. T.refcount[b] = 1 /\ "FREE" \notin T.flags[b]
    BY <1>1, <1>3, <1>4, <1>6
  <2> QED BY <1>0, <2>1, <2>2 DEF PinnedOrFree
<1> QED BY <1>1, <1>2, <1>6, <1>7, <1>8, <1>9, <1>10 DEF Good, b

\* Flags other than BM_FREE and BM_DELETED, and the I/O lock, are free to move.
LEMMA FlagsGood ==
  ASSUME NEW S, Good(S), NEW b \in Buffer, NEW on \in SUBSET Flag, NEW off,
         {"FREE", "DELETED"} \cap on = {}, {"FREE", "DELETED"} \cap off = {}
  PROVE  LET T == SetFlags(S, b, on, off)
         IN  /\ Good(T)
             /\ T.priv = S.priv /\ T.last = S.last /\ T.tag = S.tag
             /\ T.table = S.table /\ T.refcount = S.refcount
<1> DEFINE T == SetFlags(S, b, on, off)
<1>0. S \in Pool /\ Ring(S) /\ PinCount(S) /\ PinnedOrFree(S) /\ TableExact(S)
  BY DEF Good
<1>1. /\ T \in Pool /\ T.refcount = S.refcount
      /\ T.flags = [S.flags EXCEPT ![b] = (S.flags[b] \cup on) \ off]
      /\ T.tag = S.tag /\ T.freeNext = S.freeNext /\ T.freePrev = S.freePrev
      /\ T.table = S.table /\ T.priv = S.priv /\ T.last = S.last
  BY <1>0, FlagsFields
<1> HIDE DEF T
<1>2. \A c \in Buffer : /\ "FREE" \in T.flags[c] <=> "FREE" \in S.flags[c]
                        /\ "DELETED" \in T.flags[c] <=> "DELETED" \in S.flags[c]
  BY <1>0, <1>1 DEF Pool
<1>3. Ring(T) /\ TableExact(T)
  BY <1>0, <1>1, <1>2, RingFrame, TableFrame
<1>4. PinCount(T) /\ PinnedOrFree(T)
  BY <1>0, <1>1, <1>2 DEF PinCount, PinnedOrFree, Holders
<1> QED BY <1>1, <1>3, <1>4 DEF Good, T

LEMMA IOLockGood ==
  ASSUME NEW S, Good(S), NEW b \in Buffer, NEW held \in BOOLEAN
  PROVE  LET T == SetIOLock(S, b, held)
         IN  /\ Good(T)
             /\ T.priv = S.priv /\ T.last = S.last /\ T.tag = S.tag
             /\ T.table = S.table /\ T.refcount = S.refcount
<1> DEFINE T == SetIOLock(S, b, held)
<1>0. S \in Pool /\ Ring(S) /\ PinCount(S) /\ PinnedOrFree(S) /\ TableExact(S)
  BY DEF Good
<1>1. /\ T \in Pool /\ T.refcount = S.refcount /\ T.flags = S.flags
      /\ T.tag = S.tag /\ T.freeNext = S.freeNext /\ T.freePrev = S.freePrev
      /\ T.table = S.table /\ T.priv = S.priv /\ T.last = S.last
  BY <1>0, IOLockFields, ZenonT(60)
<1> HIDE DEF T
<1>2. Ring(T) /\ TableExact(T)
  BY <1>0, <1>1, RingFrame, TableFrame
<1>3. PinCount(T) /\ PinnedOrFree(T)
  BY <1>0, <1>1 DEF PinCount, PinnedOrFree, Holders
<1> QED BY <1>1, <1>2, <1>3 DEF Good, T

LEMMA StartIOGood ==
  ASSUME NEW S, Good(S), NEW b \in Buffer
  PROVE  LET T == StartIO(S, b)
         IN  /\ Good(T)
             /\ T.priv = S.priv /\ T.last = S.last /\ T.tag = S.tag
             /\ T.table = S.table /\ T.refcount = S.refcount
<1> DEFINE U == SetFlags(S, b, {"IO_IN_PROGRESS"}, {})
<1>1. /\ Good(U) /\ U.priv = S.priv /\ U.last = S.last /\ U.tag = S.tag
      /\ U.table = S.table /\ U.refcount = S.refcount
  BY FlagsGood DEF Flag
<1> HIDE DEF U
<1>2. StartIO(S, b) = SetIOLock(U, b, TRUE)
  BY DEF StartIO, U
<1>3. TRUE \in BOOLEAN
  OBVIOUS
<1>4. LET T == SetIOLock(U, b, TRUE)
      IN  /\ Good(T)
          /\ T.priv = U.priv /\ T.last = U.last /\ T.tag = U.tag
          /\ T.table = U.table /\ T.refcount = U.refcount
  BY <1>1, <1>3, IOLockGood, Zenon
<1> QED BY <1>1, <1>2, <1>4, Zenon

LEMMA EndIOGood ==
  ASSUME NEW S, Good(S), NEW b \in Buffer, NEW on \in SUBSET Flag, NEW off,
         {"FREE", "DELETED"} \cap on = {}, {"FREE", "DELETED"} \cap off = {}
  PROVE  LET T == EndIO(S, b, on, off)
         IN  /\ Good(T)
             /\ T.priv = S.priv /\ T.last = S.last /\ T.tag = S.tag
             /\ T.table = S.table /\ T.refcount = S.refcount
<1> DEFINE o == off \cup {"IO_IN_PROGRESS"}
           U == SetFlags(S, b, on, o)
<1>0. {"FREE", "DELETED"} \cap o = {}
  OBVIOUS
<1> HIDE DEF o
<1>1. /\ Good(U) /\ U.priv = S.priv /\ U.last = S.last /\ U.tag = S.tag
      /\ U.table = S.table /\ U.refcount = S.refcount
  BY <1>0, FlagsGood
<1> HIDE DEF U
<1>2. EndIO(S, b, on, off) = SetIOLock(U, b, FALSE)
  BY DEF EndIO, U, o
<1>3. FALSE \in BOOLEAN
  OBVIOUS
<1>4. LET T == SetIOLock(U, b, FALSE)
      IN  /\ Good(T)
          /\ T.priv = U.priv /\ T.last = U.last /\ T.tag = U.tag
          /\ T.table = U.table /\ T.refcount = U.refcount
  BY <1>1, <1>3, IOLockGood, Zenon
<1> QED BY <1>1, <1>2, <1>4, Zenon

LEMMA DeleteGood ==
  ASSUME NEW S, Good(S), NEW b \in Buffer
  PROVE  LET T == BufTableDelete(S, b)
         IN  /\ Good(T) /\ "DELETED" \in T.flags[b]
             /\ T.priv = S.priv /\ T.last = S.last /\ T.tag = S.tag
             /\ T.refcount = S.refcount
             /\ \A t \in Block : S.table[t] = NoBuffer => T.table[t] = NoBuffer
<1> DEFINE T == BufTableDelete(S, b)
<1>0. S \in Pool /\ Ring(S) /\ PinCount(S) /\ PinnedOrFree(S) /\ TableExact(S)
  BY DEF Good
<1>1. CASE "DELETED" \in S.flags[b]
  BY <1>1 DEF BufTableDelete
<1>2. CASE "DELETED" \notin S.flags[b]
  <2> DEFINE u == S.tag[b]
  <2>1. u \in Block /\ S.table[u] = b
    BY <1>0, <1>2 DEF TableExact
  <2>2. /\ T \in Pool /\ T.refcount = S.refcount
        /\ T.flags = [S.flags EXCEPT ![b] = S.flags[b] \cup {"DELETED"}]
        /\ T.table = [S.table EXCEPT ![u] = NoBuffer]
        /\ T.tag = S.tag /\ T.freeNext = S.freeNext /\ T.freePrev = S.freePrev
        /\ T.priv = S.priv /\ T.last = S.last
    BY <1>0, <1>2, <2>1 DEF BufTableDelete, Pool, Flag
  <2> HIDE DEF T, u
  <2>3. S.table \in [Block -> Buffer \cup {NoBuffer}]
        /\ S.flags \in [Buffer -> SUBSET Flag]
    BY <1>0 DEF Pool
  <2>4. \A c \in Buffer : "FREE" \in T.flags[c] <=> "FREE" \in S.flags[c]
    BY <2>2, <2>3
  <2>5. Ring(T)
    BY <1>0, <2>2, <2>4, RingFrame
  <2>6. PinCount(T) /\ PinnedOrFree(T)
    BY <1>0, <2>2, <2>4 DEF PinCount, PinnedOrFree, Holders
  <2>7. TableExact(T)
    <3>1. ASSUME NEW t \in Block, T.table[t] # NoBuffer
          PROVE  T.tag[T.table[t]] = t /\ "DELETED" \notin T.flags[T.table[t]]
      <4>1. t # u /\ T.table[t] = S.table[t] /\ S.table[t] \in Buffer
        BY <2>1, <2>2, <2>3, <3>1
      <4>2. S.tag[S.table[t]] = t /\ "DELETED" \notin S.flags[S.table[t]]
        BY <1>0, <4>1, SlotFacts DEF TableExact
      <4>3. S.table[t] # b
        BY <4>1, <4>2 DEF u
      <4> QED BY <2>2, <2>3, <4>1, <4>2, <4>3
    <3>2. ASSUME NEW c \in Buffer, "DELETED" \notin T.flags[c]
          PROVE  T.tag[c] \in Block /\ T.table[T.tag[c]] = c
      <4>1. c # b /\ "DELETED" \notin S.flags[c]
        BY <2>2, <2>3, <3>2
      <4>2. S.tag[c] \in Block /\ S.table[S.tag[c]] = c
        BY <1>0, <4>1 DEF TableExact
      <4>3. S.tag[c] # u
        BY <2>1, <4>1, <4>2
      <4> QED BY <2>2, <2>3, <4>2, <4>3
    <3> QED BY <3>1, <3>2 DEF TableExact
  <2> QED BY <2>2, <2>3, <2>5, <2>6, <2>7 DEF Good, T
<1> QED BY <1>1, <1>2

\* A buffer is renamed to a block the table does not have.
LEMMA InstallGood ==
  ASSUME NEW S, Good(S), NEW b \in Buffer, NEW t \in Block,
         S.table[t] = NoBuffer
  PROVE  LET T == Install(S, b, t)
         IN  /\ Good(T)
             /\ T.priv = S.priv /\ T.last = S.last /\ T.refcount = S.refcount
             /\ T.tag = [S.tag EXCEPT ![b] = t]
<1> DEFINE D == BufTableDelete(S, b)
           T == BufTableInsert(D, b, t)
<1>1. /\ Good(D) /\ "DELETED" \in D.flags[b] /\ D.table[t] = NoBuffer
      /\ D.priv = S.priv /\ D.last = S.last /\ D.refcount = S.refcount
      /\ D.tag = S.tag
  BY DeleteGood
<1>2. Install(S, b, t) = T
  BY DEF Install
<1> HIDE DEF D
<1>3. D \in Pool /\ Ring(D) /\ PinCount(D) /\ PinnedOrFree(D) /\ TableExact(D)
  BY <1>1 DEF Good
<1>4. /\ T \in Pool /\ T.refcount = D.refcount
      /\ T.flags = [D.flags EXCEPT ![b] = D.flags[b] \ {"DELETED"}]
      /\ T.table = [D.table EXCEPT ![t] = b]
      /\ T.tag = [D.tag EXCEPT ![b] = t]
      /\ T.freeNext = D.freeNext /\ T.freePrev = D.freePrev
      /\ T.priv = D.priv /\ T.last = D.last
  BY <1>3 DEF BufTableInsert, Pool
<1> HIDE DEF T
<1>5. /\ D.table \in [Block -> Buffer \cup {NoBuffer}]
      /\ D.flags \in [Buffer -> SUBSET Flag]
      /\ D.tag \in [Buffer -> Block \cup {NoBlock}]
  BY <1>3 DEF Pool
<1>6. \A c \in Buffer : "FREE" \in T.flags[c] <=> "FREE" \in D.flags[c]
  BY <1>4, <1>5
<1>7. Ring(T)
  BY <1>3, <1>4, <1>6, RingFrame
<1>8. PinCount(T) /\ PinnedOrFree(T)
  BY <1>3, <1>4, <1>6 DEF PinCount, PinnedOrFree, Holders
<1>9. TableExact(T)
  <2>1. ASSUME NEW u \in Block, T.table[u] # NoBuffer
        PROVE  T.tag[T.table[u]] = u /\ "DELETED" \notin T.flags[T.table[u]]
    <3>1. CASE u = t
      BY <1>4, <1>5, <3>1
    <3>2. CASE u # t
      <4>1. T.table[u] = D.table[u] /\ D.table[u] \in Buffer
        BY <1>4, <1>5, <2>1, <3>2
      <4>2. D.tag[D.table[u]] = u /\ "DELETED" \notin D.flags[D.table[u]]
        BY <1>3, <4>1, SlotFacts DEF TableExact
      <4>3. D.table[u] # b
        BY <1>1, <4>2
      <4> QED BY <1>4, <1>5, <4>1, <4>2, <4>3
    <3> QED BY <3>1, <3>2
  <2>2. ASSUME NEW c \in Buffer, "DELETED" \notin T.flags[c]
        PROVE  T.tag[c] \in Block /\ T.table[T.tag[c]] = c
    <3>1. CASE c = b
      BY <1>4, <1>5, <3>1
    <3>2. CASE c # b
      <4>1. "DELETED" \notin D.flags[c] /\ T.tag[c] = D.tag[c]
        BY <1>4, <1>5, <2>2, <3>2
      <4>2. D.tag[c] \in Block /\ D.table[D.tag[c]] = c
        BY <1>3, <4>1 DEF TableExact
      <4>3. D.tag[c] # t
        BY <1>1, <4>2, SlotFacts
      <4> QED BY <1>4, <1>5, <4>1, <4>2, <4>3
    <3> QED BY <3>1, <3>2
  <2> QED BY <2>1, <2>2 DEF TableExact
<1> QED BY <1>1, <1>2, <1>4, <1>7, <1>8, <1>9 DEF Good

-----------------------------------------------------------------------------
(* The inductive invariant.                                                *)

\* Steps at which a backend has a pinned buffer in hand; at which it has a
\* victim with its only pin; at which it has a block in mind; at which its
\* buffer bears the name of that block.
WithBuffer == PC \ {"idle", "alloc", "reset"}
WithVictim == {"replace", "replaced", "replfail"}
Named == {"waitio", "waited", "read", "readdone", "readfail", "extend"}
WithBlock == Named \cup WithVictim \cup {"alloc"}

At(S, p, l, b, t) ==
  /\ l \in WithBuffer => b \in Buffer /\ S.priv[p][b] > 0
  /\ l \in WithVictim => S.priv[p][b] = 1 /\ S.last[p][b] = 0
  /\ l \in WithBlock => t \in Block
  /\ l \in Named => S.tag[b] = t

ProcInv == \A p \in Proc : At(pool, p, pc[p], buf[p], want[p])

IInv == TypeOK /\ PoolInv /\ Ranked(pool) /\ ProcInv

\* What a step of p leaves alone: the pins of the others, and the names of
\* the buffers they have pinned.
Frame(S, T, p) ==
  \A q \in Proc \ {p} :
    /\ T.priv[q] = S.priv[q] /\ T.last[q] = S.last[q]
    /\ \A b \in Buffer : S.priv[q][b] > 0 => T.tag[b] = S.tag[b]

\* A move of p to a step it is fit for.
Moves(p) ==
  \E l \in PC, b \in Buffer \cup {NoBuffer}, t \in Block \cup {NoBlock},
     e \in BOOLEAN : Goto(p, l, b, t, e) /\ At(pool', p, l, b, t)

LEMMA FrameTrans ==
  ASSUME NEW S, NEW T, NEW U, NEW p, Frame(S, T, p), Frame(T, U, p)
  PROVE  Frame(S, U, p)
BY DEF Frame

\* Only p's own pins change, and no name.
LEMMA FrameOwn ==
  ASSUME NEW S, NEW T, S \in Pool, NEW p \in Proc, NEW b \in Buffer, NEW n,
         T.priv = [S.priv EXCEPT ![p][b] = n], T.last = S.last, T.tag = S.tag
  PROVE  Frame(S, T, p)
BY DEF Frame, Pool

LEMMA FrameSame ==
  ASSUME NEW S, NEW T, NEW p, T.priv = S.priv, T.last = S.last, T.tag = S.tag
  PROVE  Frame(S, T, p)
BY DEF Frame

\* Only the name of a buffer that the others do not hold changes.
LEMMA FrameName ==
  ASSUME NEW S, NEW T, S \in Pool, NEW p, NEW b \in Buffer, NEW t,
         T.priv = S.priv, T.last = S.last, T.tag = [S.tag EXCEPT ![b] = t],
         \A q \in Proc \ {p} : S.priv[q][b] = 0
  PROVE  Frame(S, T, p)
BY DEF Frame, Pool

\* The pins of p change levels; who holds a buffer does not change.
LEMMA ExchangeGood ==
  ASSUME NEW S, Good(S), NEW p \in Proc
  PROVE  Good(ExchangeLevels(S, p)) /\ Frame(S, ExchangeLevels(S, p), p)
<1> DEFINE T == ExchangeLevels(S, p)
<1>0. S \in Pool /\ Ring(S) /\ PinCount(S) /\ PinnedOrFree(S) /\ TableExact(S)
  BY DEF Good
<1>1. /\ T \in Pool
      /\ T.priv = [S.priv EXCEPT ![p] = S.last[p]]
      /\ T.last = [S.last EXCEPT ![p] = S.priv[p]]
      /\ T.refcount = S.refcount /\ T.tag = S.tag /\ T.flags = S.flags
      /\ T.freeNext = S.freeNext /\ T.freePrev = S.freePrev
      /\ T.table = S.table
  <2>1. S = [tag |-> S.tag, flags |-> S.flags, refcount |-> S.refcount,
             ioLock |-> S.ioLock, freeNext |-> S.freeNext,
             freePrev |-> S.freePrev, table |-> S.table, priv |-> S.priv,
             last |-> S.last]
    BY <1>0 DEF Pool
  <2>2. /\ T.priv = [S.priv EXCEPT ![p] = S.last[p]]
        /\ T.last = [S.last EXCEPT ![p] = S.priv[p]]
        /\ T.refcount = S.refcount /\ T.tag = S.tag /\ T.flags = S.flags
        /\ T.freeNext = S.freeNext /\ T.freePrev = S.freePrev
        /\ T.table = S.table /\ T.ioLock = S.ioLock
    BY <2>1 DEF ExchangeLevels
  <2>3. /\ [S.priv EXCEPT ![p] = S.last[p]] \in [Proc -> [Buffer -> Nat]]
        /\ [S.last EXCEPT ![p] = S.priv[p]] \in [Proc -> [Buffer -> Nat]]
    BY <1>0 DEF Pool
  <2>4. T \in Pool
    BY <1>0, <2>1, <2>3 DEF ExchangeLevels, Pool
  <2> QED BY <2>2, <2>4
<1> HIDE DEF T
<1>2. \A c \in Buffer : Holders(T, c) = Holders(S, c)
  BY <1>0, <1>1 DEF Holders, Pool
<1>3. Ring(T) /\ TableExact(T)
  BY <1>0, <1>1, RingFrame, TableFrame
<1>4. PinCount(T) /\ PinnedOrFree(T)
  BY <1>0, <1>1, <1>2 DEF PinCount, PinnedOrFree
<1>5. Frame(S, T, p)
  BY <1>0, <1>1 DEF Frame, Pool
<1> QED BY <1>1, <1>3, <1>4, <1>5 DEF Good, T

\* DropBuffers: only BM_DIRTY is cleared.
LEMMA DropGood ==
  ASSUME NEW S, Good(S), NEW p \in Proc
  PROVE  LET T == [S EXCEPT !.flags = [b \in Buffer |-> S.flags[b] \ {"DIRTY"}]]
         IN  Good(T) /\ Frame(S, T, p)
<1> DEFINE T == [S EXCEPT !.flags = [b \in Buffer |-> S.flags[b] \ {"DIRTY"}]]
<1>0. S \in Pool /\ Ring(S) /\ PinCount(S) /\ PinnedOrFree(S) /\ TableExact(S)
  BY DEF Good
<1>1. /\ T \in Pool /\ T.priv = S.priv /\ T.last = S.last
      /\ T.refcount = S.refcount /\ T.tag = S.tag
      /\ T.flags = [b \in Buffer |-> S.flags[b] \ {"DIRTY"}]
      /\ T.freeNext = S.freeNext /\ T.freePrev = S.freePrev
      /\ T.table = S.table
  <2>1. S = [tag |-> S.tag, flags |-> S.flags, refcount |-> S.refcount,
             ioLock |-> S.ioLock, freeNext |-> S.freeNext,
             freePrev |-> S.freePrev, table |-> S.table, priv |-> S.priv,
             last |-> S.last]
    BY <1>0 DEF Pool
  <2>2. /\ T.priv = S.priv /\ T.last = S.last
        /\ T.refcount = S.refcount /\ T.tag = S.tag
        /\ T.flags = [b \in Buffer |-> S.flags[b] \ {"DIRTY"}]
        /\ T.freeNext = S.freeNext /\ T.freePrev = S.freePrev
        /\ T.table = S.table /\ T.ioLock = S.ioLock
    BY <2>1
  <2>3. [b \in Buffer |-> S.flags[b] \ {"DIRTY"}] \in [Buffer -> SUBSET Flag]
    BY <1>0 DEF Pool
  <2>4. T \in Pool
    BY <1>0, <2>1, <2>3 DEF Pool
  <2> QED BY <2>2, <2>4
<1> HIDE DEF T
<1>2. \A b \in Buffer : /\ "FREE" \in T.flags[b] <=> "FREE" \in S.flags[b]
                        /\ "DELETED" \in T.flags[b] <=> "DELETED" \in S.flags[b]
  BY <1>1
<1>3. Ring(T) /\ TableExact(T)
  BY <1>0, <1>1, <1>2, RingFrame, TableFrame
<1>4. PinCount(T) /\ PinnedOrFree(T)
  BY <1>0, <1>1, <1>2 DEF PinCount, PinnedOrFree, Holders
<1>5. Frame(S, T, p)
  BY <1>1, FrameSame
<1> QED BY <1>1, <1>3, <1>4, <1>5 DEF Good, T

\* With a shared count of at most one, p's pin is the only one.
LEMMA SoleHolder ==
  ASSUME NEW S, Good(S), NEW p \in Proc, NEW b \in Buffer,
         S.priv[p][b] > 0, S.refcount[b] <= 1, NEW q \in Proc, q # p
  PROVE  S.priv[q][b] = 0 /\ S.last[q][b] = 0
<1>1. S.priv[p][b] \in Nat /\ S.last[p][b] \in Nat
      /\ S.priv[q][b] \in Nat /\ S.last[q][b] \in Nat /\ S.refcount[b] \in Nat
  BY DEF Good, Pool
<1>2. p \in Holders(S, b)
  BY <1>1 DEF Holders
<1>3. S.refcount[b] = Cardinality(Holders(S, b))
  BY DEF Good, PinCount
<1>4. Cardinality(Holders(S, b)) # 0
  BY <1>2, HoldersFinite, FS_EmptySet
<1>5. Cardinality(Holders(S, b)) = 1
  BY <1>1, <1>3, <1>4
<1>6. \E x : Holders(S, b) = {x}
  BY <1>5, HoldersFinite, FS_Singleton
<1>7. q \notin Holders(S, b)
  BY <1>2, <1>6
<1> QED BY <1>1, <1>7 DEF Holders

\* A step that keeps the descriptors consistent, leaves the others' pins and
\* names alone and moves p to a step it is fit for keeps the invariant.
LEMMA StepInv ==
  ASSUME IInv, NEW p \in Proc, Good(pool'), Frame(pool, pool', p), Moves(p),
         data' \in [Buffer -> Data], disk' \in [Block -> Data],
         nblocks' \in Nat, bufMgrLock' \in Proc \cup {NoProc},
         lost' \in [Proc -> [Buffer -> Nat]]
  PROVE  IInv'
<1>1. PICK l \in PC, b \in Buffer \cup {NoBuffer}, t \in Block \cup {NoBlock},
           e \in BOOLEAN : Goto(p, l, b, t, e) /\ At(pool', p, l, b, t)
  BY DEF Moves
<1>2. TypeOK'
  BY <1>1 DEF IInv, TypeOK, Goto, Good
<1>3. PoolInv' /\ Ranked(pool)'
  BY DEF Good, Ring, PoolInv
<1>4. ProcInv'
  <2> SUFFICES ASSUME NEW q \in Proc
               PROVE  At(pool', q, pc'[q], buf'[q], want'[q])
    BY DEF ProcInv
  <2>1. CASE q = p
    BY <1>1, <2>1 DEF IInv, TypeOK, Goto
  <2>2. CASE q # p
    <3>1. pc'[q] = pc[q] /\ buf'[q] = buf[q] /\ want'[q] = want[q]
      BY <1>1, <2>2 DEF IInv, TypeOK, Goto
    <3>2. At(pool, q, pc[q], buf[q], want[q])
      BY DEF IInv, ProcInv
    <3>3. pool'.priv[q] = pool.priv[q] /\ pool'.last[q] = pool.last[q]
      BY <2>2 DEF Frame
    <3>4. pc[q] \in Named => buf[q] \in Buffer /\ pool.priv[q][buf[q]] > 0
      BY <3>2 DEF At, Named, WithBuffer, PC
    <3>5. pc[q] \in Named => pool'.tag[buf[q]] = pool.tag[buf[q]]
      BY <2>2, <3>4 DEF Frame
    <3> QED BY <3>1, <3>2, <3>3, <3>5 DEF At
  <2> QED BY <2>1, <2>2
<1> QED BY <1>2, <1>3, <1>4 DEF IInv

LEMMA GotoMoves ==
  ASSUME NEW p, NEW l \in PC, NEW b \in Buffer \cup {NoBuffer},
         NEW t \in Block \cup {NoBlock}, NEW e \in BOOLEAN,
         Goto(p, l, b, t, e), At(pool', p, l, b, t)
  PROVE  Moves(p)
BY DEF Moves

\* A backend that returns needs nothing.
LEMMA ReturnMoves ==
  ASSUME NEW p, Return(p)
  PROVE  Moves(p)
<1>1. Goto(p, "idle", NoBuffer, NoBlock, FALSE)
  BY DEF Return
<1>2. At(pool', p, "idle", NoBuffer, NoBlock)
  BY DEF At, WithBuffer, WithVictim, WithBlock, Named, PC
<1>3. "idle" \in PC /\ FALSE \in BOOLEAN
  BY Zenon DEF PC
<1> QED BY <1>1, <1>2, <1>3, GotoMoves

\* What a pinned buffer named t makes p fit for.
LEMMA NamedAt ==
  ASSUME NEW S, NEW p, NEW l \in Named, NEW b \in Buffer, NEW t \in Block,
         S.priv[p][b] > 0, S.tag[b] = t
  PROVE  At(S, p, l, b, t)
BY DEF At, Named, WithVictim

LEMMA NamedMoves ==
  ASSUME NEW p, NEW l \in Named, NEW b \in Buffer, NEW t \in Block,
         NEW e \in BOOLEAN, Goto(p, l, b, t, e),
         pool'.priv[p][b] > 0, pool'.tag[b] = t
  PROVE  Moves(p)
<1>1. At(pool', p, l, b, t)
  BY NamedAt
<1>2. l \in PC
  BY DEF Named, PC
<1> QED BY <1>1, <1>2, GotoMoves

LEMMA FoundMoves ==
  ASSUME NEW p, NEW b \in Buffer, NEW t \in Block, NEW e \in BOOLEAN,
         Found(p, b, t, e), pool'.priv[p][b] > 0, pool'.tag[b] = t
  PROVE  Moves(p)
<1>1. CASE e
  <2>1. Goto(p, "extend", b, t, e) /\ "extend" \in Named
    BY <1>1 DEF Found, Named
  <2> QED BY <2>1, NamedMoves
<1>2. CASE ~e
  BY <1>2, ReturnMoves DEF Found
<1> QED BY <1>1, <1>2

\* What the branches of BufferAlloc have in common.
AllocOutcome(S, p) ==
  Good(pool') /\ Frame(S, pool', p) /\ Moves(p)
    /\ bufMgrLock' \in Proc \cup {NoProc}

LEMMA HitOutcome ==
  ASSUME NEW S, Good(S), bufMgrLock \in Proc \cup {NoProc}, NEW p \in Proc,
         NEW t \in Block, NEW e \in BOOLEAN, Hit(S, p, t, e)
  PROVE  AllocOutcome(S, p)
<1> DEFINE b == S.table[t]
<1>1. b \in Buffer /\ S.tag[b] = t
  BY DEF Hit, Good, Pool, TableExact
<1>2. pool' = PinBuffer(S, p, b)
  BY DEF Hit
<1> HIDE DEF b
<1>3. Good(pool') /\ pool'.priv = [S.priv EXCEPT ![p][b] = S.priv[p][b] + 1]
      /\ pool'.last = S.last /\ pool'.tag = S.tag
  BY <1>1, <1>2, PinGood
<1>4. Frame(S, pool', p)
  BY <1>1, <1>3, FrameOwn DEF Good
<1>5. pool'.priv[p][b] > 0 /\ pool'.tag[b] = t
  <2>1. S.priv \in [Proc -> [Buffer -> Nat]]
    BY DEF Good, Pool
  <2> QED BY <1>1, <1>3, <2>1
<1>6. bufMgrLock' \in Proc \cup {NoProc}
  BY DEF Hit
<1>7. Goto(p, "waitio", b, t, e) \/ Found(p, b, t, e)
  BY DEF Hit, b
<1>8. "waitio" \in Named
  BY DEF Named
<1>9. Moves(p)
  <2>1. CASE Goto(p, "waitio", b, t, e)
    BY <1>1, <1>5, <1>8, <2>1, NamedMoves
  <2>2. CASE Found(p, b, t, e)
    BY <1>1, <1>5, <2>2, FoundMoves
  <2> QED BY <1>7, <2>1, <2>2
<1> QED BY <1>3, <1>4, <1>6, <1>9 DEF AllocOutcome

LEMMA TakeDirtyOutcome ==
  ASSUME NEW S, Good(S), bufMgrLock \in Proc \cup {NoProc}, NEW p \in Proc,
         NEW t \in Block, NEW e \in BOOLEAN, TakeDirty(S, p, t, e)
  PROVE  AllocOutcome(S, p)
<1> DEFINE b == S.freeNext[FreeList]
           T == GetFreeBuffer(S, p)
           U == StartIO(T, b)
<1>1. ~FreeListEmpty(S) /\ pool' = SetFlags(U, b, {}, {"JUST_DIRTIED"})
      /\ Goto(p, "replace", b, t, e) /\ bufMgrLock' = bufMgrLock
  BY DEF TakeDirty
<1>2. /\ b \in Buffer /\ S.refcount[b] = 0 /\ Good(T)
      /\ T.priv = [S.priv EXCEPT ![p][b] = 1]
      /\ T.last = S.last /\ T.tag = S.tag
  BY <1>1, TakeGood
<1> HIDE DEF b, T
<1>3. Good(U) /\ U.priv = T.priv /\ U.last = T.last /\ U.tag = T.tag
  BY <1>2, StartIOGood
<1> HIDE DEF U
<1>4. Good(pool') /\ pool'.priv = U.priv /\ pool'.last = U.last
      /\ pool'.tag = U.tag
  <2>1. {} \in SUBSET Flag /\ {"FREE", "DELETED"} \cap {} = {}
        /\ {"FREE", "DELETED"} \cap {"JUST_DIRTIED"} = {}
    OBVIOUS
  <2> QED BY <1>1, <1>2, <1>3, <2>1, FlagsGood
<1>5. Frame(S, pool', p)
  BY <1>2, <1>3, <1>4, FrameOwn DEF Good
<1>6. S.last[p][b] = 0
  BY <1>2, Unheld
<1>7. pool'.priv[p][b] = 1 /\ pool'.last[p][b] = 0
  <2>1. S.priv \in [Proc -> [Buffer -> Nat]]
    BY DEF Good, Pool
  <2> QED BY <1>2, <1>3, <1>4, <1>6, <2>1
<1>8. At(pool', p, "replace", b, t)
  BY <1>2, <1>7 DEF At, Named
<1>9. "replace" \in PC
  BY DEF PC
<1>10. Moves(p)
  BY <1>1, <1>2, <1>8, <1>9, GotoMoves
<1> QED BY <1>1, <1>4, <1>5, <1>10 DEF AllocOutcome

LEMMA TakeCleanOutcome ==
  ASSUME NEW S, Good(S), bufMgrLock \in Proc \cup {NoProc}, NEW p \in Proc,
         NEW t \in Block, NEW e \in BOOLEAN, S.table[t] = NoBuffer,
         TakeClean(S, p, t, e)
  PROVE  AllocOutcome(S, p)
<1> DEFINE b == S.freeNext[FreeList]
           T == GetFreeBuffer(S, p)
           U == Install(T, b, t)
<1>1. ~FreeListEmpty(S) /\ pool' = StartIO(U, b)
      /\ Goto(p, "read", b, t, e) /\ bufMgrLock' = bufMgrLock
  BY DEF TakeClean
<1>2. /\ b \in Buffer /\ S.refcount[b] = 0 /\ Good(T)
      /\ T.priv = [S.priv EXCEPT ![p][b] = 1]
      /\ T.last = S.last /\ T.tag = S.tag /\ T.table = S.table
  BY <1>1, TakeGood
<1> HIDE DEF b, T
<1>3. /\ Good(U) /\ U.priv = T.priv /\ U.last = T.last
      /\ U.tag = [T.tag EXCEPT ![b] = t]
  BY <1>2, InstallGood
<1> HIDE DEF U
<1>4. Good(pool') /\ pool'.priv = U.priv /\ pool'.last = U.last
      /\ pool'.tag = U.tag
  BY <1>1, <1>2, <1>3, StartIOGood
<1>5. S \in Pool /\ T \in Pool
  BY <1>2 DEF Good
<1>6. Frame(S, T, p)
  BY <1>2, <1>5, FrameOwn
<1>7. Frame(T, pool', p)
  <2>1. S.priv \in [Proc -> [Buffer -> Nat]]
    BY <1>5 DEF Pool
  <2>2. \A q \in Proc \ {p} : T.priv[q][b] = 0
    BY <1>2, <2>1, Unheld
  <2> QED BY <1>2, <1>3, <1>4, <1>5, <2>2, FrameName
<1>8. Frame(S, pool', p)
  BY <1>6, <1>7, FrameTrans
<1>9. pool'.priv[p][b] > 0 /\ pool'.tag[b] = t
  <2>1. S.priv \in [Proc -> [Buffer -> Nat]] /\ T.tag \in [Buffer -> Block \cup {NoBlock}]
    BY <1>5 DEF Pool
  <2> QED BY <1>2, <1>3, <1>4, <2>1
<1>10. "read" \in Named
  BY DEF Named
<1>11. Moves(p)
  BY <1>1, <1>2, <1>9, <1>10, NamedMoves
<1> QED BY <1>1, <1>4, <1>8, <1>11 DEF AllocOutcome

\* Whichever way BufferAlloc goes, the descriptors stay consistent, the other
\* backends keep their pins and names, and p is fit for its next step.
LEMMA BufferAllocOutcome ==
  ASSUME NEW S, Good(S), bufMgrLock \in Proc \cup {NoProc}, NEW p \in Proc,
         NEW t \in Block, NEW e \in BOOLEAN, BufferAlloc(S, p, t, e)
  PROVE  AllocOutcome(S, p)
<1>1. CASE Hit(S, p, t, e)
  BY <1>1, HitOutcome
<1>2. CASE S.table[t] = NoBuffer /\ TakeDirty(S, p, t, e)
  BY <1>2, TakeDirtyOutcome
<1>3. CASE S.table[t] = NoBuffer /\ TakeClean(S, p, t, e)
  BY <1>3, TakeCleanOutcome
<1>4. CASE Exhausted(S, p)
  <2>1. pool' = S /\ bufMgrLock' = p /\ Return(p)
    BY <1>4 DEF Exhausted
  <2>2. Moves(p)
    BY <2>1, ReturnMoves
  <2>3. Frame(S, pool', p)
    BY <2>1, FrameSame
  <2> QED BY <2>1, <2>2, <2>3 DEF AllocOutcome
<1> QED BY <1>1, <1>2, <1>3, <1>4 DEF BufferAlloc, Miss

LEMMA SyncScanOutcome ==
  ASSUME NEW S, Good(S), NEW p \in Proc, NEW i, SyncScan(S, p, i)
  PROVE  Good(pool') /\ Frame(S, pool', p) /\ Moves(p)
<1> DEFINE D == {b \in Buffer : b >= i /\ "DIRTY" \in S.flags[b]}
<1>1. CASE pool' = S /\ Return(p)
  BY <1>1, ReturnMoves, FrameSame
<1>2. ASSUME NEW b \in Buffer,
             \/ /\ pool' = PinBuffer(S, p, b)
                /\ Goto(p, "syncwait", b, NoBlock, FALSE)
             \/ /\ pool' = SetFlags(PinBuffer(S, p, b), b, {}, {"JUST_DIRTIED"})
                /\ Goto(p, "syncwrite", b, NoBlock, FALSE)
      PROVE  Good(pool') /\ Frame(S, pool', p) /\ Moves(p)
  <2> DEFINE T == PinBuffer(S, p, b)
  <2>1. Good(T) /\ T.priv = [S.priv EXCEPT ![p][b] = S.priv[p][b] + 1]
        /\ T.last = S.last /\ T.tag = S.tag
    BY PinGood
  <2> HIDE DEF T
  <2>2. {} \in SUBSET Flag /\ {"FREE", "DELETED"} \cap {} = {}
        /\ {"FREE", "DELETED"} \cap {"JUST_DIRTIED"} = {}
    OBVIOUS
  <2>3. Good(pool') /\ pool'.priv = T.priv /\ pool'.last = T.last
        /\ pool'.tag = T.tag
    <3>1. CASE pool' = T
      BY <2>1, <3>1
    <3>2. CASE pool' = SetFlags(T, b, {}, {"JUST_DIRTIED"})
      BY <2>1, <2>2, <3>2, FlagsGood
    <3> QED BY <1>2, <3>1, <3>2 DEF T
  <2>4. Frame(S, pool', p)
    BY <2>1, <2>3, FrameOwn DEF Good
  <2>5. pool'.priv[p][b] > 0
    <3>1. S.priv \in [Proc -> [Buffer -> Nat]]
      BY DEF Good, Pool
    <3> QED BY <2>1, <2>3, <3>1
  <2>6. \A l \in {"syncwait", "syncwrite"} :
          l \in PC /\ At(pool', p, l, b, NoBlock)
    BY <2>5 DEF At, PC, Named, WithVictim, WithBlock
  <2>7. FALSE \in BOOLEAN
    BY Zenon
  <2>8. Moves(p)
    BY <1>2, <2>6, <2>7, GotoMoves
  <2> QED BY <2>3, <2>4, <2>8
<1>3. \/ pool' = S /\ Return(p)
      \/ \E b \in Buffer :
           \/ /\ pool' = PinBuffer(S, p, b)
              /\ Goto(p, "syncwait", b, NoBlock, FALSE)
           \/ /\ pool' = SetFlags(PinBuffer(S, p, b), b, {}, {"JUST_DIRTIED"})
              /\ Goto(p, "syncwrite", b, NoBlock, FALSE)
  BY Zenon DEF SyncScan
<1> QED BY <1>1, <1>2, <1>3

-----------------------------------------------------------------------------
(* The forms in which the actions use StepInv.                             *)

LEMMA InvFacts ==
  ASSUME IInv, NEW p \in Proc
  PROVE  /\ Good(pool) /\ TypeOK
         /\ At(pool, p, pc[p], buf[p], want[p])
         /\ pool.priv[p] \in [Buffer -> Nat] /\ pool.last[p] \in [Buffer -> Nat]
         /\ lost[p] \in [Buffer -> Nat]
BY DEF IInv, TypeOK, PoolInv, ProcInv, Good, Ring, Pool

\* Only descriptors and p's own step change.
LEMMA PoolStep ==
  ASSUME IInv, NEW p \in Proc, Good(pool'), Frame(pool, pool', p), Moves(p),
         UNCHANGED <<data, disk, nblocks, bufMgrLock, lost>>
  PROVE  IInv'
<1>1. TypeOK
  BY DEF IInv
<1>2. /\ data' \in [Buffer -> Data] /\ disk' \in [Block -> Data]
      /\ nblocks' \in Nat /\ bufMgrLock' \in Proc \cup {NoProc}
      /\ lost' \in [Proc -> [Buffer -> Nat]]
  BY <1>1 DEF TypeOK
<1> QED BY <1>2, StepInv

\* An action that ends in BufferAlloc.
LEMMA AllocStep ==
  ASSUME IInv, NEW p \in Proc, NEW S, Good(S), Frame(pool, S, p),
         NEW t \in Block, NEW e \in BOOLEAN, BufferAlloc(S, p, t, e),
         UNCHANGED <<data, disk, nblocks, lost>>
  PROVE  IInv'
<1>1. TypeOK
  BY DEF IInv
<1>2. /\ data' \in [Buffer -> Data] /\ disk' \in [Block -> Data]
      /\ nblocks' \in Nat /\ bufMgrLock \in Proc \cup {NoProc}
      /\ lost' \in [Proc -> [Buffer -> Nat]]
  BY <1>1 DEF TypeOK
<1>3. AllocOutcome(S, p)
  BY <1>2, BufferAllocOutcome
<1>4. Frame(pool, pool', p)
  BY <1>3, FrameTrans DEF AllocOutcome
<1> QED BY <1>2, <1>3, <1>4, StepInv DEF AllocOutcome

\* An I/O: descriptors untouched.
LEMMA IOStep ==
  ASSUME IInv, NEW p \in Proc, pool' = pool, Moves(p),
         data' \in [Buffer -> Data], disk' \in [Block -> Data],
         nblocks' \in Nat, bufMgrLock' = bufMgrLock, lost' = lost
  PROVE  IInv'
<1>1. TypeOK /\ Good(pool')
  BY InvFacts
<1>2. bufMgrLock' \in Proc \cup {NoProc} /\ lost' \in [Proc -> [Buffer -> Nat]]
  BY <1>1 DEF TypeOK
<1>3. Frame(pool, pool', p)
  BY FrameSame
<1> QED BY <1>1, <1>2, <1>3, StepInv

LEMMA StepMoves ==
  ASSUME IInv, NEW p \in Proc, NEW l \in PC, Step(p, l),
         At(pool', p, l, buf[p], want[p])
  PROVE  Moves(p)
<1>1. buf[p] \in Buffer \cup {NoBuffer} /\ want[p] \in Block \cup {NoBlock}
      /\ ext[p] \in BOOLEAN
  BY DEF IInv, TypeOK
<1> QED BY <1>1, GotoMoves DEF Step

\* From step to step with the same needs.
LEMMA SameNeeds ==
  ASSUME IInv, NEW p \in Proc, NEW l \in PC, Step(p, l), pool' = pool,
         l \in WithBuffer => pc[p] \in WithBuffer,
         l \in WithVictim => pc[p] \in WithVictim,
         l \in WithBlock => pc[p] \in WithBlock,
         l \in Named => pc[p] \in Named
  PROVE  Moves(p)
<1>1. At(pool, p, pc[p], buf[p], want[p])
  BY InvFacts
<1>2. At(pool', p, l, buf[p], want[p])
  BY <1>1 DEF At
<1> QED BY <1>2, StepMoves

LEMMA StayMoves ==
  ASSUME IInv, NEW p \in Proc, pc[p] = "idle", UNCHANGED <<pc, buf, want, ext>>
  PROVE  Moves(p)
<1>1. buf[p] \in Buffer \cup {NoBuffer} /\ want[p] \in Block \cup {NoBlock}
      /\ ext[p] \in BOOLEAN /\ "idle" \in PC
  BY DEF IInv, TypeOK, PC
<1>2. Goto(p, "idle", buf[p], want[p], ext[p])
  BY DEF Goto, IInv, TypeOK
<1>3. At(pool', p, "idle", buf[p], want[p])
  BY DEF At, WithBuffer, WithVictim, WithBlock, Named, PC
<1> QED BY <1>1, <1>2, <1>3, GotoMoves

\* A pin that p knows of is a pin.
LEMMA HeldPin ==
  ASSUME IInv, NEW p \in Proc, NEW b \in Buffer, Held(p, b)
  PROVE  pool.priv[p][b] \in Nat /\ pool.priv[p][b] > 0
<1>1. pool.priv[p][b] \in Nat /\ lost[p][b] \in Nat
  BY InvFacts
<1> QED BY <1>1 DEF Held

\* ReleaseBuffer, FlushBuffer's and WriteBuffer's unpin: only p's pin changes.
LEMMA UnpinFrame ==
  ASSUME NEW S, Good(S), NEW p \in Proc, NEW b \in Buffer, S.priv[p][b] > 0
  PROVE  Good(UnpinBuffer(S, p, b)) /\ Frame(S, UnpinBuffer(S, p, b), p)
<1> DEFINE T == UnpinBuffer(S, p, b)
<1>1. Good(T) /\ T.priv = [S.priv EXCEPT ![p][b] = S.priv[p][b] - 1]
      /\ T.last = S.last /\ T.tag = S.tag
  BY UnpinGood
<1> HIDE DEF T
<1>2. Frame(S, T, p)
  BY <1>1, FrameOwn DEF Good
<1> QED BY <1>1, <1>2 DEF T

\* SetPrivate with p's pin kept: only p's pin changes.
LEMMA PrivateFrame ==
  ASSUME NEW S, Good(S), NEW p \in Proc, NEW b \in Buffer, NEW n \in Nat,
         S.priv[p][b] + S.last[p][b] > 0, n + S.last[p][b] > 0
  PROVE  Good(SetPrivate(S, p, b, n)) /\ Frame(S, SetPrivate(S, p, b, n), p)
<1> DEFINE T == SetPrivate(S, p, b, n)
<1>1. Good(T) /\ T.priv = [S.priv EXCEPT ![p][b] = n]
      /\ T.last = S.last /\ T.tag = S.tag
  BY PrivateGood
<1> HIDE DEF T
<1>2. Frame(S, T, p)
  BY <1>1, FrameOwn DEF Good
<1> QED BY <1>1, <1>2 DEF T

\* A call of an idle backend keeps the invariant.
LEMMA CallInv ==
  ASSUME IInv, NEW p \in Proc, Call(p)
  PROVE  IInv'
<1>1. Good(pool) /\ TypeOK /\ Frame(pool, pool, p)
  BY InvFacts, FrameSame
<1>2. FALSE \in BOOLEAN /\ TRUE \in BOOLEAN
  BY Zenon
<1>3. MayExtend => nblocks \in Block
  <2>1. nblocks \in Nat /\ MaxBlock \in Nat
    BY <1>1, ConstantsAssumption DEF TypeOK
  <2>2. Cardinality({q \in Proc : ext[q]}) \in Nat
    BY ConstantsAssumption, FS_Subset, FS_CardinalityType
  <2> QED BY <2>1, <2>2 DEF MayExtend, Block
<1>4. ASSUME NEW t \in Block, ReadBuffer(p, t) PROVE IInv'
  BY <1>1, <1>2, <1>4, AllocStep DEF ReadBuffer
<1>5. CASE ReadBufferNew(p)
  <2>1. pool' = pool /\ Goto(p, "alloc", NoBuffer, nblocks, TRUE)
        /\ nblocks \in Block
        /\ UNCHANGED <<data, disk, nblocks, bufMgrLock, lost>>
    BY <1>3, <1>5 DEF ReadBufferNew
  <2>2. "alloc" \in PC /\ At(pool', p, "alloc", NoBuffer, nblocks)
    BY <2>1 DEF PC, At, WithBuffer, WithVictim, Named
  <2>3. Moves(p)
    BY <1>2, <2>1, <2>2, GotoMoves
  <2> QED BY <1>1, <2>1, <2>3, PoolStep
<1>6. CASE BufferSync(p)
  <2>1. SyncScan(pool, p, 0) /\ UNCHANGED <<data, disk, nblocks, bufMgrLock, lost>>
    BY <1>6 DEF BufferSync
  <2> QED BY <1>1, <2>1, SyncScanOutcome, PoolStep
<1>7. ASSUME NEW b \in Buffer, NEW t \in Block,
             RelationGetBufferWithBuffer(p, b, t)
      PROVE  IInv'
  BY <1>1, <1>2, <1>7, AllocStep DEF RelationGetBufferWithBuffer
<1>8. ASSUME NEW b \in Buffer, NEW t \in Block, NEW e \in BOOLEAN,
             ReleaseAndReadBuffer(p, b, t, e)
      PROVE  IInv'
  <2>1. pool.priv[p][b] > 0
    BY <1>8, HeldPin DEF ReleaseAndReadBuffer
  <2>2. Good(ReleaseBuffer(pool, p, b))
        /\ Frame(pool, ReleaseBuffer(pool, p, b), p)
    BY <1>1, <2>1, UnpinFrame DEF ReleaseBuffer
  <2>3. BufferAlloc(ReleaseBuffer(pool, p, b), p, t, e)
        /\ UNCHANGED <<data, disk, nblocks, lost>>
    BY <1>8 DEF ReleaseAndReadBuffer
  <2> QED BY <2>2, <2>3, AllocStep
<1>9. ASSUME NEW b \in Buffer, NEW t \in Block, NEW e \in BOOLEAN,
             UnpinAndReadBuffer(p, b, t, e)
      PROVE  IInv'
  <2> DEFINE n == pool.priv[p][b] - 1
  <2>1. pool.priv[p][b] \in Nat /\ pool.last[p][b] \in Nat
        /\ pool.priv[p][b] > 0
    BY <1>9, HeldPin, InvFacts DEF UnpinAndReadBuffer
  <2>2. pool.priv[p][b] > 1 \/ pool.last[p][b] > 0
    BY <1>9 DEF UnpinAndReadBuffer
  <2>3. n \in Nat /\ pool.priv[p][b] + pool.last[p][b] > 0
        /\ n + pool.last[p][b] > 0
    BY <2>1, <2>2
  <2>4. pool' = SetPrivate(pool, p, b, n) /\ Goto(p, "alloc", NoBuffer, t, e)
        /\ UNCHANGED <<data, disk, nblocks, bufMgrLock, lost>>
    BY <1>9 DEF UnpinAndReadBuffer
  <2> HIDE DEF n
  <2>5. Good(pool') /\ Frame(pool, pool', p)
    BY <1>1, <2>3, <2>4, PrivateFrame
  <2>6. "alloc" \in PC /\ At(pool', p, "alloc", NoBuffer, t)
    BY DEF PC, At, WithBuffer, WithVictim, Named
  <2>7. Moves(p)
    BY <2>4, <2>6, GotoMoves
  <2> QED BY <2>4, <2>5, <2>7, PoolStep
<1>10. ASSUME NEW b \in Buffer, IncrBufferRefCount(p, b) PROVE IInv'
  <2> DEFINE n == pool.priv[p][b] + 1
  <2>1. pool.priv[p][b] \in Nat /\ pool.last[p][b] \in Nat
        /\ pool.priv[p][b] > 0
    BY <1>10, HeldPin, InvFacts DEF IncrBufferRefCount
  <2>2. n \in Nat /\ pool.priv[p][b] + pool.last[p][b] > 0
        /\ n + pool.last[p][b] > 0
    BY <2>1
  <2>3. pool' = SetPrivate(pool, p, b, n) /\ pc[p] = "idle"
        /\ UNCHANGED <<data, disk, nblocks, bufMgrLock, lost, pc, buf, want, ext>>
    BY <1>10 DEF IncrBufferRefCount
  <2> HIDE DEF n
  <2>4. Good(pool') /\ Frame(pool, pool', p)
    BY <1>1, <2>2, <2>3, PrivateFrame
  <2>5. Moves(p)
    BY <2>3, StayMoves
  <2> QED BY <2>3, <2>4, <2>5, PoolStep
<1>11. ASSUME NEW b \in Buffer, Release(p, b) PROVE IInv'
  <2>1. pool' = UnpinBuffer(pool, p, b) /\ pc[p] = "idle"
        /\ UNCHANGED <<data, disk, nblocks, bufMgrLock, lost, pc, buf, want, ext>>
    BY <1>11 DEF Release, ReleaseBuffer
  <2>2. pool.priv[p][b] > 0
    BY <1>11, HeldPin DEF Release
  <2>3. Good(pool') /\ Frame(pool, pool', p)
    BY <1>1, <2>1, <2>2, UnpinFrame
  <2>4. Moves(p)
    BY <2>1, StayMoves
  <2> QED BY <2>1, <2>3, <2>4, PoolStep
<1>12. ASSUME NEW b \in Buffer, NEW v \in Data, Modify(p, b, v) PROVE IInv'
  <2>1. data' = [data EXCEPT ![b] = v] /\ pool' = pool
        /\ Goto(p, "modified", b, NoBlock, FALSE)
        /\ UNCHANGED <<disk, nblocks, bufMgrLock, lost>>
    BY <1>12 DEF Modify
  <2>2. pool.priv[p][b] > 0
    BY <1>12, HeldPin DEF Modify
  <2>3. "modified" \in PC /\ At(pool', p, "modified", b, NoBlock)
    BY <2>1, <2>2 DEF PC, At, WithVictim, WithBlock, Named
  <2>4. Moves(p)
    BY <1>2, <2>1, <2>3, GotoMoves
  <2>5. data' \in [Buffer -> Data] /\ disk' \in [Block -> Data] /\ nblocks' \in Nat
    BY <1>1, <2>1 DEF TypeOK
  <2> QED BY <2>1, <2>4, <2>5, IOStep
<1>13. CASE BufferRefCountReset(p) \/ BufferRefCountRestore(p)
  <2>1. pool' = ExchangeLevels(pool, p) /\ pc[p] = "idle"
        /\ UNCHANGED <<data, disk, nblocks, bufMgrLock, lost, pc, buf, want, ext>>
    BY <1>13 DEF BufferRefCountReset, BufferRefCountRestore
  <2>2. Good(pool') /\ Frame(pool, pool', p)
    BY <1>1, <2>1, ExchangeGood
  <2>3. Moves(p)
    BY <2>1, StayMoves
  <2> QED BY <2>1, <2>2, <2>3, PoolStep
<1>14. CASE ResetBufferPool(p)
  <2>1. pool' = pool /\ Goto(p, "reset", NoBuffer, NoBlock, FALSE)
        /\ lost' = [lost EXCEPT ![p] = [b \in Buffer |-> 0]]
        /\ UNCHANGED <<data, disk, nblocks, bufMgrLock>>
    BY <1>14 DEF ResetBufferPool
  <2>2. "reset" \in PC /\ At(pool', p, "reset", NoBuffer, NoBlock)
    BY DEF PC, At, WithBuffer, WithVictim, WithBlock, Named
  <2>3. Moves(p)
    BY <1>2, <2>1, <2>2, GotoMoves
  <2>4. /\ data' \in [Buffer -> Data] /\ disk' \in [Block -> Data]
        /\ nblocks' \in Nat /\ bufMgrLock' \in Proc \cup {NoProc}
        /\ lost' \in [Proc -> [Buffer -> Nat]]
    BY <1>1, <2>1 DEF TypeOK
  <2>5. Good(pool') /\ Frame(pool, pool', p)
    BY <1>1, <2>1
  <2> QED BY <2>3, <2>4, <2>5, StepInv
<1>15. CASE DropBuffers(p)
  <2>1. pool' = [pool EXCEPT !.flags =
                   [b \in Buffer |-> pool.flags[b] \ {"DIRTY"}]]
        /\ pc[p] = "idle"
        /\ UNCHANGED <<data, disk, nblocks, bufMgrLock, lost, pc, buf, want, ext>>
    BY <1>15 DEF DropBuffers
  <2>2. Good(pool') /\ Frame(pool, pool', p)
    BY <1>1, <2>1, DropGood
  <2>3. Moves(p)
    BY <2>1, StayMoves
  <2> QED BY <2>1, <2>2, <2>3, PoolStep
<1> QED BY <1>4, <1>5, <1>6, <1>7, <1>8, <1>9, <1>10, <1>11, <1>12, <1>13,
           <1>14, <1>15 DEF Call

\* What BufferAlloc does with a victim it does not take.
LEMMA GivenUp ==
  ASSUME IInv, NEW p \in Proc, pc[p] \in WithVictim,
         NEW on \in SUBSET {"IO_ERROR"}, NEW off \in SUBSET {"DIRTY"}
  PROVE  LET S == GiveUp(EndIO(pool, buf[p], on, off), p, buf[p])
         IN  Good(S) /\ Frame(pool, S, p) /\ want[p] \in Block
<1> DEFINE T == EndIO(pool, buf[p], on, off)
           U == GiveUp(T, p, buf[p])
<1>1. Good(pool) /\ At(pool, p, pc[p], buf[p], want[p])
  BY InvFacts
<1>2. buf[p] \in Buffer /\ pool.priv[p][buf[p]] = 1
      /\ pool.last[p][buf[p]] = 0 /\ want[p] \in Block
  BY <1>1 DEF At, WithBuffer, WithVictim, WithBlock, PC
<1>3. on \in SUBSET Flag /\ {"FREE", "DELETED"} \cap on = {}
      /\ {"FREE", "DELETED"} \cap off = {}
  BY DEF Flag
<1>4. Good(T) /\ T.priv = pool.priv /\ T.last = pool.last /\ T.tag = pool.tag
  BY <1>1, <1>2, <1>3, EndIOGood
<1> HIDE DEF T
<1>5. T.priv[p][buf[p]] > 0 /\ T.last[p][buf[p]] = 0
  BY <1>2, <1>4
<1>6. /\ Good(U) /\ U.priv = [T.priv EXCEPT ![p][buf[p]] = 0]
      /\ U.last = T.last /\ U.tag = T.tag
  BY <1>2, <1>4, <1>5, GiveUpGood
<1> HIDE DEF U
<1>7. U.priv = [pool.priv EXCEPT ![p][buf[p]] = 0]
      /\ U.last = pool.last /\ U.tag = pool.tag
  BY <1>4, <1>6
<1>8. Frame(pool, U, p)
  BY <1>1, <1>2, <1>7, FrameOwn DEF Good
<1> QED BY <1>2, <1>6, <1>8 DEF U, T

\* The steps of BufferAlloc and ReadBuffer once the call is under way.
LEMMA AllocProgress ==
  ASSUME IInv, NEW p \in Proc,
         \/ Alloc(p) \/ Waited(p) \/ ReadDone(p) \/ ReadFailed(p)
         \/ ReplacedPinned(p) \/ ReplacedRaced(p) \/ ReplacedMine(p)
         \/ ReplaceFailed(p)
  PROVE  IInv'
<1>1. Good(pool) /\ TypeOK /\ Frame(pool, pool, p)
      /\ At(pool, p, pc[p], buf[p], want[p])
      /\ pool.priv[p] \in [Buffer -> Nat] /\ ext[p] \in BOOLEAN
  BY InvFacts, FrameSame DEF TypeOK
<1>2. pc[p] \in WithBuffer => buf[p] \in Buffer /\ pool.priv[p][buf[p]] > 0
  BY <1>1 DEF At
<1>3. {} \in SUBSET {"IO_ERROR"} /\ {"IO_ERROR"} \in SUBSET {"IO_ERROR"}
      /\ {} \in SUBSET {"DIRTY"} /\ {"DIRTY"} \in SUBSET {"DIRTY"}
  OBVIOUS
<1>4. CASE Alloc(p)
  <2>1. want[p] \in Block
    BY <1>1, <1>4 DEF Alloc, At, WithBlock
  <2>2. BufferAlloc(pool, p, want[p], ext[p])
        /\ UNCHANGED <<data, disk, nblocks, lost>>
    BY <1>4 DEF Alloc
  <2> QED BY <1>1, <2>1, <2>2, AllocStep
<1>5. CASE Waited(p)
  <2>1. pc[p] = "waited" /\ UNCHANGED <<pool, data, disk, nblocks, bufMgrLock, lost>>
        /\ (Step(p, "read") \/ Found(p, buf[p], want[p], ext[p]))
    BY <1>5 DEF Waited
  <2>2. buf[p] \in Buffer /\ pool'.priv[p][buf[p]] > 0 /\ want[p] \in Block
        /\ pool'.tag[buf[p]] = want[p]
    BY <1>1, <2>1 DEF At, WithBuffer, WithBlock, Named, PC
  <2>3. Moves(p)
    <3>1. CASE Step(p, "read")
      <4>1. "read" \in Named
        BY DEF Named
      <4> QED BY <1>1, <2>2, <3>1, <4>1, NamedMoves DEF Step
    <3>2. CASE Found(p, buf[p], want[p], ext[p])
      BY <1>1, <2>2, <3>2, FoundMoves
    <3> QED BY <2>1, <3>1, <3>2
  <2> QED BY <1>1, <2>1, <2>3, PoolStep
<1>6. CASE ReadDone(p)
  <2>1. pc[p] = "readdone" /\ Return(p)
        /\ pool' = EndIO(pool, buf[p], {}, {"IO_ERROR"})
        /\ UNCHANGED <<data, disk, nblocks, bufMgrLock, lost>>
    BY <1>6 DEF ReadDone
  <2>2. buf[p] \in Buffer
    BY <1>2, <2>1 DEF WithBuffer, PC
  <2>3. {} \in SUBSET Flag /\ {"FREE", "DELETED"} \cap {} = {}
        /\ {"FREE", "DELETED"} \cap {"IO_ERROR"} = {}
    OBVIOUS
  <2>4. Good(pool') /\ pool'.priv = pool.priv /\ pool'.last = pool.last
        /\ pool'.tag = pool.tag
    BY <1>1, <2>1, <2>2, <2>3, EndIOGood
  <2>5. Frame(pool, pool', p) /\ Moves(p)
    BY <2>1, <2>4, FrameSame, ReturnMoves
  <2> QED BY <2>1, <2>4, <2>5, PoolStep
<1>7. CASE ReadFailed(p)
  <2> DEFINE T == BufTableDelete(pool, buf[p])
             U == UnpinBuffer(T, p, buf[p])
  <2>1. pc[p] = "readfail" /\ Return(p)
        /\ pool' = EndIO(U, buf[p], {"IO_ERROR"}, {})
        /\ UNCHANGED <<data, disk, nblocks, bufMgrLock, lost>>
    BY <1>7 DEF ReadFailed
  <2>2. buf[p] \in Buffer /\ pool.priv[p][buf[p]] > 0
    BY <1>2, <2>1 DEF WithBuffer, PC
  <2>3. Good(T) /\ T.priv = pool.priv /\ T.last = pool.last /\ T.tag = pool.tag
    BY <1>1, <2>2, DeleteGood
  <2> HIDE DEF T
  <2>4. Frame(pool, T, p)
    BY <2>3, FrameSame
  <2>5. Good(U) /\ Frame(T, U, p)
    BY <2>2, <2>3, UnpinFrame
  <2> HIDE DEF U
  <2>6. {"IO_ERROR"} \in SUBSET Flag /\ {"FREE", "DELETED"} \cap {} = {}
        /\ {"FREE", "DELETED"} \cap {"IO_ERROR"} = {}
    BY DEF Flag
  <2>7. Good(pool') /\ pool'.priv = U.priv /\ pool'.last = U.last
        /\ pool'.tag = U.tag
    BY <2>1, <2>2, <2>5, <2>6, EndIOGood
  <2>8. Frame(U, pool', p)
    BY <2>7, FrameSame
  <2>9. Frame(pool, pool', p) /\ Moves(p)
    BY <2>1, <2>4, <2>5, <2>8, FrameTrans, ReturnMoves
  <2> QED BY <2>1, <2>7, <2>9, PoolStep
<1>8. CASE ReplacedPinned(p)
  <2> DEFINE S == GiveUp(EndIO(pool, buf[p], {}, {"DIRTY"}), p, buf[p])
  <2>1. pc[p] \in WithVictim /\ BufferAlloc(S, p, want[p], ext[p])
        /\ UNCHANGED <<data, disk, nblocks, lost>>
    BY <1>8 DEF ReplacedPinned, WithVictim
  <2>2. Good(S) /\ Frame(pool, S, p) /\ want[p] \in Block
    BY <1>3, <2>1, GivenUp
  <2> HIDE DEF S
  <2> QED BY <1>1, <2>1, <2>2, AllocStep
<1>9. CASE ReplacedRaced(p)
  <2> DEFINE S == GiveUp(EndIO(pool, buf[p], {}, {"DIRTY"}), p, buf[p])
  <2>1. pc[p] \in WithVictim /\ BufferAlloc(S, p, want[p], ext[p])
        /\ UNCHANGED <<data, disk, nblocks, lost>>
    BY <1>9 DEF ReplacedRaced, WithVictim, BufferAlloc
  <2>2. Good(S) /\ Frame(pool, S, p) /\ want[p] \in Block
    BY <1>3, <2>1, GivenUp
  <2> HIDE DEF S
  <2> QED BY <1>1, <2>1, <2>2, AllocStep
<1>10. CASE ReplaceFailed(p)
  <2> DEFINE S == GiveUp(EndIO(pool, buf[p], {"IO_ERROR"}, {}), p, buf[p])
  <2>1. pc[p] \in WithVictim /\ BufferAlloc(S, p, want[p], ext[p])
        /\ UNCHANGED <<data, disk, nblocks, lost>>
    BY <1>10 DEF ReplaceFailed, WithVictim
  <2>2. Good(S) /\ Frame(pool, S, p) /\ want[p] \in Block
    BY <1>3, <2>1, GivenUp
  <2> HIDE DEF S
  <2> QED BY <1>1, <2>1, <2>2, AllocStep
<1>11. CASE ReplacedMine(p)
  <2> DEFINE T == SetFlags(pool, buf[p], {}, {"DIRTY"})
  <2>1. pc[p] = "replaced" /\ pool.refcount[buf[p]] <= 1
        /\ pool.table[want[p]] = NoBuffer
        /\ pool' = Install(T, buf[p], want[p]) /\ Step(p, "read")
        /\ UNCHANGED <<data, disk, nblocks, bufMgrLock, lost>>
    BY <1>11 DEF ReplacedMine
  <2>2. buf[p] \in Buffer /\ pool.priv[p][buf[p]] > 0 /\ want[p] \in Block
    BY <1>1, <2>1 DEF At, WithBuffer, WithBlock, WithVictim, PC
  <2>3. {} \in SUBSET Flag /\ {"FREE", "DELETED"} \cap {} = {}
        /\ {"FREE", "DELETED"} \cap {"DIRTY"} = {}
    OBVIOUS
  <2>4. Good(T) /\ T.priv = pool.priv /\ T.last = pool.last /\ T.tag = pool.tag
        /\ T.table = pool.table /\ T.refcount = pool.refcount
    BY <1>1, <2>2, <2>3, FlagsGood
  <2> HIDE DEF T
  <2>5. Good(pool') /\ pool'.priv = T.priv /\ pool'.last = T.last
        /\ pool'.tag = [T.tag EXCEPT ![buf[p]] = want[p]]
    BY <2>1, <2>2, <2>4, InstallGood
  <2>6. \A q \in Proc \ {p} : pool.priv[q][buf[p]] = 0
    BY <1>1, <2>1, <2>2, SoleHolder
  <2>7. pool.tag \in [Buffer -> Block \cup {NoBlock}] /\ pool \in Pool
    BY <1>1 DEF Good, Pool
  <2>8. Frame(pool, pool', p)
    BY <2>2, <2>4, <2>5, <2>6, <2>7, FrameName
  <2>9. pool'.priv[p][buf[p]] > 0 /\ pool'.tag[buf[p]] = want[p]
    BY <2>2, <2>4, <2>5, <2>7
  <2>10. "read" \in Named
    BY DEF Named
  <2>11. Moves(p)
    BY <1>1, <2>1, <2>2, <2>9, <2>10, NamedMoves DEF Step
  <2> QED BY <2>1, <2>5, <2>8, <2>11, PoolStep
<1> QED BY <1>4, <1>5, <1>6, <1>7, <1>8, <1>9, <1>10, <1>11

\* The I/O steps.
LEMMA IOProgress ==
  ASSUME IInv, NEW p \in Proc,
         \/ WaitIO(p) \/ ReadBlock(p) \/ ReadBlockFails(p)
         \/ ExtendBlock(p) \/ ExtendBlockFails(p)
         \/ ExtendFound(p) \/ ExtendFoundFails(p)
         \/ WriteBlock(p) \/ WriteBlockFails(p) \/ SyncWrite(p)
  PROVE  IInv'
<1>1. Good(pool) /\ TypeOK /\ At(pool, p, pc[p], buf[p], want[p])
  BY InvFacts
<1>2. /\ data \in [Buffer -> Data] /\ disk \in [Block -> Data]
      /\ nblocks \in Nat /\ Zero \in Data
  BY <1>1, ConstantsAssumption DEF TypeOK
<1>3. pc[p] \in WithBuffer => buf[p] \in Buffer
  BY <1>1 DEF At
<1>4. CASE WaitIO(p)
  <2>1. UNCHANGED <<pool, data, disk, nblocks, bufMgrLock, lost>>
        /\ \/ pc[p] = "waitio" /\ Step(p, "waited")
           \/ pc[p] = "syncwait" /\ Step(p, "syncwaited")
    BY <1>4 DEF WaitIO
  <2>2. CASE pc[p] = "waitio" /\ Step(p, "waited")
    <3>1. Moves(p)
      BY <2>1, <2>2, SameNeeds DEF PC, WithBuffer, WithVictim, WithBlock, Named
    <3> QED BY <1>2, <2>1, <3>1, IOStep
  <2>3. CASE pc[p] = "syncwait" /\ Step(p, "syncwaited")
    <3>1. Moves(p)
      BY <2>1, <2>3, SameNeeds DEF PC, WithBuffer, WithVictim, WithBlock, Named
    <3> QED BY <1>2, <2>1, <3>1, IOStep
  <2> QED BY <2>1, <2>2, <2>3
<1>5. CASE ReadBlock(p)
  <2>1. pc[p] = "read" /\ Step(p, "readdone")
        /\ data' = [data EXCEPT ![buf[p]] = disk[want[p]]]
        /\ UNCHANGED <<pool, disk, nblocks, bufMgrLock, lost>>
    BY <1>5 DEF ReadBlock
  <2>2. want[p] \in Block
    BY <1>1, <2>1 DEF At, WithBlock, Named
  <2>3. Moves(p)
    BY <2>1, SameNeeds DEF PC, WithBuffer, WithVictim, WithBlock, Named
  <2>4. data' \in [Buffer -> Data]
    BY <1>2, <2>1, <2>2
  <2> QED BY <1>2, <2>1, <2>3, <2>4, IOStep
<1>6. CASE ReadBlockFails(p)
  <2>1. pc[p] = "read" /\ Step(p, "readfail")
        /\ UNCHANGED <<pool, disk, nblocks, bufMgrLock, lost>>
        /\ data' \in [Buffer -> Data]
    BY <1>2, <1>6 DEF ReadBlockFails
  <2>2. Moves(p)
    BY <2>1, SameNeeds DEF PC, WithBuffer, WithVictim, WithBlock, Named
  <2> QED BY <1>2, <2>1, <2>2, IOStep
<1>7. ASSUME AppendBlock(p)
      PROVE  /\ pool' = pool /\ data' \in [Buffer -> Data]
             /\ disk' \in [Block -> Data] /\ nblocks' \in Nat
             /\ UNCHANGED <<bufMgrLock, lost>>
  <2>1. /\ data' = [data EXCEPT ![buf[p]] = Zero]
        /\ disk' = [disk EXCEPT ![nblocks] = Zero]
        /\ nblocks' = nblocks + 1 /\ UNCHANGED <<pool, bufMgrLock, lost>>
    BY <1>7 DEF AppendBlock, Written
  <2>2. nblocks' \in Nat
    BY <1>2, <2>1
  <2>3. data' \in [Buffer -> Data]
    BY <1>2, <2>1
  <2>4. disk' \in [Block -> Data]
    BY <1>2, <2>1
  <2> QED BY <2>1, <2>2, <2>3, <2>4
<1>8. CASE ExtendBlock(p)
  <2>1. pc[p] = "read" /\ Step(p, "readdone") /\ AppendBlock(p)
    BY <1>8 DEF ExtendBlock
  <2>2. Moves(p)
    BY <1>7, <2>1, SameNeeds DEF PC, WithBuffer, WithVictim, WithBlock, Named
  <2> QED BY <1>7, <2>1, <2>2, IOStep
<1>9. CASE ExtendBlockFails(p)
  <2>1. pc[p] = "read" /\ Step(p, "readfail")
        /\ UNCHANGED <<pool, disk, nblocks, bufMgrLock, lost>>
        /\ data' \in [Buffer -> Data]
    BY <1>2, <1>9 DEF ExtendBlockFails
  <2>2. Moves(p)
    BY <2>1, SameNeeds DEF PC, WithBuffer, WithVictim, WithBlock, Named
  <2> QED BY <1>2, <2>1, <2>2, IOStep
<1>10. CASE ExtendFound(p)
  <2>1. Return(p) /\ AppendBlock(p)
    BY <1>10 DEF ExtendFound
  <2> QED BY <1>7, <2>1, ReturnMoves, IOStep
<1>11. CASE ExtendFoundFails(p)
  <2>1. Return(p) /\ UNCHANGED <<pool, disk, nblocks, bufMgrLock, lost>>
        /\ data' \in [Buffer -> Data]
    BY <1>2, <1>11 DEF ExtendFoundFails
  <2> QED BY <1>2, <2>1, ReturnMoves, IOStep
<1>12. pc[p] \in {"replace", "flush", "syncwrite"} =>
         Written(pool.tag[buf[p]], data[buf[p]]) \in [Block -> Data]
  BY <1>2, <1>3 DEF Written, WithBuffer, PC
<1>13. CASE WriteBlock(p)
  <2>1. pc[p] \in {"replace", "flush"} /\ disk' \in [Block -> Data]
        /\ UNCHANGED <<pool, data, nblocks, bufMgrLock, lost>>
        /\ \/ pc[p] = "replace" /\ Step(p, "replaced")
           \/ pc[p] = "flush" /\ Step(p, "flushed")
    BY <1>12, <1>13 DEF WriteBlock
  <2>2. CASE pc[p] = "replace" /\ Step(p, "replaced")
    <3>1. Moves(p)
      BY <2>1, <2>2, SameNeeds DEF PC, WithBuffer, WithVictim, WithBlock, Named
    <3> QED BY <1>2, <2>1, <3>1, IOStep
  <2>3. CASE pc[p] = "flush" /\ Step(p, "flushed")
    <3>1. Moves(p)
      BY <2>1, <2>3, SameNeeds DEF PC, WithBuffer, WithVictim, WithBlock, Named
    <3> QED BY <1>2, <2>1, <3>1, IOStep
  <2> QED BY <2>1, <2>2, <2>3
<1>14. CASE WriteBlockFails(p)
  <2>1. pc[p] \in {"replace", "flush"} /\ disk' \in [Block -> Data]
        /\ UNCHANGED <<pool, data, nblocks, bufMgrLock, lost>>
        /\ \/ pc[p] = "replace" /\ Step(p, "replfail")
           \/ Return(p)
    BY <1>2, <1>12, <1>14 DEF WriteBlockFails
  <2>2. CASE pc[p] = "replace" /\ Step(p, "replfail")
    <3>1. Moves(p)
      BY <2>1, <2>2, SameNeeds DEF PC, WithBuffer, WithVictim, WithBlock, Named
    <3> QED BY <1>2, <2>1, <3>1, IOStep
  <2>3. CASE Return(p)
    BY <1>2, <2>1, <2>3, ReturnMoves, IOStep
  <2> QED BY <2>1, <2>2, <2>3
<1>15. CASE SyncWrite(p)
  <2>1. pc[p] = "syncwrite" /\ Return(p) /\ disk' \in [Block -> Data]
        /\ UNCHANGED <<pool, data, nblocks, bufMgrLock>>
        /\ lost' = [lost EXCEPT ![p][buf[p]] = @ + 1]
    BY <1>2, <1>12, <1>15 DEF SyncWrite
  <2>2. buf[p] \in Buffer
    BY <1>3, <2>1 DEF WithBuffer, PC
  <2>3. lost' \in [Proc -> [Buffer -> Nat]] /\ bufMgrLock' \in Proc \cup {NoProc}
    BY <1>1, <2>1, <2>2 DEF TypeOK
  <2>4. Good(pool') /\ Frame(pool, pool', p) /\ Moves(p)
    BY <1>1, <2>1, FrameSame, ReturnMoves
  <2> QED BY <1>2, <2>1, <2>3, <2>4, StepInv
<1> QED BY <1>4, <1>5, <1>6, <1>8, <1>9, <1>10, <1>11, <1>13, <1>14, <1>15

\* The steps that mark, flush and sync pages.
LEMMA WriteProgress ==
  ASSUME IInv, NEW p \in Proc,
         \/ WriteBuffer(p) \/ WriteNoReleaseBuffer(p) \/ FlushBuffer(p)
         \/ FlushedRelease(p) \/ FlushedNoRelease(p) \/ SyncWaited(p)
  PROVE  IInv'
<1>1. Good(pool) /\ At(pool, p, pc[p], buf[p], want[p])
  BY InvFacts
<1>2. pc[p] \in WithBuffer => buf[p] \in Buffer /\ pool.priv[p][buf[p]] > 0
  BY <1>1 DEF At
\* A change of DIRTY and JUST_DIRTIED, and of nothing else.
<1>3. ASSUME NEW on \in SUBSET Dirtied, NEW off \in SUBSET Dirtied,
             buf[p] \in Buffer
      PROVE  LET T == SetFlags(pool, buf[p], on, off)
             IN  Good(T) /\ T.priv = pool.priv /\ Frame(pool, T, p)
  <2> DEFINE T == SetFlags(pool, buf[p], on, off)
  <2>1. on \in SUBSET Flag /\ {"FREE", "DELETED"} \cap on = {}
        /\ {"FREE", "DELETED"} \cap off = {}
    BY DEF Dirtied, Flag
  <2>2. Good(T) /\ T.priv = pool.priv /\ T.last = pool.last /\ T.tag = pool.tag
    BY <1>1, <1>3, <2>1, FlagsGood
  <2> HIDE DEF T
  <2>3. Frame(pool, T, p)
    BY <2>2, FrameSame
  <2> QED BY <2>2, <2>3 DEF T
<1>4. /\ {} \in SUBSET Dirtied /\ Dirtied \in SUBSET Dirtied
      /\ {"DIRTY"} \in SUBSET Dirtied /\ {"JUST_DIRTIED"} \in SUBSET Dirtied
  BY DEF Dirtied
\* The same, followed by an unpin.
<1>5. ASSUME NEW T, Good(T), T.priv = pool.priv, Frame(pool, T, p),
             buf[p] \in Buffer, pool.priv[p][buf[p]] > 0
      PROVE  Good(UnpinBuffer(T, p, buf[p]))
             /\ Frame(pool, UnpinBuffer(T, p, buf[p]), p)
  <2>1. T.priv[p][buf[p]] > 0
    BY <1>5
  <2>2. Good(UnpinBuffer(T, p, buf[p])) /\ Frame(T, UnpinBuffer(T, p, buf[p]), p)
    BY <1>5, <2>1, UnpinFrame
  <2> QED BY <1>5, <2>2, FrameTrans
<1>6. CASE WriteBuffer(p)
  <2> DEFINE T == SetFlags(pool, buf[p], Dirtied, {})
  <2>1. pc[p] = "modified" /\ pool' = UnpinBuffer(T, p, buf[p]) /\ Return(p)
        /\ UNCHANGED <<data, disk, nblocks, bufMgrLock, lost>>
    BY <1>6 DEF WriteBuffer
  <2>2. buf[p] \in Buffer /\ pool.priv[p][buf[p]] > 0
    BY <1>2, <2>1 DEF WithBuffer, PC
  <2>3. Good(T) /\ T.priv = pool.priv /\ Frame(pool, T, p)
    BY <1>3, <1>4, <2>2
  <2> HIDE DEF T
  <2>4. Good(pool') /\ Frame(pool, pool', p)
    BY <1>5, <2>1, <2>2, <2>3
  <2> QED BY <2>1, <2>4, ReturnMoves, PoolStep
<1>7. CASE WriteNoReleaseBuffer(p)
  <2>1. pc[p] = "modified" /\ pool' = SetFlags(pool, buf[p], Dirtied, {})
        /\ Return(p) /\ UNCHANGED <<data, disk, nblocks, bufMgrLock, lost>>
    BY <1>7 DEF WriteNoReleaseBuffer
  <2>2. buf[p] \in Buffer
    BY <1>2, <2>1 DEF WithBuffer, PC
  <2>3. Good(pool') /\ Frame(pool, pool', p)
    BY <1>3, <1>4, <2>1, <2>2
  <2> QED BY <2>1, <2>3, ReturnMoves, PoolStep
<1>8. CASE FlushBuffer(p)
  <2>1. pc[p] = "modified" /\ pool' = SetFlags(pool, buf[p], {}, {"JUST_DIRTIED"})
        /\ Step(p, "flush") /\ UNCHANGED <<data, disk, nblocks, bufMgrLock, lost>>
    BY <1>8 DEF FlushBuffer
  <2>2. buf[p] \in Buffer /\ pool.priv[p][buf[p]] > 0
    BY <1>2, <2>1 DEF WithBuffer, PC
  <2>3. Good(pool') /\ pool'.priv = pool.priv /\ Frame(pool, pool', p)
    BY <1>3, <1>4, <2>1, <2>2
  <2>4. "flush" \in PC /\ At(pool', p, "flush", buf[p], want[p])
    BY <2>2, <2>3 DEF At, PC, WithVictim, WithBlock, Named
  <2>5. Moves(p)
    BY <2>1, <2>4, StepMoves
  <2> QED BY <2>1, <2>3, <2>5, PoolStep
<1>9. buf[p] \in Buffer =>
        /\ Good(Cleaned(buf[p])) /\ Cleaned(buf[p]).priv = pool.priv
        /\ Frame(pool, Cleaned(buf[p]), p)
  <2>1. CASE "JUST_DIRTIED" \in pool.flags[buf[p]]
    BY <1>3, <1>4, <2>1 DEF Cleaned
  <2>2. CASE "JUST_DIRTIED" \notin pool.flags[buf[p]]
    BY <1>3, <1>4, <2>2 DEF Cleaned
  <2> QED BY <2>1, <2>2
<1>10. CASE FlushedRelease(p)
  <2>1. pc[p] = "flushed" /\ pool' = UnpinBuffer(Cleaned(buf[p]), p, buf[p])
        /\ Return(p) /\ UNCHANGED <<data, disk, nblocks, bufMgrLock, lost>>
    BY <1>10 DEF FlushedRelease
  <2>2. buf[p] \in Buffer /\ pool.priv[p][buf[p]] > 0
    BY <1>2, <2>1 DEF WithBuffer, PC
  <2>3. Good(pool') /\ Frame(pool, pool', p)
    BY <1>5, <1>9, <2>1, <2>2
  <2> QED BY <2>1, <2>3, ReturnMoves, PoolStep
<1>11. CASE FlushedNoRelease(p)
  <2>1. pc[p] = "flushed" /\ pool' = Cleaned(buf[p])
        /\ Return(p) /\ UNCHANGED <<data, disk, nblocks, bufMgrLock, lost>>
    BY <1>11 DEF FlushedNoRelease
  <2>2. buf[p] \in Buffer
    BY <1>2, <2>1 DEF WithBuffer, PC
  <2> QED BY <1>9, <2>1, <2>2, ReturnMoves, PoolStep
<1>12. CASE SyncWaited(p)
  <2> DEFINE T == UnpinBuffer(pool, p, buf[p])
  <2>1. pc[p] = "syncwaited" /\ SyncScan(T, p, buf[p] + 1)
        /\ UNCHANGED <<data, disk, nblocks, bufMgrLock, lost>>
    BY <1>12 DEF SyncWaited
  <2>2. buf[p] \in Buffer /\ pool.priv[p][buf[p]] > 0
    BY <1>2, <2>1 DEF WithBuffer, PC
  <2>3. Good(T) /\ Frame(pool, T, p)
    BY <1>1, <2>2, UnpinFrame
  <2> HIDE DEF T
  <2>4. Good(pool') /\ Frame(T, pool', p) /\ Moves(p)
    BY <2>1, <2>3, SyncScanOutcome
  <2> QED BY <2>1, <2>3, <2>4, FrameTrans, PoolStep
<1> QED BY <1>6, <1>7, <1>8, <1>10, <1>11, <1>12

\* ResetBufferPool releases one pin after another.
LEMMA ResetProgress ==
  ASSUME IInv, NEW p \in Proc, ResetRelease(p)
  PROVE  IInv'
<1>1. Good(pool)
  BY InvFacts
<1>2. PICK b \in Buffer : pool.priv[p][b] > 0 /\ pool' = UnpinBuffer(pool, p, b)
  BY DEF ResetRelease, ReleaseBuffer
<1>3. Good(pool') /\ Frame(pool, pool', p)
  BY <1>1, <1>2, UnpinFrame
<1>4. pc[p] = "reset" /\ UNCHANGED <<data, disk, nblocks, bufMgrLock, lost>>
  BY DEF ResetRelease
<1>5. CASE Return(p)
  BY <1>3, <1>4, <1>5, ReturnMoves, PoolStep
<1>6. CASE UNCHANGED <<pc, buf, want, ext>>
  <2>1. buf[p] \in Buffer \cup {NoBuffer} /\ want[p] \in Block \cup {NoBlock}
        /\ ext[p] \in BOOLEAN /\ "reset" \in PC
    BY DEF IInv, TypeOK, PC
  <2>2. Goto(p, "reset", buf[p], want[p], ext[p])
    BY <1>4, <1>6 DEF Goto, IInv, TypeOK
  <2>3. At(pool', p, "reset", buf[p], want[p])
    BY DEF At, WithBuffer, WithVictim, WithBlock, Named, PC
  <2>4. Moves(p)
    BY <2>1, <2>2, <2>3, GotoMoves
  <2> QED BY <1>3, <1>4, <2>4, PoolStep
<1> QED BY <1>5, <1>6 DEF ResetRelease

\* InitFreeList links buffers 1, 2, ..., NBuffers - 1, 0 in a ring.
LEMMA InitRing == Ring(InitPool)
<1>1. NBuffers \in Nat \ {0}
  BY ConstantsAssumption
<1>2. \A i \in Slot : Linked(InitPool, i)
  BY SlotFacts DEF Linked, InitPool
<1> DEFINE nxt(i) == IF i = FreeList THEN FirstFree
                     ELSE IF i = 0 THEN FreeList
                     ELSE IF i = NBuffers - 1 THEN 0 ELSE i + 1
           prv(i) == IF i = FreeList THEN 0
                     ELSE IF i = FirstFree THEN FreeList
                     ELSE IF i = 0 THEN NBuffers - 1 ELSE i - 1
<1>3. \A i \in Slot : nxt(i) \in Slot /\ prv(i) \in Slot
                      /\ prv(nxt(i)) = i /\ nxt(prv(i)) = i
  BY <1>1 DEF Slot, FreeList, FirstFree
<1>4. \A i \in Slot : InitPool.freeNext[i] = nxt(i) /\ InitPool.freePrev[i] = prv(i)
  BY DEF InitPool
<1> HIDE DEF nxt, prv
<1>5. FreeRing(InitPool)
  BY <1>2, <1>3, <1>4 DEF FreeRing
<1>6. Ranked(InitPool)
  <2>1. PICK r : r = [i \in Slot |-> IF i = FreeList THEN 0
                                     ELSE IF i = 0 THEN NBuffers ELSE i]
    OBVIOUS
  <2>2. r \in [Slot -> Nat]
    BY <1>1, <2>1 DEF Slot, FreeList
  <2>3. \A i \in Slot : i # FreeList => r[prv(i)] < r[i]
    BY <1>1, <2>1 DEF Slot, FreeList, FirstFree, prv
  <2> QED BY <1>4, <2>2, <2>3 DEF Ranked
<1> QED BY <1>5, <1>6 DEF Ring

LEMMA InitInv == Init => IInv
<1> SUFFICES ASSUME Init PROVE IInv
  OBVIOUS
<1>1. /\ NBuffers \in Nat \ {0} /\ MaxBlock \in Nat /\ InitBlocks \in Nat
      /\ Zero \in Data
  BY ConstantsAssumption
<1>2. InitPool \in Pool
  <2>1. /\ InitPool.tag \in [Buffer -> Block \cup {NoBlock}]
        /\ InitPool.flags \in [Buffer -> SUBSET Flag]
        /\ InitPool.refcount \in [Buffer -> Nat]
        /\ InitPool.table \in [Block -> Buffer \cup {NoBuffer}]
        /\ InitPool.priv \in [Proc -> [Buffer -> Nat]]
        /\ InitPool.last \in [Proc -> [Buffer -> Nat]]
    BY DEF InitPool, Flag
  <2>2. InitPool.ioLock \in [Buffer -> BOOLEAN]
    BY DEF InitPool
  <2>3. /\ InitPool.freeNext \in [Slot -> Slot \cup {InvalidDescriptor}]
        /\ InitPool.freePrev \in [Slot -> Slot \cup {InvalidDescriptor}]
    BY <1>1 DEF InitPool, Slot, FreeList, FirstFree
  <2> QED BY <2>1, <2>2, <2>3 DEF Pool, InitPool
<1>3. PinCount(InitPool)
  <2>1. \A b \in Buffer : Holders(InitPool, b) = {}
    BY DEF Holders, InitPool
  <2> QED BY <2>1, FS_EmptySet DEF PinCount, InitPool
<1>4. PinnedOrFree(InitPool) /\ TableExact(InitPool)
  BY DEF PinnedOrFree, TableExact, InitPool
<1>5. TypeOK
  BY <1>1, <1>2 DEF Init, TypeOK, PC
<1>6. PoolInv
  BY <1>3, <1>4, InitRing DEF Init, PoolInv, Ring
<1>7. ProcInv
  BY DEF Init, ProcInv, At, WithBuffer, WithVictim, WithBlock, Named, PC
<1>8. Ranked(pool)
  BY InitRing DEF Init, Ring
<1> QED BY <1>5, <1>6, <1>7, <1>8 DEF IInv

LEMMA NextInv == IInv /\ [Next]_vars => IInv'
<1> SUFFICES ASSUME IInv, [Next]_vars PROVE IInv'
  OBVIOUS
<1>1. ASSUME NEW p \in Proc, Call(p) PROVE IInv'
  BY <1>1, CallInv
<1>2. ASSUME NEW p \in Proc, Progress(p) PROVE IInv'
  BY <1>2, AllocProgress, IOProgress, WriteProgress, ResetProgress DEF Progress
<1>3. CASE UNCHANGED vars
  BY <1>3 DEF vars, IInv, TypeOK, PoolInv, ProcInv
<1> QED BY <1>1, <1>2, <1>3 DEF Next

\* The inductive invariant: types, consistent descriptors, and what each
\* step of a backend needs of its pin and of the name of its buffer.
THEOREM Invariance == Spec => []IInv
<1> QED BY InitInv, NextInv, PTL DEF Spec

\* In every run of any number of backends over any pool, every variable stays
\* in its type: no path through bufmgr.c leaves a link, a count or a lookup
\* entry outside its range, whatever I/O fails.
THEOREM TypeCorrect == Spec => []TypeOK
<1>1. IInv => TypeOK
  BY DEF IInv
<1> QED BY <1>1, Invariance, PTL

\* The descriptors are always consistent: the free list is well linked, the
\* shared count of a buffer is the number of backends that pin it, a buffer is
\* on the free list exactly when nobody pins it, and the lookup table and the
\* tags are inverse to each other (freelist.c, buf_table.c, BufferAlloc).
THEOREM PoolConsistent == Spec => []PoolInv
<1>1. IInv => PoolInv
  BY DEF IInv
<1> QED BY <1>1, Invariance, PTL

\* While a backend sleeps in WaitIO or does its I/O without BufMgrLock, its
\* buffer is not renamed and its pin is not lost (BufferAlloc's renaming of a
\* victim, against ReadBuffer of the others).
THEOREM BufferKept == Spec => []RequestKept
<1>1. IInv => RequestKept
  BY DEF IInv, ProcInv, At, RequestKept, Named, WithBuffer, PC
<1> QED BY <1>1, Invariance, PTL

-----------------------------------------------------------------------------
(* The free list as a whole.                                               *)

\* Every set of naturals that is not empty has a least element.
LEMMA LeastOf ==
  ASSUME NEW T, T \subseteq Nat, T # {}
  PROVE  \E x \in T : \A y \in T : x <= y
<1>1. PICK R : R = OpToRel(<, Nat)
  OBVIOUS
<1>2. IsWellFoundedOn(R, Nat)
  BY <1>1, NatLessThanWellFounded
<1>3. PICK x \in T : \A y \in T : ~(<<y, x>> \in R)
  BY <1>2, WFMin
<1>4. ASSUME NEW y \in T PROVE x <= y
  <2>1. x \in Nat /\ y \in Nat
    OBVIOUS
  <2>2. y < x => <<y, x>> \in R
    BY <1>1, <2>1 DEF OpToRel
  <2>3. ~(y < x)
    BY <1>3, <2>2
  <2> QED BY <2>1, <2>3
<1> QED BY <1>4

\* What contains the head, and with a buffer of the list its successor, holds
\* the list: the first one missing would have its predecessor in.
LEMMA ListWithin ==
  ASSUME NEW S, Good(S), NEW W, FreeList \in W,
         \A i \in W : i \in Slot /\ Linked(S, i) => S.freeNext[i] \in W
  PROVE  \A i \in Slot : Linked(S, i) => i \in W
<1>1. PICK r \in [Slot -> Nat] :
        \A i \in Slot : Linked(S, i) /\ i # FreeList => r[S.freePrev[i]] < r[i]
  BY DEF Good, Ring, Ranked
<1>2. PICK M : M = {r[i] : i \in {j \in Slot : Linked(S, j) /\ j \notin W}}
  OBVIOUS
<1>3. CASE M = {}
  BY <1>2, <1>3
<1>4. CASE M # {}
  <2>1. M \subseteq Nat
    BY <1>1, <1>2
  <2>2. PICK x \in M : \A y \in M : x <= y
    BY <1>4, <2>1, LeastOf
  <2>3. PICK i \in Slot : Linked(S, i) /\ i \notin W /\ r[i] = x
    BY <1>2, <2>2
  <2>4. PICK j : j = S.freePrev[i]
    OBVIOUS
  <2>5. j \in Slot /\ Linked(S, j) /\ S.freeNext[j] = i /\ r[j] < r[i]
    BY <1>1, <2>3, <2>4 DEF Good, Ring, FreeRing
  <2>6. j \notin W
    BY <2>3, <2>5
  <2>7. r[j] \in M
    BY <1>2, <2>5, <2>6
  <2>8. r[i] <= r[j] /\ r[i] \in Nat /\ r[j] \in Nat
    BY <1>1, <2>2, <2>3, <2>5, <2>7
  <2> QED BY <2>5, <2>8
<1> QED BY <1>3, <1>4

\* An empty free list means that every buffer is pinned.
LEMMA EmptyIsFull ==
  ASSUME NEW S, Good(S), FreeListEmpty(S)
  PROVE  \A b \in Buffer : S.refcount[b] > 0
<1>1. PICK W : W = {FreeList}
  OBVIOUS
<1>2. \A i \in Slot : Linked(S, i) => i \in W
  <2>1. FreeList \in W /\ \A i \in W : S.freeNext[i] \in W
    BY <1>1 DEF FreeListEmpty
  <2> QED BY <2>1, ListWithin
<1>3. ASSUME NEW b \in Buffer PROVE S.refcount[b] > 0
  <2>1. ~Linked(S, b)
    BY <1>1, <1>2, SlotFacts
  <2>2. S.refcount[b] # 0
    BY <2>1 DEF Linked, Good, PinnedOrFree
  <2>3. S.refcount[b] \in Nat
    BY DEF Good, Pool
  <2> QED BY <2>2, <2>3
<1> QED BY <1>3

\* How BufMgrLock comes to be kept, and what cannot happen while it is.
LockStep ==
  \/ bufMgrLock' = bufMgrLock /\ (LockFree \/ pool'.refcount = pool.refcount)
  \/ FreeListEmpty(pool')

LEMMA AllocLock ==
  ASSUME NEW S, NEW p, NEW t, NEW e, BufferAlloc(S, p, t, e), LockFree
  PROVE  LockStep
BY DEF BufferAlloc, Hit, Miss, TakeDirty, TakeClean, Exhausted, LockStep

LEMMA CallLock ==
  ASSUME IInv, NEW p \in Proc, Call(p)
  PROVE  LockStep
<1>0. pool \in Pool /\ \A b \in Buffer : pool.priv[p][b] \in Nat
  BY DEF IInv, TypeOK, Pool
<1>1. ASSUME NEW t, ReadBuffer(p, t) PROVE LockStep
  BY <1>1, AllocLock DEF ReadBuffer
<1>2. CASE ReadBufferNew(p) \/ ResetBufferPool(p)
  BY <1>2 DEF ReadBufferNew, ResetBufferPool, LockStep
<1>3. CASE BufferSync(p) \/ DropBuffers(p)
  BY <1>3 DEF BufferSync, DropBuffers, LockStep
<1>4. CASE BufferRefCountReset(p) \/ BufferRefCountRestore(p)
  BY <1>0, <1>4 DEF BufferRefCountReset, BufferRefCountRestore, ExchangeLevels,
                    Pool, LockStep
<1>5. ASSUME NEW b, NEW t, RelationGetBufferWithBuffer(p, b, t) PROVE LockStep
  BY <1>5, AllocLock DEF RelationGetBufferWithBuffer
<1>6. ASSUME NEW b, NEW t, NEW e, ReleaseAndReadBuffer(p, b, t, e) PROVE LockStep
  BY <1>6, AllocLock DEF ReleaseAndReadBuffer
<1>7. ASSUME NEW b \in Buffer, NEW t, NEW e, UnpinAndReadBuffer(p, b, t, e)
      PROVE  LockStep
  BY <1>0, <1>7 DEF UnpinAndReadBuffer, SetPrivate, Pool, LockStep
<1>8. ASSUME NEW b \in Buffer, IncrBufferRefCount(p, b) PROVE LockStep
  BY <1>0, <1>8 DEF IncrBufferRefCount, SetPrivate, Pool, LockStep
<1>9. ASSUME NEW b, Release(p, b) PROVE LockStep
  BY <1>9 DEF Release, LockStep
<1>10. ASSUME NEW b, NEW v, Modify(p, b, v) PROVE LockStep
  BY <1>10 DEF Modify, LockStep
<1> QED BY <1>1, <1>2, <1>3, <1>4, <1>5, <1>6, <1>7, <1>8, <1>9, <1>10 DEF Call

LEMMA ProgressLock ==
  ASSUME NEW p \in Proc, Progress(p)
  PROVE  LockStep
<1>1. CASE Alloc(p) \/ ReplacedPinned(p) \/ ReplaceFailed(p)
  BY <1>1, AllocLock DEF Alloc, ReplacedPinned, ReplaceFailed
<1>2. CASE ReplacedRaced(p)
  BY <1>2 DEF ReplacedRaced, Hit, LockStep
<1>3. CASE \/ WaitIO(p) \/ Waited(p) \/ ReadBlock(p) \/ ReadBlockFails(p)
           \/ ExtendBlock(p) \/ ExtendBlockFails(p) \/ ExtendFound(p)
           \/ ExtendFoundFails(p) \/ WriteBlock(p) \/ WriteBlockFails(p) \/ SyncWrite(p)
  BY <1>3 DEF WaitIO, Waited, ReadBlock, ReadBlockFails, ExtendBlock, AppendBlock,
              ExtendBlockFails, ExtendFound, ExtendFoundFails, WriteBlock,
              WriteBlockFails, SyncWrite, LockStep
<1>4. CASE \/ ReadDone(p) \/ ReadFailed(p) \/ ReplacedMine(p) \/ WriteBuffer(p)
           \/ WriteNoReleaseBuffer(p) \/ FlushBuffer(p) \/ FlushedRelease(p)
           \/ FlushedNoRelease(p) \/ SyncWaited(p) \/ ResetRelease(p)
  BY <1>4 DEF ReadDone, ReadFailed, ReplacedMine, WriteBuffer,
              WriteNoReleaseBuffer, FlushBuffer, FlushedRelease,
              FlushedNoRelease, SyncWaited, ResetRelease, LockStep
<1> QED BY <1>1, <1>2, <1>3, <1>4 DEF Progress

\* BufMgrLock is kept only by a backend that asked for a buffer when every
\* buffer was pinned, and they all stay pinned: BufferAlloc's return without
\* SpinRelease is the only one, and it is taken only when the free list, from
\* which no free buffer is ever missing, is empty; whatever I/O fails.
THEOREM LockKeptWhenFull == Spec => []KeptOnlyWhenFull
<1>1. Init => IInv /\ KeptOnlyWhenFull
  BY InitInv DEF Init, KeptOnlyWhenFull
<1>2. IInv /\ KeptOnlyWhenFull /\ [Next]_vars => (IInv /\ KeptOnlyWhenFull)'
  <2> SUFFICES ASSUME IInv, KeptOnlyWhenFull, [Next]_vars
               PROVE  IInv' /\ KeptOnlyWhenFull'
    OBVIOUS
  <2>1. IInv'
    BY NextInv
  <2>2. LockStep \/ UNCHANGED vars
    BY CallLock, ProgressLock DEF Next
  <2>3. CASE UNCHANGED vars
    BY <2>1, <2>3 DEF vars, KeptOnlyWhenFull
  <2>4. CASE bufMgrLock' = bufMgrLock /\ (LockFree \/ pool'.refcount = pool.refcount)
    BY <2>1, <2>4 DEF KeptOnlyWhenFull, LockFree
  <2>5. CASE FreeListEmpty(pool')
    <3>1. Good(pool')
      BY <2>1 DEF IInv, TypeOK, PoolInv, Good, Ring
    <3> QED BY <2>1, <2>5, <3>1, EmptyIsFull DEF KeptOnlyWhenFull
  <2> QED BY <2>2, <2>3, <2>4, <2>5 DEF LockStep
<1> QED BY <1>1, <1>2, PTL DEF Spec

\* The slots passed in n steps along the links g, from h on.
IsWalk(f, h, g, n) ==
  f = [k \in 0 .. n |-> IF k = 0 THEN h ELSE g[f[k - 1]]]

\* A walk of any length can be taken: the shortest that could not would be a
\* shorter one and a step.
LEMMA WalkExists ==
  ASSUME NEW h, NEW g, NEW n \in Nat
  PROVE  \E f : IsWalk(f, h, g, n)
<1>1. PICK B : B = {m \in Nat : ~\E f : IsWalk(f, h, g, m)}
  OBVIOUS
<1>2. SUFFICES ASSUME B # {} PROVE FALSE
  BY <1>1
<1>3. PICK m \in B : \A y \in B : m <= y
  <2>1. B \subseteq Nat
    BY <1>1
  <2> QED BY <1>2, <2>1, LeastOf
<1>4. m \in Nat /\ ~\E f : IsWalk(f, h, g, m)
  BY <1>1, <1>3
<1>5. CASE m = 0
  <2>1. PICK f : f = [k \in 0 .. 0 |-> h]
    OBVIOUS
  <2>2. IsWalk(f, h, g, 0)
    BY <2>1 DEF IsWalk
  <2> QED BY <1>4, <1>5, <2>2
<1>6. CASE m # 0
  <2>1. m - 1 \in Nat /\ ~(m <= m - 1)
    BY <1>4, <1>6
  <2>2. m - 1 \notin B
    BY <1>3, <2>1
  <2>3. PICK f : IsWalk(f, h, g, m - 1)
    BY <1>1, <2>1, <2>2
  <2>4. PICK e : e = [k \in 0 .. m |-> IF k = m THEN g[f[m - 1]] ELSE f[k]]
    OBVIOUS
  <2>5. \A k \in 0 .. m : e[k] = IF k = 0 THEN h ELSE g[e[k - 1]]
    <3> SUFFICES ASSUME NEW k \in 0 .. m
                 PROVE  e[k] = IF k = 0 THEN h ELSE g[e[k - 1]]
      OBVIOUS
    <3>1. CASE k = m
      <4>1. e[k] = g[f[m - 1]] /\ e[m - 1] = f[m - 1]
        BY <1>4, <2>1, <2>4, <3>1
      <4> QED BY <1>6, <3>1, <4>1
    <3>2. CASE k # m /\ k # 0
      <4>1. k \in 0 .. m - 1 /\ k - 1 \in 0 .. m /\ k - 1 # m
        BY <1>4, <3>2
      <4>2. e[k] = f[k] /\ e[k - 1] = f[k - 1]
        BY <2>4, <3>2, <4>1
      <4>3. f[k] = g[f[k - 1]]
        BY <2>3, <3>2, <4>1 DEF IsWalk
      <4> QED BY <3>2, <4>2, <4>3
    <3>3. CASE k # m /\ k = 0
      <4>1. f[0] = h
        BY <1>4, <2>1, <2>3 DEF IsWalk
      <4> QED BY <1>4, <2>4, <3>3, <4>1
    <3> QED BY <3>1, <3>2, <3>3
  <2>6. IsWalk(e, h, g, m)
    BY <2>4, <2>5 DEF IsWalk
  <2> QED BY <1>4, <2>6
<1> QED BY <1>5, <1>6

\* A walk from the head along the free list stays on it.
LEMMA WalkLinked ==
  ASSUME NEW S, Good(S), NEW n \in Nat, NEW f, IsWalk(f, FreeList, S.freeNext, n)
  PROVE  \A k \in 0 .. n : f[k] \in Slot /\ Linked(S, f[k])
<1>1. PICK B : B = {k \in 0 .. n : ~(f[k] \in Slot /\ Linked(S, f[k]))}
  OBVIOUS
<1>2. SUFFICES ASSUME B # {} PROVE FALSE
  BY <1>1
<1>3. PICK m \in B : \A y \in B : m <= y
  <2>1. B \subseteq Nat
    BY <1>1
  <2> QED BY <1>2, <2>1, LeastOf
<1>4. m \in 0 .. n /\ ~(f[m] \in Slot /\ Linked(S, f[m]))
  BY <1>1, <1>3
<1>5. m # 0
  <2>1. 0 \in 0 .. n
    OBVIOUS
  <2>2. f[0] = FreeList
    BY <2>1 DEF IsWalk
  <2> QED BY <1>4, <2>2, SlotFacts DEF Linked
<1>6. m - 1 \in 0 .. n /\ ~(m <= m - 1)
  BY <1>4, <1>5
<1>7. f[m - 1] \in Slot /\ Linked(S, f[m - 1])
  BY <1>1, <1>3, <1>6
<1>8. f[m] = S.freeNext[f[m - 1]]
  BY <1>4, <1>5 DEF IsWalk
<1> QED BY <1>4, <1>7, <1>8 DEF Good, Ring, FreeRing

\* A walk that misses a slot comes back to the head: two of its places are the
\* same slot, and so are the places before them, back to the first.
LEMMA WalkReturns ==
  ASSUME NEW S, Good(S), NEW f, IsWalk(f, FreeList, S.freeNext, NBuffers),
         NEW i \in Slot, \A k \in Slot : f[k] # i
  PROVE  \E d \in Slot : d # 0 /\ f[d] = FreeList
<1>n. NBuffers \in Nat
  BY ConstantsAssumption
<1>1. \A k \in Slot : f[k] \in Slot /\ Linked(S, f[k])
  BY <1>n, WalkLinked DEF Slot
<1>2. PICK T : T = Slot \ {i}
  OBVIOUS
<1>3. IsFiniteSet(Slot) /\ Cardinality(Slot) = NBuffers + 1
  <2>1. 0 \in Int /\ NBuffers \in Int /\ ~(0 > NBuffers)
    BY <1>n
  <2>2. IsFiniteSet(0 .. NBuffers) /\ Cardinality(0 .. NBuffers) = NBuffers - 0 + 1
    BY <2>1, FS_Interval
  <2> QED BY <1>n, <2>2 DEF Slot
<1>4. IsFiniteSet(T) /\ Cardinality(T) = NBuffers
  <2>1. IsFiniteSet(T) /\ Cardinality(T) = Cardinality(Slot) - 1
    BY <1>2, <1>3, FS_RemoveElement
  <2> QED BY <1>n, <1>3, <2>1
<1>5. f \in [Slot -> T]
  <2>1. DOMAIN f = Slot /\ f = [k \in Slot |-> f[k]]
    BY DEF IsWalk, Slot
  <2>2. \A k \in Slot : f[k] \in T
    BY <1>1, <1>2
  <2> QED BY <2>1, <2>2
<1>6. Cardinality(T) < Cardinality(Slot)
  BY <1>n, <1>3, <1>4
<1>7. PICK x \in Slot, y \in Slot : x # y /\ f[x] = f[y]
  BY <1>3, <1>4, <1>5, <1>6, FS_PigeonHole
<1>8. PICK D : D = {a \in Slot : \E b \in Slot : a < b /\ f[a] = f[b]}
  OBVIOUS
<1>9. D # {} /\ D \subseteq Nat
  <2>1. x < y \/ y < x
    BY <1>7 DEF Slot
  <2>2. x \in D \/ y \in D
    BY <1>7, <1>8, <2>1
  <2>3. Slot \subseteq Nat
    BY DEF Slot
  <2> QED BY <1>8, <2>2, <2>3
<1>10. PICK a \in D : \A z \in D : a <= z
  BY <1>9, LeastOf
<1>11. PICK b \in Slot : a < b /\ f[a] = f[b]
  BY <1>8, <1>10
<1>12. a \in Slot
  BY <1>8, <1>10
<1>13. a = 0
  <2> SUFFICES ASSUME a # 0 PROVE FALSE
    OBVIOUS
  <2>1. /\ a - 1 \in Slot /\ b - 1 \in Slot /\ b # 0 /\ a - 1 < b - 1
        /\ ~(a <= a - 1)
    BY <1>n, <1>11, <1>12 DEF Slot
  <2>2. f[a] = S.freeNext[f[a - 1]] /\ f[b] = S.freeNext[f[b - 1]]
    BY <1>11, <1>12, <2>1 DEF IsWalk, Slot
  <2>3. f[a - 1] = S.freePrev[f[a]] /\ f[b - 1] = S.freePrev[f[b]]
    BY <1>1, <2>1, <2>2 DEF Good, Ring, FreeRing
  <2>4. a - 1 \in D
    BY <1>8, <1>11, <2>1, <2>3
  <2> QED BY <1>10, <2>1, <2>4
<1>14. f[0] = FreeList
  BY <1>n DEF IsWalk
<1>15. b # 0
  BY <1>11, <1>13 DEF Slot
<1> QED BY <1>11, <1>13, <1>14, <1>15

\* A walk of as many steps as there are buffers passes the whole list.
LEMMA WalkWhole ==
  ASSUME NEW S, Good(S), NEW f, IsWalk(f, FreeList, S.freeNext, NBuffers)
  PROVE  {f[k] : k \in Slot} = {i \in Slot : Linked(S, i)}
<1>n. NBuffers \in Nat
  BY ConstantsAssumption
<1>1. \A k \in Slot : f[k] \in Slot /\ Linked(S, f[k])
  BY <1>n, WalkLinked DEF Slot
<1>2. ASSUME NEW i \in Slot, Linked(S, i) PROVE \E k \in Slot : f[k] = i
  <2> SUFFICES ASSUME \A k \in Slot : f[k] # i PROVE FALSE
    OBVIOUS
  <2>1. PICK d \in Slot : d # 0 /\ f[d] = FreeList
    BY WalkReturns
  <2>2. PICK W : W = {f[k] : k \in 0 .. d - 1}
    OBVIOUS
  <2>3. 0 \in 0 .. d - 1 /\ 0 .. d - 1 \subseteq Slot /\ d \in Nat
    BY <1>n, <2>1 DEF Slot
  <2>4. f[0] = FreeList
    BY <1>n DEF IsWalk
  <2>5. FreeList \in W
    BY <2>2, <2>3, <2>4
  <2>6. ASSUME NEW k \in 0 .. d - 1 PROVE S.freeNext[f[k]] \in W
    <3>1. k + 1 \in 0 .. d /\ k + 1 # 0 /\ k + 1 \in 0 .. NBuffers /\ (k + 1) - 1 = k
      BY <1>n, <2>1, <2>3 DEF Slot
    <3>2. f[k + 1] = S.freeNext[f[k]]
      BY <3>1 DEF IsWalk
    <3>3. CASE k + 1 = d
      BY <2>1, <2>5, <3>2, <3>3
    <3>4. CASE k + 1 # d
      <4>1. k + 1 \in 0 .. d - 1
        BY <2>3, <3>1, <3>4
      <4> QED BY <2>2, <3>2, <4>1
    <3> QED BY <3>3, <3>4
  <2>7. \A j \in W : S.freeNext[j] \in W
    BY <2>2, <2>6
  <2>8. i \in W
    BY <1>2, <2>5, <2>7, ListWithin
  <2> QED BY <2>2, <2>3, <2>8
<1> QED BY <1>1, <1>2

\* The free list is one ring that holds every free buffer, whatever runs and
\* whatever I/O fails: PinBuffer, GetFreeBuffer and AddBufferToFreelist take
\* off and put on one buffer each, in whatever order the backends call them, and
\* never cut the ring in two.
THEOREM FreeListIsWhole == Spec => []FreeListWhole
<1>1. IInv => FreeListWhole
  <2> SUFFICES ASSUME IInv PROVE FreeListWhole
    OBVIOUS
  <2>g. Good(pool)
    BY DEF IInv, TypeOK, PoolInv, Good, Ring
  <2>n. NBuffers \in Nat
    BY ConstantsAssumption
  <2> DEFINE W(h) == h = [k \in Slot |-> IF k = 0 THEN FreeList
                                         ELSE pool.freeNext[h[k - 1]]]
  <2>1. PICK f : f = CHOOSE h : W(h)
    OBVIOUS
  <2>2. W(f)
    <3>1. \E h : W(h)
      <4>1. PICK g : g = pool.freeNext
        OBVIOUS
      <4>2. PICK h : IsWalk(h, FreeList, g, NBuffers)
        BY <2>n, WalkExists
      <4>3. W(h)
        BY <4>1, <4>2 DEF IsWalk, Slot
      <4> HIDE DEF W
      <4> QED BY <4>3
    <3> HIDE DEF W
    <3> QED BY <2>1, <3>1
  <2>3. IsWalk(f, FreeList, pool.freeNext, NBuffers)
    BY <2>2 DEF IsWalk, Slot
  <2>4. {f[k] : k \in Slot} = {i \in Slot : Linked(pool, i)}
    BY <2>g, <2>3, WalkWhole
  <2> QED BY <2>1, <2>4 DEF FreeListWhole
<1> QED BY <1>1, Invariance, PTL
=============================================================================
