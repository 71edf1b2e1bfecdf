-------------------------- MODULE BufMgr_data_proofs --------------------------
(***************************************************************************)
(* Proofs about the pages that go through the buffer pool of BufMgr: who   *)
(* may touch a buffer while I/O is under way on it, that a page is cached  *)
(* once, that no change is lost, and that the pool is transparent to its   *)
(* users, for any number of backends, buffers and blocks.                  *)
(*                                                                         *)
(* Every action of BufMgr is a sequence of the few kinds of steps below: a *)
(* call that ends in BufferAlloc is a step to "alloc" and a step from      *)
(* there.  The invariants are predicates of the descriptors and of where   *)
(* the backends are, and are shown kind by kind.                           *)
(***************************************************************************)
EXTENDS BufMgr_proofs

-----------------------------------------------------------------------------
(* What the routines leave alone.  The flag BM_FREE follows the pins, and  *)
(* nothing below depends on it.                                            *)

Fl(S, b) == S.flags[b] \ {"FREE"}

\* Only links, counts and pins differ.
Light(S, T) ==
  /\ T.tag = S.tag /\ T.ioLock = S.ioLock /\ T.last = S.last
  /\ \A x \in Buffer : Fl(T, x) = Fl(S, x)

LEMMA LightTrans ==
  ASSUME NEW S, NEW T, NEW U, Light(S, T), Light(T, U)
  PROVE  Light(S, U)
BY DEF Light

LEMMA LightParts ==
  ASSUME NEW S, S \in Pool, NEW b \in Buffer
  PROVE  /\ Light(S, Unlink(S, b)) /\ Light(S, AddBufferToFreelist(S, b))
         /\ \A n \in Nat : Light(S, SetRefcount(S, b, n))
         /\ \A n \in Nat, p \in Proc : Light(S, SetPrivate(S, p, b, n))
<1>0. S.flags \in [Buffer -> SUBSET Flag]
  BY DEF Pool
<1>1. Light(S, Unlink(S, b))
  <2> DEFINE T == Unlink(S, b)
  <2>1. /\ T.flags = [S.flags EXCEPT ![b] = S.flags[b] \ {"FREE"}]
        /\ T.tag = S.tag /\ T.ioLock = S.ioLock /\ T.last = S.last
    BY UnlinkFields
  <2> HIDE DEF T
  <2> QED BY <1>0, <2>1 DEF Light, Fl, T
<1>2. Light(S, AddBufferToFreelist(S, b))
  <2> DEFINE T == AddBufferToFreelist(S, b)
  <2>1. /\ T.flags = [S.flags EXCEPT ![b] = S.flags[b] \cup {"FREE"}]
        /\ T.tag = S.tag /\ T.ioLock = S.ioLock /\ T.last = S.last
    BY AddFields
  <2> HIDE DEF T
  <2> QED BY <1>0, <2>1 DEF Light, Fl, T
<1>3. ASSUME NEW n \in Nat PROVE Light(S, SetRefcount(S, b, n))
  BY RefcountFields DEF Light, Fl
<1>4. ASSUME NEW n \in Nat, NEW p \in Proc PROVE Light(S, SetPrivate(S, p, b, n))
  <2> DEFINE T == SetPrivate(S, p, b, n)
  <2>1. /\ T \in Pool /\ T.priv = [S.priv EXCEPT ![p][b] = n]
        /\ T.flags = S.flags /\ T.tag = S.tag /\ T.ioLock = S.ioLock
        /\ T.last = S.last
    BY PrivateFields
  <2> HIDE DEF T
  <2> QED BY <2>1 DEF Light, Fl, T
<1> QED BY <1>1, <1>2, <1>3, <1>4

LEMMA PinLight ==
  ASSUME NEW S, Good(S), NEW p \in Proc, NEW b \in Buffer
  PROVE  Light(S, PinBuffer(S, p, b))
<1> DEFINE U == IF S.refcount[b] = 0 THEN Unlink(S, b) ELSE S
           V == IF S.priv[p][b] = 0 /\ S.last[p][b] = 0
                THEN SetRefcount(U, b, S.refcount[b] + 1) ELSE U
           T == SetPrivate(V, p, b, S.priv[p][b] + 1)
<1>0. /\ S \in Pool /\ S.refcount[b] + 1 \in Nat /\ S.priv[p][b] + 1 \in Nat
      /\ Ring(S) /\ PinnedOrFree(S)
  BY DEF Good, Pool
<1>1. U \in Pool /\ Light(S, U)
  <2>1. CASE S.refcount[b] = 0
    <3>1. "FREE" \in S.flags[b]
      BY <1>0, <2>1 DEF PinnedOrFree
    <3> QED BY <1>0, <2>1, <3>1, UnlinkRing, LightParts
  <2>2. CASE S.refcount[b] # 0
    BY <1>0, <2>2 DEF Light
  <2> QED BY <2>1, <2>2
<1>2. PinBuffer(S, p, b) = T
  BY DEF PinBuffer
<1> HIDE DEF U
<1>3. V \in Pool /\ Light(U, V)
  <2>1. CASE S.priv[p][b] = 0 /\ S.last[p][b] = 0
    BY <1>0, <1>1, <2>1, RefcountFields, LightParts
  <2>2. CASE ~(S.priv[p][b] = 0 /\ S.last[p][b] = 0)
    BY <1>1, <2>2 DEF Light
  <2> QED BY <2>1, <2>2
<1> HIDE DEF V
<1>4. Light(V, T)
  BY <1>0, <1>3, LightParts
<1> QED BY <1>1, <1>2, <1>3, <1>4, LightTrans

LEMMA GiveUpLight ==
  ASSUME NEW S, Good(S), NEW p \in Proc, NEW b \in Buffer, S.priv[p][b] > 0
  PROVE  Light(S, GiveUp(S, p, b))
<1> DEFINE W == SetPrivate(S, p, b, 0)
           V == SetRefcount(W, b, W.refcount[b] - 1)
           T == IF W.refcount[b] = 1 THEN AddBufferToFreelist(V, b) ELSE V
<1>0. S \in Pool /\ PinCount(S) /\ S.priv[p][b] \in Nat /\ S.last[p][b] \in Nat
      /\ S.refcount[b] \in Nat
  BY DEF Good, Pool
<1>1. S.refcount[b] - 1 \in Nat
  <2>1. p \in Holders(S, b)
    BY <1>0 DEF Holders
  <2> QED BY <1>0, <2>1, HoldersFinite, FS_EmptySet DEF PinCount
<1>2. GiveUp(S, p, b) = T
  BY DEF GiveUp, DropRef
<1>3. W \in Pool /\ W.refcount = S.refcount /\ Light(S, W)
  <2>1. 0 \in Nat
    OBVIOUS
  <2>2. /\ W \in Pool /\ W.priv = [S.priv EXCEPT ![p][b] = 0]
        /\ W.refcount = S.refcount
    BY <1>0, <2>1, PrivateFields
  <2>3. Light(S, W)
    BY <1>0, <2>1, LightParts
  <2> QED BY <2>2, <2>3
<1> HIDE DEF W
<1>4. V \in Pool /\ Light(W, V)
  BY <1>1, <1>3, RefcountFields, LightParts
<1> HIDE DEF V
<1>5. Light(V, T)
  <2>1. CASE W.refcount[b] = 1
    BY <1>4, <2>1, LightParts
  <2>2. CASE W.refcount[b] # 1
    BY <2>2 DEF Light
  <2> QED BY <2>1, <2>2
<1> QED BY <1>2, <1>3, <1>4, <1>5, LightTrans

LEMMA UnpinLight ==
  ASSUME NEW S, Good(S), NEW p \in Proc, NEW b \in Buffer, S.priv[p][b] > 0
  PROVE  Light(S, UnpinBuffer(S, p, b))
<1>1. S.priv[p][b] - 1 \in Nat /\ S \in Pool
  BY DEF Good, Pool
<1>2. CASE S.priv[p][b] = 1 /\ S.last[p][b] = 0
  <2>1. UnpinBuffer(S, p, b) = GiveUp(S, p, b)
    BY <1>2 DEF UnpinBuffer, GiveUp
  <2> QED BY <2>1, GiveUpLight
<1>3. CASE ~(S.priv[p][b] = 1 /\ S.last[p][b] = 0)
  <2>1. UnpinBuffer(S, p, b) = SetPrivate(S, p, b, S.priv[p][b] - 1)
    BY <1>3 DEF UnpinBuffer
  <2> QED BY <1>1, <2>1, LightParts
<1> QED BY <1>2, <1>3

LEMMA TakeLight ==
  ASSUME NEW S, Good(S), NEW p \in Proc, ~FreeListEmpty(S)
  PROVE  Light(S, GetFreeBuffer(S, p))
<1> DEFINE b == S.freeNext[FreeList]
           U == Unlink(S, b)
           V == SetRefcount(U, b, 1)
           T == SetPrivate(V, p, b, 1)
<1>0. S \in Pool /\ Ring(S) /\ PinnedOrFree(S) /\ 1 \in Nat
  BY DEF Good
<1>1. b \in Buffer /\ S.refcount[b] = 0
  BY TakeGood
<1>2. GetFreeBuffer(S, p) = T
  BY DEF GetFreeBuffer
<1> HIDE DEF b
<1>3. "FREE" \in S.flags[b]
  BY <1>0, <1>1 DEF PinnedOrFree
<1>4. U \in Pool /\ Light(S, U)
  BY <1>0, <1>1, <1>3, UnlinkRing, LightParts
<1> HIDE DEF U
<1>5. V \in Pool /\ Light(U, V)
  BY <1>0, <1>1, <1>4, RefcountFields, LightParts
<1> HIDE DEF V
<1>6. Light(V, T)
  BY <1>0, <1>1, <1>5, LightParts
<1> QED BY <1>2, <1>4, <1>5, <1>6, LightTrans

-----------------------------------------------------------------------------
(* The kinds of steps: backend p goes from the pool S to the pool T, to    *)
(* step l with buffer b.  P and B say where the backends are.              *)

Pinned(S, p, b) == S.priv[p][b] + S.last[p][b] > 0

Waiting == {"waitio", "syncwait"}
Resting == {"idle", "alloc", "reset"}
IOSteps == {"read", "readdone", "readfail"} \cup WithVictim

\* Buffers other than c stay as they are, but for pins that p gives up.
Edit(S, T, p, c) ==
  /\ \A q \in Proc \ {p} : T.priv[q] = S.priv[q] /\ T.last[q] = S.last[q]
  /\ \A x \in Buffer \ {c} : /\ Fl(T, x) = Fl(S, x) /\ T.tag[x] = S.tag[x]
                             /\ T.ioLock[x] = S.ioLock[x]
                             /\ Pinned(T, p, x) => Pinned(S, p, x)

\* p gives up pins, or none, and has no I/O in hand.
Rests(S, T, P, p, l) ==
  /\ P[p] \in Resting \cup {"waited", "syncwaited"} /\ l \in Resting
  /\ Edit(S, T, p, NoBuffer)

\* WaitIO is over, or p goes on with what it waited for.
Wakes(S, T, P, B, p, l, b) ==
  /\ T = S /\ b = B[p]
  /\ \/ P[p] \in Waiting /\ ~S.ioLock[b] /\ l \in {"waited", "syncwaited"}
     \/ P[p] = "waited" /\ l = "extend"
     \/ P[p] = "waited" /\ "IO_ERROR" \in S.flags[b] /\ l = "read"

\* p pins a page that is in the pool: Hit, and the scan of BufferSync.
Pins(S, T, P, p, l, b) ==
  \E x \in Buffer :
    /\ P[p] \in Resting
    /\ Edit(S, T, p, x) /\ T.priv[p][x] > 0
    /\ T.tag[x] = S.tag[x] /\ T.ioLock[x] = S.ioLock[x]
    /\ "DELETED" \notin S.flags[x] \/ "DIRTY" \in S.flags[x]
    /\ l # "idle" => b = x
    /\ \/ /\ "IO_IN_PROGRESS" \in S.flags[x] /\ l \in Waiting
          /\ Fl(T, x) = Fl(S, x)
       \/ /\ "IO_IN_PROGRESS" \notin S.flags[x] /\ l \in {"idle", "extend"}
          /\ Fl(T, x) = Fl(S, x)
       \/ /\ "IO_IN_PROGRESS" \notin S.flags[x] /\ l = "syncwrite"
          /\ "DIRTY" \in S.flags[x]
          /\ Fl(T, x) = Fl(S, x) \ {"JUST_DIRTIED"}

\* p takes a victim off the free list.
Takes(S, T, P, p, l, b) ==
  /\ P[p] \in Resting /\ b \in Buffer
  /\ \A q \in Proc : S.priv[q][b] = 0 /\ S.last[q][b] = 0
  /\ Edit(S, T, p, b) /\ T.priv[p][b] > 0 /\ T.ioLock[b]
  /\ \/ /\ l = "replace" /\ "DIRTY" \in S.flags[b] /\ T.tag[b] = S.tag[b]
        /\ Fl(T, b) = (Fl(S, b) \cup {"IO_IN_PROGRESS"}) \ {"JUST_DIRTIED"}
     \/ /\ l = "read" /\ "DIRTY" \notin S.flags[b]
        /\ S.table[T.tag[b]] = NoBuffer /\ T.tag[b] \in Block
        /\ Fl(T, b) = (Fl(S, b) \ {"DELETED"}) \cup {"IO_IN_PROGRESS"}

\* The victim that p wrote is its own: it is renamed.
Renames(S, T, P, B, p, l, b) ==
  /\ P[p] = "replaced" /\ l = "read" /\ b = B[p]
  /\ \A q \in Proc \ {p} : S.priv[q][b] = 0 /\ S.last[q][b] = 0
  /\ Edit(S, T, p, b) /\ T.priv[p][b] > 0 /\ T.ioLock[b] = S.ioLock[b]
  /\ S.table[T.tag[b]] = NoBuffer /\ T.tag[b] \in Block
  /\ Fl(T, b) = Fl(S, b) \ {"DIRTY", "DELETED"}

\* p is done with its buffer, or goes on to flush it.
Settles(S, T, P, B, p, l, b) ==
  LET c == B[p]
  IN  /\ Edit(S, T, p, c) /\ T.tag[c] = S.tag[c]
      /\ Pinned(T, p, c) => Pinned(S, p, c)
      /\ \/ /\ P[p] = "readdone" /\ l = "idle" /\ ~T.ioLock[c]
            /\ Fl(T, c) = Fl(S, c) \ {"IO_ERROR", "IO_IN_PROGRESS"}
         \/ /\ P[p] = "readfail" /\ l = "idle" /\ ~T.ioLock[c]
            /\ Fl(T, c) = (Fl(S, c) \cup {"DELETED", "IO_ERROR"})
                            \ {"IO_IN_PROGRESS"}
         \/ /\ P[p] = "replaced" /\ l = "alloc" /\ ~T.ioLock[c]
            /\ Fl(T, c) = Fl(S, c) \ {"DIRTY", "IO_IN_PROGRESS"}
         \/ /\ P[p] = "replfail" /\ l = "alloc" /\ ~T.ioLock[c]
            /\ Fl(T, c) = (Fl(S, c) \cup {"IO_ERROR"}) \ {"IO_IN_PROGRESS"}
         \/ /\ P[p] = "modified" /\ l = "idle" /\ T.ioLock[c] = S.ioLock[c]
            /\ Fl(T, c) = Fl(S, c) \cup Dirtied
         \/ /\ P[p] = "modified" /\ l = "flush" /\ T.ioLock[c] = S.ioLock[c]
            /\ b = c /\ T.priv[p][c] > 0
            /\ Fl(T, c) = Fl(S, c) \ {"JUST_DIRTIED"}
         \/ /\ P[p] = "flushed" /\ l = "idle" /\ T.ioLock[c] = S.ioLock[c]
            /\ Fl(T, c) = Fl(S, c) \ (IF "JUST_DIRTIED" \in S.flags[c]
                                      THEN {} ELSE {"DIRTY"})

\* DropBuffers.
Forgets(S, T, P, p, l) ==
  /\ "drop" \in Calls /\ P[p] = "idle" /\ l = "idle"
  /\ T.priv = S.priv /\ T.last = S.last /\ T.tag = S.tag /\ T.ioLock = S.ioLock
  /\ \A x \in Buffer : Fl(T, x) = Fl(S, x) \ {"DIRTY"}

Kind(S, T, P, B, p, l, b) ==
  /\ Good(T) /\ l \in PC /\ b \in Buffer \cup {NoBuffer}
  /\ \/ Rests(S, T, P, p, l)
     \/ Wakes(S, T, P, B, p, l, b)
     \/ Pins(S, T, P, p, l, b)
     \/ Takes(S, T, P, p, l, b)
     \/ Renames(S, T, P, B, p, l, b)
     \/ Settles(S, T, P, B, p, l, b)
     \/ Forgets(S, T, P, p, l)

\* An I/O: the descriptors stay as they are.
IOKind(p, l, b) ==
  /\ pool' = pool
  /\ \/ pc[p] = "idle" /\ l = "modified" /\ b \in Buffer /\ pool.priv[p][b] > 0
     \/ /\ b = buf[p]
        /\ \/ pc[p] = "read" /\ l = "readdone"
           \/ pc[p] = "replace" /\ l = "replaced"
           \/ pc[p] = "flush" /\ l = "flushed"
           \/ pc[p] = "read" /\ l = "readfail" /\ Faults # {}
           \/ pc[p] = "replace" /\ l = "replfail" /\ Faults # {}
     \/ pc[p] \in {"extend", "syncwrite"} /\ l = "idle" /\ b = NoBuffer
     \/ pc[p] = "flush" /\ l = "idle" /\ Faults # {} /\ b = NoBuffer

\* p goes to step l with buffer b.
Goes(p, l, b) ==
  pc' = [pc EXCEPT ![p] = l] /\ buf' = [buf EXCEPT ![p] = b]

\* The actions that do I/O, and the caller's change to a page.
IOAction(p) ==
  \/ \E b \in Buffer, v \in Data : Modify(p, b, v)
  \/ ReadBlock(p) \/ ReadBlockFails(p) \/ ExtendBlock(p) \/ ExtendBlockFails(p)
  \/ ExtendFound(p) \/ ExtendFoundFails(p) \/ WriteBlock(p)
  \/ WriteBlockFails(p) \/ SyncWrite(p)

\* p goes on from the pool S, being where P and B say, in a step of a kind.
GoesOn(S, P, B, p) ==
  \E l, b : Kind(S, pool', P, B, p, l, b) /\ Goes(p, l, b)

\* Every step of p is one of a kind, two of them, or an I/O.
Decomposed(p) ==
  \/ UNCHANGED <<pool, pc, buf, data, disk, nblocks>>
  \/ /\ UNCHANGED <<data, disk, nblocks>>
     /\ \/ GoesOn(pool, pc, buf, p)
        \/ \E T, m : /\ Kind(pool, T, pc, buf, p, m, NoBuffer)
                     /\ GoesOn(T, [pc EXCEPT ![p] = m],
                               [buf EXCEPT ![p] = NoBuffer], p)
  \/ /\ IOAction(p)
     /\ \E l \in PC, b \in Buffer \cup {NoBuffer} :
          IOKind(p, l, b) /\ Goes(p, l, b)

-----------------------------------------------------------------------------
(* What each routine does to the buffer it works on.                       *)

LEMMA EditTrans ==
  ASSUME NEW S, NEW T, NEW U, NEW p, NEW c, Edit(S, T, p, c), Edit(T, U, p, c)
  PROVE  Edit(S, U, p, c)
BY DEF Edit

LEMMA LightOwn ==
  ASSUME NEW S, NEW T, S \in Pool, NEW p \in Proc, NEW c \in Buffer, NEW n,
         Light(S, T), T.priv = [S.priv EXCEPT ![p][c] = n]
  PROVE  /\ Edit(S, T, p, c) /\ T.tag[c] = S.tag[c]
         /\ T.ioLock[c] = S.ioLock[c] /\ Fl(T, c) = Fl(S, c)
         /\ T.last[p] = S.last[p] /\ T.priv[p][c] = n
<1>1. /\ \A q \in Proc \ {p} : T.priv[q] = S.priv[q] /\ T.last[q] = S.last[q]
      /\ \A x \in Buffer \ {c} : T.priv[p][x] = S.priv[p][x]
      /\ T.last[p] = S.last[p] /\ T.priv[p][c] = n
  BY DEF Light, Pool
<1> QED BY <1>1 DEF Edit, Light, Pinned

\* Nothing but the descriptor of c changes.
Within(S, T, c) ==
  /\ T.priv = S.priv /\ T.last = S.last
  /\ \A x \in Buffer \ {c} : /\ Fl(T, x) = Fl(S, x) /\ T.tag[x] = S.tag[x]
                             /\ T.ioLock[x] = S.ioLock[x]

LEMMA WithinEdit ==
  ASSUME NEW S, NEW T, NEW p, NEW c, Within(S, T, c)
  PROVE  Edit(S, T, p, c)
BY DEF Within, Edit, Pinned

LEMMA WithinTrans ==
  ASSUME NEW S, NEW T, NEW U, NEW c, Within(S, T, c), Within(T, U, c)
  PROVE  Within(S, U, c)
BY DEF Within

LEMMA FlagsWithin ==
  ASSUME NEW S, S \in Pool, NEW c \in Buffer, NEW on \in SUBSET Flag, NEW off,
         NEW T, T = SetFlags(S, c, on, off)
  PROVE  /\ T \in Pool /\ Within(S, T, c) /\ T.tag = S.tag /\ T.ioLock = S.ioLock
         /\ "FREE" \notin on => Fl(T, c) = (Fl(S, c) \cup on) \ off
<1>1. /\ T \in Pool
      /\ T.flags = [S.flags EXCEPT ![c] = (S.flags[c] \cup on) \ off]
      /\ T.refcount = S.refcount
      /\ T.tag = S.tag /\ T.ioLock = S.ioLock
      /\ T.freeNext = S.freeNext /\ T.freePrev = S.freePrev
      /\ T.table = S.table /\ T.priv = S.priv /\ T.last = S.last
  BY FlagsFields
<1>2. S.flags \in [Buffer -> SUBSET Flag]
  BY DEF Pool
<1>3. T.flags[c] = (S.flags[c] \cup on) \ off
  BY <1>1, <1>2
<1>4. \A x \in Buffer \ {c} : T.flags[x] = S.flags[x]
  BY <1>1, <1>2
<1> QED BY <1>1, <1>3, <1>4 DEF Within, Fl

LEMMA IOLockWithin ==
  ASSUME NEW S, S \in Pool, NEW c \in Buffer, NEW held \in BOOLEAN,
         NEW T, T = SetIOLock(S, c, held)
  PROVE  /\ T \in Pool /\ Within(S, T, c) /\ T.tag = S.tag
         /\ T.ioLock[c] = held /\ Fl(T, c) = Fl(S, c)
<1>1. /\ T \in Pool
      /\ T.ioLock = [S.ioLock EXCEPT ![c] = held]
      /\ T.flags = S.flags /\ T.tag = S.tag
      /\ T.priv = S.priv /\ T.last = S.last
  BY IOLockFields
<1>2. S.ioLock \in [Buffer -> BOOLEAN]
  BY DEF Pool
<1> QED BY <1>1, <1>2 DEF Within, Fl

LEMMA StartIOWithin ==
  ASSUME NEW S, S \in Pool, NEW c \in Buffer, NEW T, T = StartIO(S, c)
  PROVE  /\ T \in Pool /\ Within(S, T, c) /\ T.tag = S.tag /\ T.ioLock[c]
         /\ Fl(T, c) = Fl(S, c) \cup {"IO_IN_PROGRESS"}
<1>0. PICK on : on = {"IO_IN_PROGRESS"}
  OBVIOUS
<1>1. PICK U : U = SetFlags(S, c, on, {})
  OBVIOUS
<1>2. on \in SUBSET Flag /\ "FREE" \notin on
  BY <1>0 DEF Flag
<1>3. /\ U \in Pool /\ Within(S, U, c) /\ U.tag = S.tag
      /\ Fl(U, c) = (Fl(S, c) \cup on) \ {}
  BY <1>1, <1>2, FlagsWithin
<1>4. T = SetIOLock(U, c, TRUE)
  BY <1>0, <1>1 DEF StartIO
<1>5. TRUE \in BOOLEAN
  BY Zenon
<1>6. /\ T \in Pool /\ Within(U, T, c) /\ T.tag = U.tag
      /\ T.ioLock[c] = TRUE /\ Fl(T, c) = Fl(U, c)
  <2>1. U \in Pool
    BY <1>3
  <2> QED BY <1>4, <1>5, <2>1, IOLockWithin, ZenonT(60)
<1> QED BY <1>0, <1>3, <1>6, WithinTrans

LEMMA EndIOWithin ==
  ASSUME NEW S, S \in Pool, NEW c \in Buffer, NEW on \in SUBSET Flag, NEW off,
         "FREE" \notin on, NEW T, T = EndIO(S, c, on, off)
  PROVE  /\ T \in Pool /\ Within(S, T, c) /\ T.tag = S.tag /\ ~T.ioLock[c]
         /\ Fl(T, c) = (Fl(S, c) \cup on) \ (off \cup {"IO_IN_PROGRESS"})
<1>1. PICK o : o = off \cup {"IO_IN_PROGRESS"}
  OBVIOUS
<1>2. PICK U : U = SetFlags(S, c, on, o)
  OBVIOUS
<1>3. /\ U \in Pool /\ Within(S, U, c) /\ U.tag = S.tag
      /\ Fl(U, c) = (Fl(S, c) \cup on) \ o
  BY <1>2, FlagsWithin
<1>4. T = SetIOLock(U, c, FALSE)
  BY <1>1, <1>2 DEF EndIO
<1>5. FALSE \in BOOLEAN
  BY Zenon
<1>6. /\ T \in Pool /\ Within(U, T, c) /\ T.tag = U.tag
      /\ T.ioLock[c] = FALSE /\ Fl(T, c) = Fl(U, c)
  <2>1. U \in Pool
    BY <1>3
  <2> QED BY <1>4, <1>5, <2>1, IOLockWithin, ZenonT(60)
<1> QED BY <1>1, <1>3, <1>6, WithinTrans

LEMMA DeleteWithin ==
  ASSUME NEW S, Good(S), NEW c \in Buffer, NEW T, T = BufTableDelete(S, c)
  PROVE  /\ Within(S, T, c) /\ T.tag = S.tag /\ T.ioLock = S.ioLock
         /\ Fl(T, c) = Fl(S, c) \cup {"DELETED"}
<1>0. S \in Pool /\ S.flags \in [Buffer -> SUBSET Flag]
  BY DEF Good, Pool
<1>1. CASE "DELETED" \in S.flags[c]
  <2>1. T = S
    BY <1>1 DEF BufTableDelete
  <2> QED BY <1>1, <2>1 DEF Within, Fl
<1>2. CASE "DELETED" \notin S.flags[c]
  <2>1. S = [tag |-> S.tag, flags |-> S.flags, refcount |-> S.refcount,
             ioLock |-> S.ioLock, freeNext |-> S.freeNext,
             freePrev |-> S.freePrev, table |-> S.table, priv |-> S.priv,
             last |-> S.last]
    BY <1>0 DEF Pool
  <2>2. /\ T.flags = [S.flags EXCEPT ![c] = S.flags[c] \cup {"DELETED"}]
        /\ T.tag = S.tag /\ T.ioLock = S.ioLock
        /\ T.priv = S.priv /\ T.last = S.last
    BY <1>2, <2>1 DEF BufTableDelete
  <2>3. T.flags[c] = S.flags[c] \cup {"DELETED"}
        /\ \A x \in Buffer \ {c} : T.flags[x] = S.flags[x]
    BY <1>0, <2>2
  <2> QED BY <2>2, <2>3 DEF Within, Fl
<1> QED BY <1>1, <1>2

LEMMA InstallWithin ==
  ASSUME NEW S, Good(S), NEW c \in Buffer, NEW t \in Block,
         NEW T, T = Install(S, c, t)
  PROVE  /\ Within(S, T, c) /\ T.tag[c] = t /\ T.ioLock = S.ioLock
         /\ Fl(T, c) = Fl(S, c) \ {"DELETED"}
<1>1. PICK D : D = BufTableDelete(S, c)
  OBVIOUS
<1>2. /\ Within(S, D, c) /\ D.tag = S.tag /\ D.ioLock = S.ioLock
      /\ Fl(D, c) = Fl(S, c) \cup {"DELETED"}
  BY <1>1, DeleteWithin
<1>3. D \in Pool
  BY <1>1, DeleteGood DEF Good
<1>4. D = [tag |-> D.tag, flags |-> D.flags, refcount |-> D.refcount,
           ioLock |-> D.ioLock, freeNext |-> D.freeNext,
           freePrev |-> D.freePrev, table |-> D.table, priv |-> D.priv,
           last |-> D.last]
  BY <1>3 DEF Pool
<1>5. T = BufTableInsert(D, c, t)
  BY <1>1 DEF Install
<1>6. /\ T.flags = [D.flags EXCEPT ![c] = D.flags[c] \ {"DELETED"}]
      /\ T.tag = [D.tag EXCEPT ![c] = t] /\ T.ioLock = D.ioLock
      /\ T.priv = D.priv /\ T.last = D.last
  BY <1>4, <1>5 DEF BufTableInsert
<1>7. D.flags \in [Buffer -> SUBSET Flag] /\ D.tag \in [Buffer -> Block \cup {NoBlock}]
  BY <1>3 DEF Pool
<1>8. /\ T.flags[c] = D.flags[c] \ {"DELETED"} /\ T.tag[c] = t
      /\ \A x \in Buffer \ {c} : T.flags[x] = D.flags[x] /\ T.tag[x] = D.tag[x]
  BY <1>6, <1>7
<1>9. Within(D, T, c)
  BY <1>6, <1>8 DEF Within, Fl
<1>10. Fl(T, c) = Fl(D, c) \ {"DELETED"}
  BY <1>8 DEF Fl
<1> QED BY <1>2, <1>6, <1>8, <1>9, <1>10, WithinTrans

-----------------------------------------------------------------------------
(* Every action is made of these kinds.                                    *)

LEMMA KindGoes ==
  ASSUME NEW S, NEW P, NEW B, NEW p, NEW l \in PC,
         NEW b \in Buffer \cup {NoBuffer}, NEW t, NEW e,
         Goto(p, l, b, t, e), Good(pool'),
         \/ Rests(S, pool', P, p, l)
         \/ Wakes(S, pool', P, B, p, l, b)
         \/ Pins(S, pool', P, p, l, b)
         \/ Takes(S, pool', P, p, l, b)
         \/ Renames(S, pool', P, B, p, l, b)
         \/ Settles(S, pool', P, B, p, l, b)
         \/ Forgets(S, pool', P, p, l)
  PROVE  GoesOn(S, P, B, p)
<1>1. Goes(p, l, b)
  BY DEF Goto, Goes
<1>2. Kind(S, pool', P, B, p, l, b)
  BY Zenon DEF Kind
<1> QED BY <1>1, <1>2, Zenon DEF GoesOn

\* p returns from a step at which it has no I/O in hand.
LEMMA RestKind ==
  ASSUME NEW S, Good(S), NEW P, NEW B, NEW p \in Proc,
         P[p] \in Resting \cup {"waited", "syncwaited"}, pool' = S, Return(p)
  PROVE  GoesOn(S, P, B, p)
<1>1. Goto(p, "idle", NoBuffer, NoBlock, FALSE) /\ "idle" \in PC
  BY DEF Return, PC
<1>2. Rests(S, pool', P, p, "idle")
  BY DEF Rests, Edit, Resting, Pinned
<1> QED BY <1>1, <1>2, KindGoes

LEMMA HitKind ==
  ASSUME NEW S, Good(S), NEW P, NEW B, NEW p \in Proc, P[p] \in Resting,
         NEW t \in Block, NEW e \in BOOLEAN, Hit(S, p, t, e)
  PROVE  GoesOn(S, P, B, p)
<1>1. PICK b : b = S.table[t]
  OBVIOUS
<1>2. b \in Buffer /\ "DELETED" \notin S.flags[b] /\ pool' = PinBuffer(S, p, b)
  BY <1>1 DEF Hit, Good, Pool, TableExact
<1>3. S \in Pool /\ S.priv[p][b] \in Nat
  BY <1>2 DEF Good, Pool
<1>4. Good(pool') /\ pool'.priv = [S.priv EXCEPT ![p][b] = S.priv[p][b] + 1]
      /\ Light(S, pool')
  BY <1>2, PinGood, PinLight
<1>5. PICK n : n = S.priv[p][b] + 1
  OBVIOUS
<1>6. n > 0 /\ pool'.priv = [S.priv EXCEPT ![p][b] = n]
  BY <1>3, <1>4, <1>5
<1>7. /\ Edit(S, pool', p, b) /\ pool'.tag[b] = S.tag[b]
      /\ pool'.ioLock[b] = S.ioLock[b] /\ Fl(pool', b) = Fl(S, b)
      /\ pool'.priv[p][b] > 0
  BY <1>2, <1>3, <1>4, <1>6, LightOwn
<1>8. CASE "IO_IN_PROGRESS" \in S.flags[b]
  <2>1. Goto(p, "waitio", b, t, e) /\ "waitio" \in PC
    BY <1>1, <1>8 DEF Hit, PC
  <2>2. Pins(S, pool', P, p, "waitio", b)
    BY <1>2, <1>7, <1>8 DEF Pins, Waiting
  <2> QED BY <1>2, <1>4, <2>1, <2>2, KindGoes
<1>9. CASE "IO_IN_PROGRESS" \notin S.flags[b] /\ e
  <2>1. Goto(p, "extend", b, t, e) /\ "extend" \in PC
    BY <1>1, <1>9 DEF Hit, Found, PC
  <2>2. Pins(S, pool', P, p, "extend", b)
    BY <1>2, <1>7, <1>9 DEF Pins
  <2> QED BY <1>2, <1>4, <2>1, <2>2, KindGoes
<1>10. CASE "IO_IN_PROGRESS" \notin S.flags[b] /\ ~e
  <2>1. Goto(p, "idle", NoBuffer, NoBlock, FALSE) /\ "idle" \in PC
    BY <1>1, <1>10 DEF Hit, Found, Return, PC
  <2>2. Pins(S, pool', P, p, "idle", NoBuffer)
    BY <1>2, <1>7, <1>10 DEF Pins
  <2> QED BY <1>4, <2>1, <2>2, KindGoes
<1> QED BY <1>8, <1>9, <1>10

LEMMA TakeDirtyKind ==
  ASSUME NEW S, Good(S), NEW P, NEW B, NEW p \in Proc, P[p] \in Resting,
         NEW t \in Block, NEW e \in BOOLEAN, TakeDirty(S, p, t, e)
  PROVE  GoesOn(S, P, B, p)
<1>1. PICK b : b = S.freeNext[FreeList]
  OBVIOUS
<1>2. PICK T : T = GetFreeBuffer(S, p)
  OBVIOUS
<1>3. PICK U : U = StartIO(T, b)
  OBVIOUS
<1>4. PICK off : off = {"JUST_DIRTIED"}
  OBVIOUS
<1>5. ~FreeListEmpty(S) /\ pool' = SetFlags(U, b, {}, off)
      /\ Goto(p, "replace", b, t, e) /\ "DIRTY" \in S.flags[b]
  BY <1>1, <1>2, <1>3, <1>4 DEF TakeDirty
<1>6. /\ b \in Buffer /\ S.refcount[b] = 0 /\ Good(T)
      /\ T.priv = [S.priv EXCEPT ![p][b] = 1]
  BY <1>1, <1>2, <1>5, TakeGood
<1>7. Light(S, T)
  BY <1>2, <1>5, TakeLight
<1>8. S \in Pool /\ T \in Pool
  BY <1>6 DEF Good
<1>9. /\ Edit(S, T, p, b) /\ T.tag[b] = S.tag[b] /\ Fl(T, b) = Fl(S, b)
      /\ T.priv[p][b] = 1
  BY <1>6, <1>7, <1>8, LightOwn
<1>10. /\ U \in Pool /\ Within(T, U, b) /\ U.tag = T.tag /\ U.ioLock[b]
       /\ Fl(U, b) = Fl(T, b) \cup {"IO_IN_PROGRESS"}
  BY <1>3, <1>6, <1>8, StartIOWithin
<1>11. /\ Within(U, pool', b) /\ pool'.tag = U.tag /\ pool'.ioLock = U.ioLock
       /\ Fl(pool', b) = (Fl(U, b) \cup {}) \ off
  <2>1. PICK on : on = {}
    OBVIOUS
  <2>2. on \in SUBSET Flag /\ "FREE" \notin on /\ pool' = SetFlags(U, b, on, off)
    BY <1>5, <2>1
  <2>3. /\ Within(U, pool', b) /\ pool'.tag = U.tag /\ pool'.ioLock = U.ioLock
        /\ Fl(pool', b) = (Fl(U, b) \cup on) \ off
    BY <1>6, <1>10, <2>2, FlagsWithin
  <2> QED BY <2>1, <2>3
<1>12. Good(pool')
  <2>1. Good(U)
    BY <1>3, <1>6, StartIOGood
  <2>2. {} \in SUBSET Flag /\ {"FREE", "DELETED"} \cap {} = {}
        /\ {"FREE", "DELETED"} \cap off = {}
    BY <1>4
  <2> QED BY <1>5, <1>6, <2>1, <2>2, FlagsGood
<1>13. Edit(S, pool', p, b)
  BY <1>9, <1>10, <1>11, WithinEdit, EditTrans
<1>14. pool'.priv[p][b] > 0
  BY <1>9, <1>10, <1>11 DEF Within
<1>15. \A q \in Proc : S.priv[q][b] = 0 /\ S.last[q][b] = 0
  BY <1>6, Unheld
<1>16. Takes(S, pool', P, p, "replace", b)
  BY <1>4, <1>5, <1>6, <1>9, <1>10, <1>11, <1>13, <1>14, <1>15 DEF Takes
<1>17. "replace" \in PC
  BY DEF PC
<1> QED BY <1>5, <1>6, <1>12, <1>16, <1>17, KindGoes

LEMMA TakeCleanKind ==
  ASSUME NEW S, Good(S), NEW P, NEW B, NEW p \in Proc, P[p] \in Resting,
         NEW t \in Block, NEW e \in BOOLEAN, S.table[t] = NoBuffer,
         TakeClean(S, p, t, e)
  PROVE  GoesOn(S, P, B, p)
<1>1. PICK b : b = S.freeNext[FreeList]
  OBVIOUS
<1>2. PICK T : T = GetFreeBuffer(S, p)
  OBVIOUS
<1>3. PICK U : U = Install(T, b, t)
  OBVIOUS
<1>5. ~FreeListEmpty(S) /\ pool' = StartIO(U, b)
      /\ Goto(p, "read", b, t, e) /\ "DIRTY" \notin S.flags[b]
  BY <1>1, <1>2, <1>3 DEF TakeClean
<1>6. /\ b \in Buffer /\ S.refcount[b] = 0 /\ Good(T)
      /\ T.priv = [S.priv EXCEPT ![p][b] = 1] /\ T.table = S.table
  BY <1>1, <1>2, <1>5, TakeGood
<1>7. Light(S, T)
  BY <1>2, <1>5, TakeLight
<1>8. S \in Pool /\ T \in Pool
  BY <1>6 DEF Good
<1>9. /\ Edit(S, T, p, b) /\ T.tag[b] = S.tag[b] /\ Fl(T, b) = Fl(S, b)
      /\ T.priv[p][b] = 1
  BY <1>6, <1>7, <1>8, LightOwn, SMTT(40)
<1>10. Within(T, U, b) /\ U.tag[b] = t /\ Fl(U, b) = Fl(T, b) \ {"DELETED"}
  BY <1>3, <1>6, InstallWithin
<1>11. Good(U)
  BY <1>3, <1>6, InstallGood
<1>12. U \in Pool
  BY <1>11 DEF Good
<1>13. /\ Within(U, pool', b) /\ pool'.tag = U.tag /\ pool'.ioLock[b]
       /\ Fl(pool', b) = Fl(U, b) \cup {"IO_IN_PROGRESS"}
  BY <1>5, <1>6, <1>12, StartIOWithin
<1>14. Good(pool')
  BY <1>5, <1>6, <1>11, StartIOGood
<1>15. Edit(S, pool', p, b)
  BY <1>9, <1>10, <1>13, WithinEdit, EditTrans
<1>16. pool'.priv[p][b] > 0
  BY <1>9, <1>10, <1>13 DEF Within
<1>17. \A q \in Proc : S.priv[q][b] = 0 /\ S.last[q][b] = 0
  BY <1>6, Unheld
<1>18. Takes(S, pool', P, p, "read", b)
  BY <1>5, <1>6, <1>9, <1>10, <1>13, <1>15, <1>16, <1>17 DEF Takes
<1>19. "read" \in PC
  BY DEF PC
<1> QED BY <1>5, <1>6, <1>14, <1>18, <1>19, KindGoes

LEMMA AllocKind ==
  ASSUME NEW S, Good(S), NEW P, NEW B, NEW p \in Proc, P[p] \in Resting,
         NEW t \in Block, NEW e \in BOOLEAN, BufferAlloc(S, p, t, e)
  PROVE  GoesOn(S, P, B, p)
<1>1. CASE Hit(S, p, t, e)
  BY <1>1, HitKind
<1>2. CASE S.table[t] = NoBuffer /\ TakeDirty(S, p, t, e)
  BY <1>2, TakeDirtyKind
<1>3. CASE S.table[t] = NoBuffer /\ TakeClean(S, p, t, e)
  BY <1>3, TakeCleanKind
<1>4. CASE Exhausted(S, p)
  BY <1>4, RestKind DEF Exhausted
<1> QED BY <1>1, <1>2, <1>3, <1>4 DEF BufferAlloc, Miss

LEMMA SyncScanKind ==
  ASSUME NEW S, Good(S), NEW P, NEW B, NEW p \in Proc, P[p] \in Resting,
         NEW i, SyncScan(S, p, i)
  PROVE  GoesOn(S, P, B, p)
<1>1. CASE pool' = S /\ Return(p)
  BY <1>1, RestKind
<1>2. ASSUME NEW b \in Buffer, "DIRTY" \in S.flags[b],
             \/ /\ "IO_IN_PROGRESS" \in S.flags[b]
                /\ pool' = PinBuffer(S, p, b)
                /\ Goto(p, "syncwait", b, NoBlock, FALSE)
             \/ /\ "IO_IN_PROGRESS" \notin S.flags[b]
                /\ pool' = SetFlags(PinBuffer(S, p, b), b, {}, {"JUST_DIRTIED"})
                /\ Goto(p, "syncwrite", b, NoBlock, FALSE)
      PROVE  GoesOn(S, P, B, p)
  <2>1. PICK T : T = PinBuffer(S, p, b)
    OBVIOUS
  <2>2. Good(T) /\ T.priv = [S.priv EXCEPT ![p][b] = S.priv[p][b] + 1]
        /\ Light(S, T)
    BY <2>1, PinGood, PinLight
  <2>3. S \in Pool /\ T \in Pool /\ S.priv[p][b] \in Nat
    BY <2>2 DEF Good, Pool
  <2>4. PICK n : n = S.priv[p][b] + 1
    OBVIOUS
  <2>5. n > 0 /\ T.priv = [S.priv EXCEPT ![p][b] = n]
    BY <2>2, <2>3, <2>4
  <2>6. /\ Edit(S, T, p, b) /\ T.tag[b] = S.tag[b]
        /\ T.ioLock[b] = S.ioLock[b] /\ Fl(T, b) = Fl(S, b)
        /\ T.priv[p][b] > 0
    BY <2>2, <2>3, <2>5, LightOwn, SMTT(40)
  <2>7. CASE "IO_IN_PROGRESS" \in S.flags[b]
    <3>1. pool' = T /\ Goto(p, "syncwait", b, NoBlock, FALSE) /\ "syncwait" \in PC
      BY <1>2, <2>1, <2>7 DEF PC
    <3>2. Pins(S, pool', P, p, "syncwait", b)
      BY <1>2, <2>6, <2>7, <3>1 DEF Pins, Waiting
    <3> QED BY <2>2, <3>1, <3>2, KindGoes
  <2>8. CASE "IO_IN_PROGRESS" \notin S.flags[b]
    <3>1. PICK on : on = {}
      OBVIOUS
    <3>2. PICK off : off = {"JUST_DIRTIED"}
      OBVIOUS
    <3>3. pool' = SetFlags(T, b, on, off)
          /\ Goto(p, "syncwrite", b, NoBlock, FALSE) /\ "syncwrite" \in PC
      BY <1>2, <2>1, <2>8, <3>1, <3>2 DEF PC
    <3>4. on \in SUBSET Flag /\ "FREE" \notin on
          /\ {"FREE", "DELETED"} \cap on = {} /\ {"FREE", "DELETED"} \cap off = {}
      BY <3>1, <3>2
    <3>5. /\ Within(T, pool', b) /\ pool'.tag = T.tag /\ pool'.ioLock = T.ioLock
          /\ Fl(pool', b) = (Fl(T, b) \cup on) \ off
      BY <2>3, <3>3, <3>4, FlagsWithin
    <3>6. Good(pool')
      BY <2>2, <3>3, <3>4, FlagsGood
    <3>7. Edit(S, pool', p, b)
      BY <2>6, <3>5, WithinEdit, EditTrans
    <3>8. pool'.priv[p][b] > 0
      BY <2>6, <3>5 DEF Within
    <3>9. Pins(S, pool', P, p, "syncwrite", b)
      BY <1>2, <2>6, <2>8, <3>1, <3>2, <3>5, <3>7, <3>8 DEF Pins
    <3> QED BY <3>3, <3>6, <3>9, KindGoes
  <2> QED BY <2>7, <2>8
<1>3. \/ pool' = S /\ Return(p)
      \/ \E b \in Buffer :
           /\ "DIRTY" \in S.flags[b]
           /\ \/ /\ "IO_IN_PROGRESS" \in S.flags[b]
                 /\ pool' = PinBuffer(S, p, b)
                 /\ Goto(p, "syncwait", b, NoBlock, FALSE)
              \/ /\ "IO_IN_PROGRESS" \notin S.flags[b]
                 /\ pool' = SetFlags(PinBuffer(S, p, b), b, {}, {"JUST_DIRTIED"})
                 /\ Goto(p, "syncwrite", b, NoBlock, FALSE)
  BY Zenon DEF SyncScan
<1> QED BY <1>1, <1>2, <1>3

\* Buffers keep what they have when p only gives up pins.
LEMMA LessEdit ==
  ASSUME NEW S, NEW T, S \in Pool, NEW p \in Proc, NEW c \in Buffer, NEW n \in Nat,
         Light(S, T), T.priv = [S.priv EXCEPT ![p][c] = n], S.priv[p][c] > 0
  PROVE  Edit(S, T, p, NoBuffer)
<1>1. /\ Edit(S, T, p, c) /\ T.tag[c] = S.tag[c]
      /\ T.ioLock[c] = S.ioLock[c] /\ Fl(T, c) = Fl(S, c)
  BY LightOwn
<1>2. S.priv[p][c] \in Nat /\ S.last[p][c] \in Nat
  BY DEF Pool
<1>3. Pinned(S, p, c)
  BY <1>2 DEF Pinned
<1> QED BY <1>1, <1>3 DEF Edit

\* ReleaseBuffer.
LEMMA UnpinRests ==
  ASSUME NEW S, Good(S), NEW p \in Proc, NEW c \in Buffer, S.priv[p][c] > 0
  PROVE  LET T == UnpinBuffer(S, p, c)
         IN  Good(T) /\ Edit(S, T, p, NoBuffer)
<1>1. PICK T : T = UnpinBuffer(S, p, c)
  OBVIOUS
<1>2. Good(T) /\ T.priv = [S.priv EXCEPT ![p][c] = S.priv[p][c] - 1]
      /\ Light(S, T)
  BY <1>1, UnpinGood, UnpinLight
<1>3. S \in Pool /\ S.priv[p][c] - 1 \in Nat
  BY DEF Good, Pool
<1>4. Edit(S, T, p, NoBuffer)
  BY <1>2, <1>3, LessEdit
<1> QED BY <1>1, <1>2, <1>4

\* A pin more or less of a buffer that p keeps.
LEMMA CountRests ==
  ASSUME NEW S, Good(S), NEW p \in Proc, NEW c \in Buffer, S.priv[p][c] > 0,
         NEW n \in Nat, n + S.last[p][c] > 0
  PROVE  LET T == SetPrivate(S, p, c, n)
         IN  Good(T) /\ Edit(S, T, p, NoBuffer)
<1>1. PICK T : T = SetPrivate(S, p, c, n)
  OBVIOUS
<1>2. S \in Pool /\ S.priv[p][c] \in Nat /\ S.last[p][c] \in Nat
  BY DEF Good, Pool
<1>3. S.priv[p][c] + S.last[p][c] > 0
  BY <1>2
<1>4. Good(T) /\ T.priv = [S.priv EXCEPT ![p][c] = n]
  BY <1>1, <1>3, PrivateGood
<1>5. Light(S, T)
  BY <1>1, <1>2, LightParts
<1>6. Edit(S, T, p, NoBuffer)
  BY <1>2, <1>4, <1>5, LessEdit
<1> QED BY <1>1, <1>4, <1>6

LEMMA LevelRests ==
  ASSUME NEW S, Good(S), NEW p \in Proc, NEW T, T = ExchangeLevels(S, p)
  PROVE  Edit(S, T, p, NoBuffer)
<1>1. S \in Pool
  BY DEF Good
<1>2. S = [tag |-> S.tag, flags |-> S.flags, refcount |-> S.refcount,
           ioLock |-> S.ioLock, freeNext |-> S.freeNext,
           freePrev |-> S.freePrev, table |-> S.table, priv |-> S.priv,
           last |-> S.last]
  BY <1>1 DEF Pool
<1>3. /\ T.priv = [S.priv EXCEPT ![p] = S.last[p]]
      /\ T.last = [S.last EXCEPT ![p] = S.priv[p]]
      /\ T.tag = S.tag /\ T.flags = S.flags /\ T.ioLock = S.ioLock
  BY <1>2 DEF ExchangeLevels
<1>4. /\ S.priv \in [Proc -> [Buffer -> Nat]] /\ S.last \in [Proc -> [Buffer -> Nat]]
  BY <1>1 DEF Pool
<1>5. T.priv[p] = S.last[p] /\ T.last[p] = S.priv[p]
      /\ \A q \in Proc \ {p} : T.priv[q] = S.priv[q] /\ T.last[q] = S.last[q]
  BY <1>3, <1>4
<1>6. \A x \in Buffer : Pinned(T, p, x) => Pinned(S, p, x)
  BY <1>4, <1>5 DEF Pinned
<1> QED BY <1>3, <1>5, <1>6 DEF Edit, Fl

\* A victim is given up, after its write.
GivesUp(S, T, p, c, on, off) ==
  /\ Good(T) /\ Edit(S, T, p, c) /\ T.tag[c] = S.tag[c]
  /\ ~T.ioLock[c] /\ ~Pinned(T, p, c)
  /\ Fl(T, c) = (Fl(S, c) \cup on) \ (off \cup {"IO_IN_PROGRESS"})

LEMMA GiveUpSettles ==
  ASSUME NEW S, Good(S), NEW p \in Proc, NEW c \in Buffer,
         S.priv[p][c] = 1, S.last[p][c] = 0,
         NEW on \in SUBSET Flag, NEW off,
         {"FREE", "DELETED"} \cap on = {}, {"FREE", "DELETED"} \cap off = {}
  PROVE  GivesUp(S, GiveUp(EndIO(S, c, on, off), p, c), p, c, on, off)
<1>1. PICK T : T = GiveUp(EndIO(S, c, on, off), p, c)
  OBVIOUS
<1>4. "FREE" \notin on
  OBVIOUS
<1>5. PICK U : U = EndIO(S, c, on, off)
  OBVIOUS
<1>6. Good(U) /\ U.priv = S.priv /\ U.last = S.last
  BY <1>4, <1>5, EndIOGood
<1>7. S \in Pool /\ U \in Pool
  BY <1>6 DEF Good
<1>8. /\ Within(S, U, c) /\ U.tag = S.tag /\ ~U.ioLock[c]
      /\ Fl(U, c) = (Fl(S, c) \cup on) \ (off \cup {"IO_IN_PROGRESS"})
  BY <1>4, <1>5, <1>7, EndIOWithin
<1>9. U.priv[p][c] > 0 /\ U.last[p][c] = 0 /\ T = GiveUp(U, p, c)
  BY <1>1, <1>5, <1>6
<1>10. Good(T) /\ T.priv = [U.priv EXCEPT ![p][c] = 0]
  BY <1>6, <1>9, GiveUpGood
<1>11. Light(U, T)
  BY <1>6, <1>9, GiveUpLight
<1>12. /\ Edit(U, T, p, c) /\ T.tag[c] = U.tag[c] /\ T.ioLock[c] = U.ioLock[c]
       /\ Fl(T, c) = Fl(U, c) /\ T.last[p] = U.last[p] /\ T.priv[p][c] = 0
  <2>1. PICK n : n = 0
    OBVIOUS
  <2>2. U \in Pool /\ T.priv = [U.priv EXCEPT ![p][c] = n]
    BY <1>7, <1>10, <2>1
  <2>3. /\ Edit(U, T, p, c) /\ T.tag[c] = U.tag[c] /\ T.ioLock[c] = U.ioLock[c]
        /\ Fl(T, c) = Fl(U, c) /\ T.last[p] = U.last[p] /\ T.priv[p][c] = n
    BY <1>11, <2>2, LightOwn, SMTT(40)
  <2> QED BY <2>1, <2>3
<1>13. Edit(S, T, p, c)
  BY <1>8, <1>12, WithinEdit, EditTrans
<1>14. ~Pinned(T, p, c)
  BY <1>9, <1>12 DEF Pinned
<1> QED BY <1>1, <1>8, <1>10, <1>12, <1>13, <1>14 DEF GivesUp

LEMMA StayGoto ==
  ASSUME TypeOK, NEW p \in Proc, UNCHANGED <<pc, buf, want, ext>>
  PROVE  Goto(p, pc[p], buf[p], want[p], ext[p])
         /\ pc[p] \in PC /\ buf[p] \in Buffer \cup {NoBuffer}
BY DEF TypeOK, Goto

LEMMA OneKind ==
  ASSUME NEW p, GoesOn(pool, pc, buf, p), UNCHANGED <<data, disk, nblocks>>
  PROVE  Decomposed(p)
BY Zenon DEF Decomposed

\* p stays where it is and gives up pins, or none.
LEMMA StayRests ==
  ASSUME TypeOK, NEW p \in Proc, Good(pool'), Edit(pool, pool', p, NoBuffer),
         pc[p] \in Resting, UNCHANGED <<data, disk, nblocks, pc, buf, want, ext>>
  PROVE  Decomposed(p)
<1>1. Rests(pool, pool', pc, p, pc[p])
  BY DEF Rests
<1>2. GoesOn(pool, pc, buf, p)
  BY <1>1, StayGoto, KindGoes
<1> QED BY <1>2, OneKind

\* An action that ends in BufferAlloc, from the step m.
LEMMA ThenAlloc ==
  ASSUME TypeOK, NEW p \in Proc, NEW T, Good(T), NEW m \in {"idle", "alloc"},
         \/ Rests(pool, T, pc, p, m)
         \/ Settles(pool, T, pc, buf, p, m, NoBuffer),
         \/ \E t \in Block, e \in BOOLEAN : BufferAlloc(T, p, t, e)
         \/ \E i : SyncScan(T, p, i),
         UNCHANGED <<data, disk, nblocks>>
  PROVE  Decomposed(p)
<1>1. PICK P : P = [pc EXCEPT ![p] = m]
  OBVIOUS
<1>2. P[p] \in Resting /\ m \in PC
  BY <1>1 DEF TypeOK, Resting, PC
<1>3. GoesOn(T, P, [buf EXCEPT ![p] = NoBuffer], p)
  BY <1>2, AllocKind, SyncScanKind
<1>4. Kind(pool, T, pc, buf, p, m, NoBuffer)
  <2>1. NoBuffer \in Buffer \cup {NoBuffer}
    OBVIOUS
  <2> QED BY <1>2, <2>1, Zenon DEF Kind
<1> QED BY <1>1, <1>3, <1>4, Zenon DEF Decomposed

LEMMA CallKinds ==
  ASSUME IInv, NEW p \in Proc, Call(p)
  PROVE  Decomposed(p)
<1>1. Good(pool) /\ TypeOK
  BY InvFacts
<1>2. FALSE \in BOOLEAN /\ TRUE \in BOOLEAN
  BY Zenon
<1>3. pc[p] = "idle" => pc[p] \in Resting
  BY DEF Resting
<1>4. ASSUME NEW t \in Block, ReadBuffer(p, t) PROVE Decomposed(p)
  <2>1. BufferAlloc(pool, p, t, FALSE) /\ UNCHANGED <<data, disk, nblocks>>
        /\ pc[p] \in Resting
    BY <1>3, <1>4 DEF ReadBuffer
  <2>2. GoesOn(pool, pc, buf, p)
    BY <1>1, <1>2, <2>1, AllocKind, Zenon
  <2> QED BY <2>1, <2>2, OneKind
<1>5. CASE ReadBufferNew(p)
  <2>1. pool' = pool /\ Goto(p, "alloc", NoBuffer, nblocks, TRUE)
        /\ UNCHANGED <<data, disk, nblocks>> /\ pc[p] = "idle" /\ "alloc" \in PC
    BY <1>5 DEF ReadBufferNew, PC
  <2>2. Rests(pool, pool', pc, p, "alloc")
    BY <2>1 DEF Rests, Edit, Resting, Pinned
  <2>3. GoesOn(pool, pc, buf, p)
    BY <1>1, <2>1, <2>2, KindGoes
  <2> QED BY <2>1, <2>3, OneKind
<1>6. CASE BufferSync(p)
  <2>1. SyncScan(pool, p, 0) /\ UNCHANGED <<data, disk, nblocks>>
        /\ pc[p] \in Resting
    BY <1>3, <1>6 DEF BufferSync
  <2>2. GoesOn(pool, pc, buf, p)
    BY <1>1, <2>1, SyncScanKind
  <2> QED BY <2>1, <2>2, OneKind
<1>7. ASSUME NEW b \in Buffer, NEW t \in Block,
             RelationGetBufferWithBuffer(p, b, t)
      PROVE  Decomposed(p)
  <2>1. BufferAlloc(pool, p, t, FALSE) /\ UNCHANGED <<data, disk, nblocks>>
        /\ pc[p] \in Resting
    BY <1>3, <1>7 DEF RelationGetBufferWithBuffer
  <2>2. GoesOn(pool, pc, buf, p)
    BY <1>1, <1>2, <2>1, AllocKind, Zenon
  <2> QED BY <2>1, <2>2, OneKind
<1>8. ASSUME NEW b \in Buffer, NEW t \in Block, NEW e \in BOOLEAN,
             ReleaseAndReadBuffer(p, b, t, e)
      PROVE  Decomposed(p)
  <2>1. pool.priv[p][b] > 0
    BY <1>8, HeldPin DEF ReleaseAndReadBuffer
  <2>2. PICK T : T = UnpinBuffer(pool, p, b)
    OBVIOUS
  <2>3. Good(T) /\ Edit(pool, T, p, NoBuffer)
    BY <1>1, <2>1, <2>2, UnpinRests
  <2>4. BufferAlloc(T, p, t, e) /\ UNCHANGED <<data, disk, nblocks>>
        /\ pc[p] = "idle"
    BY <1>8, <2>2 DEF ReleaseAndReadBuffer, ReleaseBuffer
  <2>5. Rests(pool, T, pc, p, "alloc")
    BY <2>3, <2>4 DEF Rests, Resting
  <2>6. "alloc" \in {"idle", "alloc"}
    OBVIOUS
  <2>7. \E u \in Block, f \in BOOLEAN : BufferAlloc(T, p, u, f)
    BY <2>4
  <2> QED BY <1>1, <2>3, <2>4, <2>5, <2>6, <2>7, ThenAlloc
<1>9. ASSUME NEW b \in Buffer, NEW t \in Block, NEW e \in BOOLEAN,
             UnpinAndReadBuffer(p, b, t, e)
      PROVE  Decomposed(p)
  <2>1. pool.priv[p][b] > 0 /\ pool.priv[p][b] \in Nat /\ pool.last[p][b] \in Nat
    BY <1>9, HeldPin, InvFacts DEF UnpinAndReadBuffer
  <2>2. PICK n : n = pool.priv[p][b] - 1
    OBVIOUS
  <2>3. pc[p] = "idle" /\ pool' = SetPrivate(pool, p, b, n)
        /\ Goto(p, "alloc", NoBuffer, t, e) /\ "alloc" \in PC
        /\ UNCHANGED <<data, disk, nblocks>>
        /\ (pool.priv[p][b] > 1 \/ pool.last[p][b] > 0)
    BY <1>9, <2>2 DEF UnpinAndReadBuffer, PC
  <2>4. n \in Nat /\ n + pool.last[p][b] > 0
    BY <2>1, <2>2, <2>3
  <2>5. Good(pool') /\ Edit(pool, pool', p, NoBuffer)
    BY <1>1, <2>1, <2>3, <2>4, CountRests
  <2>6. Rests(pool, pool', pc, p, "alloc")
    BY <2>3, <2>5 DEF Rests, Resting
  <2>7. GoesOn(pool, pc, buf, p)
    BY <2>3, <2>5, <2>6, KindGoes
  <2> QED BY <2>3, <2>7, OneKind
<1>10. ASSUME NEW b \in Buffer, IncrBufferRefCount(p, b) PROVE Decomposed(p)
  <2>1. pool.priv[p][b] > 0 /\ pool.priv[p][b] \in Nat /\ pool.last[p][b] \in Nat
    BY <1>10, HeldPin, InvFacts DEF IncrBufferRefCount
  <2>2. PICK n : n = pool.priv[p][b] + 1
    OBVIOUS
  <2>3. pool' = SetPrivate(pool, p, b, n) /\ pc[p] \in Resting
        /\ UNCHANGED <<data, disk, nblocks, pc, buf, want, ext>>
    BY <1>3, <1>10, <2>2 DEF IncrBufferRefCount
  <2>4. n \in Nat /\ n + pool.last[p][b] > 0
    BY <2>1, <2>2
  <2>5. Good(pool') /\ Edit(pool, pool', p, NoBuffer)
    BY <1>1, <2>1, <2>3, <2>4, CountRests
  <2> QED BY <1>1, <2>3, <2>5, StayRests
<1>11. ASSUME NEW b \in Buffer, Release(p, b) PROVE Decomposed(p)
  <2>1. pool.priv[p][b] > 0
    BY <1>11, HeldPin DEF Release
  <2>2. pool' = UnpinBuffer(pool, p, b) /\ pc[p] \in Resting
        /\ UNCHANGED <<data, disk, nblocks, pc, buf, want, ext>>
    BY <1>3, <1>11 DEF Release, ReleaseBuffer
  <2>3. Good(pool') /\ Edit(pool, pool', p, NoBuffer)
    BY <1>1, <2>1, <2>2, UnpinRests
  <2> QED BY <1>1, <2>2, <2>3, StayRests
<1>12. CASE BufferRefCountReset(p) \/ BufferRefCountRestore(p)
  <2>1. pool' = ExchangeLevels(pool, p) /\ pc[p] \in Resting
        /\ UNCHANGED <<data, disk, nblocks, pc, buf, want, ext>>
    BY <1>3, <1>12 DEF BufferRefCountReset, BufferRefCountRestore
  <2>2. Good(pool') /\ Edit(pool, pool', p, NoBuffer)
    BY <1>1, <2>1, ExchangeGood, LevelRests
  <2> QED BY <1>1, <2>1, <2>2, StayRests
<1>13. CASE ResetBufferPool(p)
  <2>1. pool' = pool /\ Goto(p, "reset", NoBuffer, NoBlock, FALSE)
        /\ UNCHANGED <<data, disk, nblocks>> /\ pc[p] = "idle" /\ "reset" \in PC
    BY <1>13 DEF ResetBufferPool, PC
  <2>2. Rests(pool, pool', pc, p, "reset")
    BY <2>1 DEF Rests, Edit, Resting, Pinned
  <2>3. GoesOn(pool, pc, buf, p)
    BY <1>1, <2>1, <2>2, KindGoes
  <2> QED BY <2>1, <2>3, OneKind
<1>14. CASE DropBuffers(p)
  <2>1. /\ pool' = [pool EXCEPT !.flags = [b \in Buffer |-> pool.flags[b] \ {"DIRTY"}]]
        /\ UNCHANGED <<data, disk, nblocks, pc, buf, want, ext>>
        /\ pc[p] = "idle" /\ "drop" \in Calls
    BY <1>14 DEF DropBuffers
  <2>2. Good(pool')
    BY <1>1, <2>1, DropGood
  <2>3. pool = [tag |-> pool.tag, flags |-> pool.flags, refcount |-> pool.refcount,
                ioLock |-> pool.ioLock, freeNext |-> pool.freeNext,
                freePrev |-> pool.freePrev, table |-> pool.table,
                priv |-> pool.priv, last |-> pool.last]
    BY <1>1 DEF Good, Pool
  <2>4. /\ pool'.flags = [b \in Buffer |-> pool.flags[b] \ {"DIRTY"}]
        /\ pool'.priv = pool.priv /\ pool'.last = pool.last
        /\ pool'.tag = pool.tag /\ pool'.ioLock = pool.ioLock
    BY <2>1, <2>3
  <2>5. Forgets(pool, pool', pc, p, "idle")
    BY <2>1, <2>4 DEF Forgets, Fl
  <2>6. GoesOn(pool, pc, buf, p)
    BY <1>1, <2>1, <2>2, <2>5, StayGoto, KindGoes
  <2> QED BY <2>1, <2>6, OneKind
<1>15. ASSUME NEW b \in Buffer, NEW v \in Data, Modify(p, b, v)
       PROVE  Decomposed(p)
  <2>1. pool.priv[p][b] > 0
    BY <1>15, HeldPin DEF Modify
  <2>2. IOKind(p, "modified", b) /\ Goes(p, "modified", b) /\ "modified" \in PC
    BY <1>15, <2>1 DEF Modify, IOKind, Goto, Goes, PC
  <2>3. IOAction(p)
    BY <1>15 DEF IOAction
  <2> QED BY <2>2, <2>3 DEF Decomposed
<1> QED BY <1>4, <1>5, <1>6, <1>7, <1>8, <1>9, <1>10, <1>11, <1>12, <1>13,
           <1>14, <1>15 DEF Call

\* Flags of p's buffer change, and p may give up a pin of it.
Reflags(S, T, p, c, on, off) ==
  /\ Good(T) /\ Edit(S, T, p, c) /\ T.tag[c] = S.tag[c]
  /\ T.ioLock[c] = S.ioLock[c] /\ Pinned(S, p, c)
  /\ Fl(T, c) = (Fl(S, c) \cup on) \ off

LEMMA FlagsSettle ==
  ASSUME IInv, NEW p \in Proc, pc[p] \in WithBuffer, NEW c, c = buf[p],
         NEW on \in SUBSET (Flag \ {"FREE", "DELETED"}), NEW off,
         {"FREE", "DELETED"} \cap off = {}, NEW U, NEW T,
         U = SetFlags(pool, c, on, off), T = U \/ T = UnpinBuffer(U, p, c)
  PROVE  /\ Reflags(pool, T, p, c, on, off)
         /\ T = U => T.priv[p][c] > 0
<1>1. Good(pool) /\ pool \in Pool /\ c \in Buffer /\ pool.priv[p][c] > 0
  BY InvFacts DEF At, Good
<1>2. on \in SUBSET Flag /\ {"FREE", "DELETED"} \cap on = {} /\ "FREE" \notin on
  OBVIOUS
<1>3. Good(U) /\ U.priv = pool.priv
  BY <1>1, <1>2, FlagsGood
<1>4. /\ U \in Pool /\ Within(pool, U, c) /\ U.tag = pool.tag
      /\ U.ioLock = pool.ioLock /\ Fl(U, c) = (Fl(pool, c) \cup on) \ off
  BY <1>1, <1>2, FlagsWithin
<1>5. Edit(pool, U, p, c)
  BY <1>4, WithinEdit
<1>6. Pinned(pool, p, c)
  <2>1. pool.priv[p][c] \in Nat /\ pool.last[p][c] \in Nat
    BY <1>1 DEF Pool
  <2> QED BY <1>1, <2>1 DEF Pinned
<1>7. CASE T = U
  BY <1>1, <1>3, <1>4, <1>5, <1>6, <1>7 DEF Reflags
<1>8. CASE T = UnpinBuffer(U, p, c) /\ T # U
  <2>1. U.priv[p][c] > 0
    BY <1>1, <1>3
  <2>2. Good(T) /\ Edit(U, T, p, NoBuffer)
    BY <1>1, <1>3, <1>8, <2>1, UnpinRests
  <2>3. /\ T.tag[c] = U.tag[c] /\ T.ioLock[c] = U.ioLock[c] /\ Fl(T, c) = Fl(U, c)
        /\ Edit(U, T, p, c)
    BY <1>1, <2>2, SlotFacts DEF Edit
  <2>4. Edit(pool, T, p, c)
    BY <1>5, <2>3, EditTrans
  <2> QED BY <1>4, <1>6, <1>8, <2>2, <2>3, <2>4 DEF Reflags
<1> QED BY <1>7, <1>8

LEMMA SettleKind ==
  ASSUME NEW p, Good(pool'), NEW l \in PC, NEW b \in Buffer \cup {NoBuffer},
         NEW t, NEW e, Goto(p, l, b, t, e),
         Settles(pool, pool', pc, buf, p, l, b), UNCHANGED <<data, disk, nblocks>>
  PROVE  Decomposed(p)
<1>1. GoesOn(pool, pc, buf, p)
  BY KindGoes
<1> QED BY <1>1, OneKind

LEMMA AllocKinds ==
  ASSUME IInv, NEW p \in Proc,
         \/ Alloc(p) \/ Waited(p) \/ ReadDone(p) \/ ReadFailed(p)
         \/ ReplacedPinned(p) \/ ReplacedRaced(p) \/ ReplacedMine(p)
         \/ ReplaceFailed(p)
  PROVE  Decomposed(p)
<1>1. Good(pool) /\ TypeOK /\ pool \in Pool
      /\ At(pool, p, pc[p], buf[p], want[p]) /\ ext[p] \in BOOLEAN
      /\ buf[p] \in Buffer \cup {NoBuffer}
  BY InvFacts DEF TypeOK
<1>2. pc[p] \in WithBuffer => buf[p] \in Buffer /\ pool.priv[p][buf[p]] > 0
                              /\ Pinned(pool, p, buf[p])
  <2>1. pc[p] \in WithBuffer => buf[p] \in Buffer /\ pool.priv[p][buf[p]] > 0
    BY <1>1 DEF At
  <2>2. buf[p] \in Buffer => pool.priv[p][buf[p]] \in Nat /\ pool.last[p][buf[p]] \in Nat
    BY <1>1 DEF Pool
  <2> QED BY <2>1, <2>2 DEF Pinned
<1>4. CASE Alloc(p)
  <2>1. want[p] \in Block /\ pc[p] \in Resting
    BY <1>1, <1>4 DEF Alloc, At, WithBlock, Resting
  <2>2. BufferAlloc(pool, p, want[p], ext[p]) /\ UNCHANGED <<data, disk, nblocks>>
    BY <1>4 DEF Alloc
  <2>3. GoesOn(pool, pc, buf, p)
    BY <1>1, <2>1, <2>2, AllocKind
  <2> QED BY <2>2, <2>3, OneKind
<1>5. CASE Waited(p)
  <2>1. pc[p] = "waited" /\ pool' = pool /\ UNCHANGED <<data, disk, nblocks>>
    BY <1>5 DEF Waited
  <2>2. \/ "IO_ERROR" \in pool.flags[buf[p]] /\ Goto(p, "read", buf[p], want[p], ext[p])
        \/ Goto(p, "extend", buf[p], want[p], ext[p])
        \/ Return(p)
    BY <1>5 DEF Waited, Step, Found
  <2>3. "read" \in PC /\ "extend" \in PC
    BY DEF PC
  <2>4. GoesOn(pool, pc, buf, p)
    <3>1. CASE "IO_ERROR" \in pool.flags[buf[p]]
               /\ Goto(p, "read", buf[p], want[p], ext[p])
      <4>1. Wakes(pool, pool', pc, buf, p, "read", buf[p])
        BY <2>1, <3>1 DEF Wakes
      <4> QED BY <1>1, <2>1, <2>3, <3>1, <4>1, KindGoes
    <3>2. CASE Goto(p, "extend", buf[p], want[p], ext[p])
      <4>1. Wakes(pool, pool', pc, buf, p, "extend", buf[p])
        BY <2>1, <3>2 DEF Wakes
      <4> QED BY <1>1, <2>1, <2>3, <3>2, <4>1, KindGoes
    <3>3. CASE Return(p)
      BY <1>1, <2>1, <3>3, RestKind
    <3> QED BY <2>2, <3>1, <3>2, <3>3
  <2> QED BY <2>1, <2>4, OneKind
<1>6. CASE ReadDone(p)
  <2>1. PICK c : c = buf[p]
    OBVIOUS
  <2>2. PICK on : on = {}
    OBVIOUS
  <2>3. PICK off : off = {"IO_ERROR"}
    OBVIOUS
  <2>4. pc[p] = "readdone" /\ Goto(p, "idle", NoBuffer, NoBlock, FALSE)
        /\ pool' = EndIO(pool, c, on, off) /\ UNCHANGED <<data, disk, nblocks>>
        /\ "idle" \in PC
    BY <1>6, <2>1, <2>2, <2>3 DEF ReadDone, Return, PC
  <2>5. c \in Buffer /\ Pinned(pool, p, c)
    BY <1>2, <2>1, <2>4 DEF WithBuffer, PC
  <2>6. on \in SUBSET Flag /\ {"FREE", "DELETED"} \cap on = {}
        /\ {"FREE", "DELETED"} \cap off = {} /\ "FREE" \notin on
    BY <2>2, <2>3
  <2>7. Good(pool')
    BY <1>1, <2>4, <2>5, <2>6, EndIOGood
  <2>8. /\ Within(pool, pool', c) /\ pool'.tag = pool.tag /\ ~pool'.ioLock[c]
        /\ Fl(pool', c) = (Fl(pool, c) \cup on) \ (off \cup {"IO_IN_PROGRESS"})
    BY <1>1, <2>4, <2>5, <2>6, EndIOWithin
  <2>9. Edit(pool, pool', p, c)
    BY <2>8, WithinEdit
  <2>10. Settles(pool, pool', pc, buf, p, "idle", NoBuffer)
    BY <2>1, <2>2, <2>3, <2>4, <2>5, <2>8, <2>9 DEF Settles
  <2> QED BY <2>4, <2>7, <2>10, SettleKind
<1>7. CASE ReadFailed(p)
  <2>1. PICK c : c = buf[p]
    OBVIOUS
  <2>2. PICK off : off = {}
    OBVIOUS
  <2>3. PICK on : on = {"IO_ERROR"}
    OBVIOUS
  <2>4. PICK T : T = BufTableDelete(pool, c)
    OBVIOUS
  <2>5. PICK U : U = UnpinBuffer(T, p, c)
    OBVIOUS
  <2>6. pc[p] = "readfail" /\ Goto(p, "idle", NoBuffer, NoBlock, FALSE)
        /\ pool' = EndIO(U, c, on, off) /\ UNCHANGED <<data, disk, nblocks>>
        /\ "idle" \in PC
    BY <1>7, <2>1, <2>2, <2>3, <2>4, <2>5 DEF ReadFailed, Return, PC
  <2>7. c \in Buffer /\ pool.priv[p][c] > 0 /\ Pinned(pool, p, c)
    BY <1>2, <2>1, <2>6 DEF WithBuffer, PC
  <2>8. Good(T) /\ T.priv = pool.priv
    BY <1>1, <2>4, <2>7, DeleteGood
  <2>9. /\ Within(pool, T, c) /\ T.tag = pool.tag
        /\ Fl(T, c) = Fl(pool, c) \cup {"DELETED"}
    BY <1>1, <2>4, <2>7, DeleteWithin
  <2>10. T.priv[p][c] > 0
    BY <2>7, <2>8
  <2>11. Good(U) /\ Edit(T, U, p, NoBuffer)
    BY <2>5, <2>7, <2>8, <2>10, UnpinRests
  <2>12. Edit(T, U, p, c) /\ U.tag[c] = T.tag[c] /\ Fl(U, c) = Fl(T, c)
    BY <2>7, <2>11, SlotFacts DEF Edit
  <2>13. on \in SUBSET Flag /\ {"FREE", "DELETED"} \cap on = {}
         /\ {"FREE", "DELETED"} \cap off = {} /\ "FREE" \notin on /\ U \in Pool
    BY <2>2, <2>3, <2>11 DEF Flag, Good
  <2>14. Good(pool')
    BY <2>6, <2>7, <2>11, <2>13, EndIOGood
  <2>15. /\ Within(U, pool', c) /\ pool'.tag = U.tag /\ ~pool'.ioLock[c]
         /\ Fl(pool', c) = (Fl(U, c) \cup on) \ (off \cup {"IO_IN_PROGRESS"})
    BY <2>6, <2>7, <2>13, EndIOWithin
  <2>16. Edit(pool, pool', p, c)
    BY <2>9, <2>12, <2>15, WithinEdit, EditTrans
  <2>17. Fl(pool', c) = (Fl(pool, c) \cup {"DELETED", "IO_ERROR"}) \ {"IO_IN_PROGRESS"}
    BY <2>2, <2>3, <2>9, <2>12, <2>15
  <2>18. Settles(pool, pool', pc, buf, p, "idle", NoBuffer)
    BY <2>1, <2>6, <2>7, <2>9, <2>12, <2>15, <2>16, <2>17 DEF Settles
  <2> QED BY <2>6, <2>14, <2>18, SettleKind
<1>8. CASE ReplacedPinned(p) \/ ReplacedRaced(p)
  <2>0. PICK on : on = {}
    OBVIOUS
  <2>1. PICK off : off = {"DIRTY"}
    OBVIOUS
  <2>2. PICK T : T = GiveUp(EndIO(pool, buf[p], on, off), p, buf[p])
    OBVIOUS
  <2>3. pc[p] = "replaced" /\ BufferAlloc(T, p, want[p], ext[p])
        /\ UNCHANGED <<data, disk, nblocks>>
    BY <1>8, <2>0, <2>1, <2>2 DEF ReplacedPinned, ReplacedRaced, BufferAlloc
  <2>4. pc[p] \in WithVictim /\ want[p] \in Block /\ on \in SUBSET Flag
        /\ {"FREE", "DELETED"} \cap on = {} /\ {"FREE", "DELETED"} \cap off = {}
        /\ buf[p] \in Buffer /\ pool.priv[p][buf[p]] = 1
        /\ pool.last[p][buf[p]] = 0
    BY <1>1, <2>0, <2>1, <2>3 DEF WithVictim, At, WithBlock, WithBuffer, PC, Flag
  <2>5. /\ Good(T) /\ Edit(pool, T, p, buf[p]) /\ T.tag[buf[p]] = pool.tag[buf[p]]
        /\ ~T.ioLock[buf[p]] /\ ~Pinned(T, p, buf[p])
        /\ Fl(T, buf[p]) = (Fl(pool, buf[p]) \cup on) \ (off \cup {"IO_IN_PROGRESS"})
    <3>1. PICK c : c = buf[p]
      OBVIOUS
    <3>2. c \in Buffer /\ pool.priv[p][c] = 1 /\ pool.last[p][c] = 0 /\ Good(pool)
          /\ on \in SUBSET Flag
      BY <1>1, <2>4, <3>1
    <3>3. {"FREE", "DELETED"} \cap on = {} /\ {"FREE", "DELETED"} \cap off = {}
      BY <2>4
    <3>4. GivesUp(pool, GiveUp(EndIO(pool, c, on, off), p, c), p, c, on, off)
      BY <3>2, <3>3, GiveUpSettles
    <3>5. GivesUp(pool, T, p, c, on, off)
      BY <2>2, <3>1, <3>4
    <3> QED BY <3>1, <3>5 DEF GivesUp
  <2>6. Settles(pool, T, pc, buf, p, "alloc", NoBuffer)
    BY <2>0, <2>1, <2>3, <2>5 DEF Settles
  <2>7. "alloc" \in {"idle", "alloc"}
        /\ \E t \in Block, e \in BOOLEAN : BufferAlloc(T, p, t, e)
    BY <1>1, <2>3, <2>4
  <2> QED BY <1>1, <2>3, <2>5, <2>6, <2>7, ThenAlloc
<1>10. CASE ReplaceFailed(p)
  <2>0. PICK off : off = {}
    OBVIOUS
  <2>1. PICK on : on = {"IO_ERROR"}
    OBVIOUS
  <2>2. PICK T : T = GiveUp(EndIO(pool, buf[p], on, off), p, buf[p])
    OBVIOUS
  <2>3. pc[p] = "replfail" /\ BufferAlloc(T, p, want[p], ext[p])
        /\ UNCHANGED <<data, disk, nblocks>>
    BY <1>10, <2>0, <2>1, <2>2 DEF ReplaceFailed
  <2>4. pc[p] \in WithVictim /\ want[p] \in Block /\ on \in SUBSET Flag
        /\ {"FREE", "DELETED"} \cap on = {} /\ {"FREE", "DELETED"} \cap off = {}
        /\ buf[p] \in Buffer /\ pool.priv[p][buf[p]] = 1
        /\ pool.last[p][buf[p]] = 0
    BY <1>1, <2>0, <2>1, <2>3 DEF WithVictim, At, WithBlock, WithBuffer, PC, Flag
  <2>5. /\ Good(T) /\ Edit(pool, T, p, buf[p]) /\ T.tag[buf[p]] = pool.tag[buf[p]]
        /\ ~T.ioLock[buf[p]] /\ ~Pinned(T, p, buf[p])
        /\ Fl(T, buf[p]) = (Fl(pool, buf[p]) \cup on) \ (off \cup {"IO_IN_PROGRESS"})
    <3>1. PICK c : c = buf[p]
      OBVIOUS
    <3>2. c \in Buffer /\ pool.priv[p][c] = 1 /\ pool.last[p][c] = 0 /\ Good(pool)
          /\ on \in SUBSET Flag
      BY <1>1, <2>4, <3>1
    <3>3. {"FREE", "DELETED"} \cap on = {} /\ {"FREE", "DELETED"} \cap off = {}
      BY <2>4
    <3>4. GivesUp(pool, GiveUp(EndIO(pool, c, on, off), p, c), p, c, on, off)
      BY <3>2, <3>3, GiveUpSettles
    <3>5. GivesUp(pool, T, p, c, on, off)
      BY <2>2, <3>1, <3>4
    <3> QED BY <3>1, <3>5 DEF GivesUp
  <2>6. Settles(pool, T, pc, buf, p, "alloc", NoBuffer)
    BY <2>0, <2>1, <2>3, <2>5 DEF Settles
  <2>7. "alloc" \in {"idle", "alloc"}
        /\ \E t \in Block, e \in BOOLEAN : BufferAlloc(T, p, t, e)
    BY <1>1, <2>3, <2>4
  <2> QED BY <1>1, <2>3, <2>5, <2>6, <2>7, ThenAlloc
<1>11. CASE ReplacedMine(p)
  <2>1. PICK c : c = buf[p]
    OBVIOUS
  <2>2. PICK on : on = {}
    OBVIOUS
  <2>3. PICK off : off = {"DIRTY"}
    OBVIOUS
  <2>4. PICK T : T = SetFlags(pool, c, on, off)
    OBVIOUS
  <2>5. PICK t : t = want[p]
    OBVIOUS
  <2>6. pc[p] = "replaced" /\ pool.refcount[c] <= 1 /\ pool.table[t] = NoBuffer
        /\ pool' = Install(T, c, t) /\ Goto(p, "read", c, t, ext[p])
        /\ UNCHANGED <<data, disk, nblocks>> /\ "read" \in PC
    BY <1>11, <2>1, <2>2, <2>3, <2>4, <2>5 DEF ReplacedMine, Step, PC
  <2>7. c \in Buffer /\ pool.priv[p][c] > 0 /\ t \in Block
    BY <1>1, <2>1, <2>5, <2>6 DEF At, WithBuffer, WithBlock, WithVictim, PC
  <2>8. on \in SUBSET Flag /\ {"FREE", "DELETED"} \cap on = {}
        /\ {"FREE", "DELETED"} \cap off = {} /\ "FREE" \notin on
    BY <2>2, <2>3
  <2>9. Good(T) /\ T.table = pool.table
    BY <1>1, <2>4, <2>7, <2>8, FlagsGood
  <2>10. /\ Within(pool, T, c) /\ T.ioLock = pool.ioLock
         /\ Fl(T, c) = (Fl(pool, c) \cup on) \ off
    BY <1>1, <2>4, <2>7, <2>8, FlagsWithin
  <2>11. Good(pool')
    BY <2>6, <2>7, <2>9, InstallGood
  <2>12. /\ Within(T, pool', c) /\ pool'.tag[c] = t /\ pool'.ioLock = T.ioLock
         /\ Fl(pool', c) = Fl(T, c) \ {"DELETED"}
    BY <2>6, <2>7, <2>9, InstallWithin
  <2>13. Edit(pool, pool', p, c)
    BY <2>10, <2>12, WithinTrans, WithinEdit
  <2>14. pool'.priv[p][c] > 0
    BY <2>7, <2>10, <2>12 DEF Within
  <2>15. \A q \in Proc \ {p} : pool.priv[q][c] = 0 /\ pool.last[q][c] = 0
    BY <1>1, <2>6, <2>7, SoleHolder
  <2>16. Renames(pool, pool', pc, buf, p, "read", c)
    BY <2>1, <2>2, <2>3, <2>6, <2>7, <2>10, <2>12, <2>13, <2>14, <2>15 DEF Renames
  <2>17. GoesOn(pool, pc, buf, p)
    BY <2>6, <2>7, <2>11, <2>16, KindGoes
  <2> QED BY <2>6, <2>17, OneKind
<1> QED BY <1>4, <1>5, <1>6, <1>7, <1>8, <1>10, <1>11

LEMMA WriteKinds ==
  ASSUME IInv, NEW p \in Proc,
         \/ WriteBuffer(p) \/ WriteNoReleaseBuffer(p) \/ FlushBuffer(p)
         \/ FlushedRelease(p) \/ FlushedNoRelease(p)
  PROVE  Decomposed(p)
<1>1. PICK c : c = buf[p]
  OBVIOUS
<1>2. pool \in Pool /\ buf[p] \in Buffer \cup {NoBuffer}
  BY DEF IInv, TypeOK
<1>3. "idle" \in PC /\ "flush" \in PC
  BY DEF PC
<1>4. CASE WriteBuffer(p) \/ WriteNoReleaseBuffer(p)
  <2>1. PICK off : off = {}
    OBVIOUS
  <2>2. PICK on : on = Dirtied
    OBVIOUS
  <2>3. PICK U : U = SetFlags(pool, c, on, off)
    OBVIOUS
  <2>4. /\ pc[p] = "modified"
        /\ pool' = U \/ pool' = UnpinBuffer(U, p, c)
        /\ Goto(p, "idle", NoBuffer, NoBlock, FALSE)
        /\ UNCHANGED <<data, disk, nblocks>>
    BY <1>1, <1>4, <2>1, <2>2, <2>3 DEF WriteBuffer, WriteNoReleaseBuffer, Return
  <2>5. on \in SUBSET (Flag \ {"FREE", "DELETED"})
        /\ {"FREE", "DELETED"} \cap off = {} /\ pc[p] \in WithBuffer
    BY <2>1, <2>2, <2>4 DEF Dirtied, Flag, WithBuffer, PC
  <2>6. Reflags(pool, pool', p, c, on, off)
    BY <1>1, <2>3, <2>4, <2>5, FlagsSettle
  <2>7. Settles(pool, pool', pc, buf, p, "idle", NoBuffer)
    BY <1>1, <2>1, <2>2, <2>4, <2>6 DEF Settles, Reflags
  <2> QED BY <1>3, <2>4, <2>6, <2>7, SettleKind DEF Reflags
<1>5. CASE FlushBuffer(p)
  <2>1. PICK on : on = {}
    OBVIOUS
  <2>2. PICK off : off = {"JUST_DIRTIED"}
    OBVIOUS
  <2>3. PICK U : U = SetFlags(pool, c, on, off)
    OBVIOUS
  <2>4. /\ pc[p] = "modified" /\ pool' = U
        /\ Goto(p, "flush", c, want[p], ext[p])
        /\ UNCHANGED <<data, disk, nblocks>>
    BY <1>1, <1>5, <2>1, <2>2, <2>3 DEF FlushBuffer, Step
  <2>5. on \in SUBSET (Flag \ {"FREE", "DELETED"})
        /\ {"FREE", "DELETED"} \cap off = {} /\ pc[p] \in WithBuffer
    BY <2>1, <2>2, <2>4 DEF WithBuffer, PC
  <2>6. Reflags(pool, pool', p, c, on, off) /\ pool'.priv[p][c] > 0
    BY <1>1, <2>3, <2>4, <2>5, FlagsSettle
  <2>7. Settles(pool, pool', pc, buf, p, "flush", c)
    BY <1>1, <2>1, <2>2, <2>4, <2>6 DEF Settles, Reflags
  <2> QED BY <1>1, <1>2, <1>3, <2>4, <2>6, <2>7, SettleKind DEF Reflags
<1>6. CASE FlushedRelease(p) \/ FlushedNoRelease(p)
  <2>1. PICK on : on = {}
    OBVIOUS
  <2>2. PICK off : off = IF "JUST_DIRTIED" \in pool.flags[c] THEN {} ELSE {"DIRTY"}
    OBVIOUS
  <2>3. PICK U : U = SetFlags(pool, c, on, off)
    OBVIOUS
  <2>4. /\ pc[p] = "flushed"
        /\ pool' = U \/ pool' = UnpinBuffer(U, p, c)
        /\ Goto(p, "idle", NoBuffer, NoBlock, FALSE)
        /\ UNCHANGED <<data, disk, nblocks>>
    BY <1>1, <1>6, <2>1, <2>2, <2>3
       DEF FlushedRelease, FlushedNoRelease, Cleaned, Return
  <2>5. on \in SUBSET (Flag \ {"FREE", "DELETED"})
        /\ {"FREE", "DELETED"} \cap off = {} /\ pc[p] \in WithBuffer
    BY <2>1, <2>2, <2>4 DEF WithBuffer, PC
  <2>6. Reflags(pool, pool', p, c, on, off)
    BY <1>1, <2>3, <2>4, <2>5, FlagsSettle
  <2>7. Settles(pool, pool', pc, buf, p, "idle", NoBuffer)
    BY <1>1, <2>1, <2>2, <2>4, <2>6 DEF Settles, Reflags
  <2> QED BY <1>3, <2>4, <2>6, <2>7, SettleKind DEF Reflags
<1> QED BY <1>4, <1>5, <1>6

LEMMA IOKinds ==
  ASSUME IInv, NEW p \in Proc,
         \/ ReadBlock(p) \/ ReadBlockFails(p) \/ ExtendBlock(p) \/ ExtendBlockFails(p)
         \/ ExtendFound(p) \/ ExtendFoundFails(p) \/ WriteBlock(p)
         \/ WriteBlockFails(p) \/ SyncWrite(p)
  PROVE  Decomposed(p)
<1>1. IOAction(p)
  BY DEF IOAction
<1>2. buf[p] \in Buffer \cup {NoBuffer}
  BY DEF IInv, TypeOK
<1>3. \E l \in PC, b \in Buffer \cup {NoBuffer} : IOKind(p, l, b) /\ Goes(p, l, b)
  <2>1. CASE ReadBlock(p) \/ ExtendBlock(p)
    <3>1. IOKind(p, "readdone", buf[p]) /\ Goes(p, "readdone", buf[p])
          /\ "readdone" \in PC
      BY <2>1 DEF ReadBlock, ExtendBlock, AppendBlock, IOKind, Goes, Step, Goto, PC
    <3> QED BY <1>2, <3>1
  <2>2. CASE ReadBlockFails(p) \/ ExtendBlockFails(p)
    <3>1. IOKind(p, "readfail", buf[p]) /\ Goes(p, "readfail", buf[p])
          /\ "readfail" \in PC
      BY <2>2 DEF ReadBlockFails, ExtendBlockFails, IOKind, Goes, Step, Goto, PC
    <3> QED BY <1>2, <3>1
  <2>3. CASE ExtendFound(p) \/ ExtendFoundFails(p) \/ SyncWrite(p)
    <3>1. IOKind(p, "idle", NoBuffer) /\ Goes(p, "idle", NoBuffer) /\ "idle" \in PC
      BY <2>3 DEF ExtendFound, ExtendFoundFails, SyncWrite, AppendBlock, IOKind,
                  Goes, Return, Goto, PC
    <3> QED BY <3>1
  <2>4. CASE WriteBlock(p)
    <3>1. CASE pc[p] = "replace"
      <4>1. IOKind(p, "replaced", buf[p]) /\ Goes(p, "replaced", buf[p])
            /\ "replaced" \in PC
        BY <2>4, <3>1 DEF WriteBlock, IOKind, Goes, Step, Goto, PC
      <4> QED BY <1>2, <4>1
    <3>2. CASE pc[p] = "flush"
      <4>1. IOKind(p, "flushed", buf[p]) /\ Goes(p, "flushed", buf[p])
            /\ "flushed" \in PC
        BY <2>4, <3>2 DEF WriteBlock, IOKind, Goes, Step, Goto, PC
      <4> QED BY <1>2, <4>1
    <3> QED BY <2>4, <3>1, <3>2 DEF WriteBlock
  <2>5. CASE WriteBlockFails(p)
    <3>1. CASE pc[p] = "replace"
      <4>1. IOKind(p, "replfail", buf[p]) /\ Goes(p, "replfail", buf[p])
            /\ "replfail" \in PC
        BY <2>5, <3>1 DEF WriteBlockFails, IOKind, Goes, Step, Goto, PC
      <4> QED BY <1>2, <4>1
    <3>2. CASE pc[p] = "flush"
      <4>1. IOKind(p, "idle", NoBuffer) /\ Goes(p, "idle", NoBuffer) /\ "idle" \in PC
        BY <2>5, <3>2 DEF WriteBlockFails, IOKind, Goes, Return, Goto, PC
      <4> QED BY <4>1
    <3> QED BY <2>5, <3>1, <3>2 DEF WriteBlockFails
  <2> QED BY <2>1, <2>2, <2>3, <2>4, <2>5
<1> QED BY <1>1, <1>3, Zenon DEF Decomposed

LEMMA OtherKinds ==
  ASSUME IInv, NEW p \in Proc, WaitIO(p) \/ SyncWaited(p) \/ ResetRelease(p)
  PROVE  Decomposed(p)
<1>1. Good(pool) /\ TypeOK /\ At(pool, p, pc[p], buf[p], want[p])
      /\ buf[p] \in Buffer \cup {NoBuffer}
  BY InvFacts DEF TypeOK
<1>2. CASE WaitIO(p)
  <2>1. PICK l \in {"waited", "syncwaited"} : Goto(p, l, buf[p], want[p], ext[p])
    BY <1>2 DEF WaitIO, Step
  <2>2. pool' = pool /\ pc[p] \in Waiting /\ ~pool.ioLock[buf[p]]
        /\ UNCHANGED <<data, disk, nblocks>> /\ l \in PC
    BY <1>2 DEF WaitIO, Waiting, PC
  <2>3. Wakes(pool, pool', pc, buf, p, l, buf[p])
    BY <2>2 DEF Wakes
  <2>4. GoesOn(pool, pc, buf, p)
    BY <1>1, <2>1, <2>2, <2>3, KindGoes
  <2> QED BY <2>2, <2>4, OneKind
<1>3. CASE SyncWaited(p)
  <2>1. PICK c : c = buf[p]
    OBVIOUS
  <2>2. PICK T : T = UnpinBuffer(pool, p, c)
    OBVIOUS
  <2>3. pc[p] = "syncwaited" /\ SyncScan(T, p, c + 1)
        /\ UNCHANGED <<data, disk, nblocks>>
    BY <1>3, <2>1, <2>2 DEF SyncWaited
  <2>4. c \in Buffer /\ pool.priv[p][c] > 0
    BY <1>1, <2>1, <2>3 DEF At, WithBuffer, PC
  <2>5. Good(T) /\ Edit(pool, T, p, NoBuffer)
    BY <1>1, <2>2, <2>4, UnpinRests
  <2>6. Rests(pool, T, pc, p, "idle") /\ "idle" \in {"idle", "alloc"}
    BY <2>3, <2>5 DEF Rests, Resting
  <2>7. \E i : SyncScan(T, p, i)
    BY <2>3
  <2> QED BY <1>1, <2>3, <2>5, <2>6, <2>7, ThenAlloc
<1>4. CASE ResetRelease(p)
  <2>1. PICK b \in Buffer : pool.priv[p][b] > 0 /\ pool' = UnpinBuffer(pool, p, b)
    BY <1>4 DEF ResetRelease, ReleaseBuffer
  <2>2. Good(pool') /\ Edit(pool, pool', p, NoBuffer)
    BY <1>1, <2>1, UnpinRests
  <2>3. pc[p] = "reset" /\ UNCHANGED <<data, disk, nblocks>>
        /\ (Return(p) \/ UNCHANGED <<pc, buf, want, ext>>)
    BY <1>4 DEF ResetRelease
  <2>4. CASE Return(p)
    <3>1. Goto(p, "idle", NoBuffer, NoBlock, FALSE) /\ "idle" \in PC
      BY <2>4 DEF Return, PC
    <3>2. Rests(pool, pool', pc, p, "idle")
      BY <2>2, <2>3 DEF Rests, Resting
    <3>3. GoesOn(pool, pc, buf, p)
      BY <2>2, <3>1, <3>2, KindGoes
    <3> QED BY <2>3, <3>3, OneKind
  <2>5. CASE UNCHANGED <<pc, buf, want, ext>>
    <3>1. pc[p] \in Resting
      BY <2>3 DEF Resting
    <3> QED BY <1>1, <2>2, <2>3, <2>5, <3>1, StayRests
  <2> QED BY <2>3, <2>4, <2>5
<1> QED BY <1>2, <1>3, <1>4

\* Every action of every backend is made of the kinds of steps above.
LEMMA Decompose ==
  ASSUME IInv, NEW p \in Proc, Call(p) \/ Progress(p)
  PROVE  Decomposed(p)
BY CallKinds, AllocKinds, WriteKinds, IOKinds, OtherKinds DEF Progress

-----------------------------------------------------------------------------
(* Who owns a buffer on which I/O is under way.                            *)

\* Where the backends may be, and that they hold what they work on.
Places(S, P, B) ==
  /\ P \in [Proc -> PC] /\ B \in [Proc -> Buffer \cup {NoBuffer}]
  /\ \A p \in Proc : P[p] \in WithBuffer => B[p] \in Buffer /\ Pinned(S, p, B[p])

\* A backend that finds BM_IO_ERROR reads without the lock, so that when I/O
\* can fail only a victim has an owner.
Owning == IF Faults = {} THEN IOSteps ELSE WithVictim

\* p does I/O on b, and whoever else holds b waits for it.
Owns(S, P, B, p, l, b) ==
  /\ S.ioLock[b] /\ "IO_IN_PROGRESS" \in Fl(S, b)
  /\ l \in WithVictim => "JUST_DIRTIED" \notin Fl(S, b)
  /\ \A q \in Proc \ {p} : Pinned(S, q, b) => P[q] \in Waiting /\ B[q] = b

Owned(S, P, B) ==
  Places(S, P, B) /\ \A p \in Proc : P[p] \in Owning => Owns(S, P, B, p, P[p], B[p])

LEMMA StepSets ==
  /\ Owning \subseteq IOSteps /\ WithVictim \subseteq Owning
  /\ IOSteps \subseteq WithBuffer /\ Waiting \subseteq WithBuffer
  /\ IOSteps \cap Waiting = {} /\ IOSteps \cap Resting = {}
  /\ Waiting \cap Resting = {} /\ Resting \cap WithBuffer = {}
  /\ WithBuffer \subseteq PC /\ Resting \subseteq PC
BY DEF Owning, IOSteps, WithVictim, WithBuffer, Waiting, Resting, PC

\* A backend that holds b and does not wait for it: nobody else owns b.
LEMMA NoOther ==
  ASSUME NEW S, NEW P, NEW B, Owned(S, P, B), NEW p \in Proc, NEW c,
         Pinned(S, p, c), P[p] \notin Waiting, NEW r \in Proc \ {p},
         P[r] \in Owning
  PROVE  B[r] # c
BY DEF Owned, Owns

\* What a step of p must respect, as far as others' I/O goes.
LEMMA OwnedStep ==
  ASSUME NEW S, NEW T, NEW P, NEW B, Owned(S, P, B), NEW p \in Proc, NEW c,
         NEW l \in PC, NEW b \in Buffer \cup {NoBuffer},
         P[p] \notin Waiting, Edit(S, T, p, c),
         l \in WithBuffer => b \in Buffer /\ Pinned(T, p, b),
         \A r \in Proc \ {p} : P[r] \in Owning /\ B[r] = c =>
           /\ Pinned(T, p, c) => l \in Waiting /\ b = c
           /\ T.ioLock[c] = S.ioLock[c] /\ Fl(T, c) = Fl(S, c),
         l \in Owning => Owns(T, P, B, p, l, b)
  PROVE  Owned(T, [P EXCEPT ![p] = l], [B EXCEPT ![p] = b])
<1>1. PICK Q : Q = [P EXCEPT ![p] = l]
  OBVIOUS
<1>2. PICK C : C = [B EXCEPT ![p] = b]
  OBVIOUS
<1>3. P \in [Proc -> PC] /\ B \in [Proc -> Buffer \cup {NoBuffer}]
  BY DEF Owned, Places
<1>4. /\ Q \in [Proc -> PC] /\ C \in [Proc -> Buffer \cup {NoBuffer}]
      /\ Q[p] = l /\ C[p] = b
      /\ \A q \in Proc \ {p} : Q[q] = P[q] /\ C[q] = B[q]
  BY <1>1, <1>2, <1>3
<1>5. \A q \in Proc \ {p} : \A x : Pinned(T, q, x) <=> Pinned(S, q, x)
  BY DEF Edit, Pinned
<1>6. Places(T, Q, C)
  BY <1>4, <1>5 DEF Owned, Places
<1>7. ASSUME NEW r \in Proc, Q[r] \in Owning PROVE Owns(T, Q, C, r, Q[r], C[r])
  <2>1. CASE r = p
    BY <1>4, <1>7, <2>1 DEF Owns
  <2>2. CASE r # p
    <3>1. r \in Proc \ {p} /\ Q[r] = P[r] /\ C[r] = B[r] /\ P[r] \in Owning
      BY <1>4, <1>7, <2>2
    <3>2. Owns(S, P, B, r, P[r], B[r]) /\ B[r] \in Buffer
      BY <3>1, StepSets DEF Owned, Places
    <3>3. Pinned(S, p, B[r]) => FALSE
      BY <3>1, NoOther
    <3>4. T.ioLock[B[r]] = S.ioLock[B[r]] /\ Fl(T, B[r]) = Fl(S, B[r])
      <4>1. CASE B[r] = c
        BY <3>1, <4>1
      <4>2. CASE B[r] # c
        BY <3>2, <4>2 DEF Edit
      <4> QED BY <4>1, <4>2
    <3>5. Pinned(T, p, B[r]) => l \in Waiting /\ b = B[r]
      <4>1. CASE B[r] = c
        BY <3>1, <4>1
      <4>2. CASE B[r] # c
        BY <3>2, <3>3, <4>2 DEF Edit
      <4> QED BY <4>1, <4>2
    <3>6. \A q \in Proc \ {r} : Pinned(T, q, B[r]) => Q[q] \in Waiting /\ C[q] = B[r]
      BY <1>4, <1>5, <3>2, <3>5 DEF Owns
    <3> QED BY <3>1, <3>2, <3>4, <3>6 DEF Owns
  <2> QED BY <2>1, <2>2
<1> QED BY <1>1, <1>2, <1>6, <1>7 DEF Owned

\* When no I/O fails, no error is noted, and I/O under way has an owner.
Faultless(S, P, B) ==
  /\ \A p \in Proc : P[p] \notin {"readfail", "replfail"}
  /\ \A b \in Buffer :
       /\ "IO_ERROR" \notin Fl(S, b)
       /\ S.ioLock[b] \/ "IO_IN_PROGRESS" \in Fl(S, b) =>
            \E p \in Proc : P[p] \in IOSteps /\ B[p] = b

IOState(S, P, B) == Owned(S, P, B) /\ (Faults = {} => Faultless(S, P, B))

LEMMA PrivPinned ==
  ASSUME NEW T, Good(T), NEW p \in Proc, NEW x \in Buffer, T.priv[p][x] > 0
  PROVE  Pinned(T, p, x)
<1>1. T.priv[p][x] \in Nat /\ T.last[p][x] \in Nat
  BY DEF Good, Pool
<1> QED BY <1>1 DEF Pinned

\* A backend leaves WaitIO when nobody owns the buffer.
LEMMA WakeOwned ==
  ASSUME NEW S, NEW P, NEW B, Owned(S, P, B), NEW p \in Proc, NEW l \in PC,
         P[p] \in WithBuffer, P[p] \notin Owning, l \notin Owning,
         P[p] \in Waiting => ~S.ioLock[B[p]]
  PROVE  Owned(S, [P EXCEPT ![p] = l], [B EXCEPT ![p] = B[p]])
<1>1. PICK Q : Q = [P EXCEPT ![p] = l]
  OBVIOUS
<1>2. PICK C : C = [B EXCEPT ![p] = B[p]]
  OBVIOUS
<1>3. P \in [Proc -> PC] /\ B \in [Proc -> Buffer \cup {NoBuffer}]
  BY DEF Owned, Places
<1>4. Q \in [Proc -> PC] /\ C = B /\ Q[p] = l /\ \A q \in Proc \ {p} : Q[q] = P[q]
  BY <1>1, <1>2, <1>3
<1>5. Places(S, Q, C)
  BY <1>3, <1>4 DEF Owned, Places
<1>6. ASSUME NEW r \in Proc, Q[r] \in Owning PROVE Owns(S, Q, C, r, Q[r], C[r])
  <2>1. r \in Proc \ {p} /\ Q[r] = P[r]
    BY <1>4, <1>6
  <2>2. Owns(S, P, B, r, P[r], B[r])
    BY <1>6, <2>1 DEF Owned
  <2>3. ~Pinned(S, p, B[r])
    <3>1. CASE P[p] \in Waiting
      BY <2>1, <2>2, <3>1 DEF Owns
    <3>2. CASE P[p] \notin Waiting
      BY <1>6, <2>1, <3>2, NoOther
    <3> QED BY <3>1, <3>2
  <2> QED BY <1>4, <2>1, <2>2, <2>3 DEF Owns
<1> QED BY <1>1, <1>2, <1>5, <1>6 DEF Owned

LEMMA OwnedKind ==
  ASSUME NEW S, NEW T, NEW P, NEW B, IOState(S, P, B), NEW p \in Proc,
         NEW l, NEW b, Kind(S, T, P, B, p, l, b)
  PROVE  Owned(T, [P EXCEPT ![p] = l], [B EXCEPT ![p] = b])
<1>1. Owned(S, P, B) /\ Good(T) /\ l \in PC /\ b \in Buffer \cup {NoBuffer}
  BY DEF IOState, Kind
<1>2. CASE Rests(S, T, P, p, l)
  <2>1. Edit(S, T, p, NoBuffer) /\ P[p] \notin Waiting /\ l \notin WithBuffer
        /\ l \notin Owning
    BY <1>2, StepSets DEF Rests, Resting, Waiting, WithBuffer
  <2>2. \A r \in Proc : P[r] \in Owning => B[r] # NoBuffer
    BY <1>1, StepSets, SlotFacts DEF Owned, Places
  <2> QED BY <1>1, <2>1, <2>2, OwnedStep
<1>3. CASE Wakes(S, T, P, B, p, l, b)
  <2>1. T = S /\ b = B[p] /\ P[p] \in Waiting \cup {"waited"}
    BY <1>3 DEF Wakes
  <2>2. l \notin Owning
    <3>1. CASE Faults = {}
      <4>1. B[p] \in Buffer
        BY <1>1, <2>1, StepSets DEF Owned, Places, WithBuffer, PC
      <4>2. "IO_ERROR" \notin S.flags[B[p]]
        BY <3>1, <4>1 DEF IOState, Faultless, Fl
      <4>3. l # "read"
        BY <1>3, <2>1, <4>2 DEF Wakes
      <4> QED BY <1>3, <4>3, StepSets DEF Wakes, IOSteps, WithVictim
    <3>2. CASE Faults # {}
      BY <1>3, <3>2 DEF Wakes, Owning, WithVictim
    <3> QED BY <3>1, <3>2
  <2>3. P[p] \in WithBuffer /\ P[p] \notin Owning
    BY <2>1, StepSets DEF WithBuffer, PC, IOSteps, WithVictim
  <2>4. P[p] \in Waiting => ~S.ioLock[B[p]]
    BY <1>3, <2>1 DEF Wakes, Waiting
  <2> QED BY <1>1, <2>1, <2>2, <2>3, <2>4, WakeOwned
<1>4. CASE Pins(S, T, P, p, l, b)
  <2>1. PICK x \in Buffer :
          /\ P[p] \in Resting /\ Edit(S, T, p, x) /\ T.priv[p][x] > 0
          /\ T.ioLock[x] = S.ioLock[x] /\ (l # "idle" => b = x)
          /\ \/ l \in Waiting /\ Fl(T, x) = Fl(S, x)
             \/ /\ "IO_IN_PROGRESS" \notin S.flags[x]
                /\ l \in {"idle", "extend", "syncwrite"}
    BY <1>4 DEF Pins
  <2>2. P[p] \notin Waiting /\ l \notin Owning
    BY <2>1, StepSets DEF IOSteps, WithVictim, Waiting
  <2>3. Pinned(T, p, x)
    BY <1>1, <2>1, PrivPinned
  <2>4. l \in WithBuffer => b \in Buffer /\ Pinned(T, p, b)
    BY <2>1, <2>3 DEF WithBuffer
  <2>5. ASSUME NEW r \in Proc \ {p}, P[r] \in Owning, B[r] = x
        PROVE  l \in Waiting /\ b = x /\ Fl(T, x) = Fl(S, x)
    <3>1. "IO_IN_PROGRESS" \in S.flags[x]
      BY <1>1, <2>5 DEF Owned, Owns, Fl
    <3>2. l \in Waiting /\ l # "idle"
      BY <2>1, <3>1 DEF Waiting
    <3> QED BY <2>1, <3>1, <3>2
  <2> QED BY <1>1, <2>1, <2>2, <2>4, <2>5, OwnedStep
<1>5. CASE Takes(S, T, P, p, l, b)
  <2>1. /\ P[p] \in Resting /\ b \in Buffer /\ Edit(S, T, p, b) /\ T.priv[p][b] > 0
        /\ T.ioLock[b] /\ "IO_IN_PROGRESS" \in Fl(T, b)
        /\ l \in WithVictim => "JUST_DIRTIED" \notin Fl(T, b)
        /\ \A q \in Proc : S.priv[q][b] = 0 /\ S.last[q][b] = 0
    BY <1>5 DEF Takes, WithVictim
  <2>2. \A q \in Proc : ~Pinned(S, q, b)
    BY <2>1 DEF Pinned
  <2>3. \A q \in Proc \ {p} : ~Pinned(T, q, b)
    BY <2>1, <2>2 DEF Edit, Pinned
  <2>4. Owns(T, P, B, p, l, b)
    BY <2>1, <2>3 DEF Owns
  <2>5. \A r \in Proc : P[r] \in Owning => B[r] # b
    BY <1>1, <2>2, StepSets DEF Owned, Places
  <2>6. Pinned(T, p, b) /\ P[p] \notin Waiting
    BY <1>1, <2>1, PrivPinned, StepSets
  <2> QED BY <1>1, <2>1, <2>4, <2>5, <2>6, OwnedStep
<1>6. CASE Renames(S, T, P, B, p, l, b)
  <2>1. /\ P[p] = "replaced" /\ l = "read" /\ b = B[p] /\ Edit(S, T, p, b)
        /\ T.priv[p][b] > 0 /\ T.ioLock[b] = S.ioLock[b]
        /\ Fl(T, b) = Fl(S, b) \ {"DIRTY", "DELETED"}
        /\ \A q \in Proc \ {p} : S.priv[q][b] = 0 /\ S.last[q][b] = 0
    BY <1>6 DEF Renames
  <2>2. P[p] \in Owning /\ P[p] \notin Waiting /\ P[p] \in WithBuffer
    BY <2>1, StepSets DEF WithVictim, Waiting
  <2>3. b \in Buffer /\ Pinned(S, p, b) /\ Owns(S, P, B, p, P[p], b)
    BY <1>1, <2>1, <2>2 DEF Owned, Places
  <2>4. \A q \in Proc \ {p} : ~Pinned(T, q, b)
    BY <2>1 DEF Edit, Pinned
  <2>5. Owns(T, P, B, p, l, b)
    BY <2>1, <2>3, <2>4 DEF Owns, WithVictim
  <2>6. \A r \in Proc \ {p} : P[r] \in Owning => B[r] # b
    BY <1>1, <2>2, <2>3, NoOther
  <2>7. Pinned(T, p, b)
    BY <1>1, <2>1, <2>3, PrivPinned
  <2> QED BY <1>1, <2>1, <2>2, <2>3, <2>5, <2>6, <2>7, OwnedStep
<1>7. CASE Settles(S, T, P, B, p, l, b)
  <2>1. PICK c : c = B[p]
    OBVIOUS
  <2>2. /\ Edit(S, T, p, c) /\ l \in {"idle", "alloc", "flush"}
        /\ P[p] \in {"readdone", "readfail", "replaced", "replfail", "modified", "flushed"}
        /\ l = "flush" => b = c /\ T.priv[p][c] > 0
    BY <1>7, <2>1 DEF Settles
  <2>3. P[p] \in WithBuffer /\ P[p] \notin Waiting /\ l \notin Owning
        /\ (l \in WithBuffer => l = "flush")
    BY <2>2, StepSets DEF WithBuffer, PC, Waiting, IOSteps, WithVictim
  <2>4. c \in Buffer /\ Pinned(S, p, c)
    BY <1>1, <2>1, <2>3 DEF Owned, Places
  <2>5. \A r \in Proc \ {p} : P[r] \in Owning => B[r] # c
    BY <1>1, <2>3, <2>4, NoOther
  <2>6. l \in WithBuffer => b \in Buffer /\ Pinned(T, p, b)
    BY <1>1, <2>2, <2>3, <2>4, PrivPinned
  <2> QED BY <1>1, <2>2, <2>3, <2>5, <2>6, OwnedStep
<1>8. CASE Forgets(S, T, P, p, l)
  <2>1. /\ P[p] \notin Waiting /\ l \notin WithBuffer /\ l \notin Owning
        /\ T.priv = S.priv /\ T.last = S.last /\ T.ioLock = S.ioLock
        /\ \A x \in Buffer : Fl(T, x) = Fl(S, x) \ {"DIRTY"}
        /\ P[p] = "idle" /\ l = "idle"
    BY <1>8, StepSets DEF Forgets, Waiting, WithBuffer
  <2>2. PICK Q : Q = [P EXCEPT ![p] = l]
    OBVIOUS
  <2>3. PICK C : C = [B EXCEPT ![p] = b]
    OBVIOUS
  <2>4. P \in [Proc -> PC] /\ B \in [Proc -> Buffer \cup {NoBuffer}]
    BY <1>1 DEF Owned, Places
  <2>5. Q = P /\ C \in [Proc -> Buffer \cup {NoBuffer}]
        /\ \A q \in Proc \ {p} : C[q] = B[q]
    BY <1>1, <2>1, <2>2, <2>3, <2>4
  <2>6. \A q, x : Pinned(T, q, x) <=> Pinned(S, q, x)
    BY <2>1 DEF Pinned
  <2>7. Places(T, Q, C)
    BY <1>1, <2>1, <2>4, <2>5, <2>6, StepSets DEF Owned, Places
  <2>8. ASSUME NEW r \in Proc, Q[r] \in Owning PROVE Owns(T, Q, C, r, Q[r], C[r])
    <3>1. r \in Proc \ {p} /\ Owns(S, P, B, r, P[r], B[r]) /\ B[r] \in Buffer
          /\ C[r] = B[r]
      BY <1>1, <2>1, <2>5, <2>8, StepSets DEF Owned, Places
    <3>2. ~Pinned(S, p, B[r])
      BY <1>1, <2>1, <2>5, <2>8, <3>1, NoOther
    <3> QED BY <2>1, <2>5, <2>6, <3>1, <3>2 DEF Owns
  <2> QED BY <2>2, <2>3, <2>7, <2>8 DEF Owned
<1> QED BY <1>2, <1>3, <1>4, <1>5, <1>6, <1>7, <1>8 DEF Kind

LEMMA FaultlessStep ==
  ASSUME NEW S, NEW T, NEW P, NEW B, Faultless(S, P, B), Places(S, P, B),
         NEW p \in Proc, NEW c, NEW l, NEW b, Edit(S, T, p, c),
         l \notin {"readfail", "replfail"}, P[p] \in IOSteps => B[p] = c,
         c \in Buffer =>
           /\ "IO_ERROR" \notin Fl(T, c)
           /\ T.ioLock[c] \/ "IO_IN_PROGRESS" \in Fl(T, c) =>
                \/ l \in IOSteps /\ b = c
                \/ \E q \in Proc \ {p} : P[q] \in IOSteps /\ B[q] = c
  PROVE  Faultless(T, [P EXCEPT ![p] = l], [B EXCEPT ![p] = b])
<1>1. PICK Q : Q = [P EXCEPT ![p] = l]
  OBVIOUS
<1>2. PICK C : C = [B EXCEPT ![p] = b]
  OBVIOUS
<1>3. P \in [Proc -> PC] /\ B \in [Proc -> Buffer \cup {NoBuffer}]
  BY DEF Places
<1>4. /\ Q[p] = l /\ C[p] = b
      /\ \A q \in Proc \ {p} : Q[q] = P[q] /\ C[q] = B[q]
  BY <1>1, <1>2, <1>3
<1>5. \A q \in Proc : Q[q] \notin {"readfail", "replfail"}
  BY <1>4 DEF Faultless
<1>6. ASSUME NEW x \in Buffer
      PROVE  /\ "IO_ERROR" \notin Fl(T, x)
             /\ T.ioLock[x] \/ "IO_IN_PROGRESS" \in Fl(T, x) =>
                  \E q \in Proc : Q[q] \in IOSteps /\ C[q] = x
  <2>1. CASE x = c
    BY <1>4, <2>1
  <2>2. CASE x # c
    <3>1. Fl(T, x) = Fl(S, x) /\ T.ioLock[x] = S.ioLock[x]
      BY <2>2 DEF Edit
    <3>2. "IO_ERROR" \notin Fl(T, x)
      BY <3>1 DEF Faultless
    <3>3. ASSUME T.ioLock[x] \/ "IO_IN_PROGRESS" \in Fl(T, x)
          PROVE  \E q \in Proc : Q[q] \in IOSteps /\ C[q] = x
      <4>1. PICK q \in Proc : P[q] \in IOSteps /\ B[q] = x
        BY <3>1, <3>3 DEF Faultless
      <4>2. q # p
        BY <2>2, <4>1
      <4> QED BY <1>4, <4>1, <4>2
    <3> QED BY <3>2, <3>3
  <2> QED BY <2>1, <2>2
<1> QED BY <1>1, <1>2, <1>5, <1>6 DEF Faultless

LEMMA FaultlessKind ==
  ASSUME NEW S, NEW T, NEW P, NEW B, Owned(S, P, B), Faultless(S, P, B),
         NEW p \in Proc, NEW l, NEW b, Kind(S, T, P, B, p, l, b)
  PROVE  Faultless(T, [P EXCEPT ![p] = l], [B EXCEPT ![p] = b])
<1>1. Places(S, P, B) /\ l \in PC
  BY DEF Owned, Kind
<1>2. CASE Rests(S, T, P, p, l)
  BY <1>1, <1>2, StepSets, SlotFacts, FaultlessStep DEF Rests, IOSteps, WithVictim, Resting
<1>3. CASE Wakes(S, T, P, B, p, l, b)
  <2>1. Edit(S, T, p, NoBuffer)
    BY <1>3 DEF Wakes, Edit
  <2>2. P[p] \in Waiting \cup {"waited"} /\ b = B[p]
    BY <1>3 DEF Wakes
  <2>3. P[p] \notin IOSteps /\ B[p] \in Buffer
    BY <1>1, <2>2, StepSets DEF IOSteps, WithVictim, WithBuffer, PC, Places
  <2>4. "IO_ERROR" \notin S.flags[B[p]]
    BY <2>3 DEF Faultless, Fl
  <2>5. l \notin {"readfail", "replfail"}
    BY <1>3 DEF Wakes
  <2> QED BY <1>1, <2>1, <2>3, <2>5, SlotFacts, FaultlessStep
<1>4. CASE Pins(S, T, P, p, l, b)
  <2>1. PICK x \in Buffer :
          /\ P[p] \in Resting /\ Edit(S, T, p, x) /\ T.ioLock[x] = S.ioLock[x]
          /\ l \in Waiting \cup {"idle", "extend", "syncwrite"}
          /\ Fl(T, x) = Fl(S, x) \/ Fl(T, x) = Fl(S, x) \ {"JUST_DIRTIED"}
    BY <1>4 DEF Pins
  <2>2. P[p] \notin IOSteps /\ l \notin {"readfail", "replfail"}
    BY <2>1, StepSets DEF Waiting
  <2>3. "IO_ERROR" \notin Fl(T, x)
    BY <2>1 DEF Faultless
  <2>4. T.ioLock[x] \/ "IO_IN_PROGRESS" \in Fl(T, x) =>
          \E q \in Proc \ {p} : P[q] \in IOSteps /\ B[q] = x
    BY <2>1, <2>2 DEF Faultless
  <2> QED BY <1>1, <2>1, <2>2, <2>3, <2>4, FaultlessStep
<1>5. CASE Takes(S, T, P, p, l, b)
  <2>1. /\ P[p] \in Resting /\ b \in Buffer /\ Edit(S, T, p, b)
        /\ l \in {"replace", "read"}
        /\ "IO_ERROR" \in Fl(T, b) => "IO_ERROR" \in Fl(S, b)
    BY <1>5 DEF Takes
  <2>2. P[p] \notin IOSteps /\ l \in IOSteps /\ l \notin {"readfail", "replfail"}
    BY <2>1, StepSets DEF IOSteps, WithVictim
  <2>3. "IO_ERROR" \notin Fl(T, b)
    BY <2>1 DEF Faultless
  <2> QED BY <1>1, <2>1, <2>2, <2>3, FaultlessStep
<1>6. CASE Renames(S, T, P, B, p, l, b)
  <2>1. /\ P[p] = "replaced" /\ l = "read" /\ b = B[p] /\ Edit(S, T, p, b)
        /\ Fl(T, b) = Fl(S, b) \ {"DIRTY", "DELETED"}
    BY <1>6 DEF Renames
  <2>2. l \in IOSteps /\ l \notin {"readfail", "replfail"}
    BY <2>1 DEF IOSteps
  <2>3. b \in Buffer => "IO_ERROR" \notin Fl(T, b)
    BY <2>1 DEF Faultless
  <2> QED BY <1>1, <2>1, <2>2, <2>3, FaultlessStep
<1>7. CASE Settles(S, T, P, B, p, l, b)
  <2>1. PICK c : c = B[p]
    OBVIOUS
  <2>2. /\ Edit(S, T, p, c) /\ l \in {"idle", "alloc", "flush"}
        /\ P[p] \notin {"readfail", "replfail"}
    BY <1>7, <2>1 DEF Settles, Faultless
  <2>3. \/ /\ ~T.ioLock[c]
           /\ \/ Fl(T, c) = Fl(S, c) \ {"IO_ERROR", "IO_IN_PROGRESS"}
              \/ Fl(T, c) = Fl(S, c) \ {"DIRTY", "IO_IN_PROGRESS"}
        \/ /\ T.ioLock[c] = S.ioLock[c] /\ P[p] \in {"modified", "flushed"}
           /\ \/ Fl(T, c) = Fl(S, c) \cup Dirtied
              \/ Fl(T, c) = Fl(S, c) \ {"JUST_DIRTIED"}
              \/ Fl(T, c) = Fl(S, c) \ (IF "JUST_DIRTIED" \in S.flags[c]
                                        THEN {} ELSE {"DIRTY"})
    BY <1>7, <2>1, <2>2 DEF Settles
  <2>4. /\ "IO_ERROR" \in Fl(T, c) => "IO_ERROR" \in Fl(S, c)
        /\ T.ioLock[c] \/ "IO_IN_PROGRESS" \in Fl(T, c) =>
             /\ S.ioLock[c] \/ "IO_IN_PROGRESS" \in Fl(S, c)
             /\ P[p] \in {"modified", "flushed"}
    BY <2>3 DEF Dirtied
  <2>5. c \in Buffer => "IO_ERROR" \notin Fl(T, c)
    BY <2>4 DEF Faultless
  <2>6. ASSUME c \in Buffer, T.ioLock[c] \/ "IO_IN_PROGRESS" \in Fl(T, c)
        PROVE  \E q \in Proc \ {p} : P[q] \in IOSteps /\ B[q] = c
    <3>1. PICK q \in Proc : P[q] \in IOSteps /\ B[q] = c
      BY <2>4, <2>6 DEF Faultless
    <3>2. q # p
      BY <2>4, <2>6, <3>1 DEF IOSteps, WithVictim
    <3> QED BY <3>1, <3>2
  <2>7. l \notin {"readfail", "replfail"}
    BY <2>2
  <2> QED BY <1>1, <2>1, <2>2, <2>5, <2>6, <2>7, FaultlessStep
<1>8. CASE Forgets(S, T, P, p, l)
  <2>1. /\ T.ioLock = S.ioLock /\ P[p] = "idle" /\ l = "idle"
        /\ \A x \in Buffer : Fl(T, x) = Fl(S, x) \ {"DIRTY"}
    BY <1>8 DEF Forgets
  <2>2. PICK Q : Q = [P EXCEPT ![p] = l]
    OBVIOUS
  <2>3. PICK C : C = [B EXCEPT ![p] = b]
    OBVIOUS
  <2>4. P \in [Proc -> PC] /\ B \in [Proc -> Buffer \cup {NoBuffer}]
    BY <1>1 DEF Places
  <2>5. Q = P /\ \A q \in Proc \ {p} : C[q] = B[q]
    BY <2>1, <2>2, <2>3, <2>4
  <2>6. \A q \in Proc : P[q] \in IOSteps => C[q] = B[q]
    BY <2>1, <2>5 DEF IOSteps, WithVictim
  <2>7. Faultless(T, Q, C)
    BY <2>1, <2>5, <2>6 DEF Faultless
  <2> QED BY <2>2, <2>3, <2>7
<1> QED BY <1>2, <1>3, <1>4, <1>5, <1>6, <1>7, <1>8 DEF Kind

LEMMA IOStateKind ==
  ASSUME NEW S, NEW T, NEW P, NEW B, IOState(S, P, B), NEW p \in Proc,
         NEW l, NEW b, Kind(S, T, P, B, p, l, b)
  PROVE  IOState(T, [P EXCEPT ![p] = l], [B EXCEPT ![p] = b])
BY OwnedKind, FaultlessKind DEF IOState

\* An I/O leaves the descriptors alone; its backend keeps or drops its buffer.
LEMMA IOStateIO ==
  ASSUME IInv, IOState(pool, pc, buf), NEW p \in Proc, NEW l \in PC,
         NEW b \in Buffer \cup {NoBuffer}, IOKind(p, l, b)
  PROVE  IOState(pool', [pc EXCEPT ![p] = l], [buf EXCEPT ![p] = b])
<1>1. /\ pool' = pool /\ Owned(pool, pc, buf) /\ Places(pool, pc, buf)
      /\ Good(pool) /\ pc[p] \notin Waiting
  BY InvFacts DEF IOKind, IOState, Owned, Waiting
<1>2. \A c : Edit(pool, pool, p, c)
  BY DEF Edit
<1>3. \A r \in Proc : pc[r] \in Owning => buf[r] # NoBuffer
  BY <1>1, StepSets, SlotFacts DEF Places
<1>4. CASE pc[p] \in IOSteps
  <2>1. /\ l \in IOSteps /\ b = buf[p] /\ (pc[p] \in WithVictim <=> l \in WithVictim)
        /\ Faults = {} => l \notin {"readfail", "replfail"}
    BY <1>4 DEF IOKind, IOSteps, WithVictim
  <2>2. b \in Buffer /\ Pinned(pool, p, b)
    BY <1>1, <1>4, <2>1, StepSets DEF Places
  <2>3. pc[p] \in Owning <=> l \in Owning
    BY <1>4, <2>1 DEF Owning
  <2>4. l \in Owning => Owns(pool, pc, buf, p, l, b)
    BY <1>1, <2>1, <2>3 DEF Owned, Owns
  <2>5. Owned(pool, [pc EXCEPT ![p] = l], [buf EXCEPT ![p] = b])
    BY <1>1, <1>2, <1>3, <2>2, <2>4, OwnedStep
  <2>6. ASSUME Faults = {}
        PROVE  Faultless(pool, [pc EXCEPT ![p] = l], [buf EXCEPT ![p] = b])
    <3>1. Faultless(pool, pc, buf) /\ "IO_ERROR" \notin Fl(pool, b)
      BY <2>2, <2>6 DEF IOState, Faultless
    <3> QED BY <1>1, <1>2, <2>1, <2>6, <3>1, FaultlessStep
  <2> QED BY <1>1, <2>5, <2>6 DEF IOState
<1>5. CASE pc[p] \notin IOSteps
  <2>1. l \in {"modified", "flushed", "idle"} /\ l \notin IOSteps
        /\ l \notin {"readfail", "replfail"}
    BY <1>5 DEF IOKind, IOSteps, WithVictim
  <2>2. l \in WithBuffer => b \in Buffer /\ Pinned(pool, p, b)
    <3>1. CASE pc[p] = "idle"
      BY <1>1, <3>1, PrivPinned DEF IOKind
    <3>2. CASE pc[p] = "flush" /\ l = "flushed"
      BY <1>1, <3>2 DEF IOKind, Places, WithBuffer, PC
    <3> QED BY <2>1, <3>1, <3>2 DEF IOKind, WithBuffer
  <2>3. l \notin Owning
    BY <2>1, StepSets
  <2>4. Owned(pool, [pc EXCEPT ![p] = l], [buf EXCEPT ![p] = b])
    BY <1>1, <1>2, <1>3, <2>2, <2>3, OwnedStep
  <2>5. ASSUME Faults = {}
        PROVE  Faultless(pool, [pc EXCEPT ![p] = l], [buf EXCEPT ![p] = b])
    <3>1. Faultless(pool, pc, buf)
      BY <2>5 DEF IOState
    <3> QED BY <1>1, <1>2, <1>5, <2>1, <3>1, SlotFacts, FaultlessStep
  <2> QED BY <1>1, <2>4, <2>5 DEF IOState
<1> QED BY <1>4, <1>5

LEMMA IOStateInit == Init => IOState(pool, pc, buf)
<1> SUFFICES ASSUME Init PROVE IOState(pool, pc, buf)
  OBVIOUS
<1>1. /\ pc \in [Proc -> PC] /\ buf \in [Proc -> Buffer \cup {NoBuffer}]
      /\ \A p \in Proc : pc[p] = "idle"
  BY DEF Init, PC
<1>2. "idle" \notin WithBuffer /\ "idle" \notin Owning
  BY StepSets DEF Resting
<1>3. \A b \in Buffer : pool.ioLock[b] = FALSE /\ Fl(pool, b) = {"DELETED"}
  BY DEF Init, InitPool, Fl
<1> QED BY <1>1, <1>2, <1>3 DEF IOState, Owned, Places, Faultless

\* p's two kinds of steps in one action end where the second one does.
LEMMA TwoSteps ==
  ASSUME NEW p \in Proc, NEW P, NEW m, NEW l, P \in [Proc -> PC]
  PROVE  [[P EXCEPT ![p] = m] EXCEPT ![p] = l] = [P EXCEPT ![p] = l]
OBVIOUS

LEMMA TwoBuffers ==
  ASSUME NEW p \in Proc, NEW B, NEW m, NEW b, B \in [Proc -> Buffer \cup {NoBuffer}]
  PROVE  [[B EXCEPT ![p] = m] EXCEPT ![p] = b] = [B EXCEPT ![p] = b]
OBVIOUS

LEMMA IOStateNext ==
  ASSUME IInv, IOState(pool, pc, buf), NEW p \in Proc, Decomposed(p)
  PROVE  IOState(pool', pc', buf')
<1>0. pc \in [Proc -> PC] /\ buf \in [Proc -> Buffer \cup {NoBuffer}]
  BY DEF IInv, TypeOK
<1>1. CASE UNCHANGED <<pool, pc, buf, data, disk, nblocks>>
  BY <1>1
<1>2. CASE GoesOn(pool, pc, buf, p)
  <2>1. PICK l, b : Kind(pool, pool', pc, buf, p, l, b) /\ Goes(p, l, b)
    BY <1>2 DEF GoesOn
  <2> QED BY <2>1, IOStateKind DEF Goes
<1>3. ASSUME NEW T, NEW m, Kind(pool, T, pc, buf, p, m, NoBuffer),
             GoesOn(T, [pc EXCEPT ![p] = m], [buf EXCEPT ![p] = NoBuffer], p)
      PROVE  IOState(pool', pc', buf')
  <2>1. PICK Q : Q = [pc EXCEPT ![p] = m]
    OBVIOUS
  <2>2. PICK C : C = [buf EXCEPT ![p] = NoBuffer]
    OBVIOUS
  <2>3. PICK l, b : Kind(T, pool', Q, C, p, l, b) /\ Goes(p, l, b)
    BY <1>3, <2>1, <2>2 DEF GoesOn
  <2>4. IOState(T, Q, C)
    BY <1>3, <2>1, <2>2, IOStateKind
  <2>5. IOState(pool', [Q EXCEPT ![p] = l], [C EXCEPT ![p] = b])
    BY <2>3, <2>4, IOStateKind
  <2>6. [Q EXCEPT ![p] = l] = pc' /\ [C EXCEPT ![p] = b] = buf'
    BY <1>0, <2>1, <2>2, <2>3, TwoSteps, TwoBuffers DEF Goes
  <2> QED BY <2>5, <2>6
<1>4. ASSUME NEW l \in PC, NEW b \in Buffer \cup {NoBuffer}, IOKind(p, l, b), Goes(p, l, b)
      PROVE  IOState(pool', pc', buf')
  <2>1. IOState(pool', [pc EXCEPT ![p] = l], [buf EXCEPT ![p] = b])
    BY <1>4, IOStateIO
  <2> QED BY <1>4, <2>1 DEF Goes
<1> QED BY <1>1, <1>2, <1>3, <1>4, Zenon DEF Decomposed

IOInv == IInv /\ IOState(pool, pc, buf)

LEMMA IOInvNext == IOInv /\ [Next]_vars => IOInv'
<1> SUFFICES ASSUME IOInv, [Next]_vars PROVE IOInv'
  OBVIOUS
<1>1. IInv'
  BY NextInv DEF IOInv
<1>2. CASE UNCHANGED vars
  BY <1>1, <1>2 DEF vars, IOInv
<1>3. ASSUME NEW p \in Proc, Call(p) \/ Progress(p) PROVE IOInv'
  <2>1. Decomposed(p)
    BY <1>3, Decompose DEF IOInv
  <2> QED BY <1>1, <2>1, IOStateNext DEF IOInv
<1> QED BY <1>2, <1>3 DEF Next

THEOREM IOInvariance == Spec => []IOInv
<1>1. Init => IOInv
  BY InitInv, IOStateInit DEF IOInv
<1> QED BY <1>1, IOInvNext, PTL DEF Spec

\* The elog(FATAL) of BufferAlloc, "content of block ... changed while
\* flushing", is never reached: whoever pins a victim while it is written back
\* waits for the I/O to end before it can touch the page (bufmgr.c:481),
\* whatever I/O fails.
THEOREM VictimsUnchanged == Spec => []VictimUnchanged
<1>1. IOInv => VictimUnchanged
  BY StepSets DEF IOInv, IOState, Owned, Owns, VictimUnchanged, WithVictim, Fl
<1> QED BY <1>1, IOInvariance, PTL

\* When no I/O fails, BM_IO_IN_PROGRESS and the buffer's I/O lock are set
\* exactly while one backend reads into the buffer or writes it back for
\* BufferAlloc, and it is the only one (StartIO and EndIO around the I/O that
\* BufferAlloc and ReadBufferWithBufferLock do without BufMgrLock).
THEOREM IOIsExclusive == Faults = {} => (Spec => []IOExclusive)
<1> SUFFICES ASSUME Faults = {} PROVE Spec => []IOExclusive
  OBVIOUS
<1>1. ASSUME IOInv PROVE IOExclusive
  <2>1. Owned(pool, pc, buf) /\ Faultless(pool, pc, buf) /\ Owning = IOSteps
    BY <1>1 DEF IOInv, IOState, Owning
  <2>2. ASSUME NEW b \in Buffer, NEW p \in IOOwners(b)
        PROVE  /\ Owns(pool, pc, buf, p, pc[p], b) /\ Pinned(pool, p, b)
               /\ pc[p] \notin Waiting
    BY <2>1, <2>2, StepSets DEF IOOwners, Owned, Places, IOSteps, WithVictim
  <2>3. ASSUME NEW b \in Buffer, pool.ioLock[b] \/ "IO_IN_PROGRESS" \in pool.flags[b]
        PROVE  IOOwners(b) # {}
    <3>1. PICK p \in Proc : pc[p] \in IOSteps /\ buf[p] = b
      BY <2>1, <2>3 DEF Faultless, Fl
    <3> QED BY <3>1 DEF IOOwners, IOSteps, WithVictim
  <2>4. ASSUME NEW b \in Buffer, NEW p \in IOOwners(b), NEW q \in IOOwners(b)
        PROVE  p = q
    BY <2>2, <2>4 DEF Owns, IOOwners
  <2>5. ASSUME NEW b \in Buffer, IOOwners(b) # {}
        PROVE  pool.ioLock[b] /\ "IO_IN_PROGRESS" \in pool.flags[b]
    BY <2>2, <2>5 DEF Owns, Fl
  <2>6. \A b \in Buffer : pool.ioLock[b] \in BOOLEAN
    BY <1>1 DEF IOInv, IInv, TypeOK, Pool
  <2> QED BY <2>3, <2>4, <2>5, <2>6 DEF IOExclusive
<1> QED BY <1>1, IOInvariance, PTL

-----------------------------------------------------------------------------
(* A page in hand, or one to be written back, is in the lookup table.      *)

Live(S) ==
  \A b \in Buffer : (\E q \in Proc : Pinned(S, q, b)) \/ "DIRTY" \in Fl(S, b) =>
    "DELETED" \notin Fl(S, b)

LEMMA LiveStep ==
  ASSUME NEW S, NEW T, Live(S), NEW p \in Proc, NEW c, Edit(S, T, p, c),
         c \in Buffer => \/ "DELETED" \notin Fl(T, c)
                         \/ /\ \A q \in Proc : ~Pinned(T, q, c)
                            /\ "DIRTY" \notin Fl(T, c)
  PROVE  Live(T)
<1> SUFFICES ASSUME NEW b \in Buffer,
                    (\E q \in Proc : Pinned(T, q, b)) \/ "DIRTY" \in Fl(T, b)
             PROVE  "DELETED" \notin Fl(T, b)
  BY DEF Live
<1>1. CASE b = c
  BY <1>1
<1>2. CASE b # c
  <2>1. Fl(T, b) = Fl(S, b) /\ \A q \in Proc : Pinned(T, q, b) => Pinned(S, q, b)
    BY <1>2 DEF Edit, Pinned
  <2> QED BY <2>1 DEF Live
<1> QED BY <1>1, <1>2

LEMMA LiveKind ==
  ASSUME NEW S, NEW T, NEW P, NEW B, Owned(S, P, B), Faultless(S, P, B), Live(S),
         NEW p \in Proc, NEW l, NEW b, Kind(S, T, P, B, p, l, b)
  PROVE  Live(T)
<1>1. Places(S, P, B)
  BY DEF Owned
<1>2. CASE Rests(S, T, P, p, l)
  BY <1>2, SlotFacts, LiveStep DEF Rests
<1>3. CASE Wakes(S, T, P, B, p, l, b)
  BY <1>3 DEF Wakes
<1>4. CASE Pins(S, T, P, p, l, b)
  <2>1. PICK x \in Buffer :
          /\ Edit(S, T, p, x)
          /\ "DELETED" \notin S.flags[x] \/ "DIRTY" \in S.flags[x]
          /\ Fl(T, x) = Fl(S, x) \/ Fl(T, x) = Fl(S, x) \ {"JUST_DIRTIED"}
    BY <1>4 DEF Pins
  <2>2. "DELETED" \notin Fl(S, x)
    BY <2>1 DEF Live, Fl
  <2>3. "DELETED" \notin Fl(T, x)
    BY <2>1, <2>2
  <2> QED BY <2>1, <2>3, LiveStep
<1>5. CASE Takes(S, T, P, p, l, b)
  <2>1. b \in Buffer /\ Edit(S, T, p, b)
    BY <1>5 DEF Takes
  <2>2. \/ /\ "DIRTY" \in S.flags[b]
           /\ Fl(T, b) = (Fl(S, b) \cup {"IO_IN_PROGRESS"}) \ {"JUST_DIRTIED"}
        \/ Fl(T, b) = (Fl(S, b) \ {"DELETED"}) \cup {"IO_IN_PROGRESS"}
    BY <1>5 DEF Takes
  <2>3. "DIRTY" \in S.flags[b] => "DELETED" \notin Fl(S, b)
    BY <2>1 DEF Live, Fl
  <2>4. "DELETED" \notin Fl(T, b)
    BY <2>2, <2>3
  <2> QED BY <2>1, <2>4, LiveStep
<1>6. CASE Renames(S, T, P, B, p, l, b)
  <2>1. Edit(S, T, p, b) /\ "DELETED" \notin Fl(T, b)
    BY <1>6 DEF Renames
  <2> QED BY <2>1, LiveStep
<1>7. CASE Settles(S, T, P, B, p, l, b)
  <2>1. PICK c : c = B[p]
    OBVIOUS
  <2>2. /\ Edit(S, T, p, c) /\ P[p] \in WithBuffer
        /\ P[p] \notin {"readfail", "replfail"}
    BY <1>7, <2>1 DEF Settles, Faultless, WithBuffer, PC
  <2>3. "DELETED" \in Fl(T, c) => "DELETED" \in Fl(S, c)
    BY <1>7, <2>1, <2>2 DEF Settles, Dirtied
  <2>4. c \in Buffer /\ Pinned(S, p, c)
    BY <1>1, <2>1, <2>2 DEF Places
  <2>5. "DELETED" \notin Fl(T, c)
    BY <2>3, <2>4 DEF Live
  <2> QED BY <2>2, <2>5, LiveStep
<1>8. CASE Forgets(S, T, P, p, l)
  BY <1>8 DEF Forgets, Live, Pinned
<1> QED BY <1>2, <1>3, <1>4, <1>5, <1>6, <1>7, <1>8 DEF Kind

\* Where the backends are, and what is cached, when no I/O fails.
Cached(S, P, B) == Owned(S, P, B) /\ Faultless(S, P, B) /\ Live(S)

LEMMA CachedKind ==
  ASSUME Faults = {}, NEW S, NEW T, NEW P, NEW B, Cached(S, P, B),
         NEW p \in Proc, NEW l, NEW b, Kind(S, T, P, B, p, l, b)
  PROVE  Cached(T, [P EXCEPT ![p] = l], [B EXCEPT ![p] = b])
BY OwnedKind, FaultlessKind, LiveKind DEF IOState, Cached

LEMMA LiveNext ==
  ASSUME Faults = {}, IOInv, Live(pool), NEW p \in Proc, Decomposed(p)
  PROVE  Live(pool')
<1>0. Cached(pool, pc, buf)
  BY DEF IOInv, IOState, Cached
<1>1. CASE UNCHANGED <<pool, pc, buf, data, disk, nblocks>>
  BY <1>1
<1>2. CASE GoesOn(pool, pc, buf, p)
  BY <1>0, <1>2, CachedKind DEF GoesOn, Cached
<1>3. ASSUME NEW T, NEW m, Kind(pool, T, pc, buf, p, m, NoBuffer),
             GoesOn(T, [pc EXCEPT ![p] = m], [buf EXCEPT ![p] = NoBuffer], p)
      PROVE  Live(pool')
  <2>1. PICK Q : Q = [pc EXCEPT ![p] = m]
    OBVIOUS
  <2>2. PICK C : C = [buf EXCEPT ![p] = NoBuffer]
    OBVIOUS
  <2>3. PICK l, b : Kind(T, pool', Q, C, p, l, b)
    BY <1>3, <2>1, <2>2 DEF GoesOn
  <2>4. Cached(T, Q, C)
    BY <1>0, <1>3, <2>1, <2>2, CachedKind
  <2> QED BY <2>3, <2>4, CachedKind DEF Cached
<1>4. CASE \E l \in PC, b \in Buffer \cup {NoBuffer} : IOKind(p, l, b) /\ Goes(p, l, b)
  BY <1>4 DEF IOKind
<1> QED BY <1>1, <1>2, <1>3, <1>4, Zenon DEF Decomposed

LiveInv == IOInv /\ Live(pool)

LEMMA LiveInit == Init => LiveInv
<1> SUFFICES ASSUME Init PROVE Live(pool)
  BY InitInv, IOStateInit DEF IOInv, LiveInv
<1>1. \A b \in Buffer : Fl(pool, b) = {"DELETED"}
  BY DEF Init, InitPool, Fl
<1>2. \A b \in Buffer, q \in Proc : ~Pinned(pool, q, b)
  BY DEF Init, InitPool, Pinned
<1> QED BY <1>1, <1>2 DEF Live

LEMMA LiveInvNext ==
  ASSUME Faults = {}
  PROVE  LiveInv /\ [Next]_vars => LiveInv'
<1> SUFFICES ASSUME LiveInv, [Next]_vars PROVE Live(pool)'
  BY IOInvNext DEF LiveInv
<1>1. CASE UNCHANGED vars
  BY <1>1 DEF vars, LiveInv
<1>2. ASSUME NEW p \in Proc, Call(p) \/ Progress(p) PROVE Live(pool)'
  <2>1. Decomposed(p)
    BY <1>2, Decompose DEF IOInv, LiveInv
  <2> QED BY <2>1, LiveNext DEF LiveInv
<1> QED BY <1>1, <1>2 DEF Next

\* When no I/O fails, every page that a backend has pinned, at this or an
\* outer executor level, is the one the lookup table finds for its block: no
\* two backends work on two copies of a block (BufferAlloc searches the table
\* again after it has written a victim).
THEOREM CopiesAreOne == Faults = {} => (Spec => []OneCopy)
<1> SUFFICES ASSUME Faults = {} PROVE Spec => []OneCopy
  OBVIOUS
<1>1. ASSUME LiveInv PROVE OneCopy
  <2>1. TableExact(pool) /\ Live(pool)
    BY <1>1 DEF LiveInv, IOInv, IInv, PoolInv
  <2> QED BY <2>1 DEF OneCopy, Live, Pinned, TableExact, Fl
<1>2. Init => LiveInv
  BY LiveInit
<1>3. LiveInv /\ [Next]_vars => LiveInv'
  BY LiveInvNext
<1> QED BY <1>1, <1>2, <1>3, PTL DEF Spec
=============================================================================
