------------------------------- MODULE BufMgr -------------------------------
(***************************************************************************)
(* The shared buffer pool of psql-test (backend/storage/buffer): several   *)
(* backends read, extend, change and flush the blocks of one relation      *)
(* through NBuffers shared buffers.                                        *)
(*                                                                         *)
(* Grain.  A stretch of code that runs under BufMgrLock is one action; an  *)
(* I/O, which the code performs without the lock, is an action of its own. *)
(* bufMgrLock is therefore NoProc between actions, except after the one    *)
(* return of BufferAlloc that forgets to release it.  The shared           *)
(* descriptors are one record, pool, and each C routine that edits them is *)
(* an operator from pool to pool, so that the actions compose them in the  *)
(* order in which the code calls them.                                     *)
(*                                                                         *)
(* BM_VALID is left out: InitBufferPool sets it and nothing clears it.     *)
(***************************************************************************)
EXTENDS Integers, FiniteSets

CONSTANTS
  Proc,        \* the backends attached to the pool
  NoProc,      \* nobody
  NBuffers,    \* number of shared buffers
  MaxBlock,    \* bound: the relation never grows past this many blocks
  InitBlocks,  \* blocks in the relation file at the start
  Data,        \* page contents
  Zero,        \* the zero-filled page
  Faults,      \* which I/O may fail, a subset of {"read", "write"}
  Calls,       \* the buffer-manager calls the backends make
  ExtendLock,  \* TRUE: callers take turns extending the relation
  MaxHeld,     \* bound: no one asks for a buffer while this many are in use
  MaxPin       \* bound: pins one backend puts on one buffer

AllCalls == {"read", "new", "with", "swap", "incr", "release", "write",
             "flush", "sync", "level", "reset", "drop"}

ASSUME ConstantsAssumption ==
  /\ IsFiniteSet(Proc) /\ NoProc \notin Proc
  /\ NBuffers \in Nat \ {0}
  /\ MaxBlock \in Nat
  /\ InitBlocks \in 0 .. MaxBlock
  /\ Zero \in Data
  /\ Faults \subseteq {"read", "write"}
  /\ Calls \subseteq AllCalls
  /\ ExtendLock \in BOOLEAN
  /\ MaxHeld \in Nat /\ MaxPin \in Nat

VARIABLES
  pool,        \* the shared descriptors, the lookup table, the pin counts
  data,        \* BufferBlocks: the page in each buffer
  disk,        \* the relation file, zero beyond its end
  nblocks,     \* number of blocks in the file
  bufMgrLock,  \* the backend that kept BufMgrLock, or NoProc
  lost,        \* pins BufferSync took and never gave back
  pc,          \* where each backend is
  buf,         \* the buffer a backend is working on
  want,        \* the block a backend asked for
  ext          \* TRUE while the backend's request is for P_NEW

vars == <<pool, data, disk, nblocks, bufMgrLock, lost, pc, buf, want, ext>>

Buffer == 0 .. NBuffers - 1
FreeList == NBuffers                 \* Free_List_Descriptor
Slot == 0 .. NBuffers                \* the buffers and the list head
InvalidDescriptor == -3
NoBuffer == -1
Block == 0 .. MaxBlock - 1
NoBlock == -1

Flag == {"FREE", "DIRTY", "DELETED", "IO_IN_PROGRESS", "IO_ERROR",
         "JUST_DIRTIED"}

PC == {"idle", "alloc", "waitio", "waited", "read", "readdone", "readfail",
       "replace", "replaced", "replfail", "extend", "modified", "flush",
       "flushed", "syncwait", "syncwaited", "syncwrite", "reset"}

Pool == [tag      : [Buffer -> Block \cup {NoBlock}],
         flags    : [Buffer -> SUBSET Flag],
         refcount : [Buffer -> Nat],
         ioLock   : [Buffer -> BOOLEAN],
         freeNext : [Slot -> Slot \cup {InvalidDescriptor}],
         freePrev : [Slot -> Slot \cup {InvalidDescriptor}],
         table    : [Block -> Buffer \cup {NoBuffer}],
         priv     : [Proc -> [Buffer -> Nat]],
         last     : [Proc -> [Buffer -> Nat]]]

-----------------------------------------------------------------------------
(* Assignments to one field of a descriptor.                               *)

SetFlags(S, b, on, off) ==
  [S EXCEPT !.flags = [S.flags EXCEPT ![b] = (S.flags[b] \cup on) \ off]]

SetRefcount(S, b, n) == [S EXCEPT !.refcount = [S.refcount EXCEPT ![b] = n]]

SetPrivate(S, p, b, n) ==
  [S EXCEPT !.priv = [S.priv EXCEPT ![p][b] = n]]

SetIOLock(S, b, held) == [S EXCEPT !.ioLock = [S.ioLock EXCEPT ![b] = held]]

-----------------------------------------------------------------------------
(* freelist.c: the free list, a ring through the list head.                *)

\* Take b off the ring and mark it not free.
Unlink(S, b) ==
  LET n == S.freeNext[b]
      q == S.freePrev[b]
  IN  [S EXCEPT !.freePrev = [S.freePrev EXCEPT ![n] = q, ![b] = InvalidDescriptor],
                !.freeNext = [S.freeNext EXCEPT ![q] = n, ![b] = InvalidDescriptor],
                !.flags = [S.flags EXCEPT ![b] = S.flags[b] \ {"FREE"}]]

\* Mutant: the old tail is not linked to b.
AddBufferToFreelist_Mutant(S, b) ==
  [S EXCEPT !.freePrev = [S.freePrev EXCEPT ![b] = S.freePrev[FreeList],
                                   ![FreeList] = b],
            !.freeNext[b] = FreeList,
            !.flags[b] = @ \cup {"FREE"}]

\* Put b at the tail of the ring (least recently used is at the head) and
\* mark it free, as every caller does next.
AddBufferToFreelist(S, b) ==
  LET q == S.freePrev[FreeList]
  IN  [S EXCEPT !.freePrev = [S.freePrev EXCEPT ![b] = q, ![FreeList] = b],
                !.freeNext = [S.freeNext EXCEPT ![b] = FreeList, ![q] = b],
                !.flags = [S.flags EXCEPT ![b] = S.flags[b] \cup {"FREE"}]]

\* Mutant: every pin moves the shared count.
PinBuffer_Mutant(S, p, b) ==
  LET S1 == IF S.refcount[b] = 0 THEN Unlink(S, b) ELSE S
  IN  SetPrivate(SetRefcount(S1, b, S.refcount[b] + 1), p, b,
                 S.priv[p][b] + 1)

\* The shared count moves only with a backend's first pin.
PinBuffer(S, p, b) ==
  LET S1 == IF S.refcount[b] = 0 THEN Unlink(S, b) ELSE S
      S2 == IF S.priv[p][b] = 0 /\ S.last[p][b] = 0
            THEN SetRefcount(S1, b, S.refcount[b] + 1) ELSE S1
  IN  SetPrivate(S2, p, b, S.priv[p][b] + 1)

\* Drop one from the shared count; the last pin frees the buffer.
DropRef(S, b) ==
  LET S1 == SetRefcount(S, b, S.refcount[b] - 1)
  IN  IF S.refcount[b] = 1 THEN AddBufferToFreelist(S1, b) ELSE S1

\* Mutant: every unpin moves the shared count.
UnpinBuffer_Mutant(S, p, b) ==
  DropRef(SetPrivate(S, p, b, S.priv[p][b] - 1), b)

UnpinBuffer(S, p, b) ==
  LET S1 == SetPrivate(S, p, b, S.priv[p][b] - 1)
  IN  IF S.priv[p][b] = 1 /\ S.last[p][b] = 0 THEN DropRef(S1, b) ELSE S1

\* ReleaseBuffer makes the same change as UnpinBuffer.
ReleaseBuffer(S, p, b) == UnpinBuffer(S, p, b)

\* BufferRefCountReset where no pins are set aside yet, and
\* BufferRefCountRestore where none are left at the inner level: with levels
\* one deep, refcountsave is LastRefCount and either call exchanges the counts.
ExchangeLevels(S, p) ==
  [S EXCEPT !.priv = [S.priv EXCEPT ![p] = S.last[p]],
            !.last = [S.last EXCEPT ![p] = S.priv[p]]]

\* GetFreeBuffer on a non-empty list, and BufferAlloc's sole pin on its result.
GetFreeBuffer(S, p) ==
  LET b == S.freeNext[FreeList]
  IN  SetPrivate(SetRefcount(Unlink(S, b), b, 1), p, b, 1)

\* Mutant: a list whose first buffer is number 0 is taken for empty.
FreeListEmpty_Mutant(S) == S.freeNext[FreeList] \in {0, FreeList}

FreeListEmpty(S) == S.freeNext[FreeList] = FreeList

-----------------------------------------------------------------------------
(* buf_table.c: the lookup table.                                          *)

BufTableDelete(S, b) ==
  IF "DELETED" \in S.flags[b] THEN S
  ELSE [S EXCEPT !.flags = [S.flags EXCEPT ![b] = S.flags[b] \cup {"DELETED"}],
                 !.table = [S.table EXCEPT ![S.tag[b]] = NoBuffer]]

BufTableInsert(S, b, t) ==
  [S EXCEPT !.tag = [S.tag EXCEPT ![b] = t],
            !.flags = [S.flags EXCEPT ![b] = S.flags[b] \ {"DELETED"}],
            !.table = [S.table EXCEPT ![t] = b]]

-----------------------------------------------------------------------------
(* I/O bookkeeping of a descriptor.                                        *)

StartIO(S, b) == SetIOLock(SetFlags(S, b, {"IO_IN_PROGRESS"}, {}), b, TRUE)

\* Mutant: the flag outlives the I/O.
EndIO_Mutant(S, b, on, off) == SetIOLock(SetFlags(S, b, on, off), b, FALSE)

\* S_UNLOCK(io_in_progress_lock) with the flag changes made just before it.
EndIO(S, b, on, off) ==
  SetIOLock(SetFlags(S, b, on, off \cup {"IO_IN_PROGRESS"}), b, FALSE)

\* BufferAlloc gives up a victim: its private pin is set to 0, not decremented.
GiveUp(S, p, b) == DropRef(SetPrivate(S, p, b, 0), b)

\* Rename the buffer in the lookup table before its read starts.
Install(S, b, t) == BufTableInsert(BufTableDelete(S, b), b, t)

-----------------------------------------------------------------------------
(* Control: a backend's move to its next step.                             *)

Goto(p, l, b, t, e) ==
  /\ pc' = [pc EXCEPT ![p] = l]
  /\ buf' = [buf EXCEPT ![p] = b]
  /\ want' = [want EXCEPT ![p] = t]
  /\ ext' = [ext EXCEPT ![p] = e]

Return(p) == Goto(p, "idle", NoBuffer, NoBlock, FALSE)

Step(p, l) == Goto(p, l, buf[p], want[p], ext[p])

LockFree == bufMgrLock = NoProc

\* ReadBufferWithBufferLock, once BufferAlloc has found the block in the pool.
Found(p, b, t, e) ==
  IF e THEN Goto(p, "extend", b, t, e) ELSE Return(p)

-----------------------------------------------------------------------------
(* BufferAlloc, from a pool S in which BufMgrLock is held.                 *)

Hit(S, p, t, e) ==
  LET b == S.table[t]
  IN  /\ b # NoBuffer
      /\ pool' = PinBuffer(S, p, b)
      /\ IF "IO_IN_PROGRESS" \in S.flags[b]
         THEN Goto(p, "waitio", b, t, e)
         ELSE Found(p, b, t, e)
      /\ UNCHANGED bufMgrLock

\* Mutant: BM_IO_IN_PROGRESS is not set while the victim is written.
TakeDirty_Mutant(S, p, t, e) ==
  LET b == S.freeNext[FreeList]
  IN  /\ ~FreeListEmpty(S)
      /\ "DIRTY" \in S.flags[b]
      /\ pool' = SetFlags(GetFreeBuffer(S, p), b, {}, {"JUST_DIRTIED"})
      /\ Goto(p, "replace", b, t, e)
      /\ UNCHANGED bufMgrLock

\* A dirty victim is written back first, under its old name.
TakeDirty(S, p, t, e) ==
  LET b == S.freeNext[FreeList]
  IN  /\ ~FreeListEmpty(S)
      /\ "DIRTY" \in S.flags[b]
      /\ pool' = SetFlags(StartIO(GetFreeBuffer(S, p), b), b, {},
                          {"JUST_DIRTIED"})
      /\ Goto(p, "replace", b, t, e)
      /\ UNCHANGED bufMgrLock

\* Mutant: a dirty victim may be taken without writing it.
TakeClean_Mutant(S, p, t, e) ==
  LET b == S.freeNext[FreeList]
  IN  /\ ~FreeListEmpty(S)
      /\ pool' = StartIO(Install(GetFreeBuffer(S, p), b, t), b)
      /\ Goto(p, "read", b, t, e)
      /\ UNCHANGED bufMgrLock

TakeClean(S, p, t, e) ==
  LET b == S.freeNext[FreeList]
  IN  /\ ~FreeListEmpty(S)
      /\ "DIRTY" \notin S.flags[b]
      /\ pool' = StartIO(Install(GetFreeBuffer(S, p), b, t), b)
      /\ Goto(p, "read", b, t, e)
      /\ UNCHANGED bufMgrLock

\* GetFreeBuffer returns NULL; BufferAlloc returns without SpinRelease.
Exhausted(S, p) ==
  /\ FreeListEmpty(S)
  /\ pool' = S
  /\ bufMgrLock' = p
  /\ Return(p)

Miss(S, p, t, e) ==
  /\ S.table[t] = NoBuffer
  /\ TakeDirty(S, p, t, e) \/ TakeClean(S, p, t, e) \/ Exhausted(S, p)

BufferAlloc(S, p, t, e) == Hit(S, p, t, e) \/ Miss(S, p, t, e)

-----------------------------------------------------------------------------
(* The calls backends make.                                                *)

\* A backend works only with pins it knows of: not the ones BufferSync lost.
Held(p, b) == pool.priv[p][b] > lost[p][b]

\* The bounds on pins.  With MaxHeld <= NBuffers the pool never runs out.
Demand == Cardinality({pb \in Proc \X Buffer :
                         pool.priv[pb[1]][pb[2]] + pool.last[pb[1]][pb[2]] > 0})
            + Cardinality({p \in Proc : pc[p] = "alloc"})

MayPin(p) == /\ Demand < MaxHeld
             /\ \A b \in Buffer : pool.priv[p][b] < MaxPin

\* Callers read inside the file, or block 0 of an empty one (RelationPutAtEnd).
Readable(t) == t < nblocks \/ (t = 0 /\ nblocks = 0)

MayExtend == /\ nblocks + Cardinality({q \in Proc : ext[q]}) < MaxBlock
             /\ ExtendLock => \A q \in Proc : ~ext[q]

ReadBuffer(p, t) ==
  /\ "read" \in Calls /\ pc[p] = "idle" /\ LockFree
  /\ MayPin(p) /\ Readable(t)
  /\ BufferAlloc(pool, p, t, FALSE)
  /\ UNCHANGED <<data, disk, nblocks, lost>>

\* ReadBuffer(P_NEW): smgrnblocks is read before BufMgrLock is taken.
ReadBufferNew(p) ==
  /\ "new" \in Calls /\ pc[p] = "idle"
  /\ MayPin(p) /\ MayExtend
  /\ Goto(p, "alloc", NoBuffer, nblocks, TRUE)
  /\ UNCHANGED <<pool, data, disk, nblocks, bufMgrLock, lost>>

Alloc(p) ==
  /\ pc[p] = "alloc" /\ LockFree
  /\ BufferAlloc(pool, p, want[p], ext[p])
  /\ UNCHANGED <<data, disk, nblocks, lost>>

\* RelationGetBufferWithBuffer: nothing to do when b already holds t.
RelationGetBufferWithBuffer(p, b, t) ==
  /\ "with" \in Calls /\ pc[p] = "idle" /\ LockFree
  /\ Held(p, b) /\ pool.tag[b] # t
  /\ MayPin(p) /\ Readable(t)
  /\ BufferAlloc(pool, p, t, FALSE)
  /\ UNCHANGED <<data, disk, nblocks, lost>>

\* ReleaseAndReadBuffer of a last pin: one hold of BufMgrLock covers the
\* release, smgrnblocks for P_NEW, and BufferAlloc.
ReleaseAndReadBuffer(p, b, t, e) ==
  /\ "swap" \in Calls /\ pc[p] = "idle" /\ LockFree
  /\ Held(p, b) /\ pool.priv[p][b] = 1 /\ pool.last[p][b] = 0
  /\ IF e THEN MayExtend /\ t = nblocks ELSE Readable(t)
  /\ BufferAlloc(ReleaseBuffer(pool, p, b), p, t, e)
  /\ UNCHANGED <<data, disk, nblocks, lost>>

\* ReleaseAndReadBuffer when other pins remain: a plain ReadBuffer follows.
UnpinAndReadBuffer(p, b, t, e) ==
  /\ "swap" \in Calls /\ pc[p] = "idle"
  /\ Held(p, b) /\ (pool.priv[p][b] > 1 \/ pool.last[p][b] > 0)
  /\ Demand < MaxHeld /\ \A c \in Buffer \ {b} : pool.priv[p][c] < MaxPin
  /\ IF e THEN MayExtend /\ t = nblocks ELSE Readable(t)
  /\ pool' = SetPrivate(pool, p, b, pool.priv[p][b] - 1)
  /\ Goto(p, "alloc", NoBuffer, t, e)
  /\ UNCHANGED <<data, disk, nblocks, bufMgrLock, lost>>

IncrBufferRefCount(p, b) ==
  /\ "incr" \in Calls /\ pc[p] = "idle"
  /\ Held(p, b) /\ pool.priv[p][b] < MaxPin
  /\ pool' = SetPrivate(pool, p, b, pool.priv[p][b] + 1)
  /\ UNCHANGED <<data, disk, nblocks, bufMgrLock, lost, pc, buf, want, ext>>

Release(p, b) ==
  /\ "release" \in Calls /\ pc[p] = "idle" /\ LockFree
  /\ Held(p, b)
  /\ pool' = ReleaseBuffer(pool, p, b)
  /\ UNCHANGED <<data, disk, nblocks, bufMgrLock, lost, pc, buf, want, ext>>

NonePinned(count) == \A b \in Buffer : count[b] = 0

\* The executor starts an inner level, which must not drop the pins of the
\* outer one, and ends it when it has released its own.
BufferRefCountReset(p) ==
  /\ "level" \in Calls /\ pc[p] = "idle"
  /\ NonePinned(pool.last[p]) /\ NonePinned(lost[p])
  /\ pool' = ExchangeLevels(pool, p)
  /\ UNCHANGED <<data, disk, nblocks, bufMgrLock, lost, pc, buf, want, ext>>

BufferRefCountRestore(p) ==
  /\ "level" \in Calls /\ pc[p] = "idle"
  /\ NonePinned(pool.priv[p])
  /\ pool' = ExchangeLevels(pool, p)
  /\ UNCHANGED <<data, disk, nblocks, bufMgrLock, lost, pc, buf, want, ext>>

\* A transaction aborts at the outermost level: every pin is released, the
\* ones BufferSync lost too, each under a hold of BufMgrLock of its own.
ResetBufferPool(p) ==
  /\ "reset" \in Calls /\ pc[p] = "idle"
  /\ NonePinned(pool.last[p]) /\ ~NonePinned(pool.priv[p])
  /\ lost' = [lost EXCEPT ![p] = [b \in Buffer |-> 0]]
  /\ Goto(p, "reset", NoBuffer, NoBlock, FALSE)
  /\ UNCHANGED <<pool, data, disk, nblocks, bufMgrLock>>

\* The lowest buffer that is still pinned.
ResetRelease(p) ==
  /\ pc[p] = "reset" /\ LockFree
  /\ \E b \in Buffer :
       /\ pool.priv[p][b] > 0
       /\ \A c \in Buffer : pool.priv[p][c] > 0 => b <= c
       /\ pool' = ReleaseBuffer(pool, p, b)
  /\ IF NonePinned(pool'.priv[p]) THEN Return(p)
     ELSE UNCHANGED <<pc, buf, want, ext>>
  /\ UNCHANGED <<data, disk, nblocks, bufMgrLock, lost>>

\* The database is destroyed: none of its pages is to be written.
DropBuffers(p) ==
  /\ "drop" \in Calls /\ pc[p] = "idle" /\ LockFree
  /\ pool' = [pool EXCEPT !.flags =
                [b \in Buffer |-> pool.flags[b] \ {"DIRTY"}]]
  /\ UNCHANGED <<data, disk, nblocks, bufMgrLock, lost, pc, buf, want, ext>>

\* The caller changes a page it has pinned (external: heap and page code).
Modify(p, b, v) ==
  /\ {"write", "flush"} \cap Calls # {} /\ pc[p] = "idle"
  /\ Held(p, b) /\ pool.tag[b] \in 0 .. nblocks - 1
  /\ data' = [data EXCEPT ![b] = v]
  /\ Goto(p, "modified", b, NoBlock, FALSE)
  /\ UNCHANGED <<pool, disk, nblocks, bufMgrLock, lost>>

Dirtied == {"DIRTY", "JUST_DIRTIED"}

\* WriteBuffer and WriteNoReleaseBuffer in mode BUFFER_LATE_WRITE.
WriteBuffer(p) ==
  /\ "write" \in Calls /\ pc[p] = "modified" /\ LockFree
  /\ pool' = UnpinBuffer(SetFlags(pool, buf[p], Dirtied, {}), p, buf[p])
  /\ Return(p)
  /\ UNCHANGED <<data, disk, nblocks, bufMgrLock, lost>>

WriteNoReleaseBuffer(p) ==
  /\ "write" \in Calls /\ pc[p] = "modified" /\ LockFree
  /\ pool' = SetFlags(pool, buf[p], Dirtied, {})
  /\ Return(p)
  /\ UNCHANGED <<data, disk, nblocks, bufMgrLock, lost>>

\* Either of them in mode BUFFER_FLUSH_WRITE: FlushBuffer.
FlushBuffer(p) ==
  /\ "flush" \in Calls /\ pc[p] = "modified" /\ LockFree
  /\ pool' = SetFlags(pool, buf[p], {}, {"JUST_DIRTIED"})
  /\ Step(p, "flush")
  /\ UNCHANGED <<data, disk, nblocks, bufMgrLock, lost>>

-----------------------------------------------------------------------------
(* I/O, without BufMgrLock (md.c through smgr.c).                          *)

\* mdwrite and mdflush.  Callers only dirty blocks inside the file.
Written(t, v) == [disk EXCEPT ![t] = v]

\* Block until the backend doing I/O on the buffer is done with it.
WaitIO(p) ==
  /\ pc[p] \in {"waitio", "syncwait"}
  /\ ~pool.ioLock[buf[p]]
  /\ Step(p, IF pc[p] = "waitio" THEN "waited" ELSE "syncwaited")
  /\ UNCHANGED <<pool, data, disk, nblocks, bufMgrLock, lost>>

\* smgrread: a block past the end reads as zeroes.
ReadBlock(p) ==
  /\ pc[p] = "read" /\ ~ext[p]
  /\ data' = [data EXCEPT ![buf[p]] = disk[want[p]]]
  /\ Step(p, "readdone")
  /\ UNCHANGED <<pool, disk, nblocks, bufMgrLock, lost>>

\* A short read leaves something in the buffer.
ReadBlockFails(p) ==
  /\ pc[p] = "read" /\ ~ext[p] /\ "read" \in Faults
  /\ \E v \in Data : data' = [data EXCEPT ![buf[p]] = v]
  /\ Step(p, "readfail")
  /\ UNCHANGED <<pool, disk, nblocks, bufMgrLock, lost>>

\* Zero the page and smgrextend: mdextend appends at the end of the file,
\* wherever that now is.
AppendBlock(p) ==
  /\ data' = [data EXCEPT ![buf[p]] = Zero]
  /\ disk' = Written(nblocks, Zero)
  /\ nblocks' = nblocks + 1
  /\ UNCHANGED <<pool, bufMgrLock, lost>>

ExtendBlock(p) ==
  /\ pc[p] = "read" /\ ext[p]
  /\ AppendBlock(p)
  /\ Step(p, "readdone")

ExtendBlockFails(p) ==
  /\ pc[p] = "read" /\ ext[p] /\ "write" \in Faults
  /\ data' = [data EXCEPT ![buf[p]] = Zero]
  /\ Step(p, "readfail")
  /\ UNCHANGED <<pool, disk, nblocks, bufMgrLock, lost>>

\* ReadBufferWithBufferLock, found and extend: the status is not looked at.
ExtendFound(p) ==
  /\ pc[p] = "extend"
  /\ AppendBlock(p)
  /\ Return(p)

ExtendFoundFails(p) ==
  /\ pc[p] = "extend" /\ "write" \in Faults
  /\ data' = [data EXCEPT ![buf[p]] = Zero]
  /\ Return(p)
  /\ UNCHANGED <<pool, disk, nblocks, bufMgrLock, lost>>

\* smgrflush of a victim (BufferReplace) or of the caller's page (FlushBuffer).
WriteBlock(p) ==
  /\ pc[p] \in {"replace", "flush"}
  /\ disk' = Written(pool.tag[buf[p]], data[buf[p]])
  /\ Step(p, IF pc[p] = "replace" THEN "replaced" ELSE "flushed")
  /\ UNCHANGED <<pool, data, nblocks, bufMgrLock, lost>>

\* A failed write or fsync may have reached the file or not.  FlushBuffer
\* returns at once, with the page pinned and not marked dirty.
WriteBlockFails(p) ==
  /\ pc[p] \in {"replace", "flush"} /\ "write" \in Faults
  /\ disk' \in {disk, Written(pool.tag[buf[p]], data[buf[p]])}
  /\ IF pc[p] = "replace" THEN Step(p, "replfail") ELSE Return(p)
  /\ UNCHANGED <<pool, data, nblocks, bufMgrLock, lost>>

\* BufferSync's smgrwrite, and the return statement right behind it: the pin
\* stays, the dirty flag stays, and the status is not looked at.
SyncWrite(p) ==
  /\ pc[p] = "syncwrite"
  /\ disk' \in {Written(pool.tag[buf[p]], data[buf[p]])}
                 \cup (IF "write" \in Faults THEN {disk} ELSE {})
  /\ lost' = [lost EXCEPT ![p][buf[p]] = @ + 1]
  /\ Return(p)
  /\ UNCHANGED <<pool, data, nblocks, bufMgrLock>>

-----------------------------------------------------------------------------
(* The rest of each operation, once the I/O is over.                       *)

\* BufferAlloc after WaitIO.  BM_IO_ERROR makes the caller read the block.
Waited(p) ==
  /\ pc[p] = "waited" /\ LockFree
  /\ IF "IO_ERROR" \in pool.flags[buf[p]]
     THEN Step(p, "read")
     ELSE Found(p, buf[p], want[p], ext[p])
  /\ UNCHANGED <<pool, data, disk, nblocks, bufMgrLock, lost>>

\* ReadBufferWithBufferLock after the I/O.
ReadDone(p) ==
  /\ pc[p] = "readdone" /\ LockFree
  /\ pool' = EndIO(pool, buf[p], {}, {"IO_ERROR"})
  /\ Return(p)
  /\ UNCHANGED <<data, disk, nblocks, bufMgrLock, lost>>

ReadFailed(p) ==
  /\ pc[p] = "readfail" /\ LockFree
  /\ pool' = EndIO(UnpinBuffer(BufTableDelete(pool, buf[p]), p, buf[p]),
                   buf[p], {"IO_ERROR"}, {})
  /\ Return(p)
  /\ UNCHANGED <<data, disk, nblocks, bufMgrLock, lost>>

\* Mutant: the I/O lock of a victim given up is not released.
ReplacedPinned_Mutant(p) ==
  /\ pc[p] = "replaced" /\ LockFree
  /\ pool.refcount[buf[p]] > 1
  /\ BufferAlloc(GiveUp(SetFlags(pool, buf[p], {}, {"DIRTY",
                                                    "IO_IN_PROGRESS"}),
                        p, buf[p]),
                 p, want[p], ext[p])
  /\ UNCHANGED <<data, disk, nblocks, lost>>

\* BufferAlloc after a victim was written.  Pinned meanwhile: give it up.
ReplacedPinned(p) ==
  /\ pc[p] = "replaced" /\ LockFree
  /\ pool.refcount[buf[p]] > 1
  /\ BufferAlloc(GiveUp(EndIO(pool, buf[p], {}, {"DIRTY"}), p, buf[p]),
                 p, want[p], ext[p])
  /\ UNCHANGED <<data, disk, nblocks, lost>>

\* Meanwhile someone else brought the wanted block in: use that buffer.
ReplacedRaced(p) ==
  /\ pc[p] = "replaced" /\ LockFree
  /\ pool.refcount[buf[p]] <= 1
  /\ Hit(GiveUp(EndIO(pool, buf[p], {}, {"DIRTY"}), p, buf[p]),
         p, want[p], ext[p])
  /\ UNCHANGED <<data, disk, nblocks, lost>>

\* Mutant: a victim pinned meanwhile is renamed all the same.
ReplacedMine_PinnedMutant(p) ==
  /\ pc[p] = "replaced" /\ LockFree
  /\ pool.table[want[p]] = NoBuffer
  /\ pool' = Install(SetFlags(pool, buf[p], {}, {"DIRTY"}), buf[p], want[p])
  /\ Step(p, "read")
  /\ UNCHANGED <<data, disk, nblocks, bufMgrLock, lost>>

\* Mutant: the table is not searched again after the write.
ReplacedMine_RacedMutant(p) ==
  /\ pc[p] = "replaced" /\ LockFree
  /\ pool.refcount[buf[p]] <= 1
  /\ pool' = Install(SetFlags(pool, buf[p], {}, {"DIRTY"}), buf[p], want[p])
  /\ Step(p, "read")
  /\ UNCHANGED <<data, disk, nblocks, bufMgrLock, lost>>

\* The victim is ours; BM_IO_IN_PROGRESS and its lock stay set.
ReplacedMine(p) ==
  /\ pc[p] = "replaced" /\ LockFree
  /\ pool.refcount[buf[p]] <= 1
  /\ pool.table[want[p]] = NoBuffer
  /\ pool' = Install(SetFlags(pool, buf[p], {}, {"DIRTY"}), buf[p], want[p])
  /\ Step(p, "read")
  /\ UNCHANGED <<data, disk, nblocks, bufMgrLock, lost>>

\* The victim could not be written: put it back and start over.
ReplaceFailed(p) ==
  /\ pc[p] = "replfail" /\ LockFree
  /\ BufferAlloc(GiveUp(EndIO(pool, buf[p], {"IO_ERROR"}, {}), p, buf[p]),
                 p, want[p], ext[p])
  /\ UNCHANGED <<data, disk, nblocks, lost>>

\* Mutant: BM_DIRTY is cleared without a look at BM_JUST_DIRTIED.
Cleaned_Mutant(b) == SetFlags(pool, b, {}, {"DIRTY"})

\* FlushBuffer after the write; the release flag is its caller's.
Cleaned(b) == SetFlags(pool, b, {}, IF "JUST_DIRTIED" \in pool.flags[b]
                                    THEN {} ELSE {"DIRTY"})

FlushedRelease(p) ==
  /\ pc[p] = "flushed" /\ LockFree
  /\ pool' = UnpinBuffer(Cleaned(buf[p]), p, buf[p])
  /\ Return(p)
  /\ UNCHANGED <<data, disk, nblocks, bufMgrLock, lost>>

FlushedNoRelease(p) ==
  /\ pc[p] = "flushed" /\ LockFree
  /\ pool' = Cleaned(buf[p])
  /\ Return(p)
  /\ UNCHANGED <<data, disk, nblocks, bufMgrLock, lost>>

\* BufferSync's loop from buffer i on: it stops at the first dirty buffer.
SyncScan(S, p, i) ==
  LET D == {b \in Buffer : b >= i /\ "DIRTY" \in S.flags[b]}
  IN  \/ D = {} /\ pool' = S /\ Return(p)
      \/ \E b \in D :
           /\ \A c \in D : b <= c
           /\ IF "IO_IN_PROGRESS" \in S.flags[b]
              THEN /\ pool' = PinBuffer(S, p, b)
                   /\ Goto(p, "syncwait", b, NoBlock, FALSE)
              ELSE /\ pool' = SetFlags(PinBuffer(S, p, b), b, {},
                                       {"JUST_DIRTIED"})
                   /\ Goto(p, "syncwrite", b, NoBlock, FALSE)

BufferSync(p) ==
  /\ "sync" \in Calls /\ pc[p] = "idle" /\ LockFree
  /\ MayPin(p)
  /\ SyncScan(pool, p, 0)
  /\ UNCHANGED <<data, disk, nblocks, bufMgrLock, lost>>

\* After WaitIO: unpin, and on to the next buffer under the same lock.
SyncWaited(p) ==
  /\ pc[p] = "syncwaited" /\ LockFree
  /\ SyncScan(UnpinBuffer(pool, p, buf[p]), p, buf[p] + 1)
  /\ UNCHANGED <<data, disk, nblocks, bufMgrLock, lost>>

-----------------------------------------------------------------------------
\* InitBufferPool and InitFreeList: from the head, buffers 1, 2, ..., 0.
FirstFree == IF NBuffers = 1 THEN 0 ELSE 1

InitPool ==
  [tag      |-> [b \in Buffer |-> NoBlock],
   flags    |-> [b \in Buffer |-> {"DELETED", "FREE"}],
   refcount |-> [b \in Buffer |-> 0],
   ioLock   |-> [b \in Buffer |-> FALSE],
   freeNext |-> [i \in Slot |-> IF i = FreeList THEN FirstFree
                                ELSE IF i = 0 THEN FreeList
                                ELSE IF i = NBuffers - 1 THEN 0 ELSE i + 1],
   freePrev |-> [i \in Slot |-> IF i = FreeList THEN 0
                                ELSE IF i = FirstFree THEN FreeList
                                ELSE IF i = 0 THEN NBuffers - 1 ELSE i - 1],
   table    |-> [t \in Block |-> NoBuffer],
   priv     |-> [p \in Proc |-> [b \in Buffer |-> 0]],
   last     |-> [p \in Proc |-> [b \in Buffer |-> 0]]]

Init ==
  /\ pool = InitPool
  /\ data = [b \in Buffer |-> Zero]
  /\ disk = [t \in Block |-> Zero]
  /\ nblocks = InitBlocks
  /\ bufMgrLock = NoProc
  /\ lost = [p \in Proc |-> [b \in Buffer |-> 0]]
  /\ pc = [p \in Proc |-> "idle"]
  /\ buf = [p \in Proc |-> NoBuffer]
  /\ want = [p \in Proc |-> NoBlock]
  /\ ext = [p \in Proc |-> FALSE]

\* A call by an idle backend.
Call(p) ==
  \/ \E t \in Block : ReadBuffer(p, t)
  \/ ReadBufferNew(p)
  \/ BufferSync(p)
  \/ BufferRefCountReset(p) \/ BufferRefCountRestore(p)
  \/ ResetBufferPool(p) \/ DropBuffers(p)
  \/ \E b \in Buffer :
       \/ \E t \in Block :
            \/ RelationGetBufferWithBuffer(p, b, t)
            \/ \E e \in BOOLEAN : \/ ReleaseAndReadBuffer(p, b, t, e)
                                  \/ UnpinAndReadBuffer(p, b, t, e)
       \/ IncrBufferRefCount(p, b)
       \/ Release(p, b)
       \/ \E v \in Data : Modify(p, b, v)

\* A step of a call under way.
Progress(p) ==
  \/ Alloc(p) \/ WaitIO(p) \/ Waited(p)
  \/ ReadBlock(p) \/ ReadBlockFails(p) \/ ReadDone(p) \/ ReadFailed(p)
  \/ ExtendBlock(p) \/ ExtendBlockFails(p)
  \/ ExtendFound(p) \/ ExtendFoundFails(p)
  \/ WriteBlock(p) \/ WriteBlockFails(p)
  \/ ReplacedPinned(p) \/ ReplacedRaced(p) \/ ReplacedMine(p)
  \/ ReplaceFailed(p)
  \/ WriteBuffer(p) \/ WriteNoReleaseBuffer(p)
  \/ FlushBuffer(p) \/ FlushedRelease(p) \/ FlushedNoRelease(p)
  \/ SyncWrite(p) \/ SyncWaited(p)
  \/ ResetRelease(p)

Next == \E p \in Proc : Call(p) \/ Progress(p)

Spec == Init /\ [][Next]_vars

\* ENABLED Progress(p), spelled out: what a backend in a call waits for.
CanMove(p) ==
  IF pc[p] \in {"waitio", "syncwait"} THEN ~pool.ioLock[buf[p]]
  ELSE \/ pc[p] \in {"read", "extend", "replace", "flush", "syncwrite"}
       \/ pc[p] # "idle" /\ LockFree

\* Every backend keeps running the call it is in (weak fairness of
\* Progress(p)); nobody has to call.
FairSpec ==
  Spec /\ \A p \in Proc : []<>~CanMove(p) \/ []<><<Progress(p)>>_vars

-----------------------------------------------------------------------------
(* What the pool promises.                                                 *)

\* Every variable stays in its type; a backend in a call has a buffer and a
\* block of the kind that call works on.
TypeOK ==
  /\ pool \in Pool
  /\ data \in [Buffer -> Data]
  /\ disk \in [Block -> Data]
  /\ nblocks \in Nat
  /\ bufMgrLock \in Proc \cup {NoProc}
  /\ lost \in [Proc -> [Buffer -> Nat]]
  /\ pc \in [Proc -> PC]
  /\ buf \in [Proc -> Buffer \cup {NoBuffer}]
  /\ want \in [Proc -> Block \cup {NoBlock}]
  /\ ext \in [Proc -> BOOLEAN]

Linked(S, i) == i = FreeList \/ "FREE" \in S.flags[i]

\* The links of the free list agree in both directions, lead only to free
\* buffers and the head, and a buffer off the list has no links.
FreeRing(S) ==
  \A i \in Slot :
    IF Linked(S, i)
    THEN /\ S.freeNext[i] \in Slot /\ S.freePrev[i] \in Slot
         /\ Linked(S, S.freeNext[i]) /\ Linked(S, S.freePrev[i])
         /\ S.freePrev[S.freeNext[i]] = i
         /\ S.freeNext[S.freePrev[i]] = i
    ELSE S.freeNext[i] = InvalidDescriptor /\ S.freePrev[i] = InvalidDescriptor

\* The backends that have buffer b pinned, at this or an outer executor level.
Holders(S, b) == {p \in Proc : S.priv[p][b] + S.last[p][b] > 0}

\* The shared count of a buffer is the number of backends that pin it, each
\* counted once however often it pins.
PinCount(S) == \A b \in Buffer : S.refcount[b] = Cardinality(Holders(S, b))

\* buf_init.c:104: "A buffer is always either pinned or on the freelist but
\* never both."
PinnedOrFree(S) ==
  \A b \in Buffer : ("FREE" \in S.flags[b]) <=> (S.refcount[b] = 0)

\* The lookup table and the tags of the buffers not marked BM_DELETED are
\* inverse to each other: no block is cached twice, none is mislaid.
TableExact(S) ==
  /\ \A t \in Block : S.table[t] # NoBuffer =>
       S.tag[S.table[t]] = t /\ "DELETED" \notin S.flags[S.table[t]]
  /\ \A b \in Buffer : "DELETED" \notin S.flags[b] =>
       S.tag[b] \in Block /\ S.table[S.tag[b]] = b

\* The descriptors are consistent whenever BufMgrLock is free, whatever I/O
\* fails.
PoolInv ==
  FreeRing(pool) /\ PinCount(pool) /\ PinnedOrFree(pool) /\ TableExact(pool)

\* The free list is one ring: from the head it passes every free buffer.
FreeListWhole ==
  LET walk[k \in Slot] == IF k = 0 THEN FreeList
                          ELSE pool.freeNext[walk[k - 1]]
  IN  {walk[k] : k \in Slot} = {i \in Slot : Linked(pool, i)}

\* BM_IO_IN_PROGRESS and its lock are set on a buffer exactly while one
\* backend, and only one, is doing I/O on it for BufferAlloc.  (Holds when no
\* I/O fails: a waiter that finds BM_IO_ERROR reads without the lock.)
IOOwners(b) == {p \in Proc : /\ buf[p] = b
                             /\ pc[p] \in {"read", "readdone", "readfail",
                                           "replace", "replaced", "replfail"}}

IOExclusive ==
  \A b \in Buffer :
    /\ \A p, q \in IOOwners(b) : p = q
    /\ pool.ioLock[b] <=> IOOwners(b) # {}
    /\ ("IO_IN_PROGRESS" \in pool.flags[b]) <=> IOOwners(b) # {}

\* A backend that waits for a buffer, reads into it or extends with it still
\* has it pinned under the name of the block it asked for: the buffer was not
\* renamed while the backend slept in WaitIO or did its I/O without the lock.
RequestKept ==
  \A p \in Proc :
    pc[p] \in {"waitio", "waited", "read", "readdone", "readfail", "extend"}
      => pool.tag[buf[p]] = want[p] /\ pool.priv[p][buf[p]] > 0

\* bufmgr.c:481: a victim cannot have been changed while it was written back,
\* so elog(FATAL, "... changed while flushing") is never reached.
VictimUnchanged ==
  \A p \in Proc : pc[p] \in {"replace", "replaced", "replfail"} =>
    "JUST_DIRTIED" \notin pool.flags[buf[p]]

\* Every page a backend has in hand, at this or an outer executor level, is
\* the one copy the lookup table knows.
\* (Holds when no I/O fails.)
OneCopy ==
  \A p \in Proc, b \in Buffer :
    pool.priv[p][b] + pool.last[p][b] > 0 =>
      pool.tag[b] \in Block /\ pool.table[pool.tag[b]] = b

\* A cached page that differs from the file is marked dirty, or a backend
\* that has it pinned is about to mark or write it: evicting a clean buffer
\* loses nothing.  (Holds when no I/O fails.)
Pending(b) == \E p \in Proc : /\ buf[p] = b
                              /\ pc[p] \in {"modified", "flush", "syncwrite"}

Reading(b) == \E p \in Proc : buf[p] = b /\ pc[p] = "read"

Saved(b) == data[b] = disk[pool.tag[b]]

NothingLost ==
  \A b \in Buffer :
    "DELETED" \notin pool.flags[b] /\ ~Reading(b) =>
      Saved(b) \/ "DIRTY" \in pool.flags[b] \/ Pending(b)

\* The relation as its users see it: the cached page, or else the file's.
View == [t \in Block |->
           IF pool.table[t] # NoBuffer /\ ~Reading(pool.table[t])
           THEN data[pool.table[t]] ELSE disk[t]]

\* The block a backend has changed and not yet handed to WriteBuffer.
Editing == [p \in Proc |-> IF pc[p] = "modified" THEN pool.tag[buf[p]]
                           ELSE NoBlock]

\* The pool is transparent: for its users it is a plain array of pages, and
\* no page changes but by a backend's Modify.
Abstract == INSTANCE BlockStore WITH store <- View, editing <- Editing

Transparent == Abstract!Spec

\* A backend that waits for another's I/O is woken, unless BufMgrLock has been
\* kept, and the other cannot end its I/O.
WaitersWake ==
  \A p \in Proc : pc[p] \in {"waitio", "syncwait"} ~>
                  pc[p] \notin {"waitio", "syncwait"} \/ ~LockFree

\* BufMgrLock is kept only by a backend that asked for a buffer when every
\* buffer was pinned: no other path through the code forgets to release it.
KeptOnlyWhenFull ==
  bufMgrLock # NoProc => \A b \in Buffer : pool.refcount[b] > 0

-----------------------------------------------------------------------------
(* What a comment in the code says, and the code does not do.              *)

\* bufmgr.c:135, of ReadBuffer: "If the blknum requested is P_NEW, extend the
\* relation file and allocate a new block."  No two requests get one block.
NewBlockIsNew ==
  \A p, q \in Proc : p # q /\ ext[p] /\ ext[q] /\ buf[p] # NoBuffer =>
    buf[p] # buf[q]
=============================================================================
