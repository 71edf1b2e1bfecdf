# Formal models of the psql-test storage manager

The repository holds several releases of PostgreSQL (`src/postgres95`,
`src/postgresql-v6.0`, `src/postgresql-8.0.0`, `src/postgresql-10.3`,
`src/bitmap-postgresql-master` and partial copies of them) beside one program of
its own, `src/psql-test`: the storage manager of PostgreSQL 6.0 cut loose from
the rest of the server, changed where it had to be, linked with a relation
put/get driver (`main/main.c`) and a WAH bitmap library (`main/bitmap.c`).  This
project is about that program.  Paths below are relative to
`src/psql-test/src/backend`.

## 1. The system

| component | state | operations | talks to |
|---|---|---|---|
| shared buffer manager (`storage/buffer/{bufmgr,freelist,buf_table,buf_init}.c`) | buffer descriptors (tag, flags, shared pin count, I/O lock, free-list links), lookup table, page images in shared memory; private pin counts per backend | ReadBuffer, ReleaseAndReadBuffer, RelationGetBufferWithBuffer, IncrBufferRefCount, ReleaseBuffer, WriteBuffer, WriteNoReleaseBuffer, FlushBuffer, BufferSync; ResetBufferPool, ReleaseRelationBuffers, DropBuffers | smgr for I/O, spin locks for exclusion |
| local buffers (`localbuf.c`) | private descriptors and pages | LocalBufferAlloc, WriteLocalBuffer, LocalBufferSync | smgr |
| storage managers (`storage/smgr`) | vector of open relations, segments | create, open, extend, read, write, flush, nblocks, truncate, commit, abort | fd.c |
| virtual file descriptors (`storage/file/fd.c`) | table of virtual files, LRU ring of the ones really open, free list | open, close, read, write, seek, sync, AllocateFile | the kernel |
| pages (`storage/page/bufpage.c`) | header, line pointers, items of one page | PageInit, PageAddItem, PageRepairFragmentation, PageIndexTupleDelete | - |
| lock manager (`storage/lmgr`) | lock table, per-transaction holds, wait queues | LockAcquire, LockRelease, LockReleaseAll, ProcSleep, ProcLockWakeup, HandleDeadLock | semaphores, shmqueue |
| cache invalidation (`storage/ipc/sinval*.c`) | chain of messages, chain of free entries, limit, reset flag and tag per backend | attach, register, read, expire, exit | spin lock |
| shared memory, semaphores, spin locks, queues (`storage/ipc`) | segments, semaphore sets, queue links | allocate, attach, lock, unlock, insert, delete | the kernel |
| hash tables (`utils/hash/dynahash.c`) | directory, segments, bucket chains | create, search/enter/remove, expand | - |
| WAH bitmaps (`main/bitmap.c`) | compressed words, active word | append, set bit, AND, OR, compress, decompress | - |
| relation driver (`main/main.c`) | none of its own | RelationPutAtEnd, getAllItems | buffer manager, pages |

Backends are processes.  Everything in the buffer manager that touches the
shared descriptors runs under one spin lock, BufMgrLock; every I/O is done with
that lock released, and a backend that needs a buffer on which I/O is under way
sleeps on the buffer's own `io_in_progress_lock` (`WaitIO`).  What is hard is
what happens across those windows: a victim is pinned while it is written, the
wanted block appears meanwhile, a page is changed between a flush and the
clearing of its dirty bit, an I/O fails with others waiting on it.  `PROJECT.json`
lists these places, each at its line, under `hazards`.

What this build makes of the source matters to the model.  TAS spin locks are
compiled in; `elog(WARN)` and `elog(NOTICE)` print and return to the caller, and a failed
`Assert` only prints, so the code runs on after both; `elog(FATAL)` exits.
`OPTIMIZE_SINGLE` is not defined, so the wait for a buffer's I/O is not skipped.

## 2. Modules

| module | what it is |
|---|---|
| `BlockStore` | abstract specification: a relation is an array of pages; a page changes only by a backend that sets out to change it, and the array grows by one zero page at a time |
| `BufMgr` | the shared buffer manager over one relation, its properties, and the refinement to `BlockStore` |
| `MCBufMgr` | `BufMgr` for TLC, with the symmetry of backends |
| `BufMgr_proofs` | the inductive invariant of `BufMgr`, the pins, the names and the free list |
| `BufMgr_data_proofs` | who may touch a buffer while I/O is under way, and that a block is cached once |
| `BufMgr_store_proofs` | that no change is lost, and that `BufMgr` implements `BlockStore` |
| `InvalBus` | abstract specification: a bounded message queue for each backend, with a reset for one that falls behind |
| `SInval` | shared cache invalidation, its properties, and the refinement to `InvalBus` |
| `MCSInval` | `SInval` for TLC, with the symmetries of backends and messages |
| `SInval_proofs` | the inductive invariant of `SInval`, and that it implements `InvalBus` |
| `LockMgr` | the lock manager and the waits of `proc.c`, with their properties |
| `MultiLevel` | the lock types of `multi.c`, their conflicts and priorities, as values for the constants of `LockMgr` |
| `MCLockMgr` | `LockMgr` with the tables of `MultiLevel` for TLC, with the symmetries of backends and tags |
| `LockMgr_proofs` | the inductive invariant of `LockMgr` and the theorems |
| `RelLock` | locks on relation, page and tuple: `lmgr.c`, `multi.c`, `single.c`, on top of the promise of `LockMgr` |
| `MCRelLock` | `RelLock` for TLC, with the symmetries of transactions and tuples |
| `RelLock_proofs` | the counting invariants of `RelLock` and the theorems |
| `Files` | abstract specification: as many open files as a caller likes, each with its position; the last call, its arguments and its answer |
| `Vfd` | the virtual file descriptors of `fd.c` and the refinement to `Files` |
| `MCVfd` | `Vfd` for TLC, with its view |
| `Vfd_proofs` | the invariant of `Vfd`, and that it implements `Files` |
| `Relations` | abstract specification: a relation is an array of pages that grows at its end; the last call, its arguments and its answer |
| `Md` | the storage manager of `md.c` behind `smgr.c`, on top of the promise of `Vfd`, and the refinement to `Relations` |
| `MCMd` | `Md` for TLC, with the symmetry of processes and its view |
| `Md_proofs` | the invariant of `Md`, what a commit owes, and that it implements `Relations` |
| `Slots` | abstract specification: a page is a list of slots; the last call, its arguments and its answer |
| `PageLayout`, `Page` | the routines of `bufpage.c` as operators, and one page under any sequence of them, with the refinement to `Slots` |
| `MCPage` | `Page` for TLC, with its view |
| `Bits` | abstract specification: a string of bits; the last call and its arguments |
| `Wah` | the bitmaps of `bitmap.c`, their conversions and combinations, and the refinement to `Bits` |
| `MCWah` | `Wah` for TLC, with its view |

The modules are stacked by what they promise.  `Vfd` shows that evictions are
invisible and lose no write; `Md` takes files as always open and lets an eviction
force one at any time.  `Md` shows that segments make one array of pages that every
process sees alike; `BufMgr` takes the file as such an array (`disk`, `nblocks`) and
shows that the pool over it is again one (`BlockStore`).  `LockMgr` shows that
conflicting locks on one tag exclude each other; `RelLock` takes that as the guard
of a grant and shows that locks on different levels exclude each other too.

### BufMgr: state

`pool` is the record of everything kept under BufMgrLock: `tag` (block number in
the buffer tag; one relation, so relation and database are left out), `flags`
(BM_FREE, BM_DIRTY, BM_DELETED, BM_IO_IN_PROGRESS, BM_IO_ERROR,
BM_JUST_DIRTIED), `refcount`, `ioLock` (io_in_progress_lock), `freeNext`,
`freePrev` (the doubly linked ring through the list head `FreeList`), `table`
(the hash table of `buf_table.c`), and each backend's `priv` and `last`
(PrivateRefCount, LastRefCount: the pins of the running and of the outer executor
levels).
`data` is BufferBlocks, `disk` and `nblocks` the relation file, `bufMgrLock` the
backend that returned with BufMgrLock held (section 5), and `lost`
the pins BufferSync takes and never gives back: their owner does not know of
them, so no later call uses them.  `pc`, `buf`, `want`, `ext` are a backend's
place in its call, its buffer, the block it asked for and whether it asked for
P_NEW.

### BufMgr: actions

A stretch of code under BufMgrLock is one action, an I/O is another.  Each C
routine that edits descriptors (`PinBuffer`, `UnpinBuffer`, `GetFreeBuffer`,
`AddBufferToFreelist`, `BufTableInsert`, `BufTableDelete`...) is an operator from
pool to pool and the actions compose them in the order of the calls.
`BufferAlloc` is the disjunction of a hit, a clean victim, a dirty victim and an
empty free list; after the dirty victim's write it goes on in `ReplacedPinned`,
`ReplacedRaced`, `ReplacedMine` or `ReplaceFailed`.  `BufferSync` is
`SyncScan`, `SyncWaited` and `SyncWrite`, the last with the `return` that the
source has in the middle of the loop (bufmgr.c:958).  `BufferRefCountReset` and
`BufferRefCountRestore` open and close an inner executor level, `ResetBufferPool`
and `ResetRelease` are the abort, one `ReleaseBuffer` at a time, and `DropBuffers`
the destruction of a database.  Three things are asked of their callers, none of
which has one in this program any more: levels nest one deep, an inner level
releases its pins before it ends, and an abort is of the outermost level; section 5
says what the code does otherwise.

Abstractions: BM_VALID (never cleared), the relation part of the tag, statistics
counters and trace output.  `Modify` stands for the heap and page code that
changes a pinned page; it is the only external action.  Callers never mark a page
of a block beyond the end of the file, and read only blocks inside the file or
block 0 of an empty one, as `main.c` does.

### SInval

`seg` is the shared segment: the heads and the end of the two chains (messages,
free entries), the number of messages, `next` and `data` of each entry, and per
slot `limit` (how many messages at the head of the chain this backend has read),
`reset` (resetState) and `tag` (the backend that has the slot).  `pc`
and `id` are each backend's place and MyBackendId; `got` is what the last step
handed to invalFunction or resetFunction.  The `SI*` routines are operators from
segment to segment, and RegisterSharedInvalid and InvalidateSharedInvalid, which
hold SInvalLock throughout, are one action each.

An exit is different: CleanupInvalidationState runs `SISetDeadProcess` from
`exitpg` without SInvalLock, so its three stores are three actions, and the one
to `limit` races the load, test and store of `SIDecProcLimit` in somebody else's
critical section.  `Section` gives a critical section all outcomes of that race:
the store comes before or after the section, is overwritten, or is itself
counted down and then set to 0.  The reset flag and the tag are written whole on
both sides, so stores to them need no such treatment.

Abstractions: tags are distinct (the postmaster hands them out); an attach that
finds no slot is FATAL, changes nothing and is left out; the isfree marks, which
nothing reads, are left out.  `Kill`, a backend that dies without `exitpg`
(at most `MaxCrash` of them), happens outside the critical sections: one inside
would leave SInvalLock held for ever.

### LockMgr

`lock` is the lock table: per tag the number of requests (`nHolding`), of locks
held (`nActive`, `activeHolders` by type), the `mask` of types held and the queue
of sleepers.  `xid` is the xid table: what each transaction has on each tag.  An
entry that the code has removed from a hash table has the value a new one starts
with.  `masterLock` is the backend that keeps LockMgrLock from one step to the
next, `cur` the tag whose waiters it is looking at; `waitLock`, `token` and
`sem` are a sleeper's tag, type and semaphore.

`LockAcquire` is a request granted at once, `WaitOnLock` one that is refused and
goes to sleep; both run under LockMgrLock and are one action each.  `LockRelease`
and `LockReleaseAll` keep LockMgrLock over several steps: what is taken off the
counts, then one `ProcWakeup` per waiter that is served, then `WakeupDone`.
`Awake` is the semaphore operation of a sleeper and `Resume` its way back through
LockMgrLock; `Timeout` is the timer that fires anywhere between.

Assumptions and abstractions.

* Each backend runs its own transaction.  (StartTransaction is commented out in
  this program, so transaction ids are whatever a caller sets; with one id for
  all, every request would be the holder's own.)
* `ProcSleep` passes waiters whose `prio` is lower than that of the request.  No
  code stores a `prio` in a PROC, so it is 0 in all of them (`ProcPrio`), and
  queues are first come, first served for the types whose priority is positive.
* SIGALRM has its default action, because the installation of HandleDeadLock is
  commented out (proc.c:161): the process ends where it stands, and what it left
  in shared memory stays.  At most `MaxTimeout` backends are killed.  A slot of
  the PROC table is not used again.
* LockReleaseAll may take its entries in any order.  It gives up after 2000 entries
  (lock.c:1137-1141), far more than the instances have, and would leave the rest; and it
  passes over the entries of transaction 0 (lock.c:1173), which the transactions of the model
  never are.  User locks, which nothing in
  this program asks for, and LockDisable are left out.
* `MaxHold` bounds the locks of one transaction on one tag.

### RelLock

`held` counts the locks of each transaction by tag and type; `info` is the LockInfo
of its relation descriptor (validity, whether it was set up in this transaction, the
two read flags, the number of tuple locks counted in them); `set` are the locks a
caller may yet unset and `read` the tuples its transaction was given.  A call of
`lmgr.c` is an action that decides, from `info`, which locks to ask for; what
`MultiAcquire` then does, one `LockAcquire` per level from the top, is a list `todo`
of steps that others interleave with.  `AtOpen` says whether opening a relation
sets up its information, as RelationBuildDesc does (relcache.c:831).  Callers unset
only what they set, and lock single pages under an intent lock, as the comments of
`lmgr.c` ask.  A transaction ends by `LockReleaseAll`; the descriptor, with its
flags, lives on.

### Vfd

`vfd[p]` is everything `fd.c` keeps in a process (VfdCache with its ring and free
list, `nfile`, `FreeFd`) and the kernel's side of its descriptors; `file` are the
files, each with its pages and those of them that are on disk; `held` says which
slots callers hold, `call` and `out` the last call with its arguments and what it
answered.  A call is one action, since
`fd.c` is private to its process.  The routines (`Delete`, `Insert`, `LruDelete`,
`LruInsert`, `AllocateVfd`...) are operators on the state.  `Others` is the rest
of the process, which takes and returns descriptors between calls, so that open
fails although `nfile` says that there is room (the retry of `TryAgain`).

A file that was evicted may fail to open again in any call that needs it (`ok`).  FileRead,
FileWrite and FileTruncate then return an error; FileSeek to the end does not look and
takes what lseek() of a descriptor that is not there returns, -1, for the position
(fd.c:766-770).  LruInsert's own lseek() to -1 fails in turn (its Assert only prints), so the file goes on at
its start (`SeekFrom0`); `Files` has this as the one call that fails and changes something
(`SeekFails`).

Left out: FreeFile and closeOneVfd, which nothing calls; FileTell; O_TRUNC; failing
fsync; a write that takes part of a page; and the number a seek returns (`out` leaves numbers
out; where the seek leaves the file is in the state).  No caller seeks relative to where
it is after a seek that failed.  After an unlink the handles of the file are `dropped`.

### Md

`vec[p]` is Md_fdvec, one entry per opened relation with its chain of segments
(MDFD_DIRTY, mdfd_lstbcnt, and FD_DIRTY of the file under it), `fdOf` is rd_fd,
`file` the segments and `wrote` what the properties need to know of a transaction;
`call` and `out` are the last call with its arguments and its answer.
Each call of `smgr.c` is an action over the operators of `md.c`, but for mdextend: it
counts and finds the segment (`ExtendCount`), seeks (`ExtendSeek`, `SeekFails`) and writes
(`ExtendWrite`), and `ext` keeps its locals in between, where calls of other processes
come.  Processes share the files and nothing else, so their chains and cached counts lag behind.

`ExtendLock` says whether callers keep two extensions of one relation apart.  Nothing
in this program does (RelationSetLockForExtend has no caller, main.c:133-157 extends
without it), and section 5 says what follows; `md_arrays` and the theorems are about `md.c` with
callers that do.  A truncation and an unlink come only between extensions, as under a write
lock on the relation.  `Faulty` names the calls in which the kernel may refuse a
write or, in mdextend, the seek.

Left out: blocks written in part (a refused write takes nothing, md.c:214; so a segment is
a whole number of blocks, and the rounding of `_mdnblocks` has nothing to round); a seek
that fails anywhere but in mdextend (section 5); a segment that cannot be opened.

### Page

A page is its line pointers, pd_upper, pd_special and what is stored at each
offset.  Sizes are in line pointers (`sizeof(ItemIdData)` is 1, a double is 2), so
that alignment matters: an item of odd size wastes one.  Space to which no used line
pointer leads is `Junk`.  Of a caller that inserts at a position the model asks what
PageAddItem's comment asks (bufpage.c:147-149), room to move the line pointers (`Room`), and no
more.  When the item then does not fit, the line pointers have been moved all the same
(178-183, 212-213); and PageAddItem at a position past the next one raises pd_lower over line
pointers that nobody has set (201-202; `Memory` is what they may look like, `MaxSkip` bounds how
many are skipped).  Both happen in the run, and `Slots` says what they do to the list.  The
page is `spoilt` then: what a later call does to line pointers that share an item or lead
nowhere depends on what they happen to hold, so only PageInit follows.  `call` is
the last call with its arguments and its answer.

PageIndexTupleDelete also moves lp_off of line pointers without an item; nothing reads
it, so it is kept at 0.

### Wah

A word is a literal or a fill with its count; the active word is the sequence of its
bits.  The header bits of a word are a field, so that a count cannot run into them
(a fill holds 2^30 words).  Appending, sizes and conversions are operators from
bitmap to bitmap, and the actions apply them to one bitmap.  AND and OR are loops over two
vectors; the invariants compare them with the bitwise definition for the bitmap
reached and every second operand.  Bitmaps are compressed or not as their words
say: the field isCompressed, which nothing sets, is left out.  `call` is the last call with
its arguments; `Bits` says what each call does to the string of bits.  compress and
decompress are asked only of a bitmap with a full word (`HasWords`, section 5).

## 3. Runs

| run | instance | shows |
|---|---|---|
| `bufmgr_faults` | 2 backends, 2 buffers, 3 blocks, every call but BufferSync and RelationGetBufferWithBuffer, inner levels, aborts, failing reads and writes, unserialised extension | `TypeOK`; `PoolInv`; `FreeListWhole`; `RequestKept`; `VictimUnchanged`; no deadlock |
| `bufmgr_data` | 2 backends, 2 buffers, 3 blocks, 2 page values, every call but DropBuffers and the inner levels, aborts, no failures, extensions one at a time | `IOExclusive`; `OneCopy`; `NothingLost`; `Transparent` (refinement of `BlockStore`) |
| `bufmgr_wake` | 3 backends wanting up to 3 pins of 2 buffers, 3 blocks, reads, writes and BufferSync, failing writes, fair | `WaitersWake`; `KeptOnlyWhenFull` |
| `sinval_bus` | 4 backends, 3 slots, 2 entries, 2 messages, 1 kill | `TypeOK`; `SlotOwned`; `ChainsWhole`; `Delivers` (refinement of `InvalBus`); no deadlock |
| `lockmgr_locks` | 3 backends, 2 tags, read, write and write-intent locks, 2 locks per transaction and tag, 1 kill | `TypeOK`; `NoConflict`; `CountsAgree`; `SleepersKnown`; `FirstIsBlocked` |
| `lockmgr_fifo` | 3 backends, 1 tag, write locks, fair | `WaitersServed`; no deadlock |
| `rellock_levels` | 2 transactions, 1 page, 2 tuples, all five types, escalation after the second tuple | `LevelsExclude`; `ReadsLocked` |
| `vfd_files` | 1 process, 3 handles, 2 descriptors, 1 file name of 1 page, descriptors taken by others, files that fail to open again | `RingWhole`; `SlotsOwned`; `DescriptorsBounded`; `WritesTracked`; `LikeOpenFiles` (refinement of `Files`) |
| `md_arrays` | 2 processes, 1 relation of up to 3 blocks in segments of 2, one extension at a time, refused writes and failing seeks, evictions | `SegmentsFull`; `AnswersRight`; `CommitForces`; `LikeArrays` (refinement of `Relations`); no deadlock |
| `page_items` | 1 page of 14 units, 2 items of 1 to 3 units, insertions that fail, one offset number skipped | `Tiled`; `RoomTaken`; `LikeSlots` (refinement of `Slots`); no deadlock |
| `wah_bits` | bitmaps of up to 10 bits in words of 3, second operands of at most 2 runs | `CountsAgree`; `Canonical`; `CombinesRight`; `LikeBits` (refinement of `Bits`); no deadlock |
| `new_comment` | smallest instance that shows it | a comment in the source that the code does not keep (section 5) |

Bounds.  Two buffers and three blocks make eviction, re-reading and two
concurrent evictions happen; two backends suffice for every race between an
I/O without the lock and another call, and a third is needed for two waiters on
one buffer (`bufmgr_wake`).  `MaxHeld` (buffers in use when a new one is asked
for) equals the number of buffers where the pool must not run out and exceeds
it where it must; `MaxPin` (pins of one backend on one buffer) is 2 so that the
difference between the private and the shared count matters; `MaxBlock` bounds
the file.  Page values matter only to `bufmgr_data`.  Backends are symmetric and
no property names one; the liveness run does not use symmetry.

In `SInval` two entries already make the chain overflow while one backend has
read everything, one some and one nothing.  More backends than slots make slots
change hands.

In `LockMgr` two tags let transactions wait for each other in a circle, two locks
of one transaction on one tag let it upgrade (and two that upgrade wait for each
other), and three backends put two waiters into one queue behind a holder.
Read, write and write-intent make compatible and conflicting pairs and a type
that is compatible with itself.  The other two types of `multi.c` are left to the
theorems, which hold for every conflict table: READ_INTENT conflicts with
WRITE_LOCK only and EXTEND_LOCK with itself only.  `lockmgr_fifo` asks for one type only, because the code
serves nobody in turn when types differ: a request that conflicts with no lock
held is granted past those who wait, so that readers who overlap keep a writer
waiting for ever.  No comment promises otherwise.

In `Vfd` three handles over two descriptors make every access evict somebody, and
one descriptor taken by others leaves a ring of one, or none when a file fails to open
again; several handles on one name
share the file, so that what one wrote the other must find.  One page and the end
after it are two positions.  The state of two processes is a product, related only
through the files; the instance has one, and the theorems hold for any number.

In `Md` three blocks in segments of two give a full first segment with and without a
second one, and two processes a chain and a count that lag behind.  Two vector
entries in all let a process open a relation twice, or again after it was closed (a
closed entry is never used again).

Four modules have variables for the last call and its answer (`call`, `out`), which no action
reads and of which the abstract specifications constrain only the next values.  Their
runs give TLC a VIEW without these variables: states that differ in them only are
explored once, while TLC checks the refinement on every step it generates.

In `Page` fourteen units hold three small items or one small and one large with
nothing, one or two units to spare.  In `Wah` ten bits are three words and one bit:
runs that start and end inside a word, at its boundary, and across a whole one; a
second operand of two runs has a fill, a mixed word and a fill.

In `RelLock` `TupleLevelLockLimit` 1 makes the second tuple escalate (lmgr.c:66 has
10), and two transactions and one page already nest three levels.

Properties that hold only without I/O failures (`IOExclusive`, `OneCopy`,
`NothingLost`, `Transparent`) are run without them, because a failed read or
write breaks them in the code (section 5).  Concurrent extensions break them too (`new_comment`), so
`bufmgr_data` lets callers extend in turn, as a caller holding a relation lock
would.

Deadlock is checked in `bufmgr_faults`.  It is not checked where the code really
may stop: when BufferSync has leaked pins until no buffer is free, when
BufMgrLock was kept, or when transactions wait for each other's locks, which
only the timer ends (`lockmgr_locks`, `rellock_levels`).  In `vfd_files` it is off
because the bounds on handles, pages and `FreeFd` can leave no call.

Fairness.  `FairSpec` of `BufMgr` gives weak fairness to each backend's steps inside a call,
and to no call.  It is written out with `CanMove(p)`, the condition under which
`Progress(p)` is enabled: `[]<>~CanMove(p) \/ []<><<Progress(p)>>_vars`.  TLC
confirmed on a two-backend instance that the two agree; ENABLED itself is slow to
evaluate on actions of this size.  A backend process keeps running, and the kernel's I/O returns.
Weak fairness suffices because the model's critical sections are atomic:
`bufMgrLock` is free between actions, and an I/O lock stays free once its holder
releases it unless another I/O starts.  A real test-and-set lock is not fair
towards one contender; starvation at BufMgrLock itself is outside the model.

`FairSpec` of `LockMgr` gives strong fairness to each backend's own steps
(`Progress`), since LockMgrLock is taken and released by others over and over and
a contender that spins on it gets it in the end, and to `LockReleaseAll`: every
transaction that holds locks and is running ends.  No request is fair.

## 4. Theorems

Every theorem holds for all values of the constants that satisfy the named
assumption of its module; a few have a hypothesis on a constant, given with them.

### Buffer manager

`BufMgr_proofs` proves, for any finite set of backends, any positive number of
buffers, any file and any set of faults (`ConstantsAssumption`):

* `TypeCorrect`: `Spec => []TypeOK`;
* `PoolConsistent`: `Spec => []PoolInv`;
* `BufferKept`: `Spec => []RequestKept`;
* `LockKeptWhenFull`: `Spec => []KeptOnlyWhenFull`;
* `FreeListIsWhole`: `Spec => []FreeListWhole`.

All of them cover the executor's levels, the abort and the drop of a database too.
They follow from `Invariance`, `Spec => []IInv`.  `PoolInv` alone is not
inductive: that `UnpinBuffer` keeps the counts right needs to know that the
backend still has the pin it is about to drop, and that renaming a victim harms nobody
needs to know that its owner holds exactly one pin on it.  `ProcInv` supplies
that: per step of a backend, which pins it has, and which name its buffer bears.
`IInv == TypeOK /\ PoolInv /\ ProcInv`.  The argument is layered: every pool
operator preserves `Good` (the descriptors' part) and says which pins and names
it changes; `Frame` says that a step leaves other backends' pins, and the names
of what they have pinned, alone; `StepInv` derives `IInv'` from the two and from
the acting backend's fitness for its next step; and each action is shown to be
such a step.  `SoleHolder` is the key fact for renaming: with a shared count of
at most one, the owner's pin is the only one.

That the free list is one ring says something about what is reached by following
links any number of times.  `Ranked`, a part of the invariant, makes it local: there
is a numbering of the free buffers such that each link leads to the next number and
the last one to the head.  A buffer that is taken out closes the gap and one that is
put in goes to the end, so each routine preserves it by giving the new numbering.
The walk of `FreeListWhole` is then the numbering itself (`WalkReturns`,
`WalkWhole`).  The one induction that is needed, over the steps of the walk, is made
from a theorem of the library without an operator parameter: a nonempty set
of numbers has a least element (`LeastOf`), so the first step at which the walk and
the numbering part leads to a contradiction.

`BufMgr_data_proofs` proves

* `VictimsUnchanged`: `Spec => []VictimUnchanged`, whatever fails;
* `IOIsExclusive`: `Faults = {} => (Spec => []IOExclusive)`;
* `CopiesAreOne`: `Faults = {} => (Spec => []OneCopy)`.

Here each action is first taken apart (`Decompose`): it is one or two steps of a few
kinds (a backend takes a buffer and starts I/O, pins one and waits, renames its victim,
settles, comes to rest...).  A kind says which flags, names and I/O lock change and
where the backend goes, and no more, so an invariant has to be looked at for eight
kinds and not for fifty paths through the code.  `Owned` says that a backend doing I/O has
the buffer's I/O lock and flag to itself, `Faultless` that without faults the flag and the
lock have such an owner, `Live` that a page in use is the one the table finds.  The
hypothesis `Faults = {}` is needed, section 5 says why.

`BufMgr_store_proofs` proves, for `Faults = {} /\ ExtendLock /\ "drop" \notin Calls`,

* `NothingIsLost`: `Spec => []NothingLost`;
* `PoolIsTransparent`: `Spec => Transparent`, the refinement of `BlockStore`.

These are the hypotheses of `bufmgr_data`: a failed I/O, two extensions at once and a
database that is being destroyed each do lose pages in the code.  `Unlost` is the inductive form of
`NothingLost`: a page that differs from the file is marked with both dirty flags, or in
the hands of a backend at one of four steps, or not yet read.  `OneExtends` says that
at most one backend is between asking for P_NEW and having it.  With them every step of
`BufMgr` leaves the array that `BlockStore` sees as it is, or is the change,
the extension or the end of a call that `BlockStore` allows.

### Cache invalidation

`SInval_proofs` proves, for any finite set of backends, any number of slots and entries
and any crashes:

* `TypeCorrect`: `Spec => []TypeOK`;
* `SlotsAreOwned`: `Spec => []SlotOwned`;
* `ChainsAreWhole`: `Spec => []ChainsWhole`;
* `BusDelivers`: `Spec => Delivers`, the refinement of `InvalBus`.

The two chains are read off one ordering of all entries: first the messages, then the
free ones (`Lists`).  `SISetDataEntry` moves the border between them by one;
`SIDelDataEntry` moves the first entry to the border (`Rotated`).  `Good` is that such
an ordering exists and that limits lie between 0 and the number of messages;
`Owned` relates each backend to its slot.  `IInv == TypeOK /\ Good(seg) /\ Owned`.
An exit without SInvalLock keeps `Good`, since a limit of -1 or 0 is within bounds
whatever it races with; `Section` leaves the slots of others alone, which is what
`SlotOwned` and the refinement need.  What a backend has not read is a stretch of the
ordering (`UnreadIs`), and each step makes that stretch longer by the message that is
registered, empty for the one that reads, or leaves it.

### Lock manager

`LockMgr_proofs` proves, for any finite set of backends, any tags, any lock types
with symmetric conflicts, any priorities and any bounds:

* `TypeCorrect`: `Spec => []TypeOK`, so no count falls below zero;
* `LocksExclude`: `Spec => []NoConflict`;
* `CountsExact`: `Spec => []CountsAgree`;
* `NoLostWakeup`: `Spec => []SleepersKnown`;
* `NoIdleWait`: `Spec => []FirstIsBlocked`.

They follow from `LockInvariance`, `Spec => []IInv`, and are proved together
because none is inductive alone.  The code decides by counts, and the properties
speak of who holds what; `Exact` connects the two by the set of single locks
(`Holdings`: backend, type, number) whose cardinalities the counts are.  From it,
`GrantSafe` says that a request the code lets pass conflicts with nobody else's
lock, and `RefusedBlocked` that one it refuses does.  `AddOne`, `RemoveAll` and
`RemoveType` are the counting: what a grant, a release and the removal of an entry do to those
cardinalities.  `Custody` says who keeps LockMgrLock and that a queue is looked at
only by a release.  The rest is one lemma per action, with `ReleaseStep` shared
by the two releases and `SleeperStep` by the three steps of a sleeper.  The only
assumption is `LockAssumption`; the symmetry of conflicts, which it states, is
needed (a granted lock is tested in one direction only) and TLC evaluates it for
the tables of `multi.c`.

### Multi-level locks

`RelLock_proofs` proves, for any number of transactions, pages and tuples and any
limit of escalation:

* `LevelsApart`: `Spec => []LevelsExclude`;
* `ReadsStayLocked`: `AtOpen => (Spec => []ReadsLocked)`.

The code has no list of who needs an intent lock; a call takes one and a later call
gives one back.  The invariant therefore counts: the locks on a page, with those about to be
taken, are covered by the intents on the relation, with those about to be given back
(`PageCounts`), and the same one level down (`TupleCounts`); `Shape` lists what can be left
of a call.  `AtOpen` is that opening a relation sets up its lock information, as
the relation cache does; section 5 says what happens without.  The assumption also says that the relation, the
pages and the tuples are told apart by their tags.

### Virtual file descriptors

`Vfd_proofs` proves, for any processes, names, pages, limits of descriptors and length of
VfdCache:

* `RingIsWhole`: `Spec => []RingWhole`, with the types;
* `SlotsAreOwned`: `Spec => []SlotsOwned`;
* `DescriptorsAreBounded`: `Spec => []DescriptorsBounded`;
* `WritesAreTracked`: `Spec => []WritesTracked`;
* `FilesStayOpen`: `Spec => LikeOpenFiles`, the refinement of `Files`.

The LRU ring and the free list are both a circle of links through slot 0.  `Circle` says
that the links can be read off an ordering of the slots; a slot is put in behind slot 0
(`CirclePush`) and taken out anywhere (`CircleCut`), and what following the links reaches is
then the ordering (`PathRound`).  `Proper` is what a process's own table satisfies:
ring (`InRing`), free list (`Listed`), counters (`Counted`), and the kernel's positions
where `fd.c` says they are (`Placed`).  `Linked` says that files that callers hold exist and
that the kernel's descriptors are theirs.

Two parts of the invariant are not obvious from the code.  AssertLruRoom closes
`VfdCache[0].lruMoreRecently` without a look at whether the ring is empty; `Started`
says why it never meets slot 0: a process with a file in its table has a
descriptor to spare or a file to evict, and one without a file has never run out of descriptors.
And a page of a file may be forced by a process that never wrote it, while the one
that wrote it still has its mark: `Tracked` is therefore stated with the names marked in the
other processes (`Elsewhere`), and what a call does is proved for any such set.

Each routine (`LruDelete`, `AssertLruRoom`, `TryAgain`, `LruInsert`, `AllocateVfd`,
`FreeVfd`, then the calls) has a lemma that it keeps `Sound`, the invariant of one
process with the files, and says what it does to names, positions and pages.  `Inv` puts the processes together.
For the refinement the same lemmas say that an eviction, a reopening or a sync changes
nothing that `HandleView` and `DataView` show, and what the call itself does is
the step of `Files` with its name; the close of a file whose name is gone, and a call
that only moves descriptors, show nothing (`Other`), and a failed open or write is `Fails`.

`VfdAssumption` asks for at least one descriptor, no more for `fd.c` than the kernel
allows, an array of at least two entries, and marks that are told apart from data.
`WithinBounds`, the bounds of the instance, stays in the actions, so the theorems speak of
behaviours within any `MaxVfd`, `MaxLen` and `MaxFreeFd`; `MaxLen` is used where
`TypeOK` and `Files` name it.

### Magnetic disk

`Md_proofs` proves, for any processes, relations, pages and blocks and any segment size
(`MdAssumption`: the sizes are positive, and `Absent` is none of the other values), if
a relation is extended by one process at a time (`ASSUME ExtendLock`):

* `NoGap`: `Spec => []SegmentsFull`;
* `CountsAndReads`: `Spec => []AnswersRight`;
* `CommitsForced`: `Spec => []CommitForces`, if also `"flush" \notin Faulty`;
* `ArraysOfPages`: `Spec => LikeArrays`, the refinement of `Relations`.

Without `ExtendLock` they fail (section 5), so the hypothesis is in the statements.

`Inv` is `SegmentsFull` with what makes it inductive: the last segment that the bound
allows is never full, every file along the chain of an entry exists, a segment whose
cached count says full is full (the hint of mdnblocks is never wrong, because
mdtruncate spares a relation that has a full segment), and `rd_fd` leads to an entry of
its relation.  `Midway` says of an extension under way: the chain of its entry
reaches the segment it will write, the count it took is still the number of blocks (nobody
else extends or truncates the relation meanwhile), and its position is the end of that
segment.  `Debts` is what a commit owes: a block that is not on disk is in a
segment that some entry of its last writer has marked with both dirty flags.  A failed
write of mdflush breaks it, hence the hypothesis; section 5 has the counterexample.

The argument is layered.  The operators of `md.c` work on a state of one process and
the files, and the loops among them (mdnblocks, _mdfd_getseg, the sweep of a
commit and an abort, mdclose) are recursive functions.  Each loop is shown to
exist and followed by an invariant of its own, to the first iteration at which it would
fail, which the least-element lemma excludes (`LeastOf`).  A routine then has one
lemma (`WriteDoes`, `ExtendDoes`, `TruncateDoes`, `SweepsAll`...) that says that the state stays
sound, that files grow and full segments stay full (`Grows`, all that the entries of
other processes rest on), which marks it keeps or pays (`Remarked`, `Pays`), and
which pages it leaves (`SamePages`, `Rewritten`).  `Carries` collects this for a step, and
`NextKeeps` shows it of each action, as `NextMidway` does `Midway`.  The count of a relation is where its full segments end
(`EndsAt`), which is unique (`CountsOnce`), so what mdnblocks returns and what `NBlocks`
defines agree.  For the refinement, `Viewed` says which array each relation holds; an
array with the right length and pages is the one (`ArrayIs`, `ViewedOnce`), which is checked
once for each way a step may show: a page overwritten, one behind the last in a
segment that may be new, a relation cut, begun or removed.

### Model-checked only

The liveness properties `WaitersWake` and `WaitersServed`: liveness under fairness is
out of the prover's reach.  `Page` and `Wah`: their routines are loops over line
pointers and words, folds whose result is defined by induction over data of any
length, so `Tiled`, `RoomTaken`, `CountsAgree`, `Canonical` and `CombinesRight` and
the refinements `LikeSlots` and `LikeBits` stay with TLC.

## 5. Where code and comments part

A finding with a run:

* `new_comment`: two backends that ask for P_NEW together get one block
  (bufmgr.c:336), against "allocate a new block" (line 135).

Observations made while modelling, each with what the models do about it:

* BufferAlloc returns with BufMgrLock held when no buffer is free (bufmgr.c:406),
  against its header comment (line 319).  Modelled (`Exhausted`); `KeptOnlyWhenFull`
  says that this is the only way.
* BufferSync returns after its first write (bufmgr.c:958), keeping the pin and the
  dirty bit, against "Flush all dirty buffers in the pool" (line 865).  Modelled
  (`SyncWrite`, `lost`).
* BM_IO_ERROR left by a failed write of a victim makes a waiter read the old page
  over the changed one (bufmgr.c:377), against "the contents of the buffer are
  still invalid" (line 364).  Modelled; the data properties run without failures.
* ResetBufferPool, called at an inner executor level, clears LastRefCount without
  dropping the shared count (bufmgr.c:1106): the outer level's buffers stay pinned
  for ever, against "it will release all the buffer pins" (line 1092).  Without
  the restriction to the outermost level TLC refutes `PoolInv` in eight steps.  In the
  same way BufferRefCountRestore forgets pins that an inner level still has.
* ReleaseRelationBuffers releases every dirty buffer of the relation that is not free
  (bufmgr.c:1328), whoever has it pinned, a backend that is writing it back
  included; its own count then falls below zero (the Assert at line 1474 only prints),
  and a later pin of that buffer is not counted.  Left out.
* An exit's store of limit = -1, made without SInvalLock (sinvaladt.c:179), can be
  lost in another backend's count-down, and a slot without a backend then holds
  back the expiry of messages until it is used again, against "negative means it's
  a dead backend" (sinvaladt.c:530).  Modelled; the messages still arrive
  (`Delivers`).
* The timer of a lock wait kills the process (proc.c:161), which stays in its queue,
  keeps its locks and may be granted another, against "The handler should release
  the processes semaphore and abort the current transaction" (proc.c:496).
  Modelled (`Timeout`).
* The flags of a LockInfo outlive the locks they stand for (lmgr.c:351-381,
  575-586): RelationSetLockForRead on a descriptor without information notes a read
  lock on the relation, and after the unlock tuples are read without one.
  `ReadsLocked` fails with `AtOpen = FALSE` and holds with `TRUE`.  A nailed relation
  is built without information (relcache.c:1375).  The failure path of MultiAcquire
  starts its releases at the level that failed instead of the one above; LockAcquire
  does not fail in this program.
* mdflush clears MDFD_DIRTY whether or not its write succeeded (md.c:404-413), and a
  commit then syncs nothing, against md.c:564; with `Faulty` containing "flush" TLC
  refutes `CommitForces` in a few steps.  mdunlink does not give back its virtual
  files, mdclose leaves mdfd_vfd set, and a segment that cannot be opened is
  followed through a null pointer.
* mdextend counts (md.c:208), seeks (211) and writes (214) without a lock: two processes
  that do so together both take the last place of a segment and make it longer than
  RELSEG_SIZE, for which the check at md.c:224-228 exits ("segment too big!").  Modelled; with
  `ExtendLock = FALSE` TLC refutes `SegmentsFull` and `LikeArrays`.  That no
  segment is too long is part of `TypeOK`, and so of `SegmentsFull`.
* PageAddItem shuffles the line pointers before it knows that the item fits
  (bufpage.c:178, 212): with room for a line pointer, all it asks for (147-149), and not for the
  item, one line pointer is doubled and the last one lost.  Modelled (`InsertFails` of
  `Slots`).  At an offset number past the next one it leaves line pointers that nobody has set
  below pd_lower (201-202).  Modelled (`Skip`).
* FileSeek to the end of a file that was closed and cannot be opened again takes -1 for the
  position (fd.c:766-770).  Modelled in `Vfd`.  Its callers: mdextend returns SM_FAIL
  (modelled); `_mdnblocks` answers 0 blocks (md.c:727-728), so that mdnblocks ends a relation at
  a segment that is there, and P_NEW or an extension takes a block in use for the next
  one.  Left out of `Md`, where a seek fails in mdextend only.
* compress and decompress of a bitmap without a full word give its m_vec, NULL, to pfree
  (bitmap.c:353, 385), which reads the chunk header before it (aset.c:213-216).  The actions
  are asked only of bitmaps with a full word.
* bmpor of a longer second operand calls bmpand (bitmap.c:54); `CombinesRight`
  therefore claims bmpor only for a longer first operand.  c00_and and c00_or, appendBitmap
  and setBitZBitmap do not compute what their names say and are left out.
* FreeFd may overstate what is left to the process; FreeFile raises `nfile`, and
  closeOneVfd can leave it below the number of files really open.  Both have no
  caller.  `DescriptorsBounded` covers the rest.

## 6. Plan

Done: `BufMgr` with `BlockStore` and the invariant proofs; `SInval` against
`InvalBus`; `LockMgr` with the waits of `proc.c` and its proofs; `RelLock`; `Vfd`
against `Files`; `Md` against `Relations`; `Page` against `Slots`; `Wah` against
`Bits`; the executor levels, abort and drop of `bufmgr.c`; the proofs of section 4.

Not modelled, and why: see the notes of `components` in `PROJECT.json`.  Chiefly
the vendored trees (third-party), machine-level locking and System V calls
(primitives the models assume), memory contexts and error output (no protocol),
hash tables (sequential, under their users' locks), local buffers (never set up in this
program), `xact.c`, `relcache.c` and `catalog.c` (commented out in this program),
`mm.c` (not compiled), and the driver `main.c`, which keeps no state: its calls are
the ones the modules allow.  Three things it does deserve a note: RelationPut to
block 0 of an empty relation adds an item to a page that PageInit never saw,
a tuple larger than a page leaves an empty page behind, and getAllItems does not
release the buffers it reads.
