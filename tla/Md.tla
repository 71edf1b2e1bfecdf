--------------------------------- MODULE Md ---------------------------------
(***************************************************************************)
(* The magnetic disk storage manager (backend/storage/smgr/md.c, called    *)
(* through smgr.c).  A relation is a chain of files of RELSEG_SIZE blocks; *)
(* each process keeps a vector of the relations it has opened, with a flag *)
(* for what it has written and the last block count it has seen.           *)
(*                                                                         *)
(* The files are those of fd.c: every file stays open, at the position the *)
(* caller asked for (Vfd, LikeOpenFiles); FD_DIRTY of a file is fdirty,    *)
(* and an eviction forces the file (WritesTracked), which here happens at  *)
(* any time: Evict.                                                        *)
(*                                                                         *)
(* Grain.  A call is one action, but for mdextend, which counts, seeks and *)
(* writes in steps that those of other processes may come between; whether *)
(* the callers keep two extensions of a relation apart is the constant     *)
(* ExtendLock.  A truncation and an unlink are made under a write lock on  *)
(* the relation: not in the middle of an extension.                        *)
(*                                                                         *)
(* call and out are the last call, with its arguments, and what it         *)
(* returned; no action reads them.                                         *)
(***************************************************************************)
EXTENDS Integers, Sequences, FiniteSets, Functions

CONSTANTS
  Proc,          \* the processes
  Rel,           \* relations
  Page, Zero,    \* page contents, and the zero page
  Absent,        \* no file
  Ok, Fail,      \* SM_SUCCESS and SM_FAIL
  ExtendLock,    \* whether a relation is extended by one process at a time
  Faulty,        \* the calls in which the kernel may refuse a write
  RelsegSize,    \* RELSEG_SIZE
  MaxBlocks,     \* bound: blocks of a relation
  MaxOpen        \* bound: entries of all vectors together

\* What a file may hold.
Stored == {c \in Seq(Page \cup {Zero}) : Len(c) <= RelsegSize}
File == [data : Stored, disk : Stored]

ASSUME MdAssumption ==
  /\ RelsegSize \in Nat \ {0}
  /\ MaxBlocks \in Nat \ {0}
  /\ MaxOpen \in Nat \ {0}
  /\ ExtendLock \in BOOLEAN
  /\ Faulty \subseteq {"extend", "write", "flush"}
  /\ Absent \notin Rel /\ Absent \notin File
  /\ Absent \notin Seq(Page \cup {Zero})

VARIABLES
  file,    \* relation, segment -> Absent or [data, disk]
  vec,     \* per process: Md_fdvec[0 .. CurFd - 1], each [rel, segs]
  fdOf,    \* per process and relation: rd_fd, 0 when there is none
  wrote,   \* per process: blocks not yet on disk that it was the last to
           \* write, in its current transaction
  ext,     \* per process: the mdextend it is in the middle of, [rel, n, pos]:
           \* the block count, and the position once it is sought
  call, out

vars == <<file, vec, fdOf, wrote, ext, call, out>>

MaxSeg == MaxBlocks \div RelsegSize
Seg == 0 .. MaxSeg
Block == 0 .. MaxBlocks - 1

-----------------------------------------------------------------------------
(* Files.  A state s is [k |-> file, c |-> vec[p]]; entry e of the vector  *)
(* has its segment j in s.c[e].segs[j + 1].                                *)

SegLen(k, r, j) == Len(k[r][j].data)

Created(k, r, j) ==
  [k EXCEPT ![r][j] = IF @ = Absent THEN [data |-> <<>>, disk |-> <<>>]
                      ELSE @]

\* mdfd_vfd with mdfd_flags, mdfd_lstbcnt, and FD_DIRTY of the file.
NewSeg(n) == [dirty |-> FALSE, lst |-> n, fdirty |-> FALSE]

\* FileSync of segment j of entry e.
FileSync(s, e, j) ==
  IF ~ s.c[e].segs[j + 1].fdirty THEN s
  ELSE [k |-> [s.k EXCEPT ![s.c[e].rel][j].disk = s.k[s.c[e].rel][j].data],
        c |-> [s.c EXCEPT ![e].segs[j + 1].fdirty = FALSE]]

\* FileSeek to block i and FileWrite, taken by the kernel or not.
FileWrite(s, e, j, i, x, full) ==
  [k |-> IF full
         THEN [s.k EXCEPT ![s.c[e].rel][j].data =
                 IF i < Len(@) THEN [@ EXCEPT ![i + 1] = x] ELSE Append(@, x)]
         ELSE s.k,
   c |-> [s.c EXCEPT ![e].segs[j + 1].fdirty = TRUE]]

SetDirty(s, e, j, d) == [s EXCEPT !.c[e].segs[j + 1].dirty = d]
SetLst(s, e, j, n) == [s EXCEPT !.c[e].segs[j + 1].lst = n]

-----------------------------------------------------------------------------
(* Segments.                                                               *)

\* _mdfd_openseg with O_CREAT, chained to the entry.
mdfd_openseg(s, e, j) ==
  LET k == Created(s.k, s.c[e].rel, j)
  IN  [k |-> k,
       c |-> [s.c EXCEPT ![e].segs =
                Append(@, NewSeg(SegLen(k, s.c[e].rel, j)))]]

\* _mdfd_getseg: the chain of e reaches the segment of block b.  Segments
\* before the one of a block in the relation exist, with or without O_CREAT.
mdfd_getseg(s, e, b) ==
  LET g[j \in Seg] ==
        IF j = 0 THEN s
        ELSE IF j > b \div RelsegSize \/ j < Len(g[j - 1].c[e].segs)
        THEN g[j - 1] ELSE mdfd_openseg(g[j - 1], e, j)
  IN  g[MaxSeg]

\* Mutant: the comparison is off by one.
Full_Mutant(s, e, j) ==
  \/ s.c[e].segs[j + 1].lst = RelsegSize
  \/ SegLen(s.k, s.c[e].rel, j) >= RelsegSize - 1

\* A segment counts as full by the hint, or else by its length.
Full(s, e, j) ==
  \/ s.c[e].segs[j + 1].lst = RelsegSize
  \/ SegLen(s.k, s.c[e].rel, j) = RelsegSize

\* The loop of mdnblocks, at segment j of a walk that is not over.
Visit(t, e, j) ==
  IF t.done THEN t
  ELSE IF ~ Full(t.s, e, j)
  THEN [s |-> t.s, done |-> TRUE,
        n |-> j * RelsegSize + SegLen(t.s.k, t.s.c[e].rel, j)]
  ELSE LET m == SetLst(t.s, e, j, RelsegSize)
       IN  [t EXCEPT !.s = IF Len(m.c[e].segs) > j + 1 THEN m
                           ELSE mdfd_openseg(m, e, j + 1)]

\* Where mdnblocks leaves the state, and the count n it returns.
mdnblocks(s, e) ==
  LET w[j \in -1 .. MaxSeg] ==
        IF j = -1 THEN [s |-> s, done |-> FALSE, n |-> 0]
        ELSE Visit(w[j - 1], e, j)
  IN  w[MaxSeg]

-----------------------------------------------------------------------------
(* The calls.                                                              *)

\* mdcreate and mdopen end by filling the next entry of the vector.
NewEntry(s, r, k, n) ==
  [k |-> k, c |-> Append(s.c, [rel |-> r, segs |-> <<NewSeg(n)>>])]

\* A file that exists and is empty passes for a new one.
CanCreate(k, r) == IF k[r][0] = Absent THEN TRUE ELSE SegLen(k, r, 0) = 0

mdcreate(s, r) == NewEntry(s, r, Created(s.k, r, 0), 0)

mdopen(s, r) ==
  LET k == Created(s.k, r, 0) IN NewEntry(s, r, k, SegLen(k, r, 0))

\* mdextend from the write on, to a relation of n blocks, at position pos of
\* the last segment.
mdextend(s, e, n, pos, full) ==
  LET j == n \div RelsegSize
      w == FileWrite(s, e, j, pos, Zero, full)
      hint == (n + 1) % RelsegSize
  IN  IF ~ full THEN w
      ELSE SetLst(SetDirty(w, e, j, TRUE), e, j,
                  IF hint = 0 THEN RelsegSize ELSE hint)

\* The page read() finds, a zero page at the end of the file.
mdread(s, e, b) ==
  LET d == s.k[s.c[e].rel][b \div RelsegSize].data
      i == b % RelsegSize
  IN  IF i < Len(d) THEN d[i + 1] ELSE Zero

\* Mutant: MDFD_DIRTY is not set.
mdwrite_Mutant(s, e, b, x, full) ==
  FileWrite(mdfd_getseg(s, e, b), e, b \div RelsegSize, b % RelsegSize, x, full)

mdwrite(s, e, b, x, full) ==
  LET j == b \div RelsegSize
  IN  SetDirty(FileWrite(mdfd_getseg(s, e, b), e, j, b % RelsegSize, x, full),
               e, j, TRUE)

\* Mutant: the first segment is written, not the one of the block.
mdflush_Mutant(s, e, b, x, full) ==
  LET w == FileWrite(s, e, 0, b % RelsegSize, x, full)
  IN  SetDirty(IF full THEN FileSync(w, e, 0) ELSE w, e, 0, FALSE)

\* The flag is cleared whether or not the write went well.
mdflush(s, e, b, x, full) ==
  LET j == b \div RelsegSize
      w == FileWrite(mdfd_getseg(s, e, b), e, j, b % RelsegSize, x, full)
  IN  SetDirty(IF full THEN FileSync(w, e, j) ELSE w, e, j, FALSE)

\* A descriptor of its own, written and synced.
mdblindwrt(k, r, b, x) ==
  LET j == b \div RelsegSize
      d == [k[r][j].data EXCEPT ![(b % RelsegSize) + 1] = x]
  IN  [k EXCEPT ![r][j] = [data |-> d, disk |-> d]]

\* Mutant: a relation of exactly one segment is truncated too.
mdtruncate_Mutant(s, e, n) ==
  LET t == mdnblocks(s, e)
      y == FileSync(t.s, e, 0)
  IN  IF t.n > RelsegSize THEN [s |-> t.s, n |-> t.n]
      ELSE [s |-> [y EXCEPT !.k[y.c[e].rel][0].data = SubSeq(@, 1, n)],
            n |-> n]

\* Where mdtruncate leaves the state, and the count n it returns.  Only a
\* relation of less than one segment is truncated; the last block count of
\* the segment stays as it is.
mdtruncate(s, e, n) ==
  LET t == mdnblocks(s, e)
      y == FileSync(t.s, e, 0)
  IN  IF t.n \div RelsegSize > 0 THEN [s |-> t.s, n |-> t.n]
      ELSE [s |-> [y EXCEPT !.k[y.c[e].rel][0].data = SubSeq(@, 1, n)],
            n |-> n]

CommitSeg(s, e, j) ==
  IF s.c[e].segs[j + 1].dirty THEN SetDirty(FileSync(s, e, j), e, j, FALSE)
  ELSE s

AbortSeg(s, e, j) == SetDirty(s, e, j, FALSE)

\* Every segment of every entry, in turn.
Sweep(s, commit) ==
  LET o1[e \in 0 .. Len(s.c)] ==
        IF e = 0 THEN s
        ELSE LET o[j \in -1 .. Len(s.c[e].segs) - 1] ==
                   IF j = -1 THEN o1[e - 1]
                   ELSE IF commit THEN CommitSeg(o[j - 1], e, j)
                   ELSE AbortSeg(o[j - 1], e, j)
             IN  o[Len(s.c[e].segs) - 1]
  IN  o1[Len(s.c)]

mdcommit(s) == Sweep(s, TRUE)

mdabort(s) == Sweep(s, FALSE)

\* An entry that nothing leads to any more and that is clean.
Dead == [rel |-> Absent, segs |-> <<>>]

\* Sync and close every file along the chain of entry e, and mark it clean.
mdclose(s, e) ==
  LET o[j \in -1 .. Len(s.c[e].segs) - 1] ==
        IF j = -1 THEN s ELSE FileSync(o[j - 1], e, j)
  IN  [o[Len(s.c[e].segs) - 1] EXCEPT !.c[e] = Dead]

\* The segments go one by one, up to the first that is not there.
Unlinked(k, r) ==
  [k EXCEPT ![r] = [j \in Seg |->
     IF \A i \in 0 .. j : k[r][i] # Absent THEN Absent ELSE k[r][j]]]

\* The entries of a relation that is gone lead to no file: what they say is
\* dirty need not be forced.
Forgotten(c, r) == [e \in DOMAIN c |-> IF c[e].rel = r THEN Dead ELSE c[e]]

-----------------------------------------------------------------------------
(* The specification.                                                      *)

NoExt == [rel |-> Absent, n |-> 0, pos |-> -1]

Init ==
  /\ file = [r \in Rel |-> [j \in Seg |-> Absent]]
  /\ vec = [p \in Proc |-> <<>>]
  /\ fdOf = [p \in Proc |-> [r \in Rel |-> 0]]
  /\ wrote = [p \in Proc |-> {}]
  /\ ext = [p \in Proc |-> NoExt]
  /\ call = <<"other">> /\ out = Ok

State(p) == [k |-> file, c |-> vec[p]]
Exists(r) == file[r][0] # Absent
IsOpen(p, r) == fdOf[p][r] # 0

Idle(p) == ext[p].rel = Absent
Extending(r) == \E p \in Proc : ext[p].rel = r

Answers(c, o) == call' = c /\ out' = o
Hidden == Answers(<<"other">>, Ok)
Result(full) == IF full THEN Ok ELSE Fail

\* Block w is in the relation, and its page is not on disk.
Unforced(k, w) ==
  LET f == k[w[1]][w[2] \div RelsegSize]
      i == (w[2] % RelsegSize) + 1
  IN  /\ i <= Len(f.data)
      /\ i <= Len(f.disk) => f.disk[i] # f.data[i]

\* A call of p ends in s; W is what each process has written.
BecomesWith(p, s, W) ==
  /\ file' = s.k
  /\ vec' = [vec EXCEPT ![p] = s.c]
  /\ wrote' = [q \in Proc |-> {w \in W[q] : Unforced(s.k, w)}]

Becomes(p, s) == BecomesWith(p, s, wrote)

\* The blocks of a relation, along its full segments.
NBlocks(r) ==
  LET n[j \in Seg] ==
        IF file[r][j] = Absent THEN 0
        ELSE SegLen(file, r, j)
             + (IF j < MaxSeg /\ SegLen(file, r, j) = RelsegSize
                THEN n[j + 1] ELSE 0)
  IN  n[0]

Opens == FoldFunctionOnSet(LAMBDA c, n : Len(c) + n, 0, vec, Proc)
MayOpen == Opens < MaxOpen

\* p is the last to have written block b.
WroteBy(p, r, b) ==
  [q \in Proc |-> IF q = p THEN wrote[q] \cup {<<r, b>>}
                  ELSE wrote[q] \ {<<r, b>>}]

Create(p, r) ==
  /\ MayOpen /\ ~ IsOpen(p, r)
  /\ CanCreate(file, r)
  /\ Answers(<<"create", r>>, Ok)
  /\ Becomes(p, mdcreate(State(p), r))
  /\ fdOf' = [fdOf EXCEPT ![p][r] = Len(vec[p]) + 1]

\* Nothing is left behind.
CreateFails(p, r) ==
  /\ ~ IsOpen(p, r) /\ ~ CanCreate(file, r)
  /\ Answers(<<"create", r>>, Fail)
  /\ UNCHANGED <<file, vec, fdOf, wrote>>

\* Also of a relation that is open: the caller has lost its rd_fd.
Open(p, r) ==
  /\ MayOpen
  /\ Answers(<<"open", r>>, Ok)
  /\ Becomes(p, mdopen(State(p), r))
  /\ fdOf' = [fdOf EXCEPT ![p][r] = Len(vec[p]) + 1]

Close(p, r) ==
  /\ IsOpen(p, r)
  /\ Hidden
  /\ Becomes(p, mdclose(State(p), fdOf[p][r]))
  /\ fdOf' = [fdOf EXCEPT ![p][r] = 0]

\* Every process learns of it and opens the relation again, if ever.
Unlink(p, r) ==
  /\ Exists(r) /\ IsOpen(p, r) /\ ~ Extending(r)
  /\ Answers(<<"unlink", r>>, Ok)
  /\ file' = Unlinked(file, r)
  /\ vec' = [q \in Proc |-> Forgotten(vec[q], r)]
  /\ fdOf' = [q \in Proc |-> [fdOf[q] EXCEPT ![r] = 0]]
  /\ wrote' = [q \in Proc |-> {w \in wrote[q] : w[1] # r}]

\* Whether the kernel takes what a call writes.
Taken(name) == {TRUE} \cup {name \notin Faulty}

\* mdextend counts the blocks and finds the segment of the new one,
ExtendCount(p, r) ==
  LET e == fdOf[p][r]
      t == mdnblocks(State(p), e)
  IN  /\ IsOpen(p, r) /\ NBlocks(r) < MaxBlocks
      /\ ExtendLock => ~ Extending(r)
      /\ Hidden
      /\ Becomes(p, mdfd_getseg(t.s, e, t.n))
      /\ ext' = [ext EXCEPT ![p] = [rel |-> r, n |-> t.n, pos |-> -1]]
      /\ UNCHANGED fdOf

\* seeks to the end of the segment,
ExtendSeek(p) ==
  /\ ~ Idle(p) /\ ext[p].pos = -1
  /\ Hidden
  /\ ext' = [ext EXCEPT ![p].pos =
               SegLen(file, ext[p].rel, ext[p].n \div RelsegSize)]
  /\ UNCHANGED <<file, vec, fdOf, wrote>>

SeekFails(p) ==
  /\ "extend" \in Faulty /\ ~ Idle(p) /\ ext[p].pos = -1
  /\ Answers(<<"extend", ext[p].rel>>, Fail)
  /\ ext' = [ext EXCEPT ![p] = NoExt]
  /\ UNCHANGED <<file, vec, fdOf, wrote>>

\* and writes.  The buffer manager extends by a zero page.
ExtendWrite(p, full) ==
  LET x == ext[p]
  IN  /\ x.pos # -1
      /\ Answers(<<"extend", x.rel>>, Result(full))
      /\ BecomesWith(p, mdextend(State(p), fdOf[p][x.rel], x.n, x.pos, full),
                     IF full THEN WroteBy(p, x.rel, x.n) ELSE wrote)
      /\ ext' = [ext EXCEPT ![p] = NoExt]
      /\ UNCHANGED fdOf

\* _mdfd_getseg opens a relation without rd_fd.
Entered(p, r) == IF IsOpen(p, r) THEN State(p) ELSE mdopen(State(p), r)
EntryOf(p, r) == IF IsOpen(p, r) THEN fdOf[p][r] ELSE Len(vec[p]) + 1
CanEnter(p, r) == Exists(r) /\ (IsOpen(p, r) \/ MayOpen)
Enter(p, r) == fdOf' = [fdOf EXCEPT ![p][r] = EntryOf(p, r)]

\* Callers read blocks of the relation, and block 0 of an empty one.
Read(p, r, b) ==
  LET s == mdfd_getseg(Entered(p, r), EntryOf(p, r), b)
  IN  /\ CanEnter(p, r) /\ (b < NBlocks(r) \/ b = 0)
      /\ Answers(<<"read", r, b>>, mdread(s, EntryOf(p, r), b))
      /\ Becomes(p, s)
      /\ Enter(p, r)

\* Block b is written, which leaves s; it may be the first use of r.
Written(p, r, b, x, s, full) ==
  /\ CanEnter(p, r) /\ b < NBlocks(r)
  /\ Answers(<<"write", r, b, x>>, Result(full))
  /\ BecomesWith(p, s, IF full THEN WroteBy(p, r, b) ELSE wrote)
  /\ Enter(p, r)

Write(p, r, b, x, full) ==
  Written(p, r, b, x, mdwrite(Entered(p, r), EntryOf(p, r), b, x, full), full)

Flush(p, r, b, x, full) ==
  Written(p, r, b, x, mdflush(Entered(p, r), EntryOf(p, r), b, x, full), full)

BlindWrite(p, r, b, x) ==
  /\ Exists(r) /\ b < NBlocks(r)
  /\ Answers(<<"write", r, b, x>>, Ok)
  /\ BecomesWith(p, [k |-> mdblindwrt(file, r, b, x), c |-> vec[p]],
                 WroteBy(p, r, b))
  /\ UNCHANGED fdOf

Count(p, r) ==
  LET t == mdnblocks(State(p), fdOf[p][r])
  IN  /\ IsOpen(p, r)
      /\ Answers(<<"count", r>>, t.n)
      /\ Becomes(p, t.s)
      /\ UNCHANGED fdOf

Truncate(p, r, n) ==
  LET t == mdtruncate(State(p), fdOf[p][r], n)
  IN  /\ IsOpen(p, r) /\ n <= NBlocks(r) /\ ~ Extending(r)
      /\ Answers(<<"truncate", r, n>>, t.n)
      /\ Becomes(p, t.s)
      /\ UNCHANGED fdOf

Ends(p, s) ==
  /\ Hidden
  /\ BecomesWith(p, s, [wrote EXCEPT ![p] = {}])
  /\ UNCHANGED fdOf

Commit(p) == Ends(p, mdcommit(State(p)))
Abort(p) == Ends(p, mdabort(State(p)))

\* fd.c needs the descriptor of a file of p and forces the file first.
Evict(p, e, j) ==
  /\ vec[p][e].segs[j + 1].fdirty
  /\ Hidden
  /\ Becomes(p, FileSync(State(p), e, j))
  /\ UNCHANGED <<fdOf, ext>>

\* A call of p other than mdextend.
Call(p) ==
  /\ Idle(p)
  /\ UNCHANGED ext
  /\ \/ Commit(p) \/ Abort(p)
     \/ \E r \in Rel :
          \/ Create(p, r) \/ CreateFails(p, r)
          \/ Open(p, r) \/ Close(p, r) \/ Unlink(p, r)
          \/ Count(p, r)
          \/ \E n \in 0 .. MaxBlocks : Truncate(p, r, n)
          \/ \E b \in Block : Read(p, r, b)
          \/ \E b \in Block, x \in Page :
               \/ BlindWrite(p, r, b, x)
               \/ \E full \in Taken("write") : Write(p, r, b, x, full)
               \/ \E full \in Taken("flush") : Flush(p, r, b, x, full)

Next ==
  \E p \in Proc :
    \/ Call(p)
    \/ Idle(p) /\ \E r \in Rel : ExtendCount(p, r)
    \/ ExtendSeek(p) \/ SeekFails(p)
    \/ \E full \in Taken("extend") : ExtendWrite(p, full)
    \/ \E e \in DOMAIN vec[p] :
         \E j \in 0 .. Len(vec[p][e].segs) - 1 : Evict(p, e, j)

Spec == Init /\ [][Next]_vars

-----------------------------------------------------------------------------
(* Properties.                                                             *)

TypeOK ==
  /\ \A r \in Rel : \A j \in Seg :
       file[r][j] \in File \cup {Absent}
  /\ \A p \in Proc : \A e \in DOMAIN vec[p] :
       /\ vec[p][e].rel \in Rel \cup {Absent}
       /\ Len(vec[p][e].segs) \in 0 .. MaxSeg + 1
       /\ \A j \in DOMAIN vec[p][e].segs :
            vec[p][e].segs[j] \in [dirty : BOOLEAN, fdirty : BOOLEAN,
                                   lst : 0 .. RelsegSize]
  /\ \A p \in Proc :
       /\ fdOf[p] \in [Rel -> 0 .. Len(vec[p])]
       /\ ext[p] \in [rel : Rel \cup {Absent}, n : Block,
                      pos : -1 .. RelsegSize - 1]

\* Every segment before an existing one is exactly full, so that the blocks
\* of a relation are numbered without a gap across its files (mdnblocks stops
\* at the first segment that is not full, md.c:511-531), while processes
\* extend it in turn (ExtendLock) and others count, write, truncate and
\* reopen it in the middle of an extension.
SegmentsFull ==
  TypeOK /\ \A r \in Rel : \A j \in Seg \ {0} :
    file[r][j] # Absent =>
      file[r][j - 1] # Absent /\ SegLen(file, r, j - 1) = RelsegSize

Pages(r) ==
  [b \in 1 .. NBlocks(r) |->
     file[r][(b - 1) \div RelsegSize].data[((b - 1) % RelsegSize) + 1]]

\* Whatever the others have done to a relation since a process last looked,
\* mdnblocks counts its blocks right, though it trusts the cached count of a
\* segment it once saw full (md.c:512), and mdread finds each of them.
AnswersRight ==
  \A p \in Proc, r \in Rel : IsOpen(p, r) =>
    LET e == fdOf[p][r]
    IN  /\ mdnblocks(State(p), e).n = NBlocks(r)
        /\ \A b \in 0 .. NBlocks(r) - 1 :
             mdread(mdfd_getseg(State(p), e, b), e, b) = Pages(r)[b + 1]

\* Whenever a process calls mdcommit, every block its transaction wrote is on
\* disk when it returns ("All changes to magnetic disk relations must be
\* forced to stable storage", md.c:564): through any entry, after evictions,
\* writes that failed, an abort of the transaction before it, and with other
\* processes writing the same files.
CommitForces ==
  \A p \in Proc : \A w \in wrote[p] : ~ Unforced(mdcommit(State(p)).k, w)

R == INSTANCE Relations WITH
       pages <- [r \in Rel |-> IF Exists(r) THEN Pages(r) ELSE Absent]

\* To the buffer manager a relation in segments is one array of pages
\* (smgr.c): for every process, through chains that grow at different times,
\* a write changes the block it names and no other, a read returns the page
\* last written there, an extension appends one block, a count and a
\* truncation answer how many there are; a call that fails changes nothing.
LikeArrays == R!Spec
=============================================================================
