--------------------------------- MODULE Vfd ---------------------------------
(***************************************************************************)
(* Virtual file descriptors (backend/storage/file/fd.c).  A process holds  *)
(* any number of virtual files; only some have a kernel descriptor, and    *)
(* the least recently used one is closed when a descriptor is needed.      *)
(*                                                                         *)
(* Grain.  fd.c is private to its process and single threaded: a call is   *)
(* one action.  What processes share is the files.  Descriptors that the   *)
(* rest of a process takes or gives back between calls are Others.         *)
(*                                                                         *)
(* vfd[p] is everything fd.c keeps in process p, with the kernel's side of *)
(* its descriptors (kpos, link); each C routine is an operator on a state  *)
(* s = [v |-> vfd[p], k |-> file].  Positions and lengths are in pages;    *)
(* -1 is what lseek() returns when it fails.  Fields that are dead are     *)
(* kept at their first values, the ring links of a file outside the ring   *)
(* and everything in a free slot, or in step with the kernel, seekPos of   *)
(* an open file (FileTell, which reads it, has no caller).                 *)
(***************************************************************************)
EXTENDS Integers, Sequences, FiniteSets

CONSTANTS
  Proc,              \* the processes
  Name,              \* file names
  Page, Zero,        \* page contents, and the zero page
  Absent,            \* no file
  Ok, Fail, Eof,     \* results of calls
  PgNofile,          \* pg_nofile(): descriptors fd.c allows itself
  OsMax,             \* descriptors the kernel allows the process
  MaxVfd,            \* bound: length of VfdCache
  MaxLen,            \* bound: pages of a file, and positions
  MaxFreeFd          \* bound: the counter FreeFd

\* At least one descriptor is left for files (pg_nofile exits otherwise).
\* The values that stand for no file and for no page are none of these.
ASSUME VfdAssumption ==
  /\ PgNofile \in Nat \ {0}
  /\ OsMax \in Nat \ {0}
  /\ PgNofile <= OsMax
  /\ MaxVfd \in Nat \ {0, 1}
  /\ MaxLen \in Nat
  /\ Absent \notin Name
  /\ Absent \notin Seq(Page \cup {Zero})
  /\ Absent \notin [data : Seq(Page \cup {Zero}), disk : Seq(Page \cup {Zero})]
  /\ Absent \notin [name : Name, pos : 0 .. MaxLen]
  /\ Fail \notin 0 .. MaxVfd - 1
  /\ {Fail, Eof} \cap (Page \cup {Zero}) = {}

VARIABLES
  vfd,    \* per process: VfdCache and the counters
  file,   \* name -> Absent or [data, disk]: the pages, and those on disk
  held,   \* per process and slot: free, held by a caller, or dropped
  call,   \* the last call and its arguments; <<"other">> for one that only
          \* moves descriptors or forces pages
  out     \* what it answered; numbers are left out

vars == <<vfd, file, held, call, out>>

Slot == 0 .. MaxVfd - 1    \* slot 0 anchors the LRU ring and the free list
Handle == Slot \ {0}

Fresh ==
  [size |-> 0, fd |-> [f \in Slot |-> FALSE], dirty |-> [f \in Slot |-> FALSE],
   nextFree |-> [f \in Slot |-> 0],
   more |-> [f \in Slot |-> 0], less |-> [f \in Slot |-> 0],
   seekPos |-> [f \in Slot |-> 0], name |-> [f \in Slot |-> Absent],
   kpos |-> [f \in Slot |-> -1],
   link |-> [f \in Slot |-> Absent],
   nfile |-> 0, freeFd |-> 0, osRanOut |-> FALSE, others |-> 0]

-----------------------------------------------------------------------------
(* The kernel.                                                             *)

InUse(v) == {f \in Slot : v.fd[f]}

\* open() of the null device finds a descriptor.
NullOpens(v) == Cardinality(InUse(v)) + v.others < OsMax

Openable(k, n, creat, excl) == IF k[n] = Absent THEN creat ELSE ~ excl

Created(k, n) ==
  [k EXCEPT ![n] = IF @ = Absent THEN [data |-> <<>>, disk |-> <<>>] ELSE @]

\* fsync() forces the pages of the file, whoever wrote them.
Fsync(k, n) == IF n = Absent THEN k ELSE [k EXCEPT ![n].disk = k[n].data]

Put(d, i, x) ==
  [j \in 1 .. (IF i < Len(d) THEN Len(d) ELSE i + 1) |->
     IF j = i + 1 THEN x ELSE IF j <= Len(d) THEN d[j] ELSE Zero]

Cut(d, n) == SubSeq(d, 1, n)

\* The kernel closes the descriptor of slot f: nothing can be asked of it.
KernelClose(v, f) ==
  [v EXCEPT !.fd[f] = FALSE, !.kpos[f] = -1, !.link[f] = Absent]

Length(s, f) == Len(s.k[s.v.link[f]].data)

-----------------------------------------------------------------------------
(* The LRU ring.                                                           *)

\* Mutant: only the more recent neighbour is told.
Delete_Mutant(v, f) ==
  [v EXCEPT !.more = [@ EXCEPT ![f] = 0],
            !.less = [@ EXCEPT ![v.more[f]] = v.less[f], ![f] = 0]]

Delete(v, f) ==
  [v EXCEPT !.more = [@ EXCEPT ![v.less[f]] = v.more[f], ![f] = 0],
            !.less = [@ EXCEPT ![v.more[f]] = v.less[f], ![f] = 0]]

Insert(v, f) ==
  LET mru == v.less[0]
  IN  [v EXCEPT !.more = [@ EXCEPT ![f] = 0, ![mru] = f],
                !.less = [@ EXCEPT ![f] = mru, ![0] = f]]

\* Mutant: the file is closed without a sync.
LruDelete_Mutant(s, f) ==
  [v |-> [KernelClose(Delete(s.v, f), f) EXCEPT
            !.seekPos[f] = s.v.kpos[f], !.dirty[f] = FALSE,
            !.nfile = @ - 1, !.freeFd = @ + 1],
   k |-> s.k]

LruDelete(s, f) ==
  [v |-> [KernelClose(Delete(s.v, f), f) EXCEPT
            !.seekPos[f] = s.v.kpos[f], !.dirty[f] = FALSE,
            !.nfile = @ - 1, !.freeFd = @ + 1],
   k |-> IF s.v.dirty[f] THEN Fsync(s.k, s.v.link[f]) ELSE s.k]

AssertLruRoom(s) ==
  IF s.v.freeFd <= 0 \/ s.v.nfile >= PgNofile
  THEN LruDelete(s, s.v.more[0])
  ELSE s

\* The loop at tryAgain: the rest of the process stands still during a call,
\* so one descriptor given up is enough for the next attempt.
TryAgain(s, ranOut) ==
  IF NullOpens(s.v) THEN s
  ELSE AssertLruRoom([v |-> [s.v EXCEPT !.freeFd = 0,
                                        !.osRanOut = @ \/ ranOut],
                      k |-> s.k])

\* The kernel opens file n for slot f, at position 0.
KernelOpen(s, f, n) ==
  [v |-> [s.v EXCEPT !.fd[f] = TRUE, !.dirty[f] = FALSE, !.kpos[f] = 0,
                     !.link[f] = n, !.nfile = @ + 1],
   k |-> Created(s.k, n)]

\* Where lseek() leaves a file that was just opened, asked for position i.
SeekFrom0(i) == IF i > 0 THEN i ELSE 0

\* Mutant: no seek to the right position.
Reopen_Mutant(s, f) ==
  LET o == KernelOpen(s, f, s.v.name[f])
  IN  [o EXCEPT !.v.seekPos[f] = 0, !.v.freeFd = IF @ > 0 THEN @ - 1 ELSE @]

\* Mutant: the file is not counted as open again.
Reopen_Mutant2(s, f) ==
  LET o == KernelOpen(s, f, s.v.name[f])
  IN  [v |-> [o.v EXCEPT
                !.kpos[f] = SeekFrom0(s.v.seekPos[f]),
                !.seekPos[f] = SeekFrom0(@),
                !.freeFd = IF @ > 0 THEN @ - 1 ELSE @, !.nfile = @ - 1],
       k |-> o.k]

\* The part of LruInsert for a file that is not open.
Reopen(s, f) ==
  LET o == KernelOpen(s, f, s.v.name[f])
  IN  [v |-> [o.v EXCEPT
                !.kpos[f] = SeekFrom0(s.v.seekPos[f]),
                !.seekPos[f] = SeekFrom0(@),
                !.freeFd = IF @ > 0 THEN @ - 1 ELSE @],
       k |-> o.k]

\* ok: the kernel does open the file again.
LruInsert(s, f, ok) ==
  LET t == TryAgain(s, FALSE)
  IN  IF s.v.fd[f] THEN [s EXCEPT !.v = Insert(@, f)]
      ELSE IF ~ ok THEN t
      ELSE [Reopen(t, f) EXCEPT !.v = Insert(@, f)]

FileAccess(s, f, ok) ==
  IF s.v.fd[f] THEN [s EXCEPT !.v = Insert(Delete(@, f), f)]
  ELSE LruInsert(AssertLruRoom(s), f, ok)

-----------------------------------------------------------------------------
(* The table of virtual files.                                             *)

\* VfdCache as it is when a slot has been found: grown if none was free.
Grown(v) ==
  LET n == IF v.size = 0 THEN 1 ELSE v.size
  IN  IF v.nextFree[0] # 0 THEN v
      ELSE [v EXCEPT
              !.size = 2 * n,
              !.nextFree = [f \in Slot |->
                 IF f = 0 THEN n
                 ELSE IF f \in n .. 2 * n - 2 THEN f + 1
                 ELSE IF f = 2 * n - 1 THEN 0 ELSE @[f]]]

NewSlot(v) == Grown(v).nextFree[0]
HasRoom(v) == v.nextFree[0] # 0 \/ 2 * v.size <= MaxVfd

AllocateVfd(v) ==
  LET g == Grown(v)
      f == NewSlot(v)
  IN  [g EXCEPT !.nextFree[0] = g.nextFree[f], !.nextFree[f] = 0]

FreeVfd(v, f) ==
  [v EXCEPT !.nextFree[f] = v.nextFree[0], !.nextFree[0] = f,
            !.name[f] = Absent, !.seekPos[f] = 0, !.dirty[f] = FALSE]

-----------------------------------------------------------------------------
(* The calls.                                                              *)

\* The state in which fileNameOpenFile comes to open the file.
MadeRoom(s) ==
  LET a == [s EXCEPT !.v = AllocateVfd(@)]
      r == IF a.v.nfile >= PgNofile \/ (a.v.freeFd = 0 /\ a.v.osRanOut)
           THEN AssertLruRoom(a) ELSE a
  IN  TryAgain(r, TRUE)

\* Mutant: a slot is not freed when the file cannot be opened.
fileNameOpenFile_Mutant(s, n, creat, excl) ==
  LET f == NewSlot(s.v)
      t == MadeRoom(s)
      o == KernelOpen(t, f, n)
  IN  IF ~ Openable(s.k, n, creat, excl) THEN t
      ELSE [v |-> [Insert(o.v, f) EXCEPT !.name[f] = n, !.seekPos[f] = 0],
            k |-> o.k]

fileNameOpenFile(s, n, creat, excl) ==
  LET f == NewSlot(s.v)
      t == MadeRoom(s)
      o == KernelOpen(t, f, n)
  IN  IF ~ Openable(s.k, n, creat, excl)
      THEN [t EXCEPT !.v = FreeVfd(@, f)]
      ELSE [v |-> [Insert(o.v, f) EXCEPT !.name[f] = n, !.seekPos[f] = 0],
            k |-> o.k]

Opened(s, n, creat, excl) ==
  IF Openable(s.k, n, creat, excl) THEN NewSlot(s.v) ELSE Fail

FileClose(s, f) ==
  [v |-> FreeVfd(IF s.v.fd[f]
                 THEN [KernelClose(Delete(s.v, f), f) EXCEPT
                         !.freeFd = @ + 1, !.nfile = @ - 1]
                 ELSE s.v, f),
   k |-> IF s.v.fd[f] /\ s.v.dirty[f] THEN Fsync(s.k, s.v.link[f]) ELSE s.k]

\* What read() returns.
ReadResult(a, f) ==
  IF ~ a.v.fd[f] THEN Fail
  ELSE IF a.v.kpos[f] >= Length(a, f) THEN Eof
  ELSE a.k[a.v.link[f]].data[a.v.kpos[f] + 1]

FileRead(s, f, ok) ==
  LET a == FileAccess(s, f, ok)
  IN  IF ReadResult(a, f) \in {Fail, Eof} THEN a
      ELSE [v |-> [a.v EXCEPT !.kpos[f] = @ + 1, !.seekPos[f] = @ + 1],
            k |-> a.k]

\* full: write() takes the page; it cannot on a descriptor that is not open.
FileWrite(s, f, x, ok, full) ==
  LET a == FileAccess(s, f, ok)
      n == a.v.link[f]
      w == [v |-> [a.v EXCEPT !.kpos[f] = @ + 1, !.seekPos[f] = @ + 1],
            k |-> [a.k EXCEPT ![n].data = Put(a.k[n].data, a.v.kpos[f], x)]]
      b == IF full /\ a.v.fd[f] THEN w ELSE a
  IN  [v |-> [b.v EXCEPT !.dirty[f] = TRUE], k |-> b.k]

\* The answer of FileAccess is not looked at: lseek() of a file that could not
\* be opened again fails.
FileSeek(s, f, off, whence, ok) ==
  LET a == IF whence = "END" /\ ~ s.v.fd[f] THEN FileAccess(s, f, ok) ELSE s
      i == CASE whence = "SET" -> off
             [] whence = "CUR" ->
                  (IF s.v.fd[f] THEN s.v.kpos[f] ELSE s.v.seekPos[f]) + off
             [] whence = "END" -> IF a.v.fd[f] THEN Length(a, f) + off ELSE -1
  IN  [v |-> [a.v EXCEPT !.seekPos[f] = i,
                         !.kpos[f] = IF a.v.fd[f] THEN i ELSE @],
       k |-> a.k]

FileSync(s, f) ==
  IF s.v.fd[f] /\ s.v.dirty[f]
  THEN [v |-> [s.v EXCEPT !.dirty[f] = FALSE], k |-> Fsync(s.k, s.v.link[f])]
  ELSE s

FileTruncate(s, f, n, ok) ==
  LET a == FileAccess(FileSync(s, f), f, ok)
      m == a.v.link[f]
  IN  IF ~ a.v.fd[f] THEN a
      ELSE [v |-> a.v, k |-> [a.k EXCEPT ![m].data = Cut(a.k[m].data, n)]]

FileInvalidate(s, f) == IF s.v.fd[f] THEN LruDelete(s, f) ELSE s

\* closeAllVfds, slot by slot.
CloseUpTo(s) ==
  LET c[f \in Slot] ==
        IF f = 0 THEN s ELSE FileInvalidate(c[f - 1], f)
  IN  c[MaxVfd - 1]

\* The name goes at once, the file when its last descriptor is closed.
UnlinkedIn(v, n) ==
  [v EXCEPT !.link = [f \in Slot |-> IF @[f] = n THEN Absent ELSE @[f]]]

-----------------------------------------------------------------------------
(* The specification.                                                      *)

Init ==
  /\ vfd = [p \in Proc |-> Fresh]
  /\ file = [n \in Name |-> Absent]
  /\ held = [p \in Proc |-> [f \in Handle |-> "free"]]
  /\ call = <<"other">>
  /\ out = Ok

State(p) == [v |-> vfd[p], k |-> file]

\* The bounds of the instance.
WithinBounds(s) ==
  /\ s.v.freeFd <= MaxFreeFd
  /\ \A f \in Slot : s.v.seekPos[f] <= MaxLen
  /\ \A n \in Name : s.k[n] # Absent => Len(s.k[n].data) <= MaxLen

\* A call of p that ends in s with result r.
Becomes(p, s, r) ==
  /\ WithinBounds(s)
  /\ vfd' = [vfd EXCEPT ![p] = s.v]
  /\ file' = s.k
  /\ out' = r

Holds(p, f) == held[p][f] = "held"
Keeps(p, s, r) == Becomes(p, s, r) /\ UNCHANGED held

\* The calls pass O_RDWR, alone, with O_CREAT, or with O_CREAT and O_EXCL.
DoOpen(p, n, creat, excl) ==
  LET f == Opened(State(p), n, creat, excl)
  IN  /\ HasRoom(vfd[p])
      /\ call' = <<"open", p, n>>
      /\ excl => creat
      /\ Becomes(p, fileNameOpenFile(State(p), n, creat, excl),
                 IF f = Fail THEN Fail ELSE Ok)
      /\ held' = IF f = Fail THEN held ELSE [held EXCEPT ![p][f] = "held"]

\* A caller gives a file up, also one whose name is gone.
DoClose(p, f) ==
  /\ held[p][f] # "free"
  /\ call' = <<"close", p, f>>
  /\ Becomes(p, FileClose(State(p), f), Ok)
  /\ held' = [held EXCEPT ![p][f] = "free"]

DoRead(p, f, ok) ==
  /\ Holds(p, f)
  /\ call' = <<"read", p, f>>
  /\ Keeps(p, FileRead(State(p), f, ok),
              ReadResult(FileAccess(State(p), f, ok), f))

\* What a call returns that needs the file open and does succeed then.
Done(s, f) == IF s.v.fd[f] THEN Ok ELSE Fail

DoWrite(p, f, x, ok, full) ==
  LET s == FileWrite(State(p), f, x, ok, full)
  IN  /\ Holds(p, f)
      /\ call' = <<"write", p, f, x>>
      /\ Keeps(p, s, IF full THEN Done(s, f) ELSE Fail)

\* No caller seeks from where it is after a seek that failed.
DoSeek(p, f, off, whence, ok) ==
  LET s == FileSeek(State(p), f, off, whence, ok)
  IN  /\ Holds(p, f)
      /\ whence = "CUR" => vfd[p].seekPos[f] >= 0
      /\ call' = <<"seek", p, f, off, whence>>
      /\ Keeps(p, s, IF whence = "END" THEN Done(s, f) ELSE Ok)

\* Callers truncate a file to shorten it.
DoTruncate(p, f, n, ok) ==
  LET s == FileTruncate(State(p), f, n, ok)
  IN  /\ Holds(p, f)
      /\ n <= Len(file[vfd[p].name[f]].data)
      /\ call' = <<"truncate", p, f, n>>
      /\ Keeps(p, s, Done(s, f))

\* A call of p that leaves s, which its callers cannot tell from before.
Hidden(p, s) == call' = <<"other">> /\ Keeps(p, s, Ok)

DoSync(p, f) == Holds(p, f) /\ Hidden(p, FileSync(State(p), f))

DoInvalidate(p, f) == Holds(p, f) /\ Hidden(p, FileInvalidate(State(p), f))

closeAllVfds(p) == InUse(vfd[p]) # {} /\ Hidden(p, CloseUpTo(State(p)))

\* Name n goes from a state V, H of all processes.  Callers that have the file
\* open do not use it again.
UnlinkFrom(V, H, n) ==
  /\ file[n] # Absent
  /\ vfd' = [q \in Proc |-> UnlinkedIn(V[q], n)]
  /\ file' = [file EXCEPT ![n] = Absent]
  /\ held' = [q \in Proc |-> [f \in Handle |->
       IF H[q][f] = "held" /\ V[q].name[f] = n THEN "dropped" ELSE H[q][f]]]
  /\ out' = Ok

FileNameUnlink(n) ==
  call' = <<"unlink", n>> /\ UnlinkFrom(vfd, held, n)

\* FileClose, and the name of the file goes too.
FileUnlink(p, f) ==
  LET s == FileClose(State(p), f)
  IN  /\ Holds(p, f) /\ WithinBounds(s)
      /\ call' = <<"unlink", p, f>>
      /\ UnlinkFrom([vfd EXCEPT ![p] = s.v], [held EXCEPT ![p][f] = "free"],
                    vfd[p].name[f])

\* A caller wants a descriptor of its own: see that the kernel has one.
AllocateFile(p) == Hidden(p, TryAgain(State(p), FALSE))

\* The rest of the process opens or closes a descriptor of its own; it never
\* has all of them.
Others(p, d) ==
  /\ vfd[p].others + d \in 0 .. OsMax - 1
  /\ Cardinality(InUse(vfd[p])) + vfd[p].others + d <= OsMax
  /\ vfd' = [vfd EXCEPT ![p].others = @ + d]
  /\ call' = <<"other">> /\ out' = Ok
  /\ UNCHANGED <<file, held>>

Next ==
  \/ \E n \in Name : FileNameUnlink(n)
  \/ \E p \in Proc :
    \/ closeAllVfds(p) \/ AllocateFile(p)
    \/ \E d \in {-1, 1} : Others(p, d)
    \/ \E n \in Name, c, e \in BOOLEAN : DoOpen(p, n, c, e)
    \/ \E f \in Handle :
         \/ DoClose(p, f) \/ FileUnlink(p, f)
         \/ DoSync(p, f) \/ DoInvalidate(p, f)
         \/ DoSeek(p, f, 1, "CUR", TRUE)
         \/ \E i \in 0 .. MaxLen : DoSeek(p, f, i, "SET", TRUE)
         \/ \E ok \in {TRUE} \cup {vfd[p].fd[f]} :
              \/ DoRead(p, f, ok) \/ DoSeek(p, f, 0, "END", ok)
              \/ \E i \in 0 .. MaxLen : DoTruncate(p, f, i, ok)
              \/ \E x \in Page, full \in BOOLEAN : DoWrite(p, f, x, ok, full)

Spec == Init /\ [][Next]_vars

-----------------------------------------------------------------------------
(* Properties.                                                             *)

TypeOK ==
  /\ \A p \in Proc :
       LET v == vfd[p]
       IN  /\ v.size \in 0 .. MaxVfd /\ v.nfile \in Int /\ v.freeFd \in Nat
           /\ {v.fd, v.dirty} \subseteq [Slot -> BOOLEAN]
           /\ {v.nextFree, v.more, v.less} \subseteq [Slot -> Slot]
           /\ {v.seekPos, v.kpos} \subseteq [Slot -> -1 .. MaxLen]
           /\ {v.name, v.link} \subseteq [Slot -> Name \cup {Absent}]
           /\ v.others \in 0 .. OsMax - 1
  /\ held \in [Proc -> [Handle -> {"free", "held", "dropped"}]]

\* The slots passed from f on through the links next.
Path(next, f) ==
  LET w[i \in Slot] == IF i = 0 THEN f ELSE next[w[i - 1]] IN w

\* The LRU ring (fd.c:146-161) holds exactly the files that are open in the
\* kernel, once each, and its two directions agree: however calls, evictions
\* and failed opens alternate, the file AssertLruRoom closes is an open one.
RingWhole ==
  TypeOK /\ \A p \in Proc :
    LET v == vfd[p]
        n == Cardinality(InUse(v))
        w == Path(v.less, v.less[0])
    IN  /\ {w[i] : i \in 0 .. n - 1} = InUse(v)
        /\ w[n] = 0
        /\ \A f \in InUse(v) \cup {0} : v.more[v.less[f]] = f

\* Every slot of VfdCache is on the free list once or belongs to one caller
\* (AllocateVfd, FreeVfd, fd.c:394-464), also after an open that failed and
\* after the array has grown.
SlotsOwned ==
  \A p \in Proc :
    LET v == vfd[p]
        free == {f \in Handle : f < v.size /\ held[p][f] = "free"}
        n == Cardinality(free)
        w == Path(v.nextFree, v.nextFree[0])
    IN  /\ {w[i] : i \in 0 .. n - 1} = free
        /\ w[n] = 0
        /\ \A f \in Handle : f >= v.size => held[p][f] = "free"

\* fd.c never has more descriptors than pg_nofile() allows, and nfile, on
\* which that rests, never falls behind the number really open (fd.c:127),
\* whatever the rest of the process does with descriptors.
DescriptorsBounded ==
  \A p \in Proc :
    LET n == Cardinality(InUse(vfd[p]))
    IN  n <= vfd[p].nfile /\ n <= PgNofile

OnDisk(n, i) ==
  i <= Len(file[n].disk) /\ file[n].disk[i] = file[n].data[i]

\* A page that is not yet on disk belongs to a file some process has open and
\* marked FD_DIRTY, so that FileSync and the eviction of the file still force
\* it (fd.c:818-823: "we always sync files when we close them").
WritesTracked ==
  \A n \in Name : file[n] # Absent =>
    \A i \in 1 .. Len(file[n].data) :
      ~ OnDisk(n, i) =>
        \E p \in Proc : \E f \in InUse(vfd[p]) :
          vfd[p].dirty[f] /\ vfd[p].link[f] = n

\* The position a caller's file has: the kernel's while the file is open, and
\* the one it will have in the kernel while it is not.
PosOf(p, f) ==
  IF vfd[p].fd[f] THEN vfd[p].kpos[f] ELSE SeekFrom0(vfd[p].seekPos[f])

\* What a caller sees of its files, and of the pages in them.
HandleView ==
  [p \in Proc |-> [f \in Handle |->
     IF Holds(p, f) THEN [name |-> vfd[p].name[f], pos |-> PosOf(p, f)]
     ELSE Absent]]

DataView ==
  [n \in Name |-> IF file[n] = Absent THEN Absent ELSE file[n].data]

F == INSTANCE Files WITH
       NoFile <- Absent, handle <- HandleView, data <- DataView

\* To its callers fd.c is a file system without a limit on open files: every
\* call is done on the file and with the arguments it was given, and a file
\* closed behind the caller's back is read and written next at the position
\* where it was left (LruDelete, LruInsert, FileSeek of a closed file).  A
\* call that fails changes nothing, but for one: a seek to the end of a file
\* that cannot be opened again loses the position (fd.c:766-770), and the file
\* goes on at its start.
LikeOpenFiles == F!Spec
=============================================================================
