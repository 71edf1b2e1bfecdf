-------------------------------- MODULE Files --------------------------------
(***************************************************************************)
(* What fd.c promises its callers: as many open files as they like, each   *)
(* with a position of its own, over files that are sequences of pages.     *)
(* That only a few are open in the kernel at a time is invisible.          *)
(***************************************************************************)
EXTENDS Integers, Sequences

CONSTANTS Proc,             \* the processes
          Handle,           \* File values a process may hold
          Name,             \* file names
          Page, Zero,       \* page contents, and the zero page
          NoFile,           \* the value of no open file and of a missing file
          Ok, Fail, Eof,    \* results
          MaxLen            \* bound on the length of a file, in pages

VARIABLES handle,  \* process, handle -> NoFile or [name, pos]
          data,    \* name -> NoFile or the pages
          call,    \* the last call and its arguments
          out      \* its result

vars == <<handle, data, call, out>>

\* The pages d with page x at position i, a gap filled with zero pages.
Put(d, i, x) ==
  [j \in 1 .. (IF i < Len(d) THEN Len(d) ELSE i + 1) |->
     IF j = i + 1 THEN x ELSE IF j <= Len(d) THEN d[j] ELSE Zero]

Cut(d, n) == SubSeq(d, 1, n)

Init == /\ handle = [p \in Proc |-> [h \in Handle |-> NoFile]]
        /\ data = [n \in Name |-> NoFile]
        /\ call = <<"other">>
        /\ out = Ok

Pos(p, h) == handle[p][h].pos
Of(p, h) == data[handle[p][h].name]
MoveTo(p, h, i) == handle' = [handle EXCEPT ![p][h].pos = i]

\* Any handle that is not in use.
Open(p, h, n) ==
  /\ call' = <<"open", p, n>> /\ out' = Ok
  /\ data' = [data EXCEPT ![n] = IF @ = NoFile THEN <<>> ELSE @]
  /\ handle[p][h] = NoFile
  /\ handle' = [handle EXCEPT ![p][h] = [name |-> n, pos |-> 0]]

\* Also of a handle whose file is gone.
Close(p, h) ==
  /\ call' = <<"close", p, h>> /\ out' = Ok
  /\ handle' = [handle EXCEPT ![p][h] = NoFile]
  /\ UNCHANGED data

Read(p, h) ==
  /\ call' = <<"read", p, h>>
  /\ handle[p][h] # NoFile
  /\ IF Pos(p, h) < Len(Of(p, h))
     THEN /\ out' = Of(p, h)[Pos(p, h) + 1]
          /\ MoveTo(p, h, Pos(p, h) + 1)
     ELSE out' = Eof /\ UNCHANGED handle
  /\ UNCHANGED data

Write(p, h, x) ==
  /\ call' = <<"write", p, h, x>> /\ out' = Ok
  /\ handle[p][h] # NoFile
  /\ data' = [data EXCEPT ![handle[p][h].name] = Put(@, Pos(p, h), x)]
  /\ MoveTo(p, h, Pos(p, h) + 1)

Target(p, h, off, whence) ==
  off + CASE whence = "SET" -> 0
          [] whence = "CUR" -> Pos(p, h)
          [] whence = "END" -> Len(Of(p, h))

Seek(p, h, off, whence) ==
  /\ call' = <<"seek", p, h, off, whence>> /\ out' = Ok
  /\ handle[p][h] # NoFile
  /\ MoveTo(p, h, Target(p, h, off, whence))
  /\ UNCHANGED data

\* A seek to the end that fails: the position is lost.
SeekFails(p, h, off) ==
  /\ call' = <<"seek", p, h, off, "END">> /\ out' = Fail
  /\ handle[p][h] # NoFile
  /\ MoveTo(p, h, 0)
  /\ UNCHANGED data

Truncate(p, h, n) ==
  /\ call' = <<"truncate", p, h, n>> /\ out' = Ok
  /\ handle[p][h] # NoFile /\ n <= Len(Of(p, h))
  /\ data' = [data EXCEPT ![handle[p][h].name] = Cut(@, n)]
  /\ UNCHANGED handle

\* The file goes; whoever has it open gives it up.
Gone(n) ==
  /\ out' = Ok
  /\ data[n] # NoFile
  /\ data' = [data EXCEPT ![n] = NoFile]
  /\ handle' = [p \in Proc |-> [h \in Handle |->
       IF handle[p][h] # NoFile /\ handle[p][h].name = n
       THEN NoFile ELSE handle[p][h]]]

Unlink(n) == call' = <<"unlink", n>> /\ Gone(n)

UnlinkOpen(p, h) ==
  /\ call' = <<"unlink", p, h>>
  /\ handle[p][h] # NoFile
  /\ Gone(handle[p][h].name)

\* Any other call that fails, and one that changes nothing a caller can see,
\* such as a sync.
Fails == out' = Fail /\ UNCHANGED <<data, handle>>
Other == call' = <<"other">> /\ out' = Ok /\ UNCHANGED <<data, handle>>

Next ==
  \/ Other \/ Fails
  \/ \E n \in Name : Unlink(n)
  \/ \E p \in Proc, h \in Handle :
       \/ Read(p, h) \/ Close(p, h) \/ UnlinkOpen(p, h)
       \/ \E x \in Page : Write(p, h, x)
       \/ \E i \in 0 .. MaxLen : Truncate(p, h, i) \/ SeekFails(p, h, i)
       \/ \E off \in 0 .. MaxLen, whence \in {"SET", "CUR", "END"} :
            Seek(p, h, off, whence)
       \/ \E n \in Name : Open(p, h, n)

Spec == Init /\ [][Next]_vars
=============================================================================
