------------------------------- MODULE SInval -------------------------------
(***************************************************************************)
(* Shared cache invalidation (backend/storage/ipc/sinval.c, sinvaladt.c):  *)
(* backends tell each other which cached tuples are out of date, through   *)
(* one chain of messages in shared memory.  Each backend has a slot with   *)
(* the number of messages at the head of the chain it has read.            *)
(*                                                                         *)
(* Grain.  What runs under SInvalLock is one action.  A backend's exit     *)
(* clears its slot without the lock, store by store, and so may fall into  *)
(* the middle of another backend's critical section: see Section.          *)
(*                                                                         *)
(* The segment is one record, seg; each C routine that edits it is an      *)
(* operator from seg to seg.  Entries are numbered 0, 1, ...; the code     *)
(* keeps their byte offsets.  The isfree marks are written and never read, *)
(* and are left out.                                                       *)
(***************************************************************************)
EXTENDS Integers, Sequences, FiniteSets

CONSTANTS
  Backend,       \* the backends, each with the tag the postmaster gave it
  NoTag,         \* InvalidBackendTag
  Msg,           \* messages
  MaxBackendId,  \* number of slots
  MaxMessages,   \* MAXNUMMESSAGES
  Reset,         \* the call of resetFunction
  MaxCrash       \* bound: backends killed without running exitpg

ASSUME SInvalAssumption ==
  /\ NoTag \notin Backend
  /\ MaxBackendId \in Nat \ {0}
  /\ MaxMessages \in Nat \ {0}
  /\ MaxCrash \in Nat

VARIABLES
  seg,   \* the shared segment
  pc,    \* out, up, at one of the stores of an exit, or killed
  id,    \* MyBackendId, 0 for none
  got    \* what the last step passed to invalFunction or resetFunction

vars == <<seg, pc, id, got>>

Slot == 1 .. MaxBackendId
Entry == 0 .. MaxMessages - 1
InvalidOffset == -1

PC == {"out", "up", "exitReset", "exitLimit", "exitTag", "killed"}

Seg == [startFree  : Entry \cup {InvalidOffset},
        startChain : Entry \cup {InvalidOffset},
        endChain   : Entry \cup {InvalidOffset},
        num        : 0 .. MaxMessages,
        next       : [Entry -> Entry \cup {InvalidOffset}],
        data       : [Entry -> Msg \cup {NoTag}],
        limit      : [Slot -> -1 .. MaxMessages],
        reset      : [Slot -> BOOLEAN],
        tag        : [Slot -> Backend \cup {NoTag}]]

-----------------------------------------------------------------------------
(* The chain of messages.                                                  *)

\* The entries passed from e on, InvalidOffset once the chain has ended.
Walk(S, e) ==
  LET w[k \in 0 .. MaxMessages] ==
        IF k = 0 THEN e
        ELSE IF w[k - 1] = InvalidOffset THEN InvalidOffset
        ELSE S.next[w[k - 1]]
  IN  w

\* The chain from e on, as a sequence of entries.
Chain(S, e) ==
  LET w == Walk(S, e)
      n == Cardinality({k \in 0 .. MaxMessages - 1 : w[k] # InvalidOffset})
  IN  [i \in 1 .. n |-> w[i - 1]]

\* SIGetNthDataEntry of limit + 1, and the loop of SIReadEntryData from there.
Unread(S, s) ==
  IF S.limit[s] < 0 THEN <<>>
  ELSE LET c == Chain(S, Walk(S, S.startChain)[S.limit[s]])
       IN  [i \in 1 .. Len(c) |-> S.data[c[i]]]

\* Put m at the end of the chain; only called with a free entry left.
SISetDataEntry(S, m) ==
  LET e == S.startFree
      linked == IF S.endChain = InvalidOffset THEN S.next
                ELSE [S.next EXCEPT ![S.endChain] = e]
  IN  [S EXCEPT !.num = S.num + 1,
                !.startFree = S.next[e],
                !.data = [S.data EXCEPT ![e] = m],
                !.next = [linked EXCEPT ![e] = InvalidOffset],
                !.startChain = IF S.endChain = InvalidOffset THEN e
                               ELSE S.startChain,
                !.endChain = e]

\* Mutant: the limits of slots that no backend has are counted down too.
SIDecProcLimit_Mutant(S) ==
  [S EXCEPT !.limit = [s \in Slot |-> IF S.limit[s] # 0 THEN S.limit[s] - 1 ELSE 0]]

\* The first message is gone: everybody has read one fewer.  A limit of 0
\* stays, a negative one belongs to no backend.
SIDecProcLimit(S) ==
  [S EXCEPT !.limit = [s \in Slot |-> IF S.limit[s] > 0 THEN S.limit[s] - 1
                                      ELSE S.limit[s]]]

\* Mutant: the end of the chain is forgotten when the chain empties.
SIDelDataEntry_Mutant(S) ==
  LET e == S.startChain
  IN  SIDecProcLimit([S EXCEPT !.num = S.num - 1,
                               !.startChain = S.next[e],
                               !.next = [S.next EXCEPT ![e] = S.startFree],
                               !.startFree = e])

\* Free the first entry of a chain that is not empty.
SIDelDataEntry(S) ==
  LET e == S.startChain
  IN  SIDecProcLimit([S EXCEPT !.num = S.num - 1,
                               !.startChain = S.next[e],
                               !.endChain = IF S.next[e] = InvalidOffset
                                            THEN InvalidOffset ELSE S.endChain,
                               !.next = [S.next EXCEPT ![e] = S.startFree],
                               !.startFree = e])

\* Mutant: the backends that have read everything are marked.
SISetProcStateInvalid_Mutant(S) ==
  [S EXCEPT !.reset = [s \in Slot |-> S.reset[s] \/ S.limit[s] = S.num]]

\* Whoever has not read the first message, about to be dropped, must reset.
SISetProcStateInvalid(S) ==
  [S EXCEPT !.reset = [s \in Slot |-> S.reset[s] \/ S.limit[s] = 0]]

\* Remove the messages that every active backend has read.
SIDelExpiredDataEntries(S) ==
  LET active == {S.limit[s] : s \in {s \in Slot : S.limit[s] >= 0}}
      del[k \in 0 .. MaxMessages] ==
        IF k = 0 THEN S ELSE SIDelDataEntry(del[k - 1])
  IN  IF active = {} THEN S
      ELSE del[CHOOSE min \in active : \A l \in active : min <= l]

-----------------------------------------------------------------------------
(* Critical sections against a concurrent exit.                            *)

\* Backends whose store of limit = -1 may fall between a test or load and a
\* store of SIDecProcLimit, in a section that leads to S.
Racing(S) == {b \in Backend : /\ pc[b] = "exitLimit"
                              /\ S.limit[id[b]] # seg.limit[id[b]]}

\* The section leads to S.  A store that falls into SIDecProcLimit is either
\* overwritten with the old limit less one, or is itself decremented, found
\* negative, and set to 0.
Section(S) ==
  \E R \in SUBSET Racing(S) : \E Z \in SUBSET R :
    /\ seg' = [S EXCEPT !.limit = [s \in Slot |->
                 IF \E b \in Z : id[b] = s THEN 0 ELSE S.limit[s]]]
    /\ pc' = [b \in Backend |-> IF b \in R THEN "exitTag" ELSE pc[b]]
    /\ UNCHANGED id

-----------------------------------------------------------------------------
(* What backends do.                                                       *)

\* InitSharedInvalidationState, with a slot left: SIAssignBackendId takes the
\* first slot without a tag (no one else has ours), SISetActiveProcess marks
\* all messages read.  Without a slot the backend exits.
InitSharedInvalidationState(b) ==
  /\ pc[b] = "out"
  /\ \E s \in Slot :
       /\ seg.tag[s] = NoTag
       /\ \A r \in 1 .. s - 1 : seg.tag[r] # NoTag
       /\ seg' = [seg EXCEPT !.tag = [seg.tag EXCEPT ![s] = b],
                             !.reset = [seg.reset EXCEPT ![s] = FALSE],
                             !.limit = [seg.limit EXCEPT ![s] = seg.num]]
       /\ id' = [id EXCEPT ![b] = s]
  /\ pc' = [pc EXCEPT ![b] = "up"]
  /\ got' = <<>>

Full(S) == S.num = MaxMessages

RegisterSharedInvalid(b, m) ==
  /\ pc[b] = "up"
  /\ Section(SISetDataEntry(IF Full(seg)
                            THEN SIDelDataEntry(SISetProcStateInvalid(seg))
                            ELSE seg, m))
  /\ got' = <<>>

\* SIReadEntryData.
SIReadEntryData(S, s) ==
  [S EXCEPT !.reset = [S.reset EXCEPT ![s] = FALSE],
            !.limit = [S.limit EXCEPT ![s] =
                         IF S.reset[s] THEN S.num
                         ELSE S.limit[s] + Len(Unread(S, s))]]

InvalidateSharedInvalid(b) ==
  /\ pc[b] = "up"
  /\ Section(SIDelExpiredDataEntries(SIReadEntryData(seg, id[b])))
  /\ got' = <<b, IF seg.reset[id[b]] THEN Reset ELSE Unread(seg, id[b])>>

\* exitpg: CleanupInvalidationState calls SISetDeadProcess, without SInvalLock.
Exit(b) ==
  /\ pc[b] = "up"
  /\ pc' = [pc EXCEPT ![b] = "exitReset"]
  /\ got' = <<>> /\ UNCHANGED <<seg, id>>

\* Mutant: the tag is cleared before the limit.
SISetDeadProcess_Mutant(b) ==
  \/ /\ pc[b] = "exitReset"
     /\ seg' = [seg EXCEPT !.reset = [seg.reset EXCEPT ![id[b]] = FALSE],
                           !.tag = [seg.tag EXCEPT ![id[b]] = NoTag]]
     /\ pc' = [pc EXCEPT ![b] = "exitLimit"]
     /\ UNCHANGED <<id, got>>
  \/ /\ pc[b] = "exitLimit"
     /\ seg' = [seg EXCEPT !.limit = [seg.limit EXCEPT ![id[b]] = -1]]
     /\ pc' = [pc EXCEPT ![b] = "out"]
     /\ id' = [id EXCEPT ![b] = 0]
     /\ UNCHANGED got

\* Its three stores.
SISetDeadProcess(b) ==
  \/ /\ pc[b] = "exitReset"
     /\ seg' = [seg EXCEPT !.reset = [seg.reset EXCEPT ![id[b]] = FALSE]]
     /\ pc' = [pc EXCEPT ![b] = "exitLimit"]
     /\ UNCHANGED <<id, got>>
  \/ /\ pc[b] = "exitLimit"
     /\ seg' = [seg EXCEPT !.limit = [seg.limit EXCEPT ![id[b]] = -1]]
     /\ pc' = [pc EXCEPT ![b] = "exitTag"]
     /\ UNCHANGED <<id, got>>
  \/ /\ pc[b] = "exitTag"
     /\ seg' = [seg EXCEPT !.tag = [seg.tag EXCEPT ![id[b]] = NoTag]]
     /\ pc' = [pc EXCEPT ![b] = "out"]
     /\ id' = [id EXCEPT ![b] = 0]
     /\ UNCHANGED got

\* A backend is killed outside the critical sections: its slot stays.
Kill(b) ==
  /\ pc[b] = "up"
  /\ Cardinality({c \in Backend : pc[c] = "killed"}) < MaxCrash
  /\ pc' = [pc EXCEPT ![b] = "killed"]
  /\ got' = <<>> /\ UNCHANGED <<seg, id>>

-----------------------------------------------------------------------------
\* SISegInit.
SISegInit ==
  [startFree |-> 0, startChain |-> InvalidOffset, endChain |-> InvalidOffset,
   num   |-> 0,
   next  |-> [e \in Entry |-> IF e = MaxMessages - 1 THEN InvalidOffset
                              ELSE e + 1],
   data  |-> [e \in Entry |-> NoTag],
   limit |-> [s \in Slot |-> -1],
   reset |-> [s \in Slot |-> FALSE],
   tag   |-> [s \in Slot |-> NoTag]]

Init ==
  /\ seg = SISegInit
  /\ pc = [b \in Backend |-> "out"]
  /\ id = [b \in Backend |-> 0]
  /\ got = <<>>

Next ==
  \E b \in Backend :
    \/ InitSharedInvalidationState(b)
    \/ \E m \in Msg : RegisterSharedInvalid(b, m)
    \/ InvalidateSharedInvalid(b)
    \/ Exit(b) \/ SISetDeadProcess(b)
    \/ Kill(b)

Spec == Init /\ [][Next]_vars

-----------------------------------------------------------------------------
(* What invalidation promises.                                             *)

\* Every variable stays in its type: no offset leaves the entries, no count
\* the segment.
TypeOK ==
  /\ seg \in Seg
  /\ pc \in [Backend -> PC]
  /\ id \in [Backend -> Slot \cup {0}]

\* sinvaladt.c:600: a backend that reads has its tag in its slot; and it is
\* not deaf: an exit that cleared the slot behind its back would have left it
\* a negative limit, and SIReadEntryData would find nothing for it, for ever.
SlotOwned ==
  \A b \in Backend : pc[b] = "up" =>
    seg.tag[id[b]] = b /\ seg.limit[id[b]] >= 0

\* The chain of messages has as many entries as numEntries says and ends at
\* endEntryChain, the chain of free entries has the rest, and together they
\* are all there are: no entry is lost or in both.
ChainsWhole ==
  LET used == Chain(seg, seg.startChain)
      free == Chain(seg, seg.startFree)
      set(c) == {c[i] : i \in 1 .. Len(c)}
  IN  /\ Len(used) = seg.num /\ Len(free) = MaxMessages - seg.num
      /\ set(used) \cup set(free) = Entry
      /\ seg.endChain = (IF used = <<>> THEN InvalidOffset ELSE used[Len(used)])

\* To the backends the one chain is a queue for each of them, as InvalBus
\* says: every message reaches every backend attached when it was registered,
\* once and in order, unless that backend had fallen MaxMessages behind, and
\* then it is told to reset.  Expiry, overflow, other backends' exits and
\* kills, and reuse of slots do not show.
Up == {b \in Backend : pc[b] = "up"}

Bus == INSTANCE InvalBus WITH
  up <- Up,
  overrun <- {b \in Up : seg.reset[id[b]]},
  inbox <- [b \in Backend |-> IF b \in Up /\ ~seg.reset[id[b]]
                              THEN Unread(seg, id[b]) ELSE <<>>]

Delivers == Bus!Spec
=============================================================================
