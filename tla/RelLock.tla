------------------------------- MODULE RelLock -------------------------------
(***************************************************************************)
(* Locks on a relation, its pages and its tuples (backend/storage/lmgr:    *)
(* lmgr.c, multi.c, single.c).  A lock on a page or a tuple is preceded by *)
(* intent locks above it; the lock information of a relation remembers     *)
(* what the transaction has locked, to spare calls of the lock manager.    *)
(*                                                                         *)
(* The lock table is that of LockMgr: a lock is granted when no other      *)
(* transaction holds one that conflicts on the tag (NoConflict); until     *)
(* then the caller waits.  Deadlocks are left to it.                       *)
(*                                                                         *)
(* Grain.  A step is one call of LockAcquire or LockRelease; a call of     *)
(* multi.c is a list of them, kept in todo.                                *)
(***************************************************************************)
EXTENDS Integers, Sequences, FiniteSets, MultiLevel

CONSTANTS
  Proc,
  Block,                 \* blocks of the relation
  Tuple,                 \* tuples: positions within a block
  Rel,                   \* the tag of the relation itself
  TupleLevelLockLimit,   \* tuple locks before the relation is locked
  AtOpen,                \* whether opening a relation sets up its lock
                         \* information (heap_create does)
  MaxHold                \* bound: locks of one type of a process on a tag

ASSUME RelLockAssumption ==
  /\ TupleLevelLockLimit \in Nat /\ MaxHold \in Nat \ {0}
  /\ AtOpen \in BOOLEAN
  /\ Rel \notin Block /\ Rel \notin Block \X Tuple
  /\ Block \cap (Block \X Tuple) = {}

VARIABLES
  held,   \* process, tag, type -> locks held
  todo,   \* process -> calls of the lock manager still to make
  info,   \* process -> the LockInfo of its relation descriptor
  set,    \* process -> <<tag, type>> it has set and may yet unset
  read    \* process -> tuples its transaction was given to read

vars == <<held, todo, info, set, read>>

Tag == {Rel} \cup Block \cup (Block \X Tuple)

\* The tags above one, the relation first.
Above(t) == IF t = Rel THEN <<>> ELSE IF t \in Block THEN <<Rel>>
            ELSE <<Rel, t[1]>>

INTENT == 2

-----------------------------------------------------------------------------
(* multi.c.                                                                *)

\* Mutant: a tuple lock sets an intent on the relation only.
MultiAcquire_Mutant(t, k) ==
  (IF t = Rel THEN <<>>
   ELSE <<[op |-> "acquire", tag |-> Rel, type |-> k + INTENT]>>)
  \o <<[op |-> "acquire", tag |-> t, type |-> k]>>

\* MultiAcquire: intents from the highest level down, then the lock.
MultiAcquire(t, k) ==
  [i \in 1 .. Len(Above(t)) |->
     [op |-> "acquire", tag |-> Above(t)[i], type |-> k + INTENT]]
  \o <<[op |-> "acquire", tag |-> t, type |-> k]>>

\* MultiRelease: the same locks, from the lowest level up.
MultiRelease(t, k) ==
  LET a == MultiAcquire(t, k)
      n == Len(a)
  IN  [i \in 1 .. n |-> [a[n + 1 - i] EXCEPT !.op = "release"]]

\* single.c: one lock, no intents.
SingleLock(t, k, op) == <<[op |-> op, tag |-> t, type |-> k]>>

-----------------------------------------------------------------------------
(* The lock information.  mine: transactionIdData is the current           *)
(* transaction; readRel and readTuple: the flags ReadRelationLock and      *)
(* ReadTupleLock; count: the tuple locks counted in the flags.             *)

RelationInitLockInfo ==
  [valid |-> TRUE, mine |-> TRUE, readRel |-> FALSE, readTuple |-> FALSE,
   count |-> 0]

NoInfo == [RelationInitLockInfo EXCEPT !.valid = FALSE, !.mine = FALSE]

Initialized(p) == IF info[p].valid THEN info[p] ELSE RelationInitLockInfo

\* Mutant: the escalation notes a lock on the relation in flags that outlive
\* the transaction.
TupleRead_Mutant(I, t) ==
  IF I.readRel /\ I.mine
  THEN [info |-> I, calls |-> <<>>]
  ELSE IF ~ (I.readTuple /\ I.mine)
  THEN [info |-> [I EXCEPT !.readTuple = TRUE, !.count = 0, !.mine = TRUE],
        calls |-> MultiAcquire(t, READ_LOCK)]
  ELSE IF I.count = TupleLevelLockLimit
  THEN [info |-> [I EXCEPT !.count = 0, !.readRel = TRUE],
        calls |-> MultiAcquire(Rel, READ_LOCK)]
  ELSE [info |-> [I EXCEPT !.count = @ + 1],
        calls |-> MultiAcquire(t, READ_LOCK)]

\* RelationSetLockForTupleRead on an info that is valid: what it becomes, and
\* what is asked of the lock manager.
TupleRead(I, t) ==
  IF I.readRel /\ I.mine
  THEN [info |-> I, calls |-> <<>>]
  ELSE IF ~ (I.readTuple /\ I.mine)
  THEN [info |-> [I EXCEPT !.readTuple = TRUE, !.count = 0, !.mine = TRUE],
        calls |-> MultiAcquire(t, READ_LOCK)]
  ELSE IF I.count = TupleLevelLockLimit
  THEN [info |-> [I EXCEPT !.count = 0],
        calls |-> MultiAcquire(Rel, READ_LOCK)]
  ELSE [info |-> [I EXCEPT !.count = @ + 1],
        calls |-> MultiAcquire(t, READ_LOCK)]

-----------------------------------------------------------------------------
Init ==
  /\ held = [p \in Proc |-> [t \in Tag |-> [k \in LockTypes |-> 0]]]
  /\ todo = [p \in Proc |-> <<>>]
  /\ info = [p \in Proc |-> IF AtOpen THEN [RelationInitLockInfo EXCEPT
                                             !.mine = FALSE]
                            ELSE NoInfo]
  /\ set = [p \in Proc |-> {}]
  /\ read = [p \in Proc |-> {}]

Idle(p) == todo[p] = <<>>
Calls(p, c) == todo' = [todo EXCEPT ![p] = c]
Room(p, t, k) == held[p][t][k] < MaxHold

\* A call that sets a lock which another call unsets.  The flags of a new
\* info are set for a lock on the relation.
SetLock(p, t, k, c) ==
  /\ Idle(p) /\ <<t, k>> \notin set[p]
  /\ \A i \in DOMAIN c : Room(p, c[i].tag, c[i].type)
  /\ Calls(p, c)
  /\ info' = [info EXCEPT ![p] =
       IF info[p].valid THEN @
       ELSE [RelationInitLockInfo EXCEPT
               !.readRel = (t = Rel /\ k = READ_LOCK)]]
  /\ set' = [set EXCEPT ![p] = @ \cup {<<t, k>>}]
  /\ UNCHANGED <<held, read>>

UnsetLock(p, t, k, c) ==
  /\ Idle(p) /\ <<t, k>> \in set[p]
  /\ Calls(p, c)
  /\ set' = [set EXCEPT ![p] = @ \ {<<t, k>>}]
  /\ UNCHANGED <<held, info, read>>

\* RelationSetLockForRead, RelationSetLockForWrite, RelationSetLockForExtend.
RelnLocks == {READ_LOCK, WRITE_LOCK, EXTEND_LOCK}

SetLockReln(p, k) == SetLock(p, Rel, k, MultiAcquire(Rel, k))

UnsetLockReln(p, k) == UnsetLock(p, Rel, k, MultiRelease(Rel, k))

\* RelationSetRIntentLock, RelationSetWIntentLock: k is READ or WRITE.
SetIntentLock(p, k) ==
  SetLock(p, Rel, k + INTENT, SingleLock(Rel, k + INTENT, "acquire"))

\* The pages locked under the intent lock are unlocked first.
UnsetIntentLock(p, k) ==
  /\ \A b \in Block : <<b, k>> \notin set[p]
  /\ UnsetLock(p, Rel, k + INTENT, SingleLock(Rel, k + INTENT, "release"))

\* "Assumes that you already have a write intent lock on the relation."
SetSingleLockPage(p, b, k) ==
  /\ <<Rel, k + INTENT>> \in set[p]
  /\ SetLock(p, b, k, SingleLock(b, k, "acquire"))

UnsetSingleLockPage(p, b, k) ==
  UnsetLock(p, b, k, SingleLock(b, k, "release"))

\* RelationSetLockForWritePage: kept to the end of the transaction.
SetLockForWritePage(p, b) ==
  /\ Idle(p) /\ Room(p, b, WRITE_LOCK) /\ Room(p, Rel, WRITE_INTENT)
  /\ Calls(p, MultiAcquire(b, WRITE_LOCK))
  /\ info' = [info EXCEPT ![p] = Initialized(p)]
  /\ UNCHANGED <<held, set, read>>

SetLockForTupleRead(p, t) ==
  LET r == IF info[p].valid THEN TupleRead(info[p], t)
           ELSE [info |-> [RelationInitLockInfo EXCEPT !.readTuple = TRUE],
                 calls |-> MultiAcquire(t, READ_LOCK)]
  IN  /\ Idle(p)
      /\ \A i \in DOMAIN r.calls : Room(p, r.calls[i].tag, r.calls[i].type)
      /\ Calls(p, r.calls)
      /\ info' = [info EXCEPT ![p] = r.info]
      /\ read' = [read EXCEPT ![p] = @ \cup {t}]
      /\ UNCHANGED <<held, set>>

\* LockReleaseAll at the end of a transaction; the descriptor lives on.
EndTransaction(p) ==
  /\ Idle(p)
  /\ held' = [held EXCEPT ![p] = [t \in Tag |-> [k \in LockTypes |-> 0]]]
  /\ info' = [info EXCEPT ![p].mine = FALSE]
  /\ set' = [set EXCEPT ![p] = {}]
  /\ read' = [read EXCEPT ![p] = {}]
  /\ UNCHANGED todo

\* LockAcquire grants the next lock, or waits.
LockAcquire(p) ==
  LET c == Head(todo[p])
  IN  /\ ~ Idle(p) /\ c.op = "acquire"
      /\ \A q \in Proc \ {p}, k \in MultiConflicts[c.type] :
           held[q][c.tag][k] = 0
      /\ held' = [held EXCEPT ![p][c.tag][c.type] = @ + 1]
      /\ Calls(p, Tail(todo[p]))
      /\ UNCHANGED <<info, set, read>>

LockRelease(p) ==
  LET c == Head(todo[p])
  IN  /\ ~ Idle(p) /\ c.op = "release"
      /\ held' = [held EXCEPT ![p][c.tag][c.type] = @ - 1]
      /\ Calls(p, Tail(todo[p]))
      /\ UNCHANGED <<info, set, read>>

Next ==
  \E p \in Proc :
    \/ LockAcquire(p) \/ LockRelease(p) \/ EndTransaction(p)
    \/ \E k \in RelnLocks : SetLockReln(p, k) \/ UnsetLockReln(p, k)
    \/ \E t \in Block \X Tuple : SetLockForTupleRead(p, t)
    \/ \E b \in Block : SetLockForWritePage(p, b)
    \/ \E k \in {READ_LOCK, WRITE_LOCK} :
         \/ SetIntentLock(p, k) \/ UnsetIntentLock(p, k)
         \/ \E b \in Block :
              SetSingleLockPage(p, b, k) \/ UnsetSingleLockPage(p, b, k)

Spec == Init /\ [][Next]_vars

-----------------------------------------------------------------------------
(* Properties.                                                             *)

TypeOK ==
  /\ held \in [Proc -> [Tag -> [LockTypes -> 0 .. MaxHold]]]
  /\ info \in [Proc -> [valid : BOOLEAN, mine : BOOLEAN, readRel : BOOLEAN,
                        readTuple : BOOLEAN, count : 0 .. TupleLevelLockLimit]]
  /\ \A p \in Proc : Len(todo[p]) <= 3
  /\ set \in [Proc -> SUBSET (Tag \X LockTypes)]
  /\ read \in [Proc -> SUBSET (Block \X Tuple)]

Covers(t, u) == t = u \/ \E i \in DOMAIN Above(u) : Above(u)[i] = t

\* Two transactions never hold locks, one of them to write, on a relation, a
\* page or a tuple and on something inside it: the intent locks above a lock,
\* set from the top and released from the bottom (multi.c:200-209), keep the
\* levels apart though each tag is locked on its own, also while a call is
\* under way.
LevelsExclude ==
  TypeOK /\ \A p, q \in Proc, t, u \in Tag : p # q /\ Covers(t, u) =>
    /\ held[p][t][WRITE_LOCK] > 0 =>
         held[q][u][WRITE_LOCK] = 0 /\ held[q][u][READ_LOCK] = 0
    /\ held[p][t][READ_LOCK] > 0 => held[q][u][WRITE_LOCK] = 0

\* Every tuple a transaction was given to read is read-locked until the
\* transaction ends, by itself or by a lock above it, whether the lock manager
\* was called for it or the lock information said that there was no need to.
ReadsLocked ==
  \A p \in Proc : Idle(p) =>
    \A u \in read[p] : \E t \in Tag :
      Covers(t, u) /\ held[p][t][READ_LOCK] > 0
=============================================================================
