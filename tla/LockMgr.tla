------------------------------ MODULE LockMgr ------------------------------
(***************************************************************************)
(* The lock manager (backend/storage/lmgr/lock.c) with the process queues  *)
(* it sleeps on (proc.c).  Transactions lock tags in one of several types; *)
(* a request that conflicts with another transaction's locks sleeps on the *)
(* tag's queue until a release grants it and wakes the sleeper.            *)
(*                                                                         *)
(* Grain.  What runs under LockMgrLock is one action, except that a        *)
(* release keeps the lock and grants one waiter per step.  A sleeper's     *)
(* semaphore operation is an action, and so is the timer that may kill it: *)
(* SIGALRM has no handler (proc.c:161).                                    *)
(*                                                                         *)
(* A backend runs one transaction at a time, and at its end all its locks  *)
(* go, so the backend stands for its transaction id.  A tag or entry that  *)
(* is not in its hash table has the value a new one starts with.           *)
(* lock->holders is written and never read, and is left out.               *)
(***************************************************************************)
EXTENDS Integers, Sequences, FiniteSets

CONSTANTS
  Proc, NoProc,   \* backends; nobody
  Tag, NoTag,     \* things to lock; nothing
  LockT,          \* lock types
  ConflictTab,    \* which types conflict with each
  Prio,           \* priority of each
  Asked,          \* the types clients ask for
  MaxHold,        \* bound: locks of a transaction on one tag
  MaxTimeout      \* bound: backends the timer kills

ASSUME LockAssumption ==
  /\ IsFiniteSet(Proc) /\ NoProc \notin Proc
  /\ NoTag \notin Tag
  /\ LockT \subseteq Nat /\ 0 \notin LockT /\ Asked \subseteq LockT
  /\ ConflictTab \in [LockT -> SUBSET LockT]
  /\ \A i, j \in LockT : j \in ConflictTab[i] => i \in ConflictTab[j]
  /\ Prio \in [LockT -> Nat]
  /\ MaxHold \in Nat /\ MaxTimeout \in Nat

VARIABLES
  lock,        \* the lock table
  xid,         \* the xid table: what each transaction has on each tag
  masterLock,  \* the backend that keeps LockMgrLock from step to step
  cur,         \* the tag it is waking waiters of
  pc,          \* where each backend is
  waitLock,    \* the tag it sleeps on
  token,       \* and the type it wants, 0 for none
  sem          \* its semaphore

vars == <<lock, xid, masterLock, cur, pc, waitLock, token, sem>>

PC == {"run", "asleep", "woken", "wakeup", "releaseAll", "wakeupAll", "killed"}

LOCK == [nHolding : Nat, nActive : Nat, activeHolders : [LockT -> Nat],
         mask : SUBSET LockT, waitProcs : Seq(Proc)]

XIDLookupEnt == [nHolding : Nat, holders : [LockT -> Nat]]

NewLock == [nHolding |-> 0, nActive |-> 0,
            activeHolders |-> [k \in LockT |-> 0],
            mask |-> {}, waitProcs |-> <<>>]

NewEnt == [nHolding |-> 0, holders |-> [k \in LockT |-> 0]]

LockFree == masterLock = NoProc

-----------------------------------------------------------------------------
(* Counts and conflicts.                                                   *)

GrantLock(L, k) ==
  [nHolding |-> L.nHolding,
   nActive |-> L.nActive + 1,
   activeHolders |-> [L.activeHolders EXCEPT ![k] = L.activeHolders[k] + 1],
   mask |-> L.mask \cup {k},
   waitProcs |-> L.waitProcs]

Credit(E, k) ==
  [nHolding |-> E.nHolding + 1,
   holders |-> [E.holders EXCEPT ![k] = E.holders[k] + 1]]

Repay(E, k) ==
  [nHolding |-> E.nHolding - 1,
   holders |-> [E.holders EXCEPT ![k] = E.holders[k] - 1]]

SetEnt(X, p, t, E) == [X EXCEPT ![p] = [X[p] EXCEPT ![t] = E]]

\* Mutant: one's own locks are not taken off the counts first.
LockResolveConflicts_Mutant(L, E, k) == ConflictTab[k] \cap L.mask = {}

\* Nothing on the tag conflicts, or only one's own locks do.
LockResolveConflicts(L, E, k) ==
  \/ ConflictTab[k] \cap L.mask = {}
  \/ \A i \in ConflictTab[k] : L.activeHolders[i] - E.holders[i] = 0

\* Mutant: a transaction that has some lock on the tag gets any other.
Grantable_Mutant(L, E, k) ==
  E.nHolding > 0 \/ L.nActive = 0 \/ LockResolveConflicts(L, E, k)

\* LockAcquire first looks whether all the locks on the tag are one's own.
Grantable(L, E, k) == E.nHolding = L.nActive \/ LockResolveConflicts(L, E, k)

-----------------------------------------------------------------------------
(* LockAcquire.                                                            *)

\* A client's request: it runs, and LockMgrLock is free.
Ask(p, t, k) ==
  /\ pc[p] = "run" /\ LockFree
  /\ k \in Asked /\ xid[p][t].nHolding < MaxHold

Requested(L) == [L EXCEPT !.nHolding = L.nHolding + 1]
SetQueue(L, w) == [L EXCEPT !.waitProcs = w]

LockAcquire(p, t, k) ==
  /\ Ask(p, t, k)
  /\ Grantable(lock[t], xid[p][t], k)
  /\ lock' = [lock EXCEPT ![t] = GrantLock(Requested(lock[t]), k)]
  /\ xid' = SetEnt(xid, p, t, Credit(xid[p][t], k))
  /\ UNCHANGED <<masterLock, cur, pc, waitLock, token, sem>>

\* ProcSleep passes the waiters whose priority is lower.  Nobody stores the
\* priority of a waiting backend: proc->prio is 0 in all of them.
ProcPrio == 0

\* Mutant: the comparison is the other way round.
Enqueue_Mutant(q, p, k) == IF Prio[k] < ProcPrio THEN Append(q, p) ELSE <<p>> \o q

Enqueue(q, p, k) == IF ProcPrio < Prio[k] THEN Append(q, p) ELSE <<p>> \o q

\* Mutant: the sleeper is left out of the count of requests.
WaitOnLock_Mutant(p, t, k) ==
  /\ Ask(p, t, k)
  /\ ~Grantable(lock[t], xid[p][t], k)
  /\ lock' = [lock EXCEPT ![t] = SetQueue(
                lock[t], Enqueue(lock[t].waitProcs, p, k))]
  /\ pc' = [pc EXCEPT ![p] = "asleep"]
  /\ waitLock' = [waitLock EXCEPT ![p] = t]
  /\ token' = [token EXCEPT ![p] = k]
  /\ UNCHANGED <<xid, masterLock, cur, sem>>

WaitOnLock(p, t, k) ==
  /\ Ask(p, t, k)
  /\ ~Grantable(lock[t], xid[p][t], k)
  /\ lock' = [lock EXCEPT ![t] = SetQueue(
                Requested(lock[t]), Enqueue(lock[t].waitProcs, p, k))]
  /\ pc' = [pc EXCEPT ![p] = "asleep"]
  /\ waitLock' = [waitLock EXCEPT ![p] = t]
  /\ token' = [token EXCEPT ![p] = k]
  /\ UNCHANGED <<xid, masterLock, cur, sem>>

\* IpcSemaphoreLock returns.
Awake(p) ==
  /\ pc[p] = "asleep" /\ sem[p] > 0
  /\ sem' = [sem EXCEPT ![p] = sem[p] - 1]
  /\ pc' = [pc EXCEPT ![p] = "woken"]
  /\ UNCHANGED <<lock, xid, masterLock, cur, waitLock, token>>

\* The timer is off; LockMgrLock is taken and released.
Resume(p) ==
  /\ pc[p] = "woken" /\ LockFree
  /\ pc' = [pc EXCEPT ![p] = "run"]
  /\ waitLock' = [waitLock EXCEPT ![p] = NoTag]
  /\ token' = [token EXCEPT ![p] = 0]
  /\ UNCHANGED <<lock, xid, masterLock, cur, sem>>

\* DEADLOCK_TIMEOUT passes before the timer is off: SIGALRM kills the backend.
Timeout(p) ==
  /\ pc[p] \in {"asleep", "woken"}
  /\ Cardinality({q \in Proc : pc[q] = "killed"}) < MaxTimeout
  /\ pc' = [pc EXCEPT ![p] = "killed"]
  /\ UNCHANGED <<lock, xid, masterLock, cur, waitLock, token, sem>>

-----------------------------------------------------------------------------
(* Releases.                                                               *)

\* Take the locks an entry counts off a lock.
Debit(L, h, n) ==
  LET ah == [k \in LockT |-> L.activeHolders[k] - h[k]]
  IN  [nHolding |-> L.nHolding - n,
       nActive |-> L.nActive - n,
       activeHolders |-> ah,
       mask |-> {k \in L.mask : ah[k] # 0},
       waitProcs |-> L.waitProcs]

One(k) == [i \in LockT |-> IF i = k THEN 1 ELSE 0]

\* Callers release what they hold.  The last request gone, the lock leaves the
\* table; otherwise its waiters are looked at.
LockRelease(p, t, k) ==
  LET L == Debit(lock[t], One(k), 1)
      E == xid[p][t]
  IN  /\ pc[p] = "run" /\ LockFree
      /\ E.holders[k] > 0
      /\ xid' = SetEnt(xid, p, t, Repay(E, k))
      /\ lock' = [lock EXCEPT ![t] = IF L.nHolding = 0 THEN NewLock ELSE L]
      /\ IF L.nHolding = 0
         THEN UNCHANGED <<masterLock, cur, pc>>
         ELSE /\ masterLock' = p /\ cur' = t
              /\ pc' = [pc EXCEPT ![p] = "wakeup"]
      /\ UNCHANGED <<waitLock, token, sem>>

\* LockReleaseAll, from ProcReleaseLocks or ProcKill: a loop over the entries.
LockReleaseAll(p) ==
  /\ pc[p] = "run" /\ LockFree
  /\ \E t \in Tag : xid[p][t].nHolding > 0
  /\ masterLock' = p
  /\ pc' = [pc EXCEPT ![p] = "releaseAll"]
  /\ UNCHANGED <<lock, xid, cur, waitLock, token, sem>>

ReleaseEntry(p, t) ==
  LET L == lock[t]
      E == xid[p][t]
  IN  /\ pc[p] = "releaseAll" /\ E.nHolding > 0
      /\ xid' = SetEnt(xid, p, t, NewEnt)
      /\ \/ /\ L.nHolding = E.nHolding
            /\ lock' = [lock EXCEPT ![t] = NewLock]
            /\ UNCHANGED <<cur, pc>>
         \/ /\ L.nHolding # E.nHolding
            /\ lock' = [lock EXCEPT ![t] = Debit(L, E.holders, E.nHolding)]
            /\ cur' = t
            /\ pc' = [pc EXCEPT ![p] = "wakeupAll"]
      /\ UNCHANGED <<masterLock, waitLock, token, sem>>

ReleaseAllDone(p) ==
  /\ pc[p] = "releaseAll"
  /\ \A t \in Tag : xid[p][t].nHolding = 0
  /\ masterLock' = NoProc
  /\ pc' = [pc EXCEPT ![p] = "run"]
  /\ UNCHANGED <<lock, xid, cur, waitLock, token, sem>>

\* ProcLockWakeup: the first waiter gets its lock if nothing is in its way.
FirstMayHave ==
  LET q == lock[cur].waitProcs
  IN  q # <<>> /\ LockResolveConflicts(lock[cur], xid[q[1]][cur], token[q[1]])

\* Mutant: the semaphore of the waiter is not touched.
ProcWakeup_Mutant(p) ==
  LET q == lock[cur].waitProcs[1]
  IN  /\ pc[p] \in {"wakeup", "wakeupAll"}
      /\ FirstMayHave
      /\ lock' = [lock EXCEPT ![cur] = SetQueue(
                    GrantLock(lock[cur], token[q]), Tail(lock[cur].waitProcs))]
      /\ xid' = SetEnt(xid, q, cur, Credit(xid[q][cur], token[q]))
      /\ UNCHANGED <<masterLock, cur, pc, waitLock, token, sem>>

\* Grant it, take the waiter off the queue, release its semaphore.
ProcWakeup(p) ==
  LET q == lock[cur].waitProcs[1]
  IN  /\ pc[p] \in {"wakeup", "wakeupAll"}
      /\ FirstMayHave
      /\ lock' = [lock EXCEPT ![cur] = SetQueue(
                    GrantLock(lock[cur], token[q]), Tail(lock[cur].waitProcs))]
      /\ xid' = SetEnt(xid, q, cur, Credit(xid[q][cur], token[q]))
      /\ sem' = [sem EXCEPT ![q] = sem[q] + 1]
      /\ UNCHANGED <<masterLock, cur, pc, waitLock, token>>

\* The first waiter must go on sleeping, or there is none.
WakeupDone(p) ==
  /\ pc[p] \in {"wakeup", "wakeupAll"}
  /\ ~FirstMayHave
  /\ cur' = NoTag
  /\ masterLock' = IF pc[p] = "wakeup" THEN NoProc ELSE masterLock
  /\ pc' = [pc EXCEPT ![p] = IF pc[p] = "wakeup" THEN "run" ELSE "releaseAll"]
  /\ UNCHANGED <<lock, xid, waitLock, token, sem>>

-----------------------------------------------------------------------------
Init ==
  /\ lock = [t \in Tag |-> NewLock]
  /\ xid = [p \in Proc |-> [t \in Tag |-> NewEnt]]
  /\ masterLock = NoProc
  /\ cur = NoTag
  /\ pc = [p \in Proc |-> "run"]
  /\ waitLock = [p \in Proc |-> NoTag]
  /\ token = [p \in Proc |-> 0]
  /\ sem = [p \in Proc |-> 0]

\* Steps that need no client: a release under way, a wakeup.
Progress(p) ==
  \/ Awake(p) \/ Resume(p)
  \/ \E t \in Tag : ReleaseEntry(p, t)
  \/ ReleaseAllDone(p) \/ ProcWakeup(p) \/ WakeupDone(p)

Next ==
  \E p \in Proc :
    \/ \E t \in Tag, k \in LockT : \/ LockAcquire(p, t, k)
                                   \/ WaitOnLock(p, t, k)
                                   \/ LockRelease(p, t, k)
    \/ LockReleaseAll(p)
    \/ Progress(p)
    \/ Timeout(p)

Spec == Init /\ [][Next]_vars

\* Backends keep running, a contender for LockMgrLock gets it in the end
\* (s_lock spins), and every transaction ends.
FairSpec ==
  Spec /\ \A p \in Proc : SF_vars(Progress(p)) /\ SF_vars(LockReleaseAll(p))

-----------------------------------------------------------------------------
(* What the lock manager promises.                                         *)

\* Every variable stays in its type.
TypeOK ==
  /\ lock \in [Tag -> LOCK]
  /\ xid \in [Proc -> [Tag -> XIDLookupEnt]]
  /\ masterLock \in Proc \cup {NoProc}
  /\ cur \in Tag \cup {NoTag}
  /\ pc \in [Proc -> PC]
  /\ waitLock \in [Proc -> Tag \cup {NoTag}]
  /\ token \in [Proc -> LockT \cup {0}]
  /\ sem \in [Proc -> Nat]

Holds(p, t, k) == xid[p][t].holders[k] > 0

\* Two transactions never hold conflicting locks on one tag.
NoConflict ==
  \A p, q \in Proc, t \in Tag, i, j \in LockT :
    p # q /\ Holds(p, t, i) /\ Holds(q, t, j) => j \notin ConflictTab[i]

\* The locks on a tag, one by one: who has it, of what type, and a number.
Holdings(X, t) ==
  UNION {UNION {{<<p, k, n>> : n \in 1 .. X[p][t].holders[k]} : k \in LockT} :
           p \in Proc}

ByType(S, k) == {u \in S : u[2] = k}
ByProc(S, p) == {u \in S : u[1] = p}

\* The counts of a lock and of the entries for it are the numbers of locks they
\* stand for, and the mask names the types held.
Counted(L, X, t) ==
  LET H == Holdings(X, t)
  IN  /\ L.nActive = Cardinality(H)
      /\ \A k \in LockT : L.activeHolders[k] = Cardinality(ByType(H, k))
      /\ \A p \in Proc : X[p][t].nHolding = Cardinality(ByProc(H, p))
      /\ L.mask = {k \in LockT : ByType(H, k) # {}}

\* And what is requested is what is held or waited for; so a lock leaves the
\* table exactly when nobody holds or awaits it.
CountsAgree ==
  \A t \in Tag :
    /\ Counted(lock[t], xid, t)
    /\ lock[t].nHolding = lock[t].nActive + Len(lock[t].waitProcs)

InQueue(w, p) == \E i \in 1 .. Len(w) : w[i] = p
Distinct(w) == \A i, j \in 1 .. Len(w) : w[i] = w[j] => i = j
Queued(p, t) == InQueue(lock[t].waitProcs, p)

\* No wakeup is lost: a sleeper is in the queue of the tag it wants, once, and
\* nowhere else, or its semaphore is up and it has its lock; and nobody's
\* semaphore is up who has left or never slept.
SleepersKnown ==
  /\ \A t \in Tag : Distinct(lock[t].waitProcs)
  /\ \A p \in Proc :
       /\ pc[p] = "asleep" =>
            /\ waitLock[p] \in Tag /\ token[p] \in LockT
            /\ \/ sem[p] = 0 /\ Queued(p, waitLock[p])
               \/ sem[p] = 1 /\ Holds(p, waitLock[p], token[p])
       /\ pc[p] \notin {"asleep", "killed"} => sem[p] = 0
       /\ \A t \in Tag : Queued(p, t) =>
            /\ pc[p] \in {"asleep", "killed"}
            /\ waitLock[p] = t /\ token[p] \in LockT /\ sem[p] = 0

\* Somebody else has a lock on the tag that keeps p from having type k.
Blocked(p, t, k) ==
  \E q \in Proc \ {p}, i \in ConflictTab[k] : Holds(q, t, i)

\* Nobody sleeps for nothing: whoever is first in a queue is in conflict with
\* a lock that another transaction holds now, unless a release is just looking
\* at that queue.
FirstIsBlocked ==
  \A t \in Tag :
    LET w == lock[t].waitProcs
    IN  w # <<>> /\ cur # t => Blocked(w[1], t, token[w[1]])

\* Every sleeper is served in the end, when all transactions end.
WaitersServed == \A p \in Proc : pc[p] = "asleep" ~> pc[p] # "asleep"
=============================================================================
