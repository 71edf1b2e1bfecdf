--------------------------- MODULE LockMgr_proofs ---------------------------
(***************************************************************************)
(* Proofs about LockMgr: no two transactions hold conflicting locks, the   *)
(* counts are exact, no wakeup is lost and nobody sleeps for nothing, for  *)
(* any backends, tags, lock types, conflicts that are symmetric, and       *)
(* priorities.                                                             *)
(***************************************************************************)
EXTENDS LockMgr, FiniteSetTheorems, TLAPS

XidTable == [Proc -> [Tag -> XIDLookupEnt]]

ByBoth(S, p, k) == {u \in S : u[1] = p /\ u[2] = k}

-----------------------------------------------------------------------------
(* Counting the members of a set of locks.                                 *)

\* One lock more is counted under its type and its backend and nowhere else.
LEMMA AddOne ==
  ASSUME NEW S, IsFiniteSet(S), NEW p, NEW k, NEW n, <<p, k, n>> \notin S,
         NEW T, T = S \cup {<<p, k, n>>}
  PROVE  /\ IsFiniteSet(T)
         /\ Cardinality(T) = Cardinality(S) + 1
         /\ Cardinality(ByType(T, k)) = Cardinality(ByType(S, k)) + 1
         /\ Cardinality(ByProc(T, p)) = Cardinality(ByProc(S, p)) + 1
         /\ \A j : j # k => ByType(T, j) = ByType(S, j)
         /\ \A q : q # p => ByProc(T, q) = ByProc(S, q)
<1> DEFINE e == <<p, k, n>>
<1>1. /\ ByType(S, k) \subseteq S /\ ByType(T, k) = ByType(S, k) \cup {e}
      /\ ByProc(S, p) \subseteq S /\ ByProc(T, p) = ByProc(S, p) \cup {e}
  BY DEF ByType, ByProc
<1>2. /\ \A j : j # k => ByType(T, j) = ByType(S, j)
      /\ \A q : q # p => ByProc(T, q) = ByProc(S, q)
  BY DEF ByType, ByProc
<1>3. IsFiniteSet(ByType(S, k)) /\ IsFiniteSet(ByProc(S, p))
  BY <1>1, FS_Subset
<1>4. /\ e \notin S /\ e \notin ByType(S, k) /\ e \notin ByProc(S, p)
      /\ T = S \cup {e}
  BY <1>1
<1> HIDE DEF e
<1>5. IsFiniteSet(T) /\ Cardinality(T) = Cardinality(S) + 1
  BY <1>4, FS_AddElement
<1>6. Cardinality(ByType(S, k) \cup {e}) = Cardinality(ByType(S, k)) + 1
  BY <1>3, <1>4, FS_AddElement
<1>7. Cardinality(ByProc(S, p) \cup {e}) = Cardinality(ByProc(S, p)) + 1
  BY <1>3, <1>4, FS_AddElement
<1> QED BY <1>1, <1>2, <1>5, <1>6, <1>7 DEF e

\* A backend's locks are taken away all together.
LEMMA RemoveAll ==
  ASSUME NEW S, IsFiniteSet(S), NEW p, NEW T, T = S \ ByProc(S, p)
  PROVE  /\ IsFiniteSet(T)
         /\ Cardinality(T) = Cardinality(S) - Cardinality(ByProc(S, p))
         /\ ByProc(T, p) = {}
         /\ \A q : q # p => ByProc(T, q) = ByProc(S, q)
<1>1. S \cap ByProc(S, p) = ByProc(S, p) /\ ByProc(T, p) = {}
  BY DEF ByProc
<1>2. \A q : q # p => ByProc(T, q) = ByProc(S, q)
  BY DEF ByProc
<1>3. IsFiniteSet(T) /\ Cardinality(T) = Cardinality(S) - Cardinality(ByProc(S, p))
  <2> DEFINE B == ByProc(S, p)
  <2> HIDE DEF B
  <2>1. IsFiniteSet(S \ B) /\ Cardinality(S \ B) = Cardinality(S) - Cardinality(S \cap B)
    BY FS_Difference
  <2> QED BY <1>1, <2>1 DEF B
<1> QED BY <1>1, <1>2, <1>3

\* And those of one type.
LEMMA RemoveType ==
  ASSUME NEW S, IsFiniteSet(S), NEW p, NEW T, T = S \ ByProc(S, p), NEW k
  PROVE  Cardinality(ByType(T, k)) =
           Cardinality(ByType(S, k)) - Cardinality(ByBoth(S, p, k))
<1>1. /\ ByType(S, k) \subseteq S
      /\ ByType(T, k) = ByType(S, k) \ ByBoth(S, p, k)
      /\ ByType(S, k) \cap ByBoth(S, p, k) = ByBoth(S, p, k)
  BY DEF ByType, ByProc, ByBoth
<1>2. IsFiniteSet(ByType(S, k))
  BY <1>1, FS_Subset
<1> QED BY <1>1, <1>2, FS_Difference

\* What is a lock on a tag.
LEMMA Member ==
  ASSUME NEW X, NEW t
  PROVE  \A u : u \in Holdings(X, t) <=>
           \E p \in Proc, k \in LockT : \E n \in 1 .. X[p][t].holders[k] :
             u = <<p, k, n>>
<1>1. ASSUME NEW u, u \in Holdings(X, t)
      PROVE  \E p \in Proc, k \in LockT : \E n \in 1 .. X[p][t].holders[k] :
               u = <<p, k, n>>
  BY <1>1 DEF Holdings
<1>2. ASSUME NEW p \in Proc, NEW k \in LockT, NEW n \in 1 .. X[p][t].holders[k]
      PROVE  <<p, k, n>> \in Holdings(X, t)
  BY <1>2 DEF Holdings
<1> QED BY <1>1, <1>2, Zenon

\* The locks of one backend and one type are as many as its entry says.
LEMMA BothCount ==
  ASSUME NEW X \in XidTable, NEW t \in Tag, NEW p \in Proc, NEW k \in LockT
  PROVE  /\ X[p][t].holders[k] \in Nat
         /\ IsFiniteSet(ByBoth(Holdings(X, t), p, k))
         /\ Cardinality(ByBoth(Holdings(X, t), p, k)) = X[p][t].holders[k]
<1> DEFINE h == X[p][t].holders[k]
<1> DEFINE B == ByBoth(Holdings(X, t), p, k)
<1> DEFINE f == [n \in 1 .. h |-> <<p, k, n>>]
<1>1. h \in Nat
  BY DEF XidTable, XIDLookupEnt
<1>2. B = {<<p, k, n>> : n \in 1 .. h}
  <2>1. ASSUME NEW u \in B PROVE u \in {<<p, k, n>> : n \in 1 .. h}
    <3>1. PICK q \in Proc, j \in LockT : \E n \in 1 .. X[q][t].holders[j] :
            u = <<q, j, n>>
      BY Member DEF ByBoth
    <3> QED BY <3>1 DEF ByBoth
  <2>2. ASSUME NEW n \in 1 .. h PROVE <<p, k, n>> \in B
    BY Member DEF ByBoth
  <2> QED BY <2>1, <2>2
<1> HIDE DEF h, B
<1>3. f \in Bijection(1 .. h, B)
  BY <1>2 DEF Bijection, Injection, Surjection, IsInjective
<1>4. ExistsBijection(1 .. h, B)
  BY <1>3 DEF ExistsBijection
<1>5. IsFiniteSet(1 .. h) /\ Cardinality(1 .. h) = h
  BY <1>1, FS_Interval
<1> QED BY <1>1, <1>4, <1>5, FS_Bijection DEF h, B

-----------------------------------------------------------------------------
(* Entries and the locks they count.                                       *)

\* One entry of the xid table is replaced.
LEMMA SetEntry ==
  ASSUME NEW X \in XidTable, NEW p \in Proc, NEW t \in Tag,
         NEW E \in XIDLookupEnt
  PROVE  LET Y == SetEnt(X, p, t, E)
         IN  /\ Y \in XidTable
             /\ Y[p][t] = E
             /\ \A q \in Proc, s \in Tag : q # p \/ s # t => Y[q][s] = X[q][s]
BY DEF SetEnt, XidTable

\* The fields of an entry that counts one lock more.
LEMMA CreditEntry ==
  ASSUME NEW E \in XIDLookupEnt, NEW k \in LockT
  PROVE  /\ E.nHolding \in Nat /\ E.holders \in [LockT -> Nat]
         /\ Credit(E, k) \in XIDLookupEnt
         /\ Credit(E, k).nHolding = E.nHolding + 1
         /\ Credit(E, k).holders = [E.holders EXCEPT ![k] = E.holders[k] + 1]
<1>1. E.nHolding \in Nat /\ E.holders \in [LockT -> Nat]
  BY DEF XIDLookupEnt
<1>2. [E.holders EXCEPT ![k] = E.holders[k] + 1] \in [LockT -> Nat]
  BY <1>1
<1> QED BY <1>1, <1>2 DEF Credit, XIDLookupEnt

\* Entries with the same counts stand for the same locks.
LEMMA SameHoldings ==
  ASSUME NEW X, NEW Y, NEW t,
         \A p \in Proc : Y[p][t].holders = X[p][t].holders
  PROVE  Holdings(Y, t) = Holdings(X, t)
<1>1. \A u : u \in Holdings(X, t) <=> u \in Holdings(Y, t)
  BY Member
<1> QED BY <1>1

\* A lock has its backend, type and number.
LEMMA Triple ==
  ASSUME NEW X \in XidTable, NEW t \in Tag, NEW p, NEW k, NEW n
  PROVE  <<p, k, n>> \in Holdings(X, t) <=>
           /\ p \in Proc /\ k \in LockT
           /\ n \in 1 .. X[p][t].holders[k]
BY Member

\* An entry credited with a lock stands for one lock more,
LEMMA CreditHoldings ==
  ASSUME NEW X \in XidTable, NEW p \in Proc, NEW t \in Tag, NEW k \in LockT
  PROVE  LET Y == SetEnt(X, p, t, Credit(X[p][t], k))
             e == <<p, k, X[p][t].holders[k] + 1>>
         IN  /\ Y \in XidTable
             /\ e \notin Holdings(X, t)
             /\ Holdings(Y, t) = Holdings(X, t) \cup {e}
             /\ Y[p][t].nHolding = X[p][t].nHolding + 1
             /\ \A i \in LockT : Y[p][t].holders[i] =
                  IF i = k THEN X[p][t].holders[i] + 1 ELSE X[p][t].holders[i]
             /\ \A q \in Proc, s \in Tag : q # p \/ s # t => Y[q][s] = X[q][s]
<1> DEFINE E == Credit(X[p][t], k)
<1> DEFINE Y == SetEnt(X, p, t, E)
<1> DEFINE h == X[p][t].holders[k]
<1>0. X[p][t] \in XIDLookupEnt
  BY DEF XidTable
<1>1. X[p][t].nHolding \in Nat /\ X[p][t].holders \in [LockT -> Nat]
  BY <1>0, CreditEntry
<1>2. /\ E \in XIDLookupEnt
      /\ E.nHolding = X[p][t].nHolding + 1
      /\ E.holders = [X[p][t].holders EXCEPT ![k] = h + 1]
  BY <1>0, CreditEntry
<1> HIDE DEF E
<1>3. /\ Y \in XidTable /\ Y[p][t] = E
      /\ \A q \in Proc, s \in Tag : q # p \/ s # t => Y[q][s] = X[q][s]
  BY <1>2, SetEntry
<1> HIDE DEF Y
<1>4. h \in Nat
  BY <1>1
<1>5. \A i \in LockT : Y[p][t].holders[i] =
        IF i = k THEN X[p][t].holders[i] + 1 ELSE X[p][t].holders[i]
  BY <1>1, <1>2, <1>3
<1>6. <<p, k, h + 1>> \notin Holdings(X, t)
  BY <1>4, Triple
<1>7. ASSUME NEW u \in Holdings(Y, t)
      PROVE  u \in Holdings(X, t) \cup {<<p, k, h + 1>>}
  <2>1. PICK q \in Proc, j \in LockT : \E n \in 1 .. Y[q][t].holders[j] :
          u = <<q, j, n>>
    BY Member
  <2>2. PICK n \in 1 .. Y[q][t].holders[j] : u = <<q, j, n>>
    BY <2>1
  <2>3. CASE q = p /\ j = k
    <3>1. n \in 1 .. (h + 1)
      BY <2>2, <2>3, <1>5
    <3>2. n \in 1 .. h \/ n = h + 1
      BY <3>1, <1>4
    <3> QED BY <3>2, <2>2, <2>3, Triple
  <2>4. CASE ~(q = p /\ j = k)
    <3>1. Y[q][t].holders[j] = X[q][t].holders[j]
      BY <2>4, <1>3, <1>5
    <3> QED BY <3>1, <2>2, Triple
  <2> QED BY <2>3, <2>4
<1>8. ASSUME NEW u \in Holdings(X, t) PROVE u \in Holdings(Y, t)
  <2>1. PICK q \in Proc, j \in LockT : \E n \in 1 .. X[q][t].holders[j] :
          u = <<q, j, n>>
    BY Member
  <2>2. PICK n \in 1 .. X[q][t].holders[j] : u = <<q, j, n>>
    BY <2>1
  <2>3. n \in 1 .. Y[q][t].holders[j]
    BY <1>1, <1>3, <1>5
  <2> QED BY <2>2, <2>3, <1>3, Triple
<1>9. <<p, k, h + 1>> \in Holdings(Y, t)
  BY <1>3, <1>4, <1>5, Triple
<1>10. Holdings(Y, t) = Holdings(X, t) \cup {<<p, k, h + 1>>}
  BY <1>7, <1>8, <1>9
<1> QED BY <1>2, <1>3, <1>5, <1>6, <1>10 DEF Y, E

\* and an entry that repays one, for one less.
LEMMA RepayHoldings ==
  ASSUME NEW X \in XidTable, NEW p \in Proc, NEW t \in Tag, NEW k \in LockT,
         X[p][t].holders[k] > 0, X[p][t].nHolding > 0
  PROVE  LET Y == SetEnt(X, p, t, Repay(X[p][t], k))
             e == <<p, k, X[p][t].holders[k]>>
         IN  /\ Y \in XidTable
             /\ e \notin Holdings(Y, t)
             /\ Holdings(X, t) = Holdings(Y, t) \cup {e}
             /\ Y[p][t].nHolding = X[p][t].nHolding - 1
             /\ \A i \in LockT : Y[p][t].holders[i] <= X[p][t].holders[i]
             /\ \A q \in Proc, s \in Tag : q # p \/ s # t => Y[q][s] = X[q][s]
<1> DEFINE D == X[p][t]
<1> DEFINE E == Repay(D, k)
<1> DEFINE Y == SetEnt(X, p, t, E)
<1>1. D \in XIDLookupEnt
  BY DEF XidTable
<1>2. /\ D.nHolding \in Nat /\ D.holders \in [LockT -> Nat]
      /\ D = [nHolding |-> D.nHolding, holders |-> D.holders]
  BY <1>1 DEF XIDLookupEnt
<1> HIDE DEF D
<1>3. D.nHolding > 0 /\ D.holders[k] > 0
  BY DEF D
<1>4. [D.holders EXCEPT ![k] = D.holders[k] - 1] \in [LockT -> Nat]
  BY <1>2, <1>3
<1>5. /\ E \in XIDLookupEnt
      /\ E.nHolding = D.nHolding - 1
      /\ E.holders = [D.holders EXCEPT ![k] = D.holders[k] - 1]
  BY <1>2, <1>3, <1>4 DEF Repay, XIDLookupEnt
<1> HIDE DEF E
<1>6. [E.holders EXCEPT ![k] = E.holders[k] + 1] = D.holders
  <2> DEFINE g == E.holders
  <2>1. /\ g \in [LockT -> Nat]
        /\ g[k] + 1 = D.holders[k]
        /\ \A i \in LockT : i # k => g[i] = D.holders[i]
    BY <1>2, <1>3, <1>4, <1>5
  <2> HIDE DEF g
  <2> QED BY <1>2, <2>1 DEF g
<1>7. E.nHolding + 1 = D.nHolding
  BY <1>2, <1>5
<1>8. Credit(E, k) = D
  BY <1>2, <1>6, <1>7 DEF Credit
<1>9. /\ Y \in XidTable /\ Y[p][t] = E
      /\ \A q \in Proc, s \in Tag : q # p \/ s # t => Y[q][s] = X[q][s]
  BY <1>5, SetEntry
<1>10. SetEnt(Y, p, t, D) = X
  BY DEF SetEnt, XidTable, D
<1> HIDE DEF Y
<1>11. /\ <<p, k, E.holders[k] + 1>> \notin Holdings(Y, t)
       /\ Holdings(X, t) = Holdings(Y, t) \cup {<<p, k, E.holders[k] + 1>>}
  BY <1>8, <1>9, <1>10, CreditHoldings
<1>12. E.holders[k] + 1 = D.holders[k]
  BY <1>2, <1>5
<1>13. \A i \in LockT : E.holders[i] <= D.holders[i]
  BY <1>2, <1>5
<1> QED BY <1>5, <1>9, <1>11, <1>12, <1>13 DEF D, E, Y

\* Without its entry a backend has no lock on the tag.
LEMMA ForgetHoldings ==
  ASSUME NEW X \in XidTable, NEW p \in Proc, NEW t \in Tag
  PROVE  LET Y == SetEnt(X, p, t, NewEnt)
         IN  /\ Y \in XidTable
             /\ Holdings(Y, t) = Holdings(X, t) \ ByProc(Holdings(X, t), p)
             /\ Y[p][t] = NewEnt
             /\ \A q \in Proc, s \in Tag : q # p \/ s # t => Y[q][s] = X[q][s]
<1> DEFINE Y == SetEnt(X, p, t, NewEnt)
<1>1. /\ NewEnt \in XIDLookupEnt /\ NewEnt.nHolding = 0
      /\ \A k \in LockT : NewEnt.holders[k] = 0
  BY DEF NewEnt, XIDLookupEnt
<1>2. /\ Y \in XidTable /\ Y[p][t] = NewEnt
      /\ \A q \in Proc, s \in Tag : q # p \/ s # t => Y[q][s] = X[q][s]
  BY <1>1, SetEntry
<1> HIDE DEF Y
<1>3. ASSUME NEW u \in Holdings(Y, t)
      PROVE  u \in Holdings(X, t) \ ByProc(Holdings(X, t), p)
  <2>1. PICK q \in Proc, j \in LockT : \E n \in 1 .. Y[q][t].holders[j] :
          u = <<q, j, n>>
    BY Member
  <2>2. q # p
    BY <2>1, <1>1, <1>2
  <2> QED BY <2>1, <2>2, <1>2, Triple DEF ByProc
<1>4. ASSUME NEW u \in Holdings(X, t) \ ByProc(Holdings(X, t), p)
      PROVE  u \in Holdings(Y, t)
  <2>1. PICK q \in Proc, j \in LockT : \E n \in 1 .. X[q][t].holders[j] :
          u = <<q, j, n>>
    BY Member
  <2>2. q # p
    BY <2>1 DEF ByProc
  <2> QED BY <2>1, <2>2, <1>2, Triple
<1> QED BY <1>1, <1>2, <1>3, <1>4 DEF Y

-----------------------------------------------------------------------------
(* A lock and its counts.                                                  *)

\* The fields of a lock.
LEMMA LockFields ==
  ASSUME NEW L \in LOCK
  PROVE  /\ L.nHolding \in Nat /\ L.nActive \in Nat
         /\ L.activeHolders \in [LockT -> Nat]
         /\ L.mask \in SUBSET LockT /\ L.waitProcs \in Seq(Proc)
BY DEF LOCK

\* GrantLock adds one to the active counts.
LEMMA GrantFields ==
  ASSUME NEW L \in LOCK, NEW k \in LockT
  PROVE  LET M == GrantLock(L, k)
         IN  /\ M \in LOCK
             /\ M.nHolding = L.nHolding
             /\ M.nActive = L.nActive + 1
             /\ M.activeHolders =
                  [L.activeHolders EXCEPT ![k] = L.activeHolders[k] + 1]
             /\ M.mask = L.mask \cup {k}
             /\ M.waitProcs = L.waitProcs
<1>1. [L.activeHolders EXCEPT ![k] = L.activeHolders[k] + 1] \in [LockT -> Nat]
  BY LockFields
<1> QED BY <1>1, LockFields DEF GrantLock, LOCK

\* A request adds one to nHolding.
LEMMA RequestFields ==
  ASSUME NEW L \in LOCK
  PROVE  LET M == Requested(L)
         IN  /\ M \in LOCK
             /\ M.nHolding = L.nHolding + 1
             /\ M.nActive = L.nActive /\ M.activeHolders = L.activeHolders
             /\ M.mask = L.mask /\ M.waitProcs = L.waitProcs
BY DEF Requested, LOCK

\* Nothing but the queue changes.
LEMMA QueueFields ==
  ASSUME NEW L \in LOCK, NEW w \in Seq(Proc)
  PROVE  LET M == SetQueue(L, w)
         IN  /\ M \in LOCK
             /\ M.nHolding = L.nHolding
             /\ M.nActive = L.nActive /\ M.activeHolders = L.activeHolders
             /\ M.mask = L.mask /\ M.waitProcs = w
BY DEF SetQueue, LOCK

\* Counted, and countable.
Exact(L, X, t) == IsFiniteSet(Holdings(X, t)) /\ Counted(L, X, t)

\* Exact speaks of the active counts and the mask only.
LEMMA ExactSame ==
  ASSUME NEW L, NEW M, NEW X, NEW t, Exact(L, X, t),
         M.nActive = L.nActive, M.activeHolders = L.activeHolders,
         M.mask = L.mask
  PROVE  Exact(M, X, t)
BY DEF Exact, Counted

\* Entries for other tags do not matter.
LEMMA ExactOther ==
  ASSUME NEW L, NEW X, NEW Y, NEW t, Exact(L, X, t),
         \A p \in Proc : Y[p][t] = X[p][t]
  PROVE  Exact(L, Y, t)
<1>1. Holdings(Y, t) = Holdings(X, t)
  BY SameHoldings
<1> QED BY <1>1 DEF Exact, Counted

\* GrantLock and the credit to the entry go together.
LEMMA ExactGrant ==
  ASSUME NEW L \in LOCK, NEW X \in XidTable, NEW p \in Proc, NEW t \in Tag,
         NEW k \in LockT, Exact(L, X, t),
         NEW Y, Y = SetEnt(X, p, t, Credit(X[p][t], k))
  PROVE  Exact(GrantLock(L, k), Y, t)
<1> DEFINE M == GrantLock(L, k)
<1> DEFINE n == X[p][t].holders[k] + 1
<1> DEFINE S == Holdings(X, t)
<1> DEFINE T == Holdings(Y, t)
<1>1. /\ <<p, k, n>> \notin S /\ T = S \cup {<<p, k, n>>}
      /\ Y[p][t].nHolding = X[p][t].nHolding + 1
      /\ \A q \in Proc : q # p => Y[q][t] = X[q][t]
  BY CreditHoldings
<1>2. /\ M.nActive = L.nActive + 1
      /\ M.activeHolders = [L.activeHolders EXCEPT ![k] = L.activeHolders[k] + 1]
      /\ M.mask = L.mask \cup {k}
  BY GrantFields
<1>3. /\ IsFiniteSet(S)
      /\ L.nActive = Cardinality(S)
      /\ \A i \in LockT : L.activeHolders[i] = Cardinality(ByType(S, i))
      /\ \A q \in Proc : X[q][t].nHolding = Cardinality(ByProc(S, q))
      /\ L.mask = {i \in LockT : ByType(S, i) # {}}
  BY DEF Exact, Counted
<1>4. L.activeHolders \in [LockT -> Nat]
  BY LockFields
<1> HIDE DEF M, n, S, T
<1>5. /\ IsFiniteSet(T)
      /\ Cardinality(T) = Cardinality(S) + 1
      /\ Cardinality(ByType(T, k)) = Cardinality(ByType(S, k)) + 1
      /\ Cardinality(ByProc(T, p)) = Cardinality(ByProc(S, p)) + 1
      /\ \A j : j # k => ByType(T, j) = ByType(S, j)
      /\ \A q : q # p => ByProc(T, q) = ByProc(S, q)
  BY <1>1, <1>3, AddOne
<1>6. \A i \in LockT : M.activeHolders[i] = Cardinality(ByType(T, i))
  BY <1>2, <1>3, <1>4, <1>5
<1>7. \A q \in Proc : Y[q][t].nHolding = Cardinality(ByProc(T, q))
  BY <1>1, <1>3, <1>5
<1>8. ByType(T, k) # {}
  BY <1>1 DEF ByType
<1>9. M.mask = {i \in LockT : ByType(T, i) # {}}
  BY <1>2, <1>3, <1>5, <1>8
<1> QED BY <1>2, <1>3, <1>5, <1>6, <1>7, <1>9 DEF Exact, Counted, M, T

\* The fields of what a release leaves.
LEMMA DebitFields ==
  ASSUME NEW L \in LOCK, NEW h \in [LockT -> Nat], NEW n \in Nat
  PROVE  LET M == Debit(L, h, n)
         IN  /\ M.nHolding = L.nHolding - n
             /\ M.nActive = L.nActive - n
             /\ M.activeHolders = [i \in LockT |-> L.activeHolders[i] - h[i]]
             /\ M.mask = {i \in L.mask : L.activeHolders[i] - h[i] # 0}
             /\ M.waitProcs = L.waitProcs
<1>1. L.mask \subseteq LockT
  BY LockFields
<1> QED BY <1>1 DEF Debit

\* Locks taken off a set of locks are taken off the counts.
LEMMA ExactDebit ==
  ASSUME NEW L \in LOCK, NEW X, NEW Y, NEW t, Exact(L, X, t),
         NEW h \in [LockT -> Nat], NEW n \in Nat,
         Holdings(Y, t) \subseteq Holdings(X, t),
         Cardinality(Holdings(Y, t)) = Cardinality(Holdings(X, t)) - n,
         \A i \in LockT : Cardinality(ByType(Holdings(Y, t), i)) =
           Cardinality(ByType(Holdings(X, t), i)) - h[i],
         \A q \in Proc :
           Y[q][t].nHolding = Cardinality(ByProc(Holdings(Y, t), q))
  PROVE  Exact(Debit(L, h, n), Y, t)
<1> DEFINE S == Holdings(X, t)
<1> DEFINE T == Holdings(Y, t)
<1> DEFINE M == Debit(L, h, n)
<1>1. /\ IsFiniteSet(S)
      /\ L.nActive = Cardinality(S)
      /\ \A i \in LockT : L.activeHolders[i] = Cardinality(ByType(S, i))
      /\ L.mask = {i \in LockT : ByType(S, i) # {}}
  BY DEF Exact, Counted
<1>2. /\ M.nActive = L.nActive - n
      /\ M.activeHolders = [i \in LockT |-> L.activeHolders[i] - h[i]]
      /\ M.mask = {i \in L.mask : L.activeHolders[i] - h[i] # 0}
  BY DebitFields
<1> HIDE DEF S, T, M
<1>3. T \subseteq S /\ IsFiniteSet(T)
  BY <1>1, FS_Subset DEF S, T
<1>4. \A i \in LockT : M.activeHolders[i] = Cardinality(ByType(T, i))
  BY <1>1, <1>2 DEF S, T
<1>5. ASSUME NEW i \in LockT
      PROVE  i \in M.mask <=> ByType(T, i) # {}
  <2>1. ByType(T, i) \subseteq ByType(S, i) /\ ByType(T, i) \subseteq T
    BY <1>3 DEF ByType
  <2>2. Cardinality(ByType(T, i)) = 0 <=> ByType(T, i) = {}
    BY <1>3, <2>1, FS_Subset, FS_EmptySet
  <2>3. i \in M.mask <=> ByType(S, i) # {} /\ M.activeHolders[i] # 0
    BY <1>1, <1>2
  <2> QED BY <1>4, <2>1, <2>2, <2>3
<1>6. M.mask = {i \in LockT : ByType(T, i) # {}}
  BY <1>1, <1>2, <1>5
<1>7. M.nActive = Cardinality(T)
  BY <1>1, <1>2 DEF S, T
<1> QED BY <1>3, <1>4, <1>6, <1>7 DEF Exact, Counted, M, T

\* A new lock counts nothing.
LEMMA NewFields ==
  /\ NewLock \in LOCK
  /\ NewLock.nHolding = 0 /\ NewLock.nActive = 0 /\ NewLock.mask = {}
  /\ \A k \in LockT : NewLock.activeHolders[k] = 0
  /\ NewLock.waitProcs = <<>>
BY DEF NewLock, LOCK

\* A lock nobody holds may be a new one.
LEMMA ExactNew ==
  ASSUME NEW Y, NEW t, Holdings(Y, t) = {},
         \A q \in Proc : Y[q][t].nHolding = 0
  PROVE  Exact(NewLock, Y, t)
<1>1. \A k : ByType({}, k) = {}
  BY DEF ByType
<1>2. \A p : ByProc({}, p) = {}
  BY DEF ByProc
<1> QED BY <1>1, <1>2, NewFields, FS_EmptySet DEF Exact, Counted

-----------------------------------------------------------------------------
(* What the tests for a conflict find out.                                 *)

HeldBy(X, q, t, i) == X[q][t].holders[i] > 0

\* A lock of a type that somebody else holds is there.
LEMMA OtherHolds ==
  ASSUME NEW X \in XidTable, NEW t \in Tag, NEW q \in Proc, NEW i \in LockT
  PROVE  HeldBy(X, q, t, i) <=> <<q, i, 1>> \in Holdings(X, t)
<1>1. X[q][t].holders[i] \in Nat
  BY DEF XidTable, XIDLookupEnt
<1> QED BY <1>1, Triple DEF HeldBy

\* The tests let a request pass only when nobody else is in its way,
LEMMA GrantSafe ==
  ASSUME NEW L \in LOCK, NEW X \in XidTable, NEW t \in Tag, NEW p \in Proc,
         NEW k \in LockT, Exact(L, X, t), Grantable(L, X[p][t], k)
  PROVE  \A q \in Proc \ {p}, i \in ConflictTab[k] : ~HeldBy(X, q, t, i)
<1> DEFINE S == Holdings(X, t)
<1> SUFFICES ASSUME NEW q \in Proc \ {p}, NEW i \in ConflictTab[k],
                    <<q, i, 1>> \in S
             PROVE  FALSE
  BY OtherHolds, LockAssumption
<1>0. i \in LockT
  BY LockAssumption
<1>1. /\ IsFiniteSet(S)
      /\ L.nActive = Cardinality(S)
      /\ L.activeHolders[i] = Cardinality(ByType(S, i))
      /\ X[p][t].nHolding = Cardinality(ByProc(S, p))
      /\ L.mask = {j \in LockT : ByType(S, j) # {}}
  BY <1>0 DEF Exact, Counted
<1>2. <<q, i, 1>> \in ByType(S, i) /\ <<q, i, 1>> \notin ByProc(S, p)
  BY DEF ByType, ByProc
<1>3. X[p][t].nHolding # L.nActive
  <2>1. ByProc(S, p) \subseteq S
    BY DEF ByProc
  <2> QED BY <1>1, <1>2, <2>1, FS_Subset
<1>4. i \in L.mask
  BY <1>0, <1>1, <1>2
<1>5. L.activeHolders[i] - X[p][t].holders[i] # 0
  <2>1. /\ ByType(S, i) \subseteq S /\ ByBoth(S, p, i) \subseteq ByType(S, i)
        /\ <<q, i, 1>> \notin ByBoth(S, p, i)
    BY DEF ByType, ByBoth
  <2>2. IsFiniteSet(ByType(S, i))
    BY <1>1, <2>1, FS_Subset
  <2>3. Cardinality(ByType(S, i)) # Cardinality(ByBoth(S, p, i))
    BY <1>2, <2>1, <2>2, FS_Subset
  <2>4. /\ Cardinality(ByBoth(S, p, i)) = X[p][t].holders[i]
        /\ X[p][t].holders[i] \in Nat
    BY <1>0, BothCount
  <2>5. Cardinality(ByType(S, i)) \in Nat
    BY <2>2, FS_CardinalityType
  <2> QED BY <1>1, <2>3, <2>4, <2>5
<1> QED BY <1>3, <1>4, <1>5 DEF Grantable, LockResolveConflicts

\* and make it wait only when somebody is.
LEMMA RefusedBlocked ==
  ASSUME NEW L \in LOCK, NEW X \in XidTable, NEW t \in Tag, NEW p \in Proc,
         NEW k \in LockT, Exact(L, X, t), ~LockResolveConflicts(L, X[p][t], k)
  PROVE  \E q \in Proc \ {p}, i \in ConflictTab[k] : HeldBy(X, q, t, i)
<1> DEFINE S == Holdings(X, t)
<1>1. PICK i \in ConflictTab[k] : L.activeHolders[i] - X[p][t].holders[i] # 0
  BY DEF LockResolveConflicts
<1>2. i \in LockT
  BY LockAssumption
<1>3. /\ L.activeHolders[i] = Cardinality(ByType(S, i))
      /\ L.activeHolders[i] \in Nat
  BY <1>2, LockFields DEF Exact, Counted
<1>4. /\ Cardinality(ByBoth(S, p, i)) = X[p][t].holders[i]
      /\ X[p][t].holders[i] \in Nat
  BY <1>2, BothCount
<1>5. ByType(S, i) # ByBoth(S, p, i)
  BY <1>1, <1>3, <1>4
<1>6. PICK u \in S : u[2] = i /\ u[1] # p
  BY <1>5 DEF ByType, ByBoth
<1>7. PICK q \in Proc, j \in LockT : \E n \in 1 .. X[q][t].holders[j] :
        u = <<q, j, n>>
  BY Member
<1>8. q # p /\ j = i
  BY <1>6, <1>7
<1>9. X[q][t].holders[i] \in Nat
  BY <1>2 DEF XidTable, XIDLookupEnt
<1>10. HeldBy(X, q, t, i)
  BY <1>7, <1>8, <1>9 DEF HeldBy
<1> QED BY <1>8, <1>10

-----------------------------------------------------------------------------
(* Wait queues.                                                            *)

\* ProcSleep adds the sleeper to the queue, last or first.
LEMMA EnqueueFacts ==
  ASSUME NEW w \in Seq(Proc), NEW p \in Proc, NEW k, ~InQueue(w, p),
         Distinct(w)
  PROVE  LET v == Enqueue(w, p, k)
         IN  /\ v \in Seq(Proc) /\ Len(v) = Len(w) + 1
             /\ Distinct(v)
             /\ \A q : InQueue(v, q) <=> InQueue(w, q) \/ q = p
             /\ v[1] = p \/ (w # <<>> /\ v[1] = w[1])
<1> DEFINE v == Enqueue(w, p, k)
<1>1. CASE v = Append(w, p)
  <2>1. /\ v \in Seq(Proc) /\ Len(v) = Len(w) + 1 /\ v[Len(w) + 1] = p
        /\ \A i \in 1 .. Len(w) : v[i] = w[i]
    BY <1>1
  <2> HIDE DEF v
  <2>2. Len(w) \in Nat /\ (w = <<>> <=> Len(w) = 0)
    OBVIOUS
  <2>3. \A i \in 1 .. Len(v) : i \in 1 .. Len(w) \/ i = Len(w) + 1
    BY <2>1, <2>2
  <2>4. Distinct(v)
    BY <2>1, <2>2, <2>3 DEF Distinct, InQueue
  <2>5. \A q : InQueue(v, q) <=> InQueue(w, q) \/ q = p
    BY <2>1, <2>2, <2>3 DEF InQueue
  <2>6. v[1] = p \/ (w # <<>> /\ v[1] = w[1])
    BY <2>1, <2>2
  <2> QED BY <2>1, <2>4, <2>5, <2>6 DEF v
<1>2. CASE v = <<p>> \o w
  <2>1. /\ v \in Seq(Proc) /\ Len(v) = Len(w) + 1 /\ v[1] = p
        /\ \A i \in 1 .. Len(w) : v[i + 1] = w[i]
    BY <1>2
  <2> HIDE DEF v
  <2>2. Len(w) \in Nat
    OBVIOUS
  <2>3. \A i \in 1 .. Len(v) : i = 1 \/ (i - 1 \in 1 .. Len(w) /\ v[i] = w[i - 1])
    BY <2>1, <2>2
  <2>4. Distinct(v)
    <3> SUFFICES ASSUME NEW i \in 1 .. Len(v), NEW j \in 1 .. Len(v), v[i] = v[j]
                 PROVE  i = j
      BY DEF Distinct
    <3>1. CASE i = 1 \/ j = 1
      BY <2>1, <2>3, <3>1 DEF InQueue
    <3>2. CASE i # 1 /\ j # 1
      <4>1. i - 1 = j - 1
        BY <2>3, <3>2 DEF Distinct
      <4> QED BY <4>1
    <3> QED BY <3>1, <3>2
  <2>5. ASSUME NEW q PROVE InQueue(v, q) <=> InQueue(w, q) \/ q = p
    <3>1. ASSUME InQueue(w, q) PROVE InQueue(v, q)
      <4>1. PICK i \in 1 .. Len(w) : w[i] = q
        BY <3>1 DEF InQueue
      <4>2. i + 1 \in 1 .. Len(v) /\ v[i + 1] = q
        BY <2>1, <2>2, <4>1
      <4> QED BY <4>2 DEF InQueue
    <3>2. InQueue(v, p)
      BY <2>1, <2>2 DEF InQueue
    <3> QED BY <2>1, <2>3, <3>1, <3>2 DEF InQueue
  <2> QED BY <2>1, <2>4, <2>5 DEF v
<1> QED BY <1>1, <1>2 DEF Enqueue

\* ProcWakeup takes the first waiter off the queue.
LEMMA TailFacts ==
  ASSUME NEW w \in Seq(Proc), w # <<>>, Distinct(w)
  PROVE  LET v == Tail(w)
         IN  /\ w[1] \in Proc /\ InQueue(w, w[1])
             /\ v \in Seq(Proc) /\ Len(v) = Len(w) - 1
             /\ Distinct(v)
             /\ \A q : InQueue(v, q) <=> InQueue(w, q) /\ q # w[1]
<1> DEFINE v == Tail(w)
<1>1. /\ v \in Seq(Proc) /\ Len(v) = Len(w) - 1 /\ w[1] \in Proc
      /\ Len(w) \in Nat /\ Len(w) > 0
      /\ \A i \in 1 .. Len(v) : v[i] = w[i + 1]
  OBVIOUS
<1> HIDE DEF v
<1>2. \A i \in 1 .. Len(v) : i + 1 \in 1 .. Len(w) /\ v[i] = w[i + 1]
  BY <1>1
<1>3. Distinct(v)
  BY <1>1, <1>2 DEF Distinct
<1>4. InQueue(w, w[1])
  BY <1>1 DEF InQueue
<1>5. ASSUME NEW q PROVE InQueue(v, q) <=> InQueue(w, q) /\ q # w[1]
  <2>1. ASSUME InQueue(v, q) PROVE InQueue(w, q) /\ q # w[1]
    <3>1. PICK i \in 1 .. Len(v) : v[i] = q
      BY <2>1 DEF InQueue
    <3>2. i + 1 \in 1 .. Len(w) /\ w[i + 1] = q /\ i + 1 # 1
      BY <1>2, <3>1
    <3> QED BY <1>1, <3>2 DEF InQueue, Distinct
  <2>2. ASSUME InQueue(w, q), q # w[1] PROVE InQueue(v, q)
    <3>1. PICK i \in 1 .. Len(w) : w[i] = q
      BY <2>2 DEF InQueue
    <3>2. i - 1 \in 1 .. Len(v) /\ v[i - 1] = q
      BY <1>1, <2>2, <3>1
    <3> QED BY <3>2 DEF InQueue
  <2> QED BY <2>1, <2>2
<1> QED BY <1>1, <1>3, <1>4, <1>5 DEF v

-----------------------------------------------------------------------------
(* The inductive invariant.                                                *)

\* LockMgrLock is kept from step to step by a release, and only by it; the tag
\* whose waiters are looked at is known meanwhile.
Custody ==
  /\ \A p \in Proc : masterLock = p <=>
                        pc[p] \in {"wakeup", "releaseAll", "wakeupAll"}
  /\ cur # NoTag <=> \E p \in Proc : pc[p] \in {"wakeup", "wakeupAll"}

AllExact == \A t \in Tag : Exact(lock[t], xid, t)

Requests ==
  \A t \in Tag : lock[t].nHolding = lock[t].nActive + Len(lock[t].waitProcs)

IInv ==
  /\ TypeOK /\ Custody /\ AllExact /\ Requests
  /\ SleepersKnown /\ NoConflict /\ FirstIsBlocked

\* The tables are empty at first.
LEMMA InitIInv == Init => IInv
<1> SUFFICES ASSUME Init PROVE IInv
  OBVIOUS
<1> USE DEF Init
<1>1. NewEnt \in XIDLookupEnt /\ NewEnt.nHolding = 0
        /\ \A k \in LockT : NewEnt.holders[k] = 0
  BY DEF NewEnt, XIDLookupEnt
<1>2. TypeOK
  BY <1>1, NewFields DEF TypeOK, PC
<1>3. Custody
  BY LockAssumption DEF Custody
<1>4. ASSUME NEW t \in Tag PROVE Exact(lock[t], xid, t)
  <2>1. Holdings(xid, t) = {}
    BY <1>1, Member
  <2> QED BY <1>1, <2>1, ExactNew
<1>5. \A t \in Tag : lock[t].waitProcs = <<>> /\ lock[t] = NewLock
  BY NewFields
<1>6. Requests
  BY <1>5, NewFields DEF Requests
<1>7. SleepersKnown
  BY <1>5 DEF SleepersKnown, Distinct, Queued, InQueue
<1>8. NoConflict
  BY <1>1 DEF NoConflict, Holds
<1>9. FirstIsBlocked
  BY <1>5 DEF FirstIsBlocked
<1> QED BY <1>2, <1>3, <1>4, <1>6, <1>7, <1>8, <1>9 DEF IInv, AllExact

-----------------------------------------------------------------------------
(* Grants and releases, and what is held by whom.                          *)

\* Nobody has a lock in Y that it did not have in X.
Fewer(X, Y) == \A q \in Proc, s \in Tag, i \in LockT :
                 HeldBy(Y, q, s, i) => HeldBy(X, q, s, i)

\* No conflict comes from letting go.
LEMMA FewerConflicts ==
  ASSUME NoConflict, Fewer(xid, xid')
  PROVE  NoConflict'
BY DEF NoConflict, Holds, Fewer, HeldBy

\* One lock more is held.
LEMMA CreditHeld ==
  ASSUME NEW X \in XidTable, NEW p \in Proc, NEW t \in Tag, NEW k \in LockT,
         NEW Y, Y = SetEnt(X, p, t, Credit(X[p][t], k))
  PROVE  /\ Y \in XidTable
         /\ \A q \in Proc, s \in Tag, i \in LockT :
              HeldBy(Y, q, s, i) <=>
                HeldBy(X, q, s, i) \/ (q = p /\ s = t /\ i = k)
<1> DEFINE E == Credit(X[p][t], k)
<1>1. X[p][t] \in XIDLookupEnt
  BY DEF XidTable
<1>2. /\ E \in XIDLookupEnt
      /\ X[p][t].holders \in [LockT -> Nat]
      /\ E.holders = [X[p][t].holders EXCEPT ![k] = X[p][t].holders[k] + 1]
  BY <1>1, CreditEntry
<1>3. \A i \in LockT : E.holders[i] > 0 <=> X[p][t].holders[i] > 0 \/ i = k
  BY <1>2
<1> HIDE DEF E
<1>4. /\ Y \in XidTable /\ Y[p][t] = E
      /\ \A q \in Proc, s \in Tag : q # p \/ s # t => Y[q][s] = X[q][s]
  BY <1>2, SetEntry DEF E
<1> QED BY <1>3, <1>4 DEF HeldBy

\* If it conflicts with nobody else's, there is still no conflict.
LEMMA GrantConflicts ==
  ASSUME xid \in XidTable, NoConflict,
         NEW p \in Proc, NEW t \in Tag, NEW k \in LockT,
         xid' = SetEnt(xid, p, t, Credit(xid[p][t], k)),
         \A q \in Proc \ {p}, i \in ConflictTab[k] : ~HeldBy(xid, q, t, i)
  PROVE  /\ NoConflict'
         /\ Fewer(xid', xid)
         /\ HeldBy(xid', p, t, k)
         /\ xid' \in XidTable
<1>1. /\ xid' \in XidTable
      /\ \A q \in Proc, s \in Tag, i \in LockT :
           HeldBy(xid', q, s, i) <=>
             HeldBy(xid, q, s, i) \/ (q = p /\ s = t /\ i = k)
  BY CreditHeld
<1>2. \A i, j \in LockT : j \in ConflictTab[i] => i \in ConflictTab[j]
  BY LockAssumption
<1>3. NoConflict'
  <2> SUFFICES ASSUME NEW q \in Proc, NEW r \in Proc, NEW s \in Tag,
                      NEW i \in LockT, NEW j \in LockT, q # r,
                      HeldBy(xid', q, s, i), HeldBy(xid', r, s, j),
                      j \in ConflictTab[i]
               PROVE  FALSE
    BY DEF NoConflict, Holds, HeldBy
  <2>1. CASE q = p /\ s = t /\ i = k
    BY <1>1, <2>1
  <2>2. CASE r = p /\ s = t /\ j = k
    BY <1>1, <1>2, <2>2
  <2>3. CASE HeldBy(xid, q, s, i) /\ HeldBy(xid, r, s, j)
    BY <2>3 DEF NoConflict, Holds, HeldBy
  <2> QED BY <1>1, <2>1, <2>2, <2>3
<1> QED BY <1>1, <1>3 DEF Fewer

-----------------------------------------------------------------------------
(* The actions.                                                            *)

\* What TypeOK says of the two tables.
LEMMA Types ==
  ASSUME TypeOK
  PROVE  /\ xid \in XidTable
         /\ \A t \in Tag : lock[t] \in LOCK
         /\ \A t \in Tag : lock[t].waitProcs \in Seq(Proc)
BY LockFields DEF TypeOK, XidTable

\* A change of one tag's lock and of entries for it leaves the other tags exact.
LEMMA ExactStep ==
  ASSUME TypeOK, AllExact, NEW t \in Tag, Exact(lock'[t], xid', t),
         \A s \in Tag : s # t => lock'[s] = lock[s],
         \A q \in Proc, s \in Tag : s # t => xid'[q][s] = xid[q][s]
  PROVE  AllExact'
<1> SUFFICES ASSUME NEW s \in Tag PROVE Exact(lock'[s], xid', s)
  BY DEF AllExact
<1>1. CASE s = t
  BY <1>1
<1>2. CASE s # t
  BY <1>2, ExactOther DEF AllExact
<1> QED BY <1>1, <1>2

\* Whoever is first in a queue sleeps there, or slept there when it was killed.
LEMMA FirstKnown ==
  ASSUME TypeOK, SleepersKnown, NEW t \in Tag, lock[t].waitProcs # <<>>
  PROVE  LET q == lock[t].waitProcs[1]
         IN  /\ q \in Proc /\ token[q] \in LockT /\ Queued(q, t)
             /\ pc[q] \in {"asleep", "killed"} /\ waitLock[q] = t /\ sem[q] = 0
<1> DEFINE w == lock[t].waitProcs
<1>1. w \in Seq(Proc) /\ Distinct(w)
  BY Types DEF SleepersKnown
<1> HIDE DEF w
<1>2. w[1] \in Proc /\ InQueue(w, w[1])
  BY <1>1, TailFacts DEF w
<1> QED BY <1>2 DEF SleepersKnown, Queued, w

BlockedIn(X, p, t, k) ==
  \E q \in Proc \ {p}, i \in ConflictTab[k] : HeldBy(X, q, t, i)

\* It stays blocked when nobody lets go of a lock on the tag.
LEMMA StillBlocked ==
  ASSUME TypeOK, SleepersKnown, FirstIsBlocked,
         NEW t \in Tag, lock[t].waitProcs # <<>>, cur # t,
         NEW Y, \A q \in Proc, i \in LockT : HeldBy(xid, q, t, i) => HeldBy(Y, q, t, i)
  PROVE  LET q == lock[t].waitProcs[1] IN BlockedIn(Y, q, t, token[q])
<1> DEFINE r == lock[t].waitProcs[1]
<1>1. token[r] \in LockT
  BY FirstKnown
<1>2. ConflictTab[token[r]] \subseteq LockT
  BY <1>1, LockAssumption
<1>3. BlockedIn(xid, r, t, token[r])
  BY DEF FirstIsBlocked, Blocked, Holds, HeldBy, BlockedIn
<1> HIDE DEF r
<1>4. BlockedIn(Y, r, t, token[r])
  BY <1>2, <1>3 DEF BlockedIn
<1> QED BY <1>4 DEF r

\* A request is granted at once.
LEMMA LockAcquireStep ==
  ASSUME IInv, NEW p \in Proc, NEW t \in Tag, NEW k \in LockT,
         LockAcquire(p, t, k)
  PROVE  IInv'
<1> DEFINE L == Requested(lock[t])
<1> DEFINE M == GrantLock(L, k)
<1>0. /\ TypeOK /\ Custody /\ AllExact /\ Requests
      /\ SleepersKnown /\ NoConflict /\ FirstIsBlocked
  BY DEF IInv
<1>1. /\ Grantable(lock[t], xid[p][t], k)
      /\ lock' = [lock EXCEPT ![t] = M]
      /\ xid' = SetEnt(xid, p, t, Credit(xid[p][t], k))
      /\ UNCHANGED <<masterLock, cur, pc, waitLock, token, sem>>
  BY DEF LockAcquire
<1>2. xid \in XidTable /\ lock[t] \in LOCK /\ lock \in [Tag -> LOCK]
  BY <1>0, Types DEF TypeOK
<1>3. /\ L \in LOCK /\ L.nHolding = lock[t].nHolding + 1
      /\ L.nActive = lock[t].nActive /\ L.activeHolders = lock[t].activeHolders
      /\ L.mask = lock[t].mask /\ L.waitProcs = lock[t].waitProcs
  BY <1>2, RequestFields
<1> HIDE DEF L
<1>4. /\ M \in LOCK /\ M.nHolding = L.nHolding /\ M.nActive = L.nActive + 1
      /\ M.waitProcs = L.waitProcs
  BY <1>3, GrantFields
<1>5. Exact(lock[t], xid, t)
  BY <1>0 DEF AllExact
<1>6. Exact(M, xid', t)
  BY <1>1, <1>2, <1>3, <1>5, ExactSame, ExactGrant
<1> HIDE DEF M
<1>7. /\ NoConflict' /\ Fewer(xid', xid) /\ HeldBy(xid', p, t, k)
      /\ xid' \in XidTable
  <2>1. \A q \in Proc \ {p}, i \in ConflictTab[k] : ~HeldBy(xid, q, t, i)
    BY <1>1, <1>2, <1>5, GrantSafe
  <2> QED BY <1>0, <1>1, <1>2, <2>1, GrantConflicts
<1>8. /\ lock'[t] = M /\ \A s \in Tag : s # t => lock'[s] = lock[s]
      /\ \A q \in Proc, s \in Tag : s # t => xid'[q][s] = xid[q][s]
  BY <1>1, <1>2 DEF SetEnt, XidTable
<1>9. \A s \in Tag : lock'[s].waitProcs = lock[s].waitProcs
  BY <1>3, <1>4, <1>8
<1>10. TypeOK'
  BY <1>0, <1>1, <1>2, <1>4, <1>7 DEF TypeOK, XidTable
<1>11. AllExact'
  BY <1>0, <1>6, <1>8, ExactStep
<1>12. Requests'
  <2>1. lock[t].nHolding \in Nat /\ lock[t].nActive \in Nat
           /\ Len(lock[t].waitProcs) \in Nat
    BY <1>2, LockFields
  <2>2. M.nHolding = M.nActive + Len(M.waitProcs)
    BY <1>0, <1>3, <1>4, <2>1 DEF Requests
  <2> QED BY <1>0, <1>8, <2>2 DEF Requests
<1>13. Custody'
  BY <1>0, <1>1 DEF Custody
<1>14. SleepersKnown'
  BY <1>0, <1>1, <1>7, <1>9 DEF SleepersKnown, Queued, Holds, Fewer, HeldBy
<1>15. FirstIsBlocked'
  <2> SUFFICES ASSUME NEW s \in Tag, lock[s].waitProcs # <<>>, cur # s
               PROVE  LET q == lock[s].waitProcs[1]
                      IN  BlockedIn(xid', q, s, token[q])
    BY <1>1, <1>9 DEF FirstIsBlocked, Blocked, Holds, HeldBy, BlockedIn
  <2> QED BY <1>0, <1>7, StillBlocked DEF Fewer
<1> QED BY <1>7, <1>10, <1>11, <1>12, <1>13, <1>14, <1>15 DEF IInv

\* Steps that leave the tables alone.
LEMMA TablesSame ==
  ASSUME AllExact, Requests, NoConflict, UNCHANGED <<lock, xid>>
  PROVE  AllExact' /\ Requests' /\ NoConflict'
BY DEF AllExact, Requests, NoConflict, Holds

\* A backend that sleeps in no queue may change what it says it waits for.
LEMMA SleeperStep ==
  ASSUME IInv, NEW p \in Proc, UNCHANGED <<lock, xid, masterLock, cur>>,
         pc[p] \in {"asleep", "woken"}, pc'[p] \in {"woken", "run", "killed"},
         \A q \in Proc \ {p} : /\ pc'[q] = pc[q] /\ waitLock'[q] = waitLock[q]
                               /\ token'[q] = token[q] /\ sem'[q] = sem[q],
         pc'[p] = "killed" => UNCHANGED <<waitLock, token, sem>>,
         pc'[p] # "killed" => sem'[p] = 0 /\ \A t \in Tag : ~Queued(p, t)
  PROVE  Custody' /\ SleepersKnown' /\ FirstIsBlocked'
<1>1. TypeOK /\ Custody /\ SleepersKnown /\ FirstIsBlocked
  BY DEF IInv
<1>2. Custody'
  BY <1>1 DEF Custody
<1>3. ASSUME NEW q \in Proc, q # p
      PROVE  pc'[q] = pc[q] /\ waitLock'[q] = waitLock[q]
               /\ token'[q] = token[q] /\ sem'[q] = sem[q]
  BY <1>3
<1>4. SleepersKnown'
  <2>1. CASE pc'[p] = "killed"
    BY <1>1, <1>3, <2>1 DEF SleepersKnown, Queued, Holds
  <2>2. CASE pc'[p] # "killed"
    BY <1>1, <1>3, <2>2 DEF SleepersKnown, Queued, Holds
  <2> QED BY <2>1, <2>2
<1>5. FirstIsBlocked'
  <2> SUFFICES ASSUME NEW t \in Tag, lock[t].waitProcs # <<>>, cur # t
               PROVE  LET q == lock[t].waitProcs[1] IN Blocked(q, t, token'[q])
    BY DEF FirstIsBlocked, Blocked, Holds
  <2> DEFINE r == lock[t].waitProcs[1]
  <2>1. r \in Proc /\ Queued(r, t) /\ Blocked(r, t, token[r])
    BY <1>1, FirstKnown DEF FirstIsBlocked
  <2> HIDE DEF r
  <2>2. token'[r] = token[r]
    BY <1>3, <2>1
  <2> QED BY <2>1, <2>2 DEF r
<1> QED BY <1>2, <1>4, <1>5

\* The semaphore of a granted waiter lets it go on.
LEMMA AwakeStep ==
  ASSUME IInv, NEW p \in Proc, Awake(p)
  PROVE  IInv'
<1>1. TypeOK /\ AllExact /\ Requests /\ NoConflict /\ SleepersKnown
  BY DEF IInv
<1>2. /\ pc[p] = "asleep" /\ sem[p] = 1
      /\ \A t \in Tag : ~Queued(p, t)
  BY <1>1 DEF Awake, SleepersKnown, TypeOK
<1>3. TypeOK'
  BY <1>1, <1>2 DEF TypeOK, Awake, PC
<1>4. /\ pc'[p] = "woken" /\ sem'[p] = 0
      /\ \A q \in Proc \ {p} : /\ pc'[q] = pc[q] /\ waitLock'[q] = waitLock[q]
                               /\ token'[q] = token[q] /\ sem'[q] = sem[q]
      /\ UNCHANGED <<lock, xid, masterLock, cur>>
  BY <1>1, <1>2 DEF TypeOK, Awake
<1>5. Custody' /\ SleepersKnown' /\ FirstIsBlocked'
  BY <1>2, <1>4, SleeperStep
<1> QED BY <1>1, <1>3, <1>4, <1>5, TablesSame DEF IInv

\* It is back with its lock.
LEMMA ResumeStep ==
  ASSUME IInv, NEW p \in Proc, Resume(p)
  PROVE  IInv'
<1>1. TypeOK /\ AllExact /\ Requests /\ NoConflict /\ SleepersKnown
  BY DEF IInv
<1>2. /\ pc[p] = "woken" /\ sem[p] = 0
      /\ \A t \in Tag : ~Queued(p, t)
  BY <1>1 DEF Resume, SleepersKnown
<1>3. TypeOK'
  BY <1>1 DEF TypeOK, Resume, PC
<1>4. /\ pc'[p] = "run" /\ sem'[p] = 0
      /\ \A q \in Proc \ {p} : /\ pc'[q] = pc[q] /\ waitLock'[q] = waitLock[q]
                               /\ token'[q] = token[q] /\ sem'[q] = sem[q]
      /\ UNCHANGED <<lock, xid, masterLock, cur>>
  BY <1>1, <1>2 DEF TypeOK, Resume
<1>5. Custody' /\ SleepersKnown' /\ FirstIsBlocked'
  BY <1>2, <1>4, SleeperStep
<1> QED BY <1>1, <1>3, <1>4, <1>5, TablesSame DEF IInv

\* A killed backend stays in its queue, and its locks stay.
LEMMA TimeoutStep ==
  ASSUME IInv, NEW p \in Proc, Timeout(p)
  PROVE  IInv'
<1>1. TypeOK /\ AllExact /\ Requests /\ NoConflict /\ SleepersKnown
  BY DEF IInv
<1>2. TypeOK'
  BY <1>1 DEF TypeOK, Timeout, PC
<1>3. /\ pc[p] \in {"asleep", "woken"} /\ pc'[p] = "killed"
      /\ \A q \in Proc \ {p} : /\ pc'[q] = pc[q] /\ waitLock'[q] = waitLock[q]
                               /\ token'[q] = token[q] /\ sem'[q] = sem[q]
      /\ UNCHANGED <<lock, xid, masterLock, cur, waitLock, token, sem>>
  BY <1>1 DEF TypeOK, Timeout
<1>4. Custody' /\ SleepersKnown' /\ FirstIsBlocked'
  BY <1>3, SleeperStep
<1> QED BY <1>1, <1>2, <1>3, <1>4, TablesSame DEF IInv

\* Steps of a backend that is awake, on its way through a release.
LEMMA HolderStep ==
  ASSUME IInv, NEW p \in Proc, pc[p] \notin {"asleep", "killed"},
         NEW c \in PC \ {"asleep", "killed"}, pc' = [pc EXCEPT ![p] = c],
         UNCHANGED <<lock, xid, waitLock, token, sem>>
  PROVE  SleepersKnown' /\ AllExact' /\ Requests' /\ NoConflict'
<1>1. /\ TypeOK /\ SleepersKnown /\ AllExact /\ Requests /\ NoConflict
      /\ pc \in [Proc -> PC]
  BY DEF IInv, TypeOK
<1>2. \A q \in Proc : q # p => pc'[q] = pc[q]
  BY <1>1
<1>3. pc'[p] = c
  BY <1>1
<1>4. SleepersKnown'
  BY <1>1, <1>2, <1>3 DEF SleepersKnown, Queued, Holds
<1> QED BY <1>1, <1>4, TablesSame

\* LockMgrLock is taken for a loop over the entries.
LEMMA LockReleaseAllStep ==
  ASSUME IInv, NEW p \in Proc, LockReleaseAll(p)
  PROVE  IInv'
<1>1. TypeOK /\ Custody /\ FirstIsBlocked
  BY DEF IInv
<1>2. TypeOK'
  BY <1>1 DEF TypeOK, LockReleaseAll, PC
<1>3. Custody'
  BY <1>1, LockAssumption DEF Custody, TypeOK, LockReleaseAll, LockFree
<1>4. SleepersKnown' /\ AllExact' /\ Requests' /\ NoConflict'
  <2>1. "releaseAll" \in PC \ {"asleep", "killed"}
    BY DEF PC
  <2> QED BY <2>1, HolderStep DEF LockReleaseAll
<1>5. FirstIsBlocked'
  BY <1>1 DEF FirstIsBlocked, Blocked, Holds, LockReleaseAll
<1> QED BY <1>2, <1>3, <1>4, <1>5 DEF IInv

\* The loop is over, and LockMgrLock is free.
LEMMA ReleaseAllDoneStep ==
  ASSUME IInv, NEW p \in Proc, ReleaseAllDone(p)
  PROVE  IInv'
<1>1. TypeOK /\ Custody /\ FirstIsBlocked
  BY DEF IInv
<1>2. TypeOK'
  BY <1>1 DEF TypeOK, ReleaseAllDone, PC
<1>3. Custody'
  BY <1>1, LockAssumption DEF Custody, TypeOK, ReleaseAllDone
<1>4. SleepersKnown' /\ AllExact' /\ Requests' /\ NoConflict'
  <2>1. "run" \in PC \ {"asleep", "killed"}
    BY DEF PC
  <2> QED BY <2>1, HolderStep DEF ReleaseAllDone
<1>5. FirstIsBlocked'
  BY <1>1 DEF FirstIsBlocked, Blocked, Holds, ReleaseAllDone
<1> QED BY <1>2, <1>3, <1>4, <1>5 DEF IInv

\* The first waiter is refused: somebody is in its way.
LEMMA WakeupDoneStep ==
  ASSUME IInv, NEW p \in Proc, WakeupDone(p)
  PROVE  IInv'
<1>1. TypeOK /\ Custody /\ SleepersKnown /\ AllExact /\ FirstIsBlocked
  BY DEF IInv
<1>2. TypeOK'
  BY <1>1 DEF TypeOK, WakeupDone, PC
<1>3. /\ pc[p] \in {"wakeup", "wakeupAll"} /\ masterLock = p /\ cur \in Tag
      /\ ~FirstMayHave /\ cur' = NoTag /\ cur' \notin Tag
  BY <1>1, LockAssumption DEF WakeupDone, Custody, TypeOK
<1>4. Custody'
  BY <1>1, <1>3, LockAssumption DEF Custody, TypeOK, WakeupDone
<1>5. SleepersKnown' /\ AllExact' /\ Requests' /\ NoConflict'
  <2> DEFINE c == IF pc[p] = "wakeup" THEN "run" ELSE "releaseAll"
  <2>1. c \in PC \ {"asleep", "killed"} /\ pc' = [pc EXCEPT ![p] = c]
    BY DEF PC, WakeupDone
  <2> HIDE DEF c
  <2> QED BY <1>3, <2>1, HolderStep DEF WakeupDone
<1>6. FirstIsBlocked'
  <2> SUFFICES ASSUME NEW t \in Tag, lock[t].waitProcs # <<>>
               PROVE  LET q == lock[t].waitProcs[1] IN Blocked(q, t, token[q])
    BY DEF WakeupDone, FirstIsBlocked, Blocked, Holds
  <2>1. CASE t # cur
    BY <1>1, <2>1 DEF FirstIsBlocked
  <2>2. CASE t = cur
    <3> DEFINE r == lock[t].waitProcs[1]
    <3>1. r \in Proc /\ token[r] \in LockT
      BY <1>1, FirstKnown
    <3>2. ~LockResolveConflicts(lock[t], xid[r][t], token[r])
      BY <1>3, <2>2 DEF FirstMayHave
    <3>3. Exact(lock[t], xid, t) /\ lock[t] \in LOCK /\ xid \in XidTable
      BY <1>1, Types DEF AllExact
    <3> HIDE DEF r
    <3>4. \E q \in Proc \ {r}, i \in ConflictTab[token[r]] : HeldBy(xid, q, t, i)
      BY <3>1, <3>2, <3>3, RefusedBlocked
    <3> QED BY <3>4 DEF Blocked, Holds, HeldBy, r
  <2> QED BY <2>1, <2>2
<1> QED BY <1>2, <1>4, <1>5, <1>6 DEF IInv

\* A request is refused and sleeps: somebody is in its way.
LEMMA WaitOnLockStep ==
  ASSUME IInv, NEW p \in Proc, NEW t \in Tag, NEW k \in LockT,
         WaitOnLock(p, t, k)
  PROVE  IInv'
<1> DEFINE w == lock[t].waitProcs
<1> DEFINE v == Enqueue(w, p, k)
<1> DEFINE L == Requested(lock[t])
<1> DEFINE M == SetQueue(L, v)
<1>0. /\ TypeOK /\ Custody /\ AllExact /\ Requests
      /\ SleepersKnown /\ NoConflict /\ FirstIsBlocked
  BY DEF IInv
<1>1. /\ pc[p] = "run"
      /\ ~Grantable(lock[t], xid[p][t], k)
      /\ lock' = [lock EXCEPT ![t] = M]
      /\ pc' = [pc EXCEPT ![p] = "asleep"]
      /\ waitLock' = [waitLock EXCEPT ![p] = t]
      /\ token' = [token EXCEPT ![p] = k]
      /\ UNCHANGED <<xid, masterLock, cur, sem>>
  BY DEF WaitOnLock, Ask
<1>2. xid \in XidTable /\ lock[t] \in LOCK /\ lock \in [Tag -> LOCK]
  BY <1>0, Types DEF TypeOK
<1>3. sem[p] = 0 /\ \A s \in Tag : ~Queued(p, s)
  BY <1>0, <1>1 DEF SleepersKnown
<1>4. w \in Seq(Proc) /\ Distinct(w) /\ ~InQueue(w, p)
  BY <1>0, <1>3, Types DEF SleepersKnown, Queued
<1>5. /\ L \in LOCK /\ L.nHolding = lock[t].nHolding + 1
      /\ L.nActive = lock[t].nActive /\ L.activeHolders = lock[t].activeHolders
      /\ L.mask = lock[t].mask
  BY <1>2, RequestFields
<1> HIDE DEF w, L
<1>6. /\ v \in Seq(Proc) /\ Len(v) = Len(w) + 1 /\ Distinct(v)
      /\ \A q : InQueue(v, q) <=> InQueue(w, q) \/ q = p
      /\ v[1] = p \/ (w # <<>> /\ v[1] = w[1])
  BY <1>4, EnqueueFacts
<1> HIDE DEF v
<1>7. /\ M \in LOCK /\ M.nHolding = L.nHolding /\ M.nActive = L.nActive
      /\ M.activeHolders = L.activeHolders /\ M.mask = L.mask /\ M.waitProcs = v
  BY <1>5, <1>6, QueueFields
<1> HIDE DEF M
<1>8. lock'[t] = M /\ \A s \in Tag : s # t => lock'[s] = lock[s]
  BY <1>1, <1>2
<1>9. TypeOK'
  BY <1>0, <1>1, <1>7 DEF TypeOK, PC
<1>10. Custody'
  BY <1>0, <1>1 DEF Custody, TypeOK
<1>11. AllExact'
  <2>1. Exact(M, xid, t)
    BY <1>0, <1>5, <1>7, ExactSame DEF AllExact
  <2> QED BY <1>0, <1>1, <1>8, <2>1, ExactStep
<1>12. Requests'
  <2>1. lock[t].nHolding \in Nat /\ lock[t].nActive \in Nat /\ Len(w) \in Nat
    BY <1>2, <1>4, LockFields
  <2>2. lock[t].nHolding = lock[t].nActive + Len(w)
    BY <1>0 DEF Requests, w
  <2>3. M.nHolding = M.nActive + Len(M.waitProcs)
    <3>1. /\ M.nHolding = lock[t].nHolding + 1 /\ M.nActive = lock[t].nActive
          /\ Len(M.waitProcs) = Len(w) + 1
      BY <1>5, <1>6, <1>7
    <3> QED BY <2>1, <2>2, <3>1
  <2> QED BY <1>0, <1>8, <2>3 DEF Requests
<1>13. NoConflict'
  BY <1>0, <1>1 DEF NoConflict, Holds
<1>14. /\ pc'[p] = "asleep" /\ waitLock'[p] = t /\ token'[p] = k /\ sem'[p] = 0
       /\ \A q \in Proc : q # p =>
            /\ pc'[q] = pc[q] /\ waitLock'[q] = waitLock[q]
            /\ token'[q] = token[q] /\ sem'[q] = sem[q]
  BY <1>0, <1>1, <1>3 DEF TypeOK
<1>15. /\ Queued(p, t)'
       /\ \A s \in Tag : s # t => ~Queued(p, s)'
       /\ \A q \in Proc, s \in Tag : q # p => (Queued(q, s)' <=> Queued(q, s))
  BY <1>3, <1>6, <1>7, <1>8 DEF Queued, w
<1>16. SleepersKnown'
  <2>1. \A s \in Tag : Distinct(lock'[s].waitProcs)
    BY <1>0, <1>6, <1>7, <1>8 DEF SleepersKnown
  <2>2. \A q \in Proc, s \in Tag, i \in LockT : Holds(q, s, i)' <=> Holds(q, s, i)
    BY <1>1 DEF Holds
  <2> QED BY <1>0, <1>14, <1>15, <2>1, <2>2 DEF SleepersKnown
<1>17. FirstIsBlocked'
  <2> SUFFICES ASSUME NEW s \in Tag, lock'[s].waitProcs # <<>>, cur # s
               PROVE  LET q == lock'[s].waitProcs[1]
                      IN  BlockedIn(xid, q, s, token'[q])
    BY <1>1 DEF FirstIsBlocked, Blocked, Holds, HeldBy, BlockedIn
  <2>1. CASE s = t /\ v[1] = p
    <3>1. BlockedIn(xid, p, t, k)
      BY <1>0, <1>1, <1>2, RefusedBlocked DEF BlockedIn, Grantable, AllExact
    <3> QED BY <1>7, <1>8, <1>14, <2>1, <3>1
  <2>2. CASE s # t \/ v[1] # p
    <3>1. lock[s].waitProcs # <<>> /\ lock'[s].waitProcs[1] = lock[s].waitProcs[1]
      BY <1>6, <1>7, <1>8, <2>2 DEF w
    <3> DEFINE r == lock[s].waitProcs[1]
    <3>2. r \in Proc /\ Queued(r, s)
      BY <1>0, <3>1, FirstKnown
    <3>3. BlockedIn(xid, r, s, token[r])
      BY <1>0, <3>1 DEF FirstIsBlocked, Blocked, Holds, HeldBy, BlockedIn
    <3> HIDE DEF r
    <3>4. token'[r] = token[r]
      BY <1>3, <1>14, <3>2
    <3> QED BY <3>1, <3>3, <3>4 DEF r
  <2> QED BY <2>1, <2>2
<1> QED BY <1>9, <1>10, <1>11, <1>12, <1>13, <1>16, <1>17 DEF IInv

\* A waiter is granted its lock.
LEMMA ProcWakeupStep ==
  ASSUME IInv, NEW p \in Proc, ProcWakeup(p)
  PROVE  IInv'
<1>0. /\ TypeOK /\ Custody /\ AllExact /\ Requests
      /\ SleepersKnown /\ NoConflict /\ FirstIsBlocked
  BY DEF IInv
<1>1. PICK t \in Tag : t = cur
  BY <1>0, LockAssumption DEF Custody, TypeOK, ProcWakeup
<1> DEFINE w == lock[t].waitProcs
<1>2. w # <<>>
  BY <1>1 DEF ProcWakeup, FirstMayHave
<1>3. PICK r \in Proc, k \in LockT : r = w[1] /\ k = token[r]
  BY <1>0, <1>2, FirstKnown
<1>4. /\ Queued(r, t)
      /\ pc[r] \in {"asleep", "killed"} /\ waitLock[r] = t /\ sem[r] = 0
  BY <1>0, <1>2, <1>3, FirstKnown
<1> DEFINE v == Tail(w)
<1> DEFINE L == GrantLock(lock[t], k)
<1> DEFINE M == SetQueue(L, v)
<1>5. /\ pc[p] \in {"wakeup", "wakeupAll"}
      /\ w # <<>> /\ LockResolveConflicts(lock[t], xid[r][t], k)
      /\ lock' = [lock EXCEPT ![t] = M]
      /\ xid' = SetEnt(xid, r, t, Credit(xid[r][t], k))
      /\ sem' = [sem EXCEPT ![r] = sem[r] + 1]
      /\ UNCHANGED <<masterLock, cur, pc, waitLock, token>>
  BY <1>1, <1>3 DEF ProcWakeup, FirstMayHave
<1>6. xid \in XidTable /\ lock[t] \in LOCK /\ lock \in [Tag -> LOCK]
  BY <1>0, <1>1, Types DEF TypeOK
<1>7. w \in Seq(Proc) /\ Distinct(w)
  BY <1>0, <1>1, Types DEF SleepersKnown
<1> HIDE DEF w
<1>8. /\ v \in Seq(Proc) /\ Len(v) = Len(w) - 1 /\ Distinct(v)
      /\ \A q : InQueue(v, q) <=> InQueue(w, q) /\ q # r
  BY <1>5, <1>3, <1>7, TailFacts
<1> HIDE DEF v
<1>9. /\ L \in LOCK /\ L.nHolding = lock[t].nHolding
      /\ L.nActive = lock[t].nActive + 1
  BY <1>6, <1>4, GrantFields
<1>10. Exact(lock[t], xid, t)
  BY <1>0, <1>1 DEF AllExact
<1>11. Exact(L, xid', t)
  BY <1>5, <1>1, <1>6, <1>4, <1>10, ExactGrant
<1>12. /\ NoConflict' /\ Fewer(xid', xid) /\ HeldBy(xid', r, t, k)
       /\ xid' \in XidTable
  <2>1. Grantable(lock[t], xid[r][t], k)
    BY <1>5 DEF Grantable
  <2>2. \A q \in Proc \ {r}, i \in ConflictTab[k] : ~HeldBy(xid, q, t, i)
    BY <1>1, <1>6, <1>4, <1>10, <2>1, GrantSafe
  <2> QED BY <1>0, <1>5, <1>1, <1>6, <1>4, <2>2, GrantConflicts
<1> HIDE DEF L
<1>13. /\ M \in LOCK /\ M.nHolding = L.nHolding /\ M.nActive = L.nActive
       /\ M.activeHolders = L.activeHolders /\ M.mask = L.mask
       /\ M.waitProcs = v
  BY <1>8, <1>9, QueueFields
<1> HIDE DEF M
<1>14. /\ lock'[t] = M /\ \A s \in Tag : s # t => lock'[s] = lock[s]
       /\ \A q \in Proc, s \in Tag : s # t => xid'[q][s] = xid[q][s]
  BY <1>5, <1>1, <1>6, <1>4 DEF SetEnt, XidTable
<1>15. TypeOK'
  BY <1>0, <1>5, <1>1, <1>6, <1>4, <1>12, <1>13 DEF TypeOK, XidTable
<1>16. Custody'
  BY <1>0, <1>5 DEF Custody
<1>17. AllExact'
  <2>1. Exact(M, xid', t)
    BY <1>11, <1>13, ExactSame
  <2> QED BY <1>0, <1>1, <1>14, <2>1, ExactStep
<1>18. Requests'
  <2>1. lock[t].nHolding \in Nat /\ lock[t].nActive \in Nat /\ Len(w) \in Nat
    BY <1>6, <1>7, LockFields
  <2>2. lock[t].nHolding = lock[t].nActive + Len(w)
    BY <1>0, <1>1 DEF Requests, w
  <2>3. M.nHolding = M.nActive + Len(M.waitProcs)
    <3>1. /\ M.nHolding = lock[t].nHolding /\ M.nActive = lock[t].nActive + 1
          /\ Len(M.waitProcs) = Len(w) - 1
      BY <1>8, <1>9, <1>13
    <3> QED BY <2>1, <2>2, <3>1
  <2> QED BY <1>0, <1>14, <2>3 DEF Requests
<1>19. /\ sem'[r] = 1 /\ \A q \in Proc : q # r => sem'[q] = sem[q]
       /\ UNCHANGED <<pc, waitLock, token>>
  BY <1>0, <1>5, <1>4 DEF TypeOK
<1>20. /\ \A s \in Tag : ~Queued(r, s)'
       /\ \A q \in Proc, s \in Tag : q # r => (Queued(q, s)' <=> Queued(q, s))
  <2>1. \A s \in Tag : s # t => ~Queued(r, s)
    BY <1>0, <1>4 DEF SleepersKnown
  <2>2. Queued(r, t)' <=> FALSE
    BY <1>8, <1>13, <1>14 DEF Queued
  <2>3. \A q \in Proc : q # r => (Queued(q, t)' <=> Queued(q, t))
    BY <1>8, <1>13, <1>14 DEF Queued, w
  <2>4. \A q \in Proc, s \in Tag : s # t => (Queued(q, s)' <=> Queued(q, s))
    BY <1>14 DEF Queued
  <2> QED BY <2>1, <2>2, <2>3, <2>4
<1>21. SleepersKnown'
  <2>1. \A s \in Tag : Distinct(lock'[s].waitProcs)
    BY <1>0, <1>8, <1>13, <1>14 DEF SleepersKnown
  <2>2. \A q \in Proc, s \in Tag, i \in LockT : Holds(q, s, i) => Holds(q, s, i)'
    BY <1>12 DEF Holds, Fewer, HeldBy
  <2>3. Holds(r, t, k)'
    BY <1>12 DEF Holds, HeldBy
  <2> QED BY <1>0, <1>1, <1>4, <1>19, <1>20, <2>1, <2>2, <2>3, <1>3 DEF SleepersKnown
<1>22. FirstIsBlocked'
  <2> SUFFICES ASSUME NEW s \in Tag, lock'[s].waitProcs # <<>>, cur # s
               PROVE  LET q == lock'[s].waitProcs[1]
                      IN  BlockedIn(xid', q, s, token[q])
    BY <1>5 DEF FirstIsBlocked, Blocked, Holds, HeldBy, BlockedIn
  <2>1. lock'[s] = lock[s]
    BY <1>1, <1>14
  <2> QED BY <1>0, <1>12, <2>1, StillBlocked DEF Fewer
<1> QED BY <1>12, <1>15, <1>16, <1>17, <1>18, <1>21, <1>22 DEF IInv

-----------------------------------------------------------------------------
(* Releases.                                                               *)

\* What a release leaves of a lock is a lock; when no request is left, there is
\* nobody who holds it or waits, and it may leave the table.
LEMMA DebitLeaves ==
  ASSUME NEW L \in LOCK, L.nHolding = L.nActive + Len(L.waitProcs),
         NEW h \in [LockT -> Nat], NEW n \in Nat, NEW Y, NEW t,
         Exact(Debit(L, h, n), Y, t)
  PROVE  LET M == Debit(L, h, n)
         IN  /\ M \in LOCK
             /\ M.waitProcs = L.waitProcs
             /\ M.nHolding = M.nActive + Len(M.waitProcs)
             /\ M.nHolding = 0 => M.waitProcs = <<>> /\ Exact(NewLock, Y, t)
<1> DEFINE M == Debit(L, h, n)
<1> DEFINE T == Holdings(Y, t)
<1>1. /\ M.nHolding = L.nHolding - n /\ M.nActive = L.nActive - n
      /\ M.activeHolders = [i \in LockT |-> L.activeHolders[i] - h[i]]
      /\ M.mask = {i \in L.mask : L.activeHolders[i] - h[i] # 0}
      /\ M.waitProcs = L.waitProcs
      /\ M = [nHolding |-> M.nHolding, nActive |-> M.nActive,
              activeHolders |-> M.activeHolders, mask |-> M.mask,
              waitProcs |-> M.waitProcs]
  BY DebitFields DEF Debit
<1>2. /\ L.nHolding \in Nat /\ L.nActive \in Nat /\ L.mask \in SUBSET LockT
      /\ L.waitProcs \in Seq(Proc)
  BY LockFields
<1>3. /\ IsFiniteSet(T) /\ M.nActive = Cardinality(T)
      /\ \A i \in LockT : M.activeHolders[i] = Cardinality(ByType(T, i))
      /\ \A q \in Proc : Y[q][t].nHolding = Cardinality(ByProc(T, q))
  BY DEF Exact, Counted
<1> HIDE DEF M, T
<1>4. M.nActive \in Nat
  BY <1>3, FS_CardinalityType
<1>5. \A i \in LockT : M.activeHolders[i] \in Nat
  <2> SUFFICES ASSUME NEW i \in LockT PROVE Cardinality(ByType(T, i)) \in Nat
    BY <1>3
  <2>1. ByType(T, i) \subseteq T
    BY DEF ByType
  <2> QED BY <1>3, <2>1, FS_Subset, FS_CardinalityType
<1>6. M.activeHolders \in [LockT -> Nat]
  BY <1>1, <1>5
<1>7. Len(M.waitProcs) \in Nat
  BY <1>1, <1>2
<1>8. M.nHolding = M.nActive + Len(M.waitProcs)
  <2>1. Len(M.waitProcs) = Len(L.waitProcs)
    BY <1>1
  <2> QED BY <1>1, <1>2, <1>7, <2>1
<1>9. M \in LOCK
  <2>1. M.nHolding \in Nat
    BY <1>4, <1>7, <1>8
  <2>2. M.mask \in SUBSET LockT
    BY <1>1, <1>2
  <2> QED BY <1>1, <1>2, <1>4, <1>6, <2>1, <2>2 DEF LOCK
<1>10. ASSUME M.nHolding = 0
       PROVE  M.waitProcs = <<>> /\ Exact(NewLock, Y, t)
  <2>1. M.nActive = 0 /\ Len(M.waitProcs) = 0
    BY <1>4, <1>7, <1>8, <1>10
  <2>2. M.waitProcs = <<>>
    BY <1>1, <1>2, <2>1
  <2>3. T = {}
    BY <1>3, <2>1, FS_EmptySet
  <2>4. \A q \in Proc : ByProc(T, q) = {}
    BY <2>3 DEF ByProc
  <2>5. \A q \in Proc : Y[q][t].nHolding = 0
    BY <1>3, <2>4, FS_EmptySet
  <2> QED BY <2>2, <2>3, <2>5, ExactNew DEF T
<1> QED BY <1>1, <1>8, <1>9, <1>10 DEF M

\* What a release of locks on one tag, by a backend that is awake, preserves.
LEMMA ReleaseStep ==
  ASSUME IInv, NEW p \in Proc, NEW t \in Tag, pc[p] \notin {"asleep", "killed"},
         NEW c \in PC \ {"asleep", "killed"}, pc' = [pc EXCEPT ![p] = c],
         UNCHANGED <<waitLock, token, sem>>,
         NEW M \in LOCK, lock' = [lock EXCEPT ![t] = M],
         M.waitProcs = lock[t].waitProcs,
         M.nHolding = M.nActive + Len(M.waitProcs),
         Exact(M, xid', t), xid' \in XidTable, Fewer(xid, xid'),
         \A q \in Proc, s \in Tag : q # p \/ s # t => xid'[q][s] = xid[q][s],
         cur = NoTag, cur' = t \/ (cur' = cur /\ M.waitProcs = <<>>)
  PROVE  /\ lock' \in [Tag -> LOCK] /\ AllExact' /\ Requests'
         /\ SleepersKnown' /\ NoConflict' /\ FirstIsBlocked'
<1>0. /\ TypeOK /\ AllExact /\ Requests
      /\ SleepersKnown /\ NoConflict /\ FirstIsBlocked
  BY DEF IInv
<1>1. lock \in [Tag -> LOCK] /\ pc \in [Proc -> PC]
  BY <1>0 DEF TypeOK
<1>2. /\ lock'[t] = M /\ \A s \in Tag : s # t => lock'[s] = lock[s]
      /\ \A s \in Tag : lock'[s].waitProcs = lock[s].waitProcs
  BY <1>1
<1>3. lock' \in [Tag -> LOCK]
  BY <1>1
<1>4. AllExact'
  BY <1>0, <1>2, ExactStep
<1>5. Requests'
  BY <1>0, <1>2 DEF Requests
<1>6. SleepersKnown'
  <2>1. pc'[p] = c /\ \A q \in Proc : q # p => pc'[q] = pc[q]
    BY <1>1
  <2>2. \A q \in Proc, s \in Tag : Queued(q, s)' <=> Queued(q, s)
    BY <1>2 DEF Queued
  <2>3. \A q \in Proc, s \in Tag, i \in LockT :
          q # p => (Holds(q, s, i)' <=> Holds(q, s, i))
    BY DEF Holds
  <2>4. \A s \in Tag : Distinct(lock'[s].waitProcs)
    BY <1>0, <1>2 DEF SleepersKnown
  <2> QED BY <1>0, <2>1, <2>2, <2>3, <2>4 DEF SleepersKnown
<1>7. NoConflict'
  BY <1>0, FewerConflicts
<1>8. FirstIsBlocked'
  <2> SUFFICES ASSUME NEW s \in Tag, lock[s].waitProcs # <<>>, cur' # s
               PROVE  LET q == lock[s].waitProcs[1]
                      IN  BlockedIn(xid', q, s, token[q])
    BY <1>2 DEF FirstIsBlocked, Blocked, Holds, HeldBy, BlockedIn
  <2>1. s # t /\ cur # s
    BY LockAssumption
  <2>2. \A q \in Proc, i \in LockT : HeldBy(xid, q, s, i) => HeldBy(xid', q, s, i)
    BY <2>1 DEF HeldBy
  <2> QED BY <1>0, <2>1, <2>2, StillBlocked
<1> QED BY <1>3, <1>4, <1>5, <1>6, <1>7, <1>8

\* A holder of LockMgrLock, or nobody, is looking at no queue.
LEMMA NotLooking ==
  ASSUME TypeOK, Custody, NEW p \in Proc,
         LockFree \/ pc[p] = "releaseAll"
  PROVE  cur = NoTag
BY LockAssumption DEF TypeOK, Custody, LockFree

\* One lock goes.
LEMMA LockReleaseStep ==
  ASSUME IInv, NEW p \in Proc, NEW t \in Tag, NEW k \in LockT,
         LockRelease(p, t, k)
  PROVE  IInv'
<1> DEFINE M == Debit(lock[t], One(k), 1)
<1> DEFINE K == IF M.nHolding = 0 THEN NewLock ELSE M
<1> DEFINE S == Holdings(xid, t)
<1> DEFINE T == Holdings(xid', t)
<1> DEFINE n == xid[p][t].holders[k]
<1>0. /\ TypeOK /\ Custody /\ AllExact /\ Requests
  BY DEF IInv
<1>1. /\ pc[p] = "run" /\ LockFree /\ n > 0
      /\ xid' = SetEnt(xid, p, t, Repay(xid[p][t], k))
      /\ lock' = [lock EXCEPT ![t] = K]
      /\ M.nHolding = 0 => UNCHANGED <<masterLock, cur, pc>>
      /\ M.nHolding # 0 => /\ masterLock' = p /\ cur' = t
                           /\ pc' = [pc EXCEPT ![p] = "wakeup"]
      /\ UNCHANGED <<waitLock, token, sem>>
  BY DEF LockRelease
<1>2. /\ xid \in XidTable /\ lock[t] \in LOCK /\ Exact(lock[t], xid, t)
      /\ lock[t].nHolding = lock[t].nActive + Len(lock[t].waitProcs)
      /\ cur = NoTag
  BY <1>0, <1>1, Types, NotLooking DEF AllExact, Requests
<1>3. /\ IsFiniteSet(S)
      /\ \A q \in Proc : xid[q][t].nHolding = Cardinality(ByProc(S, q))
  BY <1>2 DEF Exact, Counted
<1>4. xid[p][t].nHolding > 0
  <2>1. n \in Nat
    BY <1>2, BothCount
  <2>2. <<p, k, n>> \in S
    BY <1>1, <1>2, <2>1, Triple
  <2>3. <<p, k, n>> \in ByProc(S, p) /\ ByProc(S, p) \subseteq S
    BY <2>2 DEF ByProc
  <2> HIDE DEF S
  <2>4. IsFiniteSet(ByProc(S, p)) /\ ByProc(S, p) # {}
    BY <1>3, <2>3, FS_Subset
  <2>5. Cardinality(ByProc(S, p)) \in Nat /\ Cardinality(ByProc(S, p)) # 0
    BY <2>4, FS_CardinalityType, FS_EmptySet
  <2> QED BY <1>3, <2>5
<1>5. /\ xid' \in XidTable
      /\ <<p, k, n>> \notin T /\ S = T \cup {<<p, k, n>>}
      /\ xid'[p][t].nHolding = xid[p][t].nHolding - 1
      /\ \A i \in LockT : xid'[p][t].holders[i] <= xid[p][t].holders[i]
      /\ \A q \in Proc, s \in Tag : q # p \/ s # t => xid'[q][s] = xid[q][s]
  BY <1>1, <1>2, <1>4, RepayHoldings
<1>6. Fewer(xid, xid')
  <2>1. \A q \in Proc, s \in Tag, i \in LockT :
          /\ xid[q][s].holders[i] \in Nat /\ xid'[q][s].holders[i] \in Nat
          /\ xid'[q][s].holders[i] <= xid[q][s].holders[i]
    <3>1. \A q \in Proc, s \in Tag, i \in LockT :
            xid[q][s].holders[i] \in Nat /\ xid'[q][s].holders[i] \in Nat
      BY <1>2, <1>5, BothCount
    <3> QED BY <1>5, <3>1
  <2> QED BY <2>1 DEF Fewer, HeldBy
<1> HIDE DEF S, T, n
<1>7. IsFiniteSet(T) /\ T \subseteq S
  BY <1>3, <1>5, FS_Subset
<1>8. /\ Cardinality(S) = Cardinality(T) + 1
      /\ Cardinality(ByType(S, k)) = Cardinality(ByType(T, k)) + 1
      /\ Cardinality(ByProc(S, p)) = Cardinality(ByProc(T, p)) + 1
      /\ \A j : j # k => ByType(S, j) = ByType(T, j)
      /\ \A q : q # p => ByProc(S, q) = ByProc(T, q)
  BY <1>5, <1>7, AddOne
<1>9. /\ Cardinality(T) \in Nat
      /\ \A i \in LockT : Cardinality(ByType(T, i)) \in Nat
      /\ \A q \in Proc : Cardinality(ByProc(T, q)) \in Nat
  <2>1. \A i \in LockT : ByType(T, i) \subseteq T
    BY DEF ByType
  <2>2. \A q \in Proc : ByProc(T, q) \subseteq T
    BY DEF ByProc
  <2> QED BY <1>7, <2>1, <2>2, FS_Subset, FS_CardinalityType
<1>10. /\ One(k) \in [LockT -> Nat] /\ 1 \in Nat
       /\ \A i \in LockT : One(k)[i] = IF i = k THEN 1 ELSE 0
  BY DEF One
<1>11. Exact(M, xid', t)
  <2>1. Cardinality(T) = Cardinality(S) - 1
    BY <1>8, <1>9
  <2>2. \A i \in LockT :
          Cardinality(ByType(T, i)) = Cardinality(ByType(S, i)) - One(k)[i]
    BY <1>8, <1>9, <1>10
  <2>3. \A q \in Proc : xid'[q][t].nHolding = Cardinality(ByProc(T, q))
    <3>1. xid'[p][t].nHolding = Cardinality(ByProc(S, p)) - 1
      BY <1>3, <1>5
    <3>2. xid'[p][t].nHolding = Cardinality(ByProc(T, p))
      BY <1>8, <1>9, <3>1
    <3>3. \A q \in Proc : q # p => xid'[q][t] = xid[q][t]
      BY <1>5
    <3> QED BY <1>3, <1>8, <3>2, <3>3
  <2> QED BY <1>2, <1>7, <1>10, <2>1, <2>2, <2>3, ExactDebit DEF S, T
<1>12. /\ M \in LOCK /\ M.waitProcs = lock[t].waitProcs
       /\ M.nHolding = M.nActive + Len(M.waitProcs)
       /\ M.nHolding = 0 => M.waitProcs = <<>> /\ Exact(NewLock, xid', t)
  BY <1>2, <1>10, <1>11, DebitLeaves
<1> HIDE DEF M
<1>13. /\ K \in LOCK /\ K.waitProcs = lock[t].waitProcs
       /\ K.nHolding = K.nActive + Len(K.waitProcs)
       /\ Exact(K, xid', t)
       /\ M.nHolding = 0 => K.waitProcs = <<>>
  BY <1>11, <1>12, NewFields
<1> HIDE DEF K
<1>14. PICK c \in PC \ {"asleep", "killed"} :
         /\ pc' = [pc EXCEPT ![p] = c]
         /\ IF M.nHolding = 0 THEN c = "run" ELSE c = "wakeup"
  <2>1. "run" \in PC \ {"asleep", "killed"} /\ "wakeup" \in PC \ {"asleep", "killed"}
    BY DEF PC
  <2>2. pc = [pc EXCEPT ![p] = "run"]
    BY <1>0, <1>1 DEF TypeOK
  <2> QED BY <1>1, <2>1, <2>2
<1>15. /\ lock' \in [Tag -> LOCK] /\ AllExact' /\ Requests'
       /\ SleepersKnown' /\ NoConflict' /\ FirstIsBlocked'
  <2>1. cur' = t \/ (cur' = cur /\ K.waitProcs = <<>>)
    BY <1>1, <1>13
  <2>2. pc[p] \notin {"asleep", "killed"}
    BY <1>1
  <2> QED BY <1>1, <1>2, <1>5, <1>6, <1>13, <1>14, <2>1, <2>2, ReleaseStep
<1>16. TypeOK'
  BY <1>0, <1>1, <1>5, <1>14, <1>15 DEF TypeOK, XidTable
<1>17. Custody'
  <2>1. pc'[p] = c /\ \A q \in Proc : q # p => pc'[q] = pc[q]
    BY <1>0, <1>14 DEF TypeOK
  <2>2. \A q \in Proc : pc[q] \notin {"wakeup", "releaseAll", "wakeupAll"}
    BY <1>0, <1>1, LockAssumption DEF Custody, LockFree
  <2> QED BY <1>0, <1>1, <1>2, <1>14, <2>1, <2>2, LockAssumption DEF Custody
<1> QED BY <1>15, <1>16, <1>17 DEF IInv

\* All the locks of an entry go.
LEMMA ReleaseEntryStep ==
  ASSUME IInv, NEW p \in Proc, NEW t \in Tag, ReleaseEntry(p, t)
  PROVE  IInv'
<1> DEFINE h == xid[p][t].holders
<1> DEFINE n == xid[p][t].nHolding
<1> DEFINE M == Debit(lock[t], h, n)
<1> DEFINE K == IF lock[t].nHolding = n THEN NewLock ELSE M
<1> DEFINE S == Holdings(xid, t)
<1> DEFINE T == Holdings(xid', t)
<1>0. /\ TypeOK /\ Custody /\ AllExact /\ Requests
  BY DEF IInv
<1>1. /\ pc[p] = "releaseAll"
      /\ xid' = SetEnt(xid, p, t, NewEnt)
      /\ lock' = [lock EXCEPT ![t] = K]
      /\ lock[t].nHolding = n => UNCHANGED <<cur, pc>>
      /\ lock[t].nHolding # n => /\ cur' = t
                                 /\ pc' = [pc EXCEPT ![p] = "wakeupAll"]
      /\ UNCHANGED <<masterLock, waitLock, token, sem>>
  BY DEF ReleaseEntry
<1>2. /\ xid \in XidTable /\ lock[t] \in LOCK /\ Exact(lock[t], xid, t)
      /\ lock[t].nHolding = lock[t].nActive + Len(lock[t].waitProcs)
      /\ lock[t].nHolding \in Nat
      /\ cur = NoTag
  <2>1. xid \in XidTable /\ lock[t] \in LOCK
    BY <1>0, Types
  <2>2. lock[t].nHolding \in Nat
    BY <2>1, LockFields
  <2>3. cur = NoTag
    BY <1>0, <1>1, NotLooking
  <2> QED BY <1>0, <2>1, <2>2, <2>3 DEF AllExact, Requests
<1>3. /\ IsFiniteSet(S)
      /\ \A q \in Proc : xid[q][t].nHolding = Cardinality(ByProc(S, q))
  BY <1>2 DEF Exact, Counted
<1>4. h \in [LockT -> Nat] /\ n \in Nat
  BY <1>2 DEF XidTable, XIDLookupEnt
<1>5. /\ xid' \in XidTable /\ T = S \ ByProc(S, p)
      /\ xid'[p][t] = NewEnt
      /\ \A q \in Proc, s \in Tag : q # p \/ s # t => xid'[q][s] = xid[q][s]
  BY <1>1, <1>2, ForgetHoldings
<1>6. NewEnt.nHolding = 0 /\ \A i \in LockT : NewEnt.holders[i] = 0
  BY DEF NewEnt
<1>7. Fewer(xid, xid')
  BY <1>5, <1>6 DEF Fewer, HeldBy
<1>8. \A i \in LockT : Cardinality(ByBoth(S, p, i)) = h[i]
  BY <1>2, BothCount
<1> HIDE DEF h, S, T
<1>9. /\ T \subseteq S /\ IsFiniteSet(T)
      /\ Cardinality(T) = Cardinality(S) - Cardinality(ByProc(S, p))
      /\ \A i \in LockT : Cardinality(ByType(T, i)) =
           Cardinality(ByType(S, i)) - Cardinality(ByBoth(S, p, i))
      /\ ByProc(T, p) = {}
      /\ \A q : q # p => ByProc(T, q) = ByProc(S, q)
  <2>1. IsFiniteSet(S) /\ T = S \ ByProc(S, p)
    BY <1>3, <1>5
  <2>2. T \subseteq S
    BY <2>1
  <2>3. IsFiniteSet(T)
    BY <2>1, RemoveAll
  <2>4. Cardinality(T) = Cardinality(S) - Cardinality(ByProc(S, p))
    BY <2>1, RemoveAll, ZenonT(60)
  <2>5. ASSUME NEW i \in LockT
        PROVE  Cardinality(ByType(T, i)) =
                 Cardinality(ByType(S, i)) - Cardinality(ByBoth(S, p, i))
    BY <2>1, RemoveType
  <2>6. ByProc(T, p) = {}
    BY <2>1, RemoveAll
  <2>7. \A q : q # p => ByProc(T, q) = ByProc(S, q)
    BY <2>1, RemoveAll
  <2> QED BY <2>2, <2>3, <2>4, <2>5, <2>6, <2>7
<1>10. Exact(M, xid', t)
  <2>1. Cardinality(T) = Cardinality(S) - n
    BY <1>3, <1>9
  <2>2. \A i \in LockT :
          Cardinality(ByType(T, i)) = Cardinality(ByType(S, i)) - h[i]
    BY <1>8, <1>9
  <2>3. \A q \in Proc : xid'[q][t].nHolding = Cardinality(ByProc(T, q))
    <3>1. xid'[p][t].nHolding = Cardinality(ByProc(T, p))
      BY <1>5, <1>6, <1>9, FS_EmptySet
    <3>2. \A q \in Proc : q # p => xid'[q][t] = xid[q][t]
      BY <1>5
    <3> QED BY <1>3, <1>9, <3>1, <3>2
  <2> HIDE DEF n
  <2> QED BY <1>2, <1>4, <1>9, <2>1, <2>2, <2>3, ExactDebit DEF S, T
<1> HIDE DEF n
<1>11. /\ M \in LOCK /\ M.waitProcs = lock[t].waitProcs
       /\ M.nHolding = M.nActive + Len(M.waitProcs)
       /\ M.nHolding = 0 => M.waitProcs = <<>> /\ Exact(NewLock, xid', t)
  BY <1>2, <1>4, <1>10, DebitLeaves
<1>12. lock[t].nHolding = n => M.nHolding = 0
  <2>1. M.nHolding = lock[t].nHolding - n
    BY <1>2, <1>4, DebitFields
  <2> HIDE DEF M
  <2> QED BY <1>2, <1>4, <2>1
<1> HIDE DEF M
<1>13. /\ K \in LOCK /\ K.waitProcs = lock[t].waitProcs
       /\ K.nHolding = K.nActive + Len(K.waitProcs)
       /\ Exact(K, xid', t)
       /\ lock[t].nHolding = n => K.waitProcs = <<>>
  BY <1>10, <1>11, <1>12, NewFields
<1> HIDE DEF K
<1>14. PICK c \in PC \ {"asleep", "killed"} :
         /\ pc' = [pc EXCEPT ![p] = c]
         /\ IF lock[t].nHolding = n THEN c = "releaseAll" ELSE c = "wakeupAll"
  <2>1. /\ "releaseAll" \in PC \ {"asleep", "killed"}
        /\ "wakeupAll" \in PC \ {"asleep", "killed"}
    BY DEF PC
  <2>2. pc = [pc EXCEPT ![p] = "releaseAll"]
    BY <1>0, <1>1 DEF TypeOK
  <2> QED BY <1>1, <2>1, <2>2
<1>15. /\ lock' \in [Tag -> LOCK] /\ AllExact' /\ Requests'
       /\ SleepersKnown' /\ NoConflict' /\ FirstIsBlocked'
  <2>1. cur' = t \/ (cur' = cur /\ K.waitProcs = <<>>)
    BY <1>1, <1>13
  <2>2. pc[p] \notin {"asleep", "killed"}
    BY <1>1
  <2> QED BY <1>1, <1>2, <1>5, <1>7, <1>13, <1>14, <2>1, <2>2, ReleaseStep
<1>16. TypeOK'
  BY <1>0, <1>1, <1>5, <1>14, <1>15 DEF TypeOK, XidTable
<1>17. Custody'
  <2>1. pc'[p] = c /\ \A q \in Proc : q # p => pc'[q] = pc[q]
    BY <1>0, <1>14 DEF TypeOK
  <2>2. \A q \in Proc : pc[q] \notin {"wakeup", "wakeupAll"}
    BY <1>0, <1>2 DEF Custody
  <2>3. masterLock' = masterLock /\ masterLock = p
    BY <1>0, <1>1 DEF Custody
  <2> QED BY <1>0, <1>1, <1>2, <1>14, <2>1, <2>2, <2>3, LockAssumption DEF Custody
<1> QED BY <1>15, <1>16, <1>17 DEF IInv

-----------------------------------------------------------------------------
(* The theorems.                                                           *)

\* Every step preserves the invariant.
LEMMA NextStep == IInv /\ [Next]_vars => IInv'
<1> SUFFICES ASSUME IInv, [Next]_vars PROVE IInv'
  OBVIOUS
<1>1. CASE UNCHANGED vars
  <2>1. /\ TypeOK /\ Custody /\ AllExact /\ Requests
        /\ SleepersKnown /\ NoConflict /\ FirstIsBlocked
    BY DEF IInv
  <2>2. TypeOK' /\ Custody'
    BY <1>1, <2>1 DEF vars, TypeOK, Custody
  <2>3. AllExact' /\ Requests' /\ NoConflict'
    BY <1>1, <2>1, TablesSame DEF vars
  <2>4. SleepersKnown' /\ FirstIsBlocked'
    BY <1>1, <2>1 DEF vars, SleepersKnown, FirstIsBlocked, Queued, Holds, Blocked
  <2> QED BY <2>2, <2>3, <2>4 DEF IInv
<1>2. CASE Next
  <2>1. PICK p \in Proc :
          \/ \E t \in Tag, k \in LockT : \/ LockAcquire(p, t, k)
                                         \/ WaitOnLock(p, t, k)
                                         \/ LockRelease(p, t, k)
          \/ LockReleaseAll(p)
          \/ Progress(p)
          \/ Timeout(p)
    BY <1>2 DEF Next
  <2>2. CASE \E t \in Tag, k \in LockT : \/ LockAcquire(p, t, k)
                                         \/ WaitOnLock(p, t, k)
                                         \/ LockRelease(p, t, k)
    BY <2>2, LockAcquireStep, WaitOnLockStep, LockReleaseStep
  <2>3. CASE Progress(p)
    BY <2>3, AwakeStep, ResumeStep, ReleaseEntryStep, ReleaseAllDoneStep,
       ProcWakeupStep, WakeupDoneStep DEF Progress
  <2> QED BY <2>1, <2>2, <2>3, LockReleaseAllStep, TimeoutStep
<1> QED BY <1>1, <1>2

\* The invariant holds whatever backends do.
THEOREM LockInvariance == Spec => []IInv
BY InitIInv, NextStep, PTL DEF Spec

\* The tables, queues and semaphores keep their types: no count the code keeps
\* in an int or a short (nHolding, nActive, activeHolders[]) goes below zero.
THEOREM TypeCorrect == Spec => []TypeOK
<1>1. IInv => TypeOK
  BY DEF IInv
<1> QED BY <1>1, LockInvariance, PTL

\* Two transactions never hold conflicting locks on one tag, however LockAcquire,
\* the releases, their wakeups and the timer interleave.
THEOREM LocksExclude == Spec => []NoConflict
<1>1. IInv => NoConflict
  BY DEF IInv
<1> QED BY <1>1, LockInvariance, PTL

\* lock->nHolding, nActive, activeHolders[] and mask, and the counts of the xid
\* entries, are what is held and awaited.
THEOREM CountsExact == Spec => []CountsAgree
<1>1. IInv => CountsAgree
  BY DEF IInv, AllExact, Exact, Requests, CountsAgree
<1> QED BY <1>1, LockInvariance, PTL

\* No wakeup is lost, and no semaphore is released twice.
THEOREM NoLostWakeup == Spec => []SleepersKnown
<1>1. IInv => SleepersKnown
  BY DEF IInv
<1> QED BY <1>1, LockInvariance, PTL

\* Nobody who is first in a queue sleeps for nothing, once ProcLockWakeup is
\* through with the queue.
THEOREM NoIdleWait == Spec => []FirstIsBlocked
<1>1. IInv => FirstIsBlocked
  BY DEF IInv
<1> QED BY <1>1, LockInvariance, PTL
=============================================================================
