---------------------------- MODULE RelLock_proofs ----------------------------
(***************************************************************************)
(* Proofs about RelLock: the intent locks keep the levels apart            *)
(* (LevelsExclude) and a tuple given to read stays locked (ReadsLocked),   *)
(* for any number of processes, blocks and tuples.                         *)
(*                                                                         *)
(* The argument counts.  A lock below the relation is either one that a    *)
(* call of single.c set, under an intent lock the caller set before, or    *)
(* one that MultiAcquire set, with intents of its own.  Own says which     *)
(* locks are of the first kind; what is left of the intents above a lock   *)
(* is at least what is left of the lock, also while a call is under way.   *)
(***************************************************************************)
EXTENDS RelLock, SequenceTheorems, TLAPS

Acq(t, k) == [op |-> "acquire", tag |-> t, type |-> k]
Rls(t, k) == [op |-> "release", tag |-> t, type |-> k]
Released(c) == [c EXCEPT !.op = "release"]

\* What a call that a later one undoes may lock.
Settable == ({Rel} \X LockTypes) \cup (Block \X {READ_LOCK, WRITE_LOCK})

\* The calls of the lock manager that are left of a call of lmgr.c.
Shape(d) ==
  \/ d = <<>>
  \/ \E s \in Settable : d = <<Acq(s[1], s[2])>> \/ d = <<Rls(s[1], s[2])>>
  \/ \E t \in Block \X Tuple : d = <<Acq(t, READ_LOCK)>>
  \/ \E b \in Block : d = <<Acq(Rel, WRITE_INTENT), Acq(b, WRITE_LOCK)>>
  \/ \E t \in Block \X Tuple :
       \/ d = <<Acq(t[1], READ_INTENT), Acq(t, READ_LOCK)>>
       \/ d = <<Acq(Rel, READ_INTENT), Acq(t[1], READ_INTENT),
                Acq(t, READ_LOCK)>>

\* 1 for a lock on t that the process has set, holds, and will unset.
Own(d, s, t, k) ==
  IF (<<t, k>> \in s /\ d # <<Acq(t, k)>>) \/ d = <<Rls(t, k)>> THEN 1 ELSE 0

\* 1 for a lock whose intents have been taken and which comes next.
Slack(d, s, t, k) ==
  IF d = <<Acq(t, k)>> /\ <<t, k>> \notin s THEN 1 ELSE 0

TupleNext(d, t) == IF d = <<Acq(t, READ_LOCK)>> THEN 1 ELSE 0

PageNext(d, b) ==
  IF \E t \in Block \X Tuple :
       t[1] = b /\ d = <<Acq(b, READ_INTENT), Acq(t, READ_LOCK)>>
  THEN 1 ELSE 0

\* A page lock is covered by the intent locks on the relation.
PageCovered(h, d, s, b, k) ==
  /\ h[b][k] + Slack(d, s, b, k) + Own(d, s, Rel, k + INTENT)
       <= h[Rel][k + INTENT] + Own(d, s, b, k)
  /\ Own(d, s, b, k) <= Own(d, s, Rel, k + INTENT)
  /\ <<b, k>> \in s => /\ <<Rel, k + INTENT>> \in s
                       /\ d # <<Acq(Rel, k + INTENT)>>

PageCounts(h, d, s) ==
  \A b \in Block, k \in {READ_LOCK, WRITE_LOCK} : PageCovered(h, d, s, b, k)

\* A tuple lock is covered by the intent locks on its page.
TupleCounts(h, d) ==
  \A t \in Block \X Tuple :
    /\ h[t][WRITE_LOCK] = 0
    /\ h[t][READ_LOCK] + TupleNext(d, t) <= h[t[1]][READ_INTENT]

\* An intent lock on a page is covered by those on the relation.
IntentCounts(h, d, s) ==
  \A b \in Block :
    h[b][READ_INTENT] + PageNext(d, b) + Own(d, s, Rel, READ_INTENT)
      <= h[Rel][READ_INTENT]

OwnHeld(h, d, s) ==
  \A t \in Tag, k \in LockTypes :
    Own(d, s, t, k) <= h[t][k] /\ (d = <<Rls(t, k)>> => <<t, k>> \notin s)

RoomLeft(h, d) ==
  \A i \in 1 .. Len(d) : d[i].op = "acquire" =>
    h[d[i].tag][d[i].type] < MaxHold

LockTable == [Tag -> [LockTypes -> 0 .. MaxHold]]

\* The state of one process: its locks h, its calls to come d, its settings s.
Levels(h, d, s) ==
  /\ h \in LockTable /\ Shape(d) /\ s \subseteq Settable
  /\ PageCounts(h, d, s) /\ TupleCounts(h, d) /\ IntentCounts(h, d, s)
  /\ OwnHeld(h, d, s) /\ RoomLeft(h, d)

-----------------------------------------------------------------------------
(* Tags, types and short sequences.                                        *)

LEMMA TagFacts ==
  /\ Rel \in Tag /\ Block \subseteq Tag /\ (Block \X Tuple) \subseteq Tag
  /\ Rel \notin Block /\ Rel \notin Block \X Tuple
  /\ \A b \in Block : b \notin Block \X Tuple /\ b # Rel
  /\ \A t \in Block \X Tuple : t[1] \in Block /\ t # Rel /\ t \notin Block
BY RelLockAssumption DEF Tag

LEMMA TypeFacts ==
  /\ WRITE_LOCK = 1 /\ READ_LOCK = 2 /\ WRITE_INTENT = 3 /\ READ_INTENT = 4
  /\ EXTEND_LOCK = 5 /\ INTENT = 2
  /\ \A k \in LockTypes : k \in {1, 2, 3, 4, 5}
  /\ {1, 2, 3, 4, 5} \subseteq LockTypes
BY DEF WRITE_LOCK, READ_LOCK, WRITE_INTENT, READ_INTENT, EXTEND_LOCK, INTENT,
       LockTypes

LEMMA Join2 == ASSUME NEW a, NEW b PROVE <<a>> \o <<b>> = <<a, b>>
<1> DEFINE S == {a, b}
<1>1. <<a>> \in Seq(S) /\ <<b>> \in Seq(S) /\ <<a, b>> \in Seq(S)
  OBVIOUS
<1>2. /\ <<a>> \o <<b>> \in Seq(S) /\ Len(<<a>> \o <<b>>) = 2
      /\ \A i \in 1 .. 2 : (<<a>> \o <<b>>)[i] = <<a, b>>[i]
  BY <1>1, ConcatProperties
<1>3. Len(<<a, b>>) = 2
  OBVIOUS
<1> HIDE DEF S
<1> QED BY <1>1, <1>2, <1>3, SeqEqual

LEMMA Join3 == ASSUME NEW a, NEW b, NEW c PROVE <<a, b>> \o <<c>> = <<a, b, c>>
<1> DEFINE S == {a, b, c}
<1>1. <<a, b>> \in Seq(S) /\ <<c>> \in Seq(S) /\ <<a, b, c>> \in Seq(S)
  OBVIOUS
<1>2. /\ <<a, b>> \o <<c>> \in Seq(S) /\ Len(<<a, b>> \o <<c>>) = 3
      /\ \A i \in 1 .. 3 : (<<a, b>> \o <<c>>)[i] = <<a, b, c>>[i]
  BY <1>1, ConcatProperties
<1>3. Len(<<a, b, c>>) = 3
  OBVIOUS
<1> HIDE DEF S
<1> QED BY <1>1, <1>2, <1>3, SeqEqual

\* Sequences of up to three calls.
LEMMA Short ==
  ASSUME NEW a, NEW b, NEW c
  PROVE  /\ Head(<<a>>) = a /\ Tail(<<a>>) = <<>>
         /\ Head(<<a, b>>) = a /\ Tail(<<a, b>>) = <<b>>
         /\ Head(<<a, b, c>>) = a /\ Tail(<<a, b, c>>) = <<b, c>>
         /\ Len(<<>>) = 0 /\ Len(<<a>>) = 1 /\ Len(<<a, b>>) = 2
         /\ Len(<<a, b, c>>) = 3
OBVIOUS

LEMMA ShortDiffer ==
  ASSUME NEW a, NEW b, NEW c, NEW d, NEW e
  PROVE  /\ <<a>> # <<>> /\ <<a, b>> # <<>> /\ <<a, b, c>> # <<>>
         /\ <<a>> # <<b, c>> /\ <<a>> # <<b, c, d>> /\ <<a, b>> # <<c, d, e>>
         /\ <<a>> = <<b>> <=> a = b
         /\ <<a, b>> = <<c, d>> <=> a = c /\ b = d
OBVIOUS

LEMMA CallsDiffer ==
  ASSUME NEW t, NEW k, NEW u, NEW l
  PROVE  /\ Acq(t, k) = Acq(u, l) <=> t = u /\ k = l
         /\ Rls(t, k) = Rls(u, l) <=> t = u /\ k = l
         /\ Acq(t, k) # Rls(u, l)
         /\ Acq(t, k).op = "acquire" /\ Acq(t, k).tag = t /\ Acq(t, k).type = k
         /\ Rls(t, k).op = "release" /\ Rls(t, k).tag = t /\ Rls(t, k).type = k
BY DEF Acq, Rls

\* What the calls of multi.c and single.c come to.
LEMMA MultiAcquires ==
  /\ \A k \in LockTypes : MultiAcquire(Rel, k) = <<Acq(Rel, k)>>
  /\ \A b \in Block, k \in LockTypes :
       MultiAcquire(b, k) = <<Acq(Rel, k + INTENT), Acq(b, k)>>
  /\ \A t \in Block \X Tuple, k \in LockTypes :
       MultiAcquire(t, k) = <<Acq(Rel, k + INTENT), Acq(t[1], k + INTENT),
                              Acq(t, k)>>
  /\ \A k \in LockTypes : MultiRelease(Rel, k) = <<Rls(Rel, k)>>
  /\ \A t, k : /\ SingleLock(t, k, "acquire") = <<Acq(t, k)>>
               /\ SingleLock(t, k, "release") = <<Rls(t, k)>>
<1>0. \A t, k : MultiAcquire(t, k) =
        [i \in 1 .. Len(Above(t)) |-> Acq(Above(t)[i], k + INTENT)]
          \o <<Acq(t, k)>>
  BY DEF MultiAcquire, Acq
<1>1. ASSUME NEW k \in LockTypes PROVE MultiAcquire(Rel, k) = <<Acq(Rel, k)>>
  <2>1. Above(Rel) = <<>>
    BY DEF Above
  <2>2. [i \in 1 .. Len(<<>>) |-> Acq(<<>>[i], k + INTENT)] = <<>>
    OBVIOUS
  <2>3. <<Acq(Rel, k)>> \in Seq({Acq(Rel, k)})
    OBVIOUS
  <2> QED BY <1>0, <2>1, <2>2, <2>3, ConcatEmptySeq
<1>2. ASSUME NEW b \in Block, NEW k \in LockTypes
      PROVE  MultiAcquire(b, k) = <<Acq(Rel, k + INTENT), Acq(b, k)>>
  <2>1. Above(b) = <<Rel>>
    BY TagFacts DEF Above
  <2>2. [i \in 1 .. Len(<<Rel>>) |-> Acq(<<Rel>>[i], k + INTENT)] =
          <<Acq(Rel, k + INTENT)>>
    OBVIOUS
  <2> QED BY <1>0, <2>1, <2>2, Join2
<1>3. ASSUME NEW t \in Block \X Tuple, NEW k \in LockTypes
      PROVE  MultiAcquire(t, k) = <<Acq(Rel, k + INTENT), Acq(t[1], k + INTENT),
                              Acq(t, k)>>
  <2>1. Above(t) = <<Rel, t[1]>>
    BY TagFacts DEF Above
  <2>2. ASSUME NEW x, NEW y, NEW l
        PROVE  [i \in 1 .. Len(<<x, y>>) |-> Acq(<<x, y>>[i], l)] =
                 <<Acq(x, l), Acq(y, l)>>
    OBVIOUS
  <2>3. MultiAcquire(t, k) =
          [i \in 1 .. Len(<<Rel, t[1]>>) |-> Acq(<<Rel, t[1]>>[i], k + INTENT)]
            \o <<Acq(t, k)>>
    BY <1>0, <2>1, Zenon
  <2>4. MultiAcquire(t, k) =
          <<Acq(Rel, k + INTENT), Acq(t[1], k + INTENT)>> \o <<Acq(t, k)>>
    <3>1. \A x, y, l : [i \in 1 .. Len(<<x, y>>) |-> Acq(<<x, y>>[i], l)] =
                         <<Acq(x, l), Acq(y, l)>>
      BY <2>2
    <3>2. [i \in 1 .. Len(<<Rel, t[1]>>) |-> Acq(<<Rel, t[1]>>[i], k + INTENT)]
            = <<Acq(Rel, k + INTENT), Acq(t[1], k + INTENT)>>
      BY <3>1
    <3> QED BY <2>3, <3>2, Zenon
  <2> QED BY <2>4, Join3, Zenon
<1>4. ASSUME NEW k \in LockTypes PROVE MultiRelease(Rel, k) = <<Rls(Rel, k)>>
  <2>1. MultiRelease(Rel, k) =
          [i \in 1 .. Len(MultiAcquire(Rel, k)) |->
             Released(MultiAcquire(Rel, k)[Len(MultiAcquire(Rel, k)) + 1 - i])]
    BY Zenon DEF MultiRelease, Released
  <2>2. Released(Acq(Rel, k)) = Rls(Rel, k)
    BY DEF Acq, Rls, Released
  <2>3. MultiRelease(Rel, k) = [i \in 1 .. 1 |-> Rls(Rel, k)]
    BY <1>1, <2>1, <2>2
  <2> QED BY <2>3
<1>5. \A t, k : /\ SingleLock(t, k, "acquire") = <<Acq(t, k)>>
                /\ SingleLock(t, k, "release") = <<Rls(t, k)>>
  BY DEF SingleLock, Acq, Rls
<1> QED BY <1>1, <1>2, <1>3, <1>4, <1>5

\* Lists of calls are equal when their calls are.
LEMMA ListsDiffer ==
  /\ \A t, k, u, l : /\ <<Acq(t, k)>> = <<Acq(u, l)>> <=> t = u /\ k = l
                     /\ <<Rls(t, k)>> = <<Rls(u, l)>> <=> t = u /\ k = l
                     /\ <<Acq(t, k)>> # <<Rls(u, l)>>
  /\ \A t, k : <<Acq(t, k)>> # <<>> /\ <<Rls(t, k)>> # <<>>
  /\ \A t, k, c, d : /\ <<Acq(t, k)>> # <<c, d>> /\ <<Rls(t, k)>> # <<c, d>>
                     /\ <<c, d>> # <<>>
  /\ \A t, k, c, d, e :
       /\ <<Acq(t, k)>> # <<c, d, e>> /\ <<Rls(t, k)>> # <<c, d, e>>
       /\ <<c, d, e>> # <<>>
  /\ \A c, d, e, x, y : <<x, y>> # <<c, d, e>>
  /\ \A t, k, u, l, t1, k1, u1, l1 :
       <<Acq(t, k), Acq(t1, k1)>> = <<Acq(u, l), Acq(u1, l1)>> <=>
         t = u /\ k = l /\ t1 = u1 /\ k1 = l1
<1>1. ASSUME NEW t, NEW k, NEW u, NEW l
      PROVE  /\ <<Acq(t, k)>> = <<Acq(u, l)>> <=> t = u /\ k = l
             /\ <<Rls(t, k)>> = <<Rls(u, l)>> <=> t = u /\ k = l
             /\ <<Acq(t, k)>> # <<Rls(u, l)>>
  BY ShortDiffer, CallsDiffer
<1>2. ASSUME NEW t, NEW k, NEW u, NEW l, NEW t1, NEW k1, NEW u1, NEW l1
      PROVE  <<Acq(t, k), Acq(t1, k1)>> = <<Acq(u, l), Acq(u1, l1)>> <=>
               t = u /\ k = l /\ t1 = u1 /\ k1 = l1
  BY ShortDiffer, CallsDiffer
<1> QED BY <1>1, <1>2, ShortDiffer

LEMMA TableFacts ==
  ASSUME NEW h, h \in LockTable, NEW t \in Tag, NEW k \in LockTypes
  PROVE  h[t][k] \in 0 .. MaxHold /\ h[t][k] \in Nat /\ MaxHold \in Nat
BY RelLockAssumption DEF LockTable

LEMMA OwnFacts ==
  ASSUME NEW d, NEW s, NEW t, NEW k
  PROVE  /\ Own(d, s, t, k) \in {0, 1} /\ Slack(d, s, t, k) \in {0, 1}
         /\ d = <<>> => /\ Own(d, s, t, k) = IF <<t, k>> \in s THEN 1 ELSE 0
                        /\ Slack(d, s, t, k) = 0
BY ListsDiffer DEF Own, Slack

LEMMA NextFacts ==
  /\ \A b : PageNext(<<>>, b) = 0
  /\ \A b, c : PageNext(<<c>>, b) = 0
  /\ \A b, x, y, z : PageNext(<<x, y, z>>, b) = 0
  /\ \A t : TupleNext(<<>>, t) = 0
  /\ \A t, x, y : TupleNext(<<x, y>>, t) = 0
  /\ \A t, x, y, z : TupleNext(<<x, y, z>>, t) = 0
<1>1. \A a, b, c : <<>> # <<b, c>> /\ <<a>> # <<b, c>>
  BY ShortDiffer
<1>2. \A a, b, c, d, e : <<a, b, c>> # <<d, e>>
  BY ShortDiffer
<1> QED BY <1>1, <1>2, ListsDiffer DEF PageNext, TupleNext

-----------------------------------------------------------------------------
(* The calls, and the steps of the lock manager, on one process.           *)

\* A lock or an intent lock on the relation is set.
LEMMA SetRel ==
  ASSUME NEW h, NEW s, Levels(h, <<>>, s), NEW k \in LockTypes,
         <<Rel, k>> \notin s, h[Rel][k] < MaxHold
  PROVE  Levels(h, <<Acq(Rel, k)>>, s \cup {<<Rel, k>>})
<1> DEFINE d == <<Acq(Rel, k)>>
           z == s \cup {<<Rel, k>>}
<1>1. \A t, l : Own(d, z, t, l) = Own(<<>>, s, t, l)
  BY ListsDiffer DEF Own
<1>2. \A b \in Block, l \in LockTypes : Slack(d, z, b, l) = Slack(<<>>, s, b, l)
  BY ListsDiffer, TagFacts DEF Slack
<1>3. Shape(d) /\ z \subseteq Settable
  BY TagFacts DEF Shape, Settable, Levels
<1>4. ASSUME NEW b \in Block, NEW l \in {READ_LOCK, WRITE_LOCK}
      PROVE  PageCovered(h, d, z, b, l)
  <2>1. l \in LockTypes /\ PageCovered(h, <<>>, s, b, l)
    BY TypeFacts DEF PageCounts, Levels
  <2>2. <<b, l>> \in z => <<b, l>> \in s
    BY TagFacts
  <2>3. <<b, l>> \in z => /\ <<Rel, l + INTENT>> \in z
                          /\ d # <<Acq(Rel, l + INTENT)>>
    BY <2>1, <2>2, ListsDiffer DEF PageCovered
  <2> HIDE DEF z, d
  <2> QED BY <1>1, <1>2, <2>1, <2>3 DEF PageCovered
<1>5. TupleCounts(h, d)
  BY TagFacts, ListsDiffer DEF TupleCounts, TupleNext, Levels
<1>6. IntentCounts(h, d, z)
  BY <1>1, NextFacts DEF IntentCounts, Levels
<1>7. OwnHeld(h, d, z)
  <2>1. \A t, l : d = <<Rls(t, l)>> => <<t, l>> \notin z
    BY ListsDiffer
  <2> HIDE DEF d, z
  <2> QED BY <1>1, <2>1 DEF OwnHeld, Levels
<1>8. RoomLeft(h, d)
  BY Short, CallsDiffer DEF RoomLeft
<1> QED BY <1>3, <1>4, <1>5, <1>6, <1>7, <1>8 DEF Levels, PageCounts

\* A lock or an intent lock on the relation is unset, an intent lock once the
\* pages locked under it are unlocked.
LEMMA UnsetRel ==
  ASSUME NEW h, NEW s, Levels(h, <<>>, s), NEW k \in LockTypes,
         <<Rel, k>> \in s,
         \A b \in Block, l \in {READ_LOCK, WRITE_LOCK} :
           k = l + INTENT => <<b, l>> \notin s
  PROVE  Levels(h, <<Rls(Rel, k)>>, s \ {<<Rel, k>>})
<1> DEFINE d == <<Rls(Rel, k)>>
           z == s \ {<<Rel, k>>}
<1>1. \A t, l : Own(d, z, t, l) = Own(<<>>, s, t, l)
  BY ListsDiffer DEF Own
<1>2. \A t, l : Slack(d, z, t, l) = Slack(<<>>, s, t, l)
  BY ListsDiffer DEF Slack
<1>3. Shape(d) /\ z \subseteq Settable
  BY TagFacts DEF Shape, Settable, Levels
<1>4. ASSUME NEW b \in Block, NEW l \in {READ_LOCK, WRITE_LOCK}
      PROVE  PageCovered(h, d, z, b, l)
  <2>1. PageCovered(h, <<>>, s, b, l)
    BY DEF PageCounts, Levels
  <2>2. <<b, l>> \in s => <<Rel, l + INTENT>> \in s /\ k # l + INTENT
    BY <2>1 DEF PageCovered
  <2>3. <<b, l>> \in z => /\ <<Rel, l + INTENT>> \in z
                          /\ d # <<Acq(Rel, l + INTENT)>>
    BY <2>2, ListsDiffer
  <2> HIDE DEF z, d
  <2> QED BY <1>1, <1>2, <2>1, <2>3 DEF PageCovered
<1>5. TupleCounts(h, d)
  BY TagFacts, ListsDiffer DEF TupleCounts, TupleNext, Levels
<1>6. IntentCounts(h, d, z)
  BY <1>1, NextFacts DEF IntentCounts, Levels
<1>7. OwnHeld(h, d, z)
  <2>1. \A t, l : d = <<Rls(t, l)>> => <<t, l>> \notin z
    BY ListsDiffer
  <2> HIDE DEF d, z
  <2> QED BY <1>1, <2>1 DEF OwnHeld, Levels
<1>8. RoomLeft(h, d)
  BY Short, CallsDiffer DEF RoomLeft
<1> QED BY <1>3, <1>4, <1>5, <1>6, <1>7, <1>8 DEF Levels, PageCounts

\* A page is locked under an intent lock set before.
LEMMA SetPage ==
  ASSUME NEW h, NEW s, Levels(h, <<>>, s), NEW b \in Block,
         NEW k \in {READ_LOCK, WRITE_LOCK}, <<b, k>> \notin s,
         <<Rel, k + INTENT>> \in s, h[b][k] < MaxHold
  PROVE  Levels(h, <<Acq(b, k)>>, s \cup {<<b, k>>})
<1> DEFINE d == <<Acq(b, k)>>
           z == s \cup {<<b, k>>}
<1>1. \A t, l : Own(d, z, t, l) = Own(<<>>, s, t, l)
  BY ListsDiffer DEF Own
<1>2. \A t, l : Slack(d, z, t, l) = Slack(<<>>, s, t, l)
  BY ListsDiffer DEF Slack
<1>3. Shape(d) /\ z \subseteq Settable
  BY TagFacts DEF Shape, Settable, Levels
<1>4. ASSUME NEW c \in Block, NEW l \in {READ_LOCK, WRITE_LOCK}
      PROVE  PageCovered(h, d, z, c, l)
  <2>1. PageCovered(h, <<>>, s, c, l)
    BY DEF PageCounts, Levels
  <2>2. <<c, l>> \in z => <<c, l>> \in s \/ (c = b /\ l = k)
    OBVIOUS
  <2>3. <<c, l>> \in z => /\ <<Rel, l + INTENT>> \in z
                          /\ d # <<Acq(Rel, l + INTENT)>>
    BY <2>1, <2>2, ListsDiffer, TagFacts DEF PageCovered
  <2> HIDE DEF z, d
  <2> QED BY <1>1, <1>2, <2>1, <2>3 DEF PageCovered
<1>5. TupleCounts(h, d)
  BY TagFacts, ListsDiffer DEF TupleCounts, TupleNext, Levels
<1>6. IntentCounts(h, d, z)
  BY <1>1, NextFacts DEF IntentCounts, Levels
<1>7. OwnHeld(h, d, z)
  <2>1. \A t, l : d = <<Rls(t, l)>> => <<t, l>> \notin z
    BY ListsDiffer
  <2> HIDE DEF d, z
  <2> QED BY <1>1, <2>1 DEF OwnHeld, Levels
<1>8. RoomLeft(h, d)
  BY Short, CallsDiffer DEF RoomLeft
<1> QED BY <1>3, <1>4, <1>5, <1>6, <1>7, <1>8 DEF Levels, PageCounts

LEMMA UnsetPage ==
  ASSUME NEW h, NEW s, Levels(h, <<>>, s), NEW b \in Block,
         NEW k \in {READ_LOCK, WRITE_LOCK}, <<b, k>> \in s
  PROVE  Levels(h, <<Rls(b, k)>>, s \ {<<b, k>>})
<1> DEFINE d == <<Rls(b, k)>>
           z == s \ {<<b, k>>}
<1>1. \A t, l : Own(d, z, t, l) = Own(<<>>, s, t, l)
  BY ListsDiffer DEF Own
<1>2. \A t, l : Slack(d, z, t, l) = Slack(<<>>, s, t, l)
  BY ListsDiffer DEF Slack
<1>3. Shape(d) /\ z \subseteq Settable
  BY TagFacts DEF Shape, Settable, Levels
<1>4. ASSUME NEW c \in Block, NEW l \in {READ_LOCK, WRITE_LOCK}
      PROVE  PageCovered(h, d, z, c, l)
  <2>1. PageCovered(h, <<>>, s, c, l)
    BY DEF PageCounts, Levels
  <2>3. <<c, l>> \in z => /\ <<Rel, l + INTENT>> \in z
                          /\ d # <<Acq(Rel, l + INTENT)>>
    BY <2>1, ListsDiffer, TagFacts DEF PageCovered
  <2> HIDE DEF z, d
  <2> QED BY <1>1, <1>2, <2>1, <2>3 DEF PageCovered
<1>5. TupleCounts(h, d)
  BY TagFacts, ListsDiffer DEF TupleCounts, TupleNext, Levels
<1>6. IntentCounts(h, d, z)
  BY <1>1, NextFacts DEF IntentCounts, Levels
<1>7. OwnHeld(h, d, z)
  <2>1. \A t, l : d = <<Rls(t, l)>> => <<t, l>> \notin z
    BY ListsDiffer
  <2> HIDE DEF d, z
  <2> QED BY <1>1, <2>1 DEF OwnHeld, Levels
<1>8. RoomLeft(h, d)
  BY Short, CallsDiffer DEF RoomLeft
<1> QED BY <1>3, <1>4, <1>5, <1>6, <1>7, <1>8 DEF Levels, PageCounts

\* A call that takes several locks, or none, and that no call undoes: what is
\* left of the locks is as before.
LEMMA AskFor ==
  ASSUME NEW h, NEW s, Levels(h, <<>>, s), NEW d, Shape(d),
         \/ \E b \in Block : d = <<Acq(Rel, WRITE_INTENT), Acq(b, WRITE_LOCK)>>
         \/ \E t \in Block \X Tuple :
              d = <<Acq(Rel, READ_INTENT), Acq(t[1], READ_INTENT),
                    Acq(t, READ_LOCK)>>,
         RoomLeft(h, d)
  PROVE  Levels(h, d, s)
<1>1. \A t, l : Own(d, s, t, l) = Own(<<>>, s, t, l)
  BY ListsDiffer DEF Own
<1>2. \A t, l : Slack(d, s, t, l) = Slack(<<>>, s, t, l)
  BY ListsDiffer, SMTT(40) DEF Slack
<1>3. \A b : d # <<Acq(Rel, READ_INTENT)>> /\ d # <<Acq(Rel, WRITE_INTENT)>>
  BY ListsDiffer
<1>4. ASSUME NEW c \in Block, NEW l \in {READ_LOCK, WRITE_LOCK}
      PROVE  PageCovered(h, d, s, c, l)
  <2>1. PageCovered(h, <<>>, s, c, l)
    BY DEF PageCounts, Levels
  <2>2. l + INTENT \in {READ_INTENT, WRITE_INTENT}
    BY TypeFacts
  <2> QED BY <1>1, <1>2, <1>3, <2>1, <2>2 DEF PageCovered
<1>5. TupleCounts(h, d)
  BY TagFacts, NextFacts DEF TupleCounts, Levels
<1>6. \A b \in Block : PageNext(d, b) = 0
  BY NextFacts, ListsDiffer, TagFacts, CallsDiffer, ShortDiffer, TypeFacts
     DEF PageNext
<1>7. IntentCounts(h, d, s)
  BY <1>1, <1>6, NextFacts DEF IntentCounts, Levels
<1>8. OwnHeld(h, d, s)
  BY <1>1, ListsDiffer DEF OwnHeld, Levels
<1> QED BY <1>4, <1>5, <1>7, <1>8 DEF Levels, PageCounts

\* Escalation: a read lock on the relation that no call undoes.
LEMMA AskForRel ==
  ASSUME NEW h, NEW s, Levels(h, <<>>, s), h[Rel][READ_LOCK] < MaxHold
  PROVE  Levels(h, <<Acq(Rel, READ_LOCK)>>, s)
<1> DEFINE d == <<Acq(Rel, READ_LOCK)>>
<1>1. \A t, l : /\ ~(t = Rel /\ l = READ_LOCK) =>
                     Own(d, s, t, l) = Own(<<>>, s, t, l)
                /\ Own(d, s, t, l) <= Own(<<>>, s, t, l)
  BY ListsDiffer DEF Own
<1>2. \A b \in Block, l \in LockTypes : Slack(d, s, b, l) = Slack(<<>>, s, b, l)
  BY ListsDiffer, TagFacts DEF Slack
<1>3. Shape(d)
  <2>1. <<Rel, READ_LOCK>> \in Settable
    BY TypeFacts DEF Settable
  <2> QED BY <2>1, Zenon DEF Shape
<1>4. ASSUME NEW c \in Block, NEW l \in {READ_LOCK, WRITE_LOCK}
      PROVE  PageCovered(h, d, s, c, l)
  <2>1. PageCovered(h, <<>>, s, c, l) /\ l \in LockTypes
    BY TypeFacts DEF PageCounts, Levels
  <2>2. l + INTENT # READ_LOCK /\ c # Rel
    BY TypeFacts, TagFacts
  <2>3. d # <<Acq(Rel, l + INTENT)>>
    BY <2>2, ListsDiffer
  <2> HIDE DEF d
  <2> QED BY <1>1, <1>2, <2>1, <2>2, <2>3 DEF PageCovered
<1>5. TupleCounts(h, d)
  BY TagFacts, ListsDiffer DEF TupleCounts, TupleNext, Levels
<1>6. READ_INTENT # READ_LOCK
  BY TypeFacts
<1>7. IntentCounts(h, d, s)
  BY <1>1, <1>6, NextFacts DEF IntentCounts, Levels
<1>8. OwnHeld(h, d, s)
  <2> SUFFICES ASSUME NEW t \in Tag, NEW l \in LockTypes
               PROVE  Own(d, s, t, l) <= h[t][l]
    BY ListsDiffer DEF OwnHeld
  <2>1. Own(<<>>, s, t, l) <= h[t][l]
    BY DEF OwnHeld, Levels
  <2>2. h[t][l] \in Nat
    BY TableFacts DEF Levels
  <2>3. Own(d, s, t, l) <= Own(<<>>, s, t, l)
    BY <1>1
  <2>4. Own(d, s, t, l) \in {0, 1} /\ Own(<<>>, s, t, l) \in {0, 1}
    BY OwnFacts
  <2> HIDE DEF d
  <2> QED BY <2>1, <2>2, <2>3, <2>4
<1>9. RoomLeft(h, d)
  BY Short, CallsDiffer DEF RoomLeft
<1> QED BY <1>3, <1>4, <1>5, <1>7, <1>8, <1>9 DEF Levels, PageCounts

Bump(h, t, k, i) == [h EXCEPT ![t][k] = @ + i]

\* One count changes, by i.
LEMMA BumpAt ==
  ASSUME NEW h, h \in LockTable, NEW t \in Tag, NEW k \in LockTypes,
         NEW i \in {1, -1}, NEW u \in Tag, NEW l \in LockTypes
  PROVE  Bump(h, t, k, i)[u][l] = h[u][l] + IF u = t /\ l = k THEN i ELSE 0
<1>1. h[u][l] \in Nat /\ h[t][k] \in Nat
  BY TableFacts
<1>2. h = [v \in Tag |-> h[v]]
  BY DEF LockTable
<1>3. h[t] = [m \in LockTypes |-> h[t][m]]
  BY DEF LockTable
<1>4. CASE u # t
  <2>1. Bump(h, t, k, i)[u] = h[u]
    BY <1>2, <1>4 DEF Bump
  <2> QED BY <1>1, <1>4, <2>1
<1>5. CASE u = t
  <2>1. Bump(h, t, k, i)[t] = [h[t] EXCEPT ![k] = h[t][k] + i]
    BY <1>2 DEF Bump
  <2>2. PICK n : n = h[t][k] + i
    OBVIOUS
  <2>3. [h[t] EXCEPT ![k] = n][l] = IF l = k THEN n ELSE h[t][l]
    BY <1>3
  <2>4. Bump(h, t, k, i)[u][l] = IF l = k THEN n ELSE h[t][l]
    BY <1>5, <2>1, <2>2, <2>3
  <2>5. CASE l = k
    BY <1>5, <2>2, <2>4, <2>5
  <2>6. CASE l # k
    BY <1>1, <1>5, <2>4, <2>6
  <2> QED BY <2>5, <2>6
<1> QED BY <1>4, <1>5

LEMMA BumpFacts ==
  ASSUME NEW h, h \in LockTable, NEW t \in Tag, NEW k \in LockTypes,
         NEW i \in {1, -1}, h[t][k] + i \in 0 .. MaxHold
  PROVE  /\ Bump(h, t, k, i) \in LockTable
         /\ \A u \in Tag, l \in LockTypes : Bump(h, t, k, i)[u][l] =
              h[u][l] + IF u = t /\ l = k THEN i ELSE 0
<1>1. Bump(h, t, k, i) \in LockTable
  <2>1. PICK n : n = h[t][k] + i
    OBVIOUS
  <2>2. n \in 0 .. MaxHold
    BY <2>1
  <2>3. PICK g : g = [h[t] EXCEPT ![k] = n]
    OBVIOUS
  <2>4. g \in [LockTypes -> 0 .. MaxHold]
    <3>1. h[t] \in [LockTypes -> 0 .. MaxHold]
      BY DEF LockTable
    <3> QED BY <2>2, <2>3, <3>1
  <2>5. Bump(h, t, k, i) = [h EXCEPT ![t] = g]
    BY <2>1, <2>3 DEF Bump
  <2> QED BY <2>4, <2>5 DEF LockTable
<1> QED BY <1>1, BumpAt

\* The lock that was set before, or the last lock of a page, is granted.
LEMMA GrantLast ==
  ASSUME NEW h, NEW s, NEW t, NEW k, <<t, k>> \in Settable,
         Levels(h, <<Acq(t, k)>>, s)
  PROVE  Levels(Bump(h, t, k, 1), <<>>, s)
<1> DEFINE d == <<Acq(t, k)>>
           g == Bump(h, t, k, 1)
<1>0. t \in Tag /\ k \in LockTypes /\ t \notin Block \X Tuple
  BY TagFacts, TypeFacts DEF Settable
<1>1. h[t][k] < MaxHold
  BY Short, CallsDiffer DEF Levels, RoomLeft
<1>2. /\ g \in LockTable
      /\ \A u \in Tag, l \in LockTypes :
           g[u][l] = h[u][l] + IF u = t /\ l = k THEN 1 ELSE 0
  <2>1. h \in LockTable
    BY DEF Levels
  <2>2. h[t][k] + 1 \in 0 .. MaxHold
    BY <1>0, <1>1, <2>1, TableFacts
  <2> QED BY <1>0, <2>1, <2>2, BumpFacts
<1>3. \A u, l : /\ Own(<<>>, s, u, l) =
                     (IF u = t /\ l = k /\ <<t, k>> \in s THEN 1
                      ELSE Own(d, s, u, l))
                /\ Own(d, s, t, k) = 0
                /\ Slack(<<>>, s, u, l) = 0
                /\ Slack(d, s, t, k) = (IF <<t, k>> \in s THEN 0 ELSE 1)
                /\ ~(u = t /\ l = k) => Slack(d, s, u, l) = 0
  BY ListsDiffer DEF Own, Slack
<1>4. \A u \in Tag, l \in LockTypes : h[u][l] \in Nat
  BY TableFacts DEF Levels
<1>5. \A u, l : Own(<<>>, s, u, l) \in {0, 1} /\ Own(d, s, u, l) \in {0, 1}
  BY OwnFacts
<1> HIDE DEF g
<1>6. ASSUME NEW b \in Block, NEW l \in {READ_LOCK, WRITE_LOCK}
      PROVE  PageCovered(g, <<>>, s, b, l)
  <2>1. PageCovered(h, d, s, b, l)
    BY DEF PageCounts, Levels
  <2>2. b \in Tag /\ Rel \in Tag /\ l \in LockTypes /\ l + INTENT \in LockTypes
        /\ b # Rel
    BY TagFacts, TypeFacts
  <2>3. /\ h[b][l] \in Nat /\ h[Rel][l + INTENT] \in Nat
        /\ g[b][l] = h[b][l] + (IF b = t /\ l = k THEN 1 ELSE 0)
        /\ g[Rel][l + INTENT] = h[Rel][l + INTENT]
                              + (IF Rel = t /\ l + INTENT = k THEN 1 ELSE 0)
    BY <1>2, <1>4, <2>2
  <2>4. <<>> # <<Acq(Rel, l + INTENT)>>
    BY ListsDiffer
  <2>5. <<b, l>> \in s => <<Rel, l + INTENT>> \in s
    BY <2>1 DEF PageCovered
  <2>6. Own(<<>>, s, b, l) <= Own(<<>>, s, Rel, l + INTENT)
    <3>1. /\ Own(<<>>, s, b, l) = IF <<b, l>> \in s THEN 1 ELSE 0
          /\ Own(<<>>, s, Rel, l + INTENT) =
               IF <<Rel, l + INTENT>> \in s THEN 1 ELSE 0
      BY OwnFacts
    <3> QED BY <2>5, <3>1
  <2> HIDE DEF d
  <2>7. CASE b = t /\ l = k
    BY <1>3, <1>5, <2>1, <2>2, <2>3, <2>4, <2>5, <2>6, <2>7 DEF PageCovered
  <2>8. CASE Rel = t /\ l + INTENT = k
    BY <1>3, <1>5, <2>1, <2>2, <2>3, <2>4, <2>5, <2>6, <2>8, SMTT(40) DEF PageCovered
  <2>9. CASE ~(b = t /\ l = k) /\ ~(Rel = t /\ l + INTENT = k)
    BY <1>3, <1>5, <2>1, <2>2, <2>3, <2>4, <2>5, <2>6, <2>9 DEF PageCovered
  <2> QED BY <2>7, <2>8, <2>9
<1>7. ASSUME NEW u \in Block \X Tuple
      PROVE  /\ g[u][WRITE_LOCK] = 0
             /\ g[u][READ_LOCK] + TupleNext(<<>>, u) <= g[u[1]][READ_INTENT]
  <2>1. /\ h[u][WRITE_LOCK] = 0
        /\ h[u][READ_LOCK] + TupleNext(d, u) <= h[u[1]][READ_INTENT]
    BY DEF TupleCounts, Levels
  <2>2. /\ u \in Tag /\ u[1] \in Tag /\ u # t
        /\ {WRITE_LOCK, READ_LOCK, READ_INTENT} \subseteq LockTypes
    BY <1>0, TagFacts, TypeFacts
  <2>3. /\ g[u][WRITE_LOCK] = h[u][WRITE_LOCK]
        /\ g[u][READ_LOCK] = h[u][READ_LOCK]
        /\ g[u[1]][READ_INTENT] >= h[u[1]][READ_INTENT]
        /\ h[u][READ_LOCK] \in Nat /\ h[u[1]][READ_INTENT] \in Nat
        /\ g[u[1]][READ_INTENT] \in Int
    BY <1>2, <1>4, <2>2
  <2>4. TupleNext(<<>>, u) = 0 /\ TupleNext(d, u) \in {0, 1}
    BY NextFacts DEF TupleNext
  <2> QED BY <2>1, <2>3, <2>4
<1>8. ASSUME NEW b \in Block
      PROVE  g[b][READ_INTENT] + PageNext(<<>>, b) + Own(<<>>, s, Rel, READ_INTENT)
               <= g[Rel][READ_INTENT]
  <2>1. h[b][READ_INTENT] + PageNext(d, b) + Own(d, s, Rel, READ_INTENT)
          <= h[Rel][READ_INTENT]
    BY DEF IntentCounts, Levels
  <2>2. b \in Tag /\ Rel \in Tag /\ READ_INTENT \in LockTypes /\ b # Rel
    BY TagFacts, TypeFacts
  <2>3. ~(b = t /\ READ_INTENT = k)
    BY <2>2, TypeFacts DEF Settable
  <2>4. PageNext(<<>>, b) = 0 /\ PageNext(d, b) = 0
    BY NextFacts
  <2>5. /\ g[b][READ_INTENT] = h[b][READ_INTENT]
        /\ g[Rel][READ_INTENT] = h[Rel][READ_INTENT]
                               + (IF Rel = t /\ READ_INTENT = k THEN 1 ELSE 0)
        /\ h[b][READ_INTENT] \in Nat /\ h[Rel][READ_INTENT] \in Nat
    BY <1>2, <1>4, <2>2, <2>3
  <2> HIDE DEF d
  <2> QED BY <1>3, <1>5, <2>1, <2>4, <2>5
<1>9. ASSUME NEW u \in Tag, NEW l \in LockTypes
      PROVE  Own(<<>>, s, u, l) <= g[u][l]
  <2>1. Own(d, s, u, l) <= h[u][l]
    BY DEF OwnHeld, Levels
  <2>2. h[u][l] \in Nat /\ g[u][l] = h[u][l] + IF u = t /\ l = k THEN 1 ELSE 0
    BY <1>2, <1>4
  <2> HIDE DEF d
  <2> QED BY <1>3, <1>5, <2>1, <2>2
<1>10. RoomLeft(g, <<>>) /\ Shape(<<>>) /\ s \subseteq Settable
  BY DEF RoomLeft, Shape, Levels
<1>11. PageCounts(g, <<>>, s) /\ OwnHeld(g, <<>>, s)
  BY <1>6, <1>9, ListsDiffer DEF PageCounts, OwnHeld
<1>12. TupleCounts(g, <<>>) /\ IntentCounts(g, <<>>, s)
  BY <1>7, <1>8 DEF TupleCounts, IntentCounts
<1> QED BY <1>2, <1>10, <1>11, <1>12 DEF Levels, g

\* A lock that was set is released.
LEMMA GiveBack ==
  ASSUME NEW h, NEW s, NEW t, NEW k, <<t, k>> \in Settable,
         Levels(h, <<Rls(t, k)>>, s)
  PROVE  Levels(Bump(h, t, k, -1), <<>>, s)
<1> DEFINE d == <<Rls(t, k)>>
           g == Bump(h, t, k, -1)
<1>0. t \in Tag /\ k \in LockTypes /\ t \notin Block \X Tuple
  BY TagFacts, TypeFacts DEF Settable
<1>1. Own(d, s, t, k) = 1
  BY DEF Own
<1>2. /\ g \in LockTable /\ h[t][k] \in Nat
      /\ \A u \in Tag, l \in LockTypes :
           g[u][l] = h[u][l] + IF u = t /\ l = k THEN -1 ELSE 0
  <2>1. h \in LockTable
    BY DEF Levels
  <2>2. Own(d, s, t, k) <= h[t][k]
    BY <1>0 DEF Levels, OwnHeld
  <2>3. h[t][k] + -1 \in 0 .. MaxHold
    BY <1>0, <1>1, <2>1, <2>2, TableFacts
  <2> QED BY <1>0, <2>1, <2>3, BumpFacts, TableFacts
<1>3. \A u, l : /\ ~(u = t /\ l = k) =>
                     Own(<<>>, s, u, l) = Own(d, s, u, l)
                /\ Slack(<<>>, s, u, l) = 0 /\ Slack(d, s, u, l) = 0
  BY ListsDiffer DEF Own, Slack
<1>4. \A u \in Tag, l \in LockTypes : h[u][l] \in Nat
  BY TableFacts DEF Levels
<1>5. \A u, l : Own(<<>>, s, u, l) \in {0, 1} /\ Own(d, s, u, l) \in {0, 1}
  BY OwnFacts
<1>6. /\ <<t, k>> \notin s
      /\ \A u, l : Own(<<>>, s, u, l) = IF u = t /\ l = k THEN 0
                                        ELSE Own(d, s, u, l)
  <2>1. <<t, k>> \notin s
    BY <1>0 DEF Levels, OwnHeld
  <2>2. Own(<<>>, s, t, k) = 0
    BY <2>1, ListsDiffer DEF Own
  <2> QED BY <1>3, <2>1, <2>2
<1> HIDE DEF g
<1>7. ASSUME NEW b \in Block, NEW l \in {READ_LOCK, WRITE_LOCK}
      PROVE  PageCovered(g, <<>>, s, b, l)
  <2>1. PageCovered(h, d, s, b, l)
    BY DEF PageCounts, Levels
  <2>2. b \in Tag /\ Rel \in Tag /\ l \in LockTypes /\ l + INTENT \in LockTypes
        /\ b # Rel
    BY TagFacts, TypeFacts
  <2>3. /\ h[b][l] \in Nat /\ h[Rel][l + INTENT] \in Nat
        /\ g[b][l] = h[b][l] + (IF b = t /\ l = k THEN -1 ELSE 0)
        /\ g[Rel][l + INTENT] = h[Rel][l + INTENT]
                              + (IF Rel = t /\ l + INTENT = k THEN -1 ELSE 0)
    BY <1>2, <1>4, <2>2
  <2>4. <<>> # <<Acq(Rel, l + INTENT)>>
    BY ListsDiffer
  <2>5. <<b, l>> \in s => <<Rel, l + INTENT>> \in s
    BY <2>1 DEF PageCovered
  <2>6. Own(<<>>, s, b, l) <= Own(<<>>, s, Rel, l + INTENT)
    <3>1. /\ Own(<<>>, s, b, l) = IF <<b, l>> \in s THEN 1 ELSE 0
          /\ Own(<<>>, s, Rel, l + INTENT) =
               IF <<Rel, l + INTENT>> \in s THEN 1 ELSE 0
      BY OwnFacts
    <3> QED BY <2>5, <3>1
  <2> HIDE DEF d
  <2>7. CASE b = t /\ l = k
    BY <1>1, <1>3, <1>5, <1>6, <2>1, <2>2, <2>3, <2>4, <2>5, <2>6, <2>7
       DEF PageCovered
  <2>8. CASE Rel = t /\ l + INTENT = k
    BY <1>1, <1>3, <1>5, <1>6, <2>1, <2>2, <2>3, <2>4, <2>5, <2>6, <2>8, SMTT(40)
       DEF PageCovered
  <2>9. CASE ~(b = t /\ l = k) /\ ~(Rel = t /\ l + INTENT = k)
    BY <1>1, <1>3, <1>5, <1>6, <2>1, <2>2, <2>3, <2>4, <2>5, <2>6, <2>9
       DEF PageCovered
  <2> QED BY <2>7, <2>8, <2>9
<1>8. ASSUME NEW u \in Block \X Tuple
      PROVE  /\ g[u][WRITE_LOCK] = 0
             /\ g[u][READ_LOCK] + TupleNext(<<>>, u) <= g[u[1]][READ_INTENT]
  <2>1. /\ h[u][WRITE_LOCK] = 0
        /\ h[u][READ_LOCK] + TupleNext(d, u) <= h[u[1]][READ_INTENT]
    BY DEF TupleCounts, Levels
  <2>2. /\ u \in Tag /\ u[1] \in Tag /\ u # t /\ u[1] # Rel /\ u[1] \in Block
        /\ {WRITE_LOCK, READ_LOCK, READ_INTENT} \subseteq LockTypes
    BY <1>0, TagFacts, TypeFacts
  <2>3. ~(u[1] = t /\ READ_INTENT = k)
    BY <2>2, TypeFacts DEF Settable
  <2>4. /\ g[u][WRITE_LOCK] = h[u][WRITE_LOCK]
        /\ g[u][READ_LOCK] = h[u][READ_LOCK]
        /\ g[u[1]][READ_INTENT] = h[u[1]][READ_INTENT]
        /\ h[u][READ_LOCK] \in Nat /\ h[u[1]][READ_INTENT] \in Nat
    BY <1>2, <1>4, <2>2, <2>3
  <2>5. TupleNext(<<>>, u) = 0 /\ TupleNext(d, u) \in {0, 1}
    BY NextFacts DEF TupleNext
  <2> QED BY <2>1, <2>4, <2>5
<1>9. ASSUME NEW b \in Block
      PROVE  g[b][READ_INTENT] + PageNext(<<>>, b) + Own(<<>>, s, Rel, READ_INTENT)
               <= g[Rel][READ_INTENT]
  <2>1. h[b][READ_INTENT] + PageNext(d, b) + Own(d, s, Rel, READ_INTENT)
          <= h[Rel][READ_INTENT]
    BY DEF IntentCounts, Levels
  <2>2. b \in Tag /\ Rel \in Tag /\ READ_INTENT \in LockTypes /\ b # Rel
    BY TagFacts, TypeFacts
  <2>3. ~(b = t /\ READ_INTENT = k)
    BY <2>2, TypeFacts DEF Settable
  <2>4. PageNext(<<>>, b) = 0 /\ PageNext(d, b) = 0
    BY NextFacts
  <2>5. /\ g[b][READ_INTENT] = h[b][READ_INTENT]
        /\ g[Rel][READ_INTENT] = h[Rel][READ_INTENT]
                               + (IF Rel = t /\ READ_INTENT = k THEN -1 ELSE 0)
        /\ h[b][READ_INTENT] \in Nat /\ h[Rel][READ_INTENT] \in Nat
    BY <1>2, <1>4, <2>2, <2>3
  <2> HIDE DEF d
  <2> QED BY <1>1, <1>5, <1>6, <2>1, <2>4, <2>5
<1>10. ASSUME NEW u \in Tag, NEW l \in LockTypes
       PROVE  Own(<<>>, s, u, l) <= g[u][l]
  <2>1. Own(d, s, u, l) <= h[u][l]
    BY DEF OwnHeld, Levels
  <2>2. /\ h[u][l] \in Nat /\ g[u][l] = h[u][l] + IF u = t /\ l = k THEN -1 ELSE 0
    BY <1>2, <1>4
  <2> HIDE DEF d
  <2> QED BY <1>1, <1>5, <1>6, <2>1, <2>2
<1>11. RoomLeft(g, <<>>) /\ Shape(<<>>) /\ s \subseteq Settable
  BY DEF RoomLeft, Shape, Levels
<1>12. PageCounts(g, <<>>, s) /\ OwnHeld(g, <<>>, s)
  BY <1>7, <1>10, ListsDiffer DEF PageCounts, OwnHeld
<1>13. TupleCounts(g, <<>>) /\ IntentCounts(g, <<>>, s)
  BY <1>8, <1>9 DEF TupleCounts, IntentCounts
<1> QED BY <1>2, <1>11, <1>12, <1>13 DEF Levels, g

\* The intent on the relation is granted, for a page that is to be written or
\* a tuple that is to be read; e is what is left of the call.
LEMMA GrantRelIntent ==
  ASSUME NEW h, NEW s, NEW d, NEW e, NEW k, Levels(h, d, s),
         \/ \E b \in Block :
              /\ k = WRITE_INTENT
              /\ d = <<Acq(Rel, k), Acq(b, WRITE_LOCK)>>
              /\ e = <<Acq(b, WRITE_LOCK)>>
         \/ \E t \in Block \X Tuple :
              /\ k = READ_INTENT
              /\ d = <<Acq(Rel, k), Acq(t[1], READ_INTENT), Acq(t, READ_LOCK)>>
              /\ e = <<Acq(t[1], READ_INTENT), Acq(t, READ_LOCK)>>
  PROVE  Levels(Bump(h, Rel, k, 1), e, s)
<1> DEFINE g == Bump(h, Rel, k, 1)
<1>0. Rel \in Tag /\ k \in LockTypes /\ k \in {READ_INTENT, WRITE_INTENT}
  BY TagFacts, TypeFacts
<1>1. h[Rel][k] < MaxHold
  BY Short, CallsDiffer DEF Levels, RoomLeft
<1>2. /\ g \in LockTable
      /\ \A u \in Tag, l \in LockTypes :
           g[u][l] = h[u][l] + IF u = Rel /\ l = k THEN 1 ELSE 0
  <2>1. h \in LockTable
    BY DEF Levels
  <2>2. h[Rel][k] + 1 \in 0 .. MaxHold
    BY <1>0, <1>1, <2>1, TableFacts
  <2> QED BY <1>0, <2>1, <2>2, BumpFacts
<1>3. \A u \in Tag, l \in LockTypes : h[u][l] \in Nat
  BY TableFacts DEF Levels
<1>4. ASSUME NEW u, NEW l
      PROVE  /\ Own(d, s, u, l) = IF <<u, l>> \in s THEN 1 ELSE 0
             /\ Own(e, s, u, l) = IF <<u, l>> \in s /\ e # <<Acq(u, l)>> THEN 1 ELSE 0
             /\ Slack(d, s, u, l) = 0
             /\ Slack(e, s, u, l) = IF e = <<Acq(u, l)>> /\ <<u, l>> \notin s
                                    THEN 1 ELSE 0
  BY ListsDiffer DEF Own, Slack
<1>5. \A l : e # <<Acq(Rel, l)>> /\ e # <<Rls(Rel, l)>>
  BY ListsDiffer, TagFacts
<1>6. ASSUME NEW b \in Block, NEW l \in {READ_LOCK, WRITE_LOCK}
      PROVE  PageCovered(g, e, s, b, l)
  <2>1. PageCovered(h, d, s, b, l)
    BY DEF PageCounts, Levels
  <2>2. b \in Tag /\ Rel \in Tag /\ l \in LockTypes /\ l + INTENT \in LockTypes
        /\ b # Rel
    BY TagFacts, TypeFacts
  <2>3. /\ h[b][l] \in Nat /\ h[Rel][l + INTENT] \in Nat
        /\ g[b][l] = h[b][l]
        /\ g[Rel][l + INTENT] = h[Rel][l + INTENT]
                              + (IF l + INTENT = k THEN 1 ELSE 0)
    BY <1>2, <1>3, <2>2
  <2>4. e = <<Acq(b, l)>> => l + INTENT = k
    BY ListsDiffer, TypeFacts
  <2>5. <<b, l>> \in s => <<Rel, l + INTENT>> \in s
    BY <2>1 DEF PageCovered
  <2>6. /\ h[b][l] + Own(d, s, Rel, l + INTENT)
             <= h[Rel][l + INTENT] + Own(d, s, b, l)
        /\ Own(e, s, Rel, l + INTENT) = Own(d, s, Rel, l + INTENT)
    BY <1>4, <1>5, <2>1, <2>3 DEF PageCovered
  <2>7. CASE e = <<Acq(b, l)>>
    BY <1>4, <1>5, <2>3, <2>4, <2>5, <2>6, <2>7 DEF PageCovered
  <2>8. CASE e # <<Acq(b, l)>>
    BY <1>4, <1>5, <2>3, <2>4, <2>5, <2>6, <2>8 DEF PageCovered
  <2> QED BY <2>7, <2>8
<1>7. ASSUME NEW u \in Block \X Tuple
      PROVE  /\ g[u][WRITE_LOCK] = 0
             /\ g[u][READ_LOCK] + TupleNext(e, u) <= g[u[1]][READ_INTENT]
  <2>1. /\ h[u][WRITE_LOCK] = 0
        /\ h[u][READ_LOCK] + TupleNext(d, u) <= h[u[1]][READ_INTENT]
    BY DEF TupleCounts, Levels
  <2>2. /\ u \in Tag /\ u[1] \in Tag /\ u # Rel /\ u[1] # Rel
        /\ {WRITE_LOCK, READ_LOCK, READ_INTENT} \subseteq LockTypes
    BY TagFacts, TypeFacts
  <2>3. /\ g[u][WRITE_LOCK] = h[u][WRITE_LOCK]
        /\ g[u][READ_LOCK] = h[u][READ_LOCK]
        /\ g[u[1]][READ_INTENT] = h[u[1]][READ_INTENT]
        /\ h[u][READ_LOCK] \in Nat
    BY <1>2, <1>3, <2>2
  <2>4. TupleNext(e, u) = 0 /\ TupleNext(d, u) = 0
    BY NextFacts, ListsDiffer, TagFacts, TypeFacts DEF TupleNext
  <2> QED BY <2>1, <2>3, <2>4
<1>8. ASSUME NEW b \in Block
      PROVE  g[b][READ_INTENT] + PageNext(e, b) + Own(e, s, Rel, READ_INTENT)
               <= g[Rel][READ_INTENT]
  <2>1. h[b][READ_INTENT] + PageNext(d, b) + Own(d, s, Rel, READ_INTENT)
          <= h[Rel][READ_INTENT]
    BY DEF IntentCounts, Levels
  <2>2. b \in Tag /\ Rel \in Tag /\ READ_INTENT \in LockTypes /\ b # Rel
    BY TagFacts, TypeFacts
  <2>3. PageNext(e, b) \in {0, 1} /\ (k = WRITE_INTENT => PageNext(e, b) = 0)
    <3>1. PageNext(e, b) \in {0, 1}
      BY DEF PageNext
    <3>2. k = WRITE_INTENT => PageNext(e, b) = 0
      BY NextFacts, TypeFacts
    <3> QED BY <3>1, <3>2
  <2>4. PageNext(d, b) = 0
    BY NextFacts, ListsDiffer, TypeFacts, TagFacts DEF PageNext
  <2>5. /\ g[b][READ_INTENT] = h[b][READ_INTENT]
        /\ g[Rel][READ_INTENT] = h[Rel][READ_INTENT]
                               + (IF READ_INTENT = k THEN 1 ELSE 0)
        /\ h[b][READ_INTENT] \in Nat /\ h[Rel][READ_INTENT] \in Nat
    BY <1>2, <1>3, <2>2
  <2>6. Own(e, s, Rel, READ_INTENT) = Own(d, s, Rel, READ_INTENT)
    BY <1>4, <1>5
  <2>7. Own(d, s, Rel, READ_INTENT) \in {0, 1}
    BY OwnFacts
  <2>8. READ_INTENT # WRITE_INTENT
    BY TypeFacts
  <2> QED BY <1>0, <2>1, <2>3, <2>4, <2>5, <2>6, <2>7, <2>8
<1>9. ASSUME NEW u \in Tag, NEW l \in LockTypes
      PROVE  Own(e, s, u, l) <= g[u][l] /\ (e = <<Rls(u, l)>> => <<u, l>> \notin s)
  <2>1. Own(d, s, u, l) <= h[u][l]
    BY DEF OwnHeld, Levels
  <2>2. h[u][l] \in Nat /\ g[u][l] = h[u][l] + IF u = Rel /\ l = k THEN 1 ELSE 0
    BY <1>2, <1>3
  <2>3. e # <<Rls(u, l)>>
    BY ListsDiffer
  <2> QED BY <1>4, <2>1, <2>2, <2>3
<1>10. RoomLeft(g, e)
  <2>1. ASSUME NEW b \in Block, k = WRITE_INTENT,
               d = <<Acq(Rel, k), Acq(b, WRITE_LOCK)>>, e = <<Acq(b, WRITE_LOCK)>>
        PROVE  RoomLeft(g, e)
    <3>1. h[b][WRITE_LOCK] < MaxHold
      BY <2>1, Short, CallsDiffer DEF Levels, RoomLeft
    <3>2. g[b][WRITE_LOCK] = h[b][WRITE_LOCK]
      BY <1>2, <1>3, TagFacts, TypeFacts
    <3> QED BY <2>1, <3>1, <3>2, Short, CallsDiffer DEF RoomLeft
  <2>2. ASSUME NEW t \in Block \X Tuple, k = READ_INTENT,
               d = <<Acq(Rel, k), Acq(t[1], READ_INTENT), Acq(t, READ_LOCK)>>,
               e = <<Acq(t[1], READ_INTENT), Acq(t, READ_LOCK)>>
        PROVE  RoomLeft(g, e)
    <3>1. h[t[1]][READ_INTENT] < MaxHold /\ h[t][READ_LOCK] < MaxHold
      BY <2>2, Short, CallsDiffer DEF Levels, RoomLeft
    <3>2. /\ g[t[1]][READ_INTENT] = h[t[1]][READ_INTENT]
          /\ g[t][READ_LOCK] = h[t][READ_LOCK]
      BY <1>2, <1>3, TagFacts, TypeFacts
    <3> QED BY <2>2, <3>1, <3>2, Short, CallsDiffer DEF RoomLeft
  <2> QED BY <2>1, <2>2
<1>11. Shape(e)
  <2>1. ASSUME NEW b \in Block, e = <<Acq(b, WRITE_LOCK)>>
        PROVE  Shape(e)
    <3>1. <<b, WRITE_LOCK>> \in Settable
      BY DEF Settable
    <3> QED BY <2>1, <3>1, Zenon DEF Shape
  <2>2. ASSUME NEW t \in Block \X Tuple,
               e = <<Acq(t[1], READ_INTENT), Acq(t, READ_LOCK)>>
        PROVE  Shape(e)
    BY <2>2, Zenon DEF Shape
  <2> QED BY <2>1, <2>2
<1>12. PageCounts(g, e, s) /\ OwnHeld(g, e, s)
  BY <1>6, <1>9 DEF PageCounts, OwnHeld
<1>13. TupleCounts(g, e) /\ IntentCounts(g, e, s)
  BY <1>7, <1>8 DEF TupleCounts, IntentCounts
<1> QED BY <1>2, <1>10, <1>11, <1>12, <1>13 DEF Levels

\* The intent on the page of a tuple is granted, and then the tuple.
LEMMA GrantTuple ==
  ASSUME NEW h, NEW s, NEW d, NEW e, NEW x, NEW k, NEW t \in Block \X Tuple,
         Levels(h, d, s),
         \/ /\ d = <<Acq(t[1], READ_INTENT), Acq(t, READ_LOCK)>>
            /\ e = <<Acq(t, READ_LOCK)>> /\ x = t[1] /\ k = READ_INTENT
         \/ /\ d = <<Acq(t, READ_LOCK)>>
            /\ e = <<>> /\ x = t /\ k = READ_LOCK
  PROVE  Levels(Bump(h, x, k, 1), e, s)
<1> DEFINE g == Bump(h, x, k, 1)
<1>0. /\ x \in Tag /\ x # Rel /\ k \in LockTypes /\ t \in Tag /\ t[1] \in Block
      /\ t # Rel /\ t \notin Block
      /\ \A b \in Block, l \in {READ_LOCK, WRITE_LOCK} : ~(b = x /\ l = k)
  BY TagFacts, TypeFacts
<1>1. h[x][k] < MaxHold
  BY Short, CallsDiffer DEF Levels, RoomLeft
<1>2. /\ g \in LockTable
      /\ \A u \in Tag, l \in LockTypes :
           g[u][l] = h[u][l] + IF u = x /\ l = k THEN 1 ELSE 0
  <2>1. h \in LockTable
    BY DEF Levels
  <2>2. h[x][k] + 1 \in 0 .. MaxHold
    BY <1>0, <1>1, <2>1, TableFacts
  <2> QED BY <1>0, <2>1, <2>2, BumpFacts
<1>3. \A u \in Tag, l \in LockTypes : h[u][l] \in Nat
  BY TableFacts DEF Levels
<1>4. <<t, READ_LOCK>> \notin s
  BY <1>0, Zenon DEF Levels, Settable
<1>5. ASSUME NEW u, NEW l
      PROVE  Own(e, s, u, l) = Own(d, s, u, l)
  <2>1. e # <<Rls(u, l)>> /\ d # <<Rls(u, l)>>
    BY ListsDiffer
  <2>2. ASSUME <<u, l>> \in s PROVE e # <<Acq(u, l)>> /\ d # <<Acq(u, l)>>
    <3>1. ~(u = t /\ l = READ_LOCK)
      BY <1>4, <2>2
    <3> QED BY <3>1, ListsDiffer
  <2> QED BY <2>1, <2>2 DEF Own
<1>6. \A u \in Block, l \in LockTypes : Slack(e, s, u, l) = 0 /\ Slack(d, s, u, l) = 0
  BY <1>0, ListsDiffer DEF Slack
<1>7. \A l : e # <<Acq(Rel, l)>>
  BY <1>0, ListsDiffer
<1>8. ASSUME NEW b \in Block, NEW l \in {READ_LOCK, WRITE_LOCK}
      PROVE  PageCovered(g, e, s, b, l)
  <2>1. PageCovered(h, d, s, b, l)
    BY DEF PageCounts, Levels
  <2>2. b \in Tag /\ Rel \in Tag /\ l \in LockTypes /\ l + INTENT \in LockTypes
    BY TagFacts, TypeFacts
  <2>3. g[b][l] = h[b][l] /\ g[Rel][l + INTENT] = h[Rel][l + INTENT]
    BY <1>0, <1>2, <1>3, <2>2
  <2> QED BY <1>5, <1>6, <1>7, <2>1, <2>2, <2>3 DEF PageCovered
<1>9. ASSUME NEW u \in Block \X Tuple
      PROVE  /\ g[u][WRITE_LOCK] = 0
             /\ g[u][READ_LOCK] + TupleNext(e, u) <= g[u[1]][READ_INTENT]
  <2>1. /\ h[u][WRITE_LOCK] = 0
        /\ h[u][READ_LOCK] + TupleNext(d, u) <= h[u[1]][READ_INTENT]
    BY DEF TupleCounts, Levels
  <2>2. /\ u \in Tag /\ u[1] \in Tag /\ u # u[1] /\ u[1] \in Block /\ u \notin Block
        /\ {WRITE_LOCK, READ_LOCK, READ_INTENT} \subseteq LockTypes
        /\ WRITE_LOCK # READ_LOCK /\ WRITE_LOCK # READ_INTENT
        /\ READ_LOCK # READ_INTENT
    BY TagFacts, TypeFacts
  <2>3. /\ g[u][WRITE_LOCK] = h[u][WRITE_LOCK]
        /\ g[u][READ_LOCK] = h[u][READ_LOCK] + (IF u = x THEN 1 ELSE 0)
        /\ g[u[1]][READ_INTENT] = h[u[1]][READ_INTENT]
                                + (IF u[1] = x THEN 1 ELSE 0)
        /\ h[u][READ_LOCK] \in Nat /\ h[u[1]][READ_INTENT] \in Nat
    BY <1>0, <1>2, <1>3, <2>2
  <2>4. CASE x = t[1]
    <3>1. /\ TupleNext(d, u) = 0 /\ TupleNext(e, u) = (IF u = t THEN 1 ELSE 0)
          /\ u # x /\ (u = t => u[1] = x)
      BY <1>0, <2>2, <2>4, NextFacts, ListsDiffer DEF TupleNext
    <3> QED BY <2>1, <2>3, <3>1
  <2>5. CASE x = t
    <3>1. /\ TupleNext(e, u) = 0 /\ TupleNext(d, u) = (IF u = t THEN 1 ELSE 0)
          /\ u[1] # x
      BY <1>0, <2>2, <2>5, NextFacts, ListsDiffer DEF TupleNext
    <3> QED BY <2>1, <2>3, <2>5, <3>1
  <2> QED BY <2>4, <2>5
<1>10. ASSUME NEW b \in Block
       PROVE  g[b][READ_INTENT] + PageNext(e, b) + Own(e, s, Rel, READ_INTENT)
                <= g[Rel][READ_INTENT]
  <2>1. h[b][READ_INTENT] + PageNext(d, b) + Own(d, s, Rel, READ_INTENT)
          <= h[Rel][READ_INTENT]
    BY DEF IntentCounts, Levels
  <2>2. b \in Tag /\ Rel \in Tag /\ READ_INTENT \in LockTypes
        /\ READ_LOCK # READ_INTENT
    BY TagFacts, TypeFacts
  <2>3. PageNext(e, b) = 0
    BY NextFacts
  <2>4. /\ g[b][READ_INTENT] = h[b][READ_INTENT] + (IF b = x THEN 1 ELSE 0)
        /\ g[Rel][READ_INTENT] = h[Rel][READ_INTENT]
        /\ h[b][READ_INTENT] \in Nat /\ h[Rel][READ_INTENT] \in Nat
    BY <1>0, <1>2, <1>3, <2>2
  <2>5. PageNext(d, b) \in {0, 1} /\ (b = x => PageNext(d, b) = 1)
    <3>1. PageNext(d, b) \in {0, 1}
      BY DEF PageNext
    <3>2. ASSUME b = x PROVE PageNext(d, b) = 1
      <4>1. d = <<Acq(b, READ_INTENT), Acq(t, READ_LOCK)>> /\ t[1] = b
        BY <1>0, <3>2
      <4> QED BY <4>1, Zenon DEF PageNext
    <3> QED BY <3>1, <3>2
  <2>6. Own(d, s, Rel, READ_INTENT) \in {0, 1}
    BY OwnFacts
  <2> QED BY <1>5, <2>1, <2>3, <2>4, <2>5, <2>6
<1>11. ASSUME NEW u \in Tag, NEW l \in LockTypes
       PROVE  Own(e, s, u, l) <= g[u][l] /\ (e = <<Rls(u, l)>> => <<u, l>> \notin s)
  <2>1. Own(d, s, u, l) <= h[u][l]
    BY DEF OwnHeld, Levels
  <2>2. h[u][l] \in Nat /\ g[u][l] = h[u][l] + IF u = x /\ l = k THEN 1 ELSE 0
    BY <1>2, <1>3
  <2>3. e # <<Rls(u, l)>>
    BY ListsDiffer
  <2>4. Own(d, s, u, l) \in {0, 1}
    BY OwnFacts
  <2> QED BY <1>5, <2>1, <2>2, <2>3, <2>4
<1>12. RoomLeft(g, e)
  <2>1. CASE e = <<>>
    BY <2>1, Short DEF RoomLeft
  <2>2. CASE e # <<>>
    <3>0. /\ d = <<Acq(t[1], READ_INTENT), Acq(t, READ_LOCK)>>
          /\ e = <<Acq(t, READ_LOCK)>> /\ x = t[1] /\ k = READ_INTENT
      BY <2>2
    <3>1. h[t][READ_LOCK] < MaxHold
      BY <3>0, Short, CallsDiffer DEF Levels, RoomLeft
    <3>2. g[t][READ_LOCK] = h[t][READ_LOCK]
      BY <1>0, <1>2, <1>3, <3>0, TypeFacts
    <3> QED BY <3>0, <3>1, <3>2, Short, CallsDiffer DEF RoomLeft
  <2> QED BY <2>1, <2>2
<1>13. Shape(e)
  BY Zenon DEF Shape
<1>14. PageCounts(g, e, s) /\ OwnHeld(g, e, s)
  BY <1>8, <1>11 DEF PageCounts, OwnHeld
<1>15. TupleCounts(g, e) /\ IntentCounts(g, e, s)
  BY <1>9, <1>10 DEF TupleCounts, IntentCounts
<1> QED BY <1>2, <1>12, <1>13, <1>14, <1>15 DEF Levels

\* The end of a transaction.
LEMMA Released_All ==
  LET none == [t \in Tag |-> [k \in LockTypes |-> 0]]
  IN  Levels(none, <<>>, {})
<1> DEFINE none == [t \in Tag |-> [k \in LockTypes |-> 0]]
<1>1. none \in LockTable /\ \A t \in Tag, k \in LockTypes : none[t][k] = 0
  BY RelLockAssumption DEF LockTable
<1>2. \A t, k : Own(<<>>, {}, t, k) = 0 /\ Slack(<<>>, {}, t, k) = 0
  BY ListsDiffer DEF Own, Slack
<1> HIDE DEF none
<1>3. PageCounts(none, <<>>, {})
  BY <1>1, <1>2, TagFacts, TypeFacts DEF PageCounts, PageCovered
<1>4. TupleCounts(none, <<>>)
  BY <1>1, NextFacts, TagFacts, TypeFacts DEF TupleCounts
<1>5. IntentCounts(none, <<>>, {})
  BY <1>1, <1>2, NextFacts, TagFacts, TypeFacts DEF IntentCounts
<1>6. OwnHeld(none, <<>>, {}) /\ RoomLeft(none, <<>>) /\ Shape(<<>>)
  BY <1>1, <1>2, Short DEF OwnHeld, RoomLeft, Shape
<1> QED BY <1>1, <1>3, <1>4, <1>5, <1>6 DEF Levels, none

LEMMA HeadFacts ==
  ASSUME NEW d, NEW t, NEW k, Head(d) = Acq(t, k) \/ Head(d) = Rls(t, k)
  PROVE  Head(d).tag = t /\ Head(d).type = k
BY DEF Acq, Rls

\* A grant, whatever is left of the call after it.
LEMMA Grant ==
  ASSUME NEW h, NEW s, NEW d, Levels(h, d, s), d # <<>>,
         Head(d).op = "acquire"
  PROVE  /\ Levels(Bump(h, Head(d).tag, Head(d).type, 1), Tail(d), s)
         /\ Head(d).tag \in Tag /\ Head(d).type \in LockTypes
<1>1. ASSUME NEW c \in Settable, d = <<Acq(c[1], c[2])>>
      PROVE  /\ Levels(Bump(h, Head(d).tag, Head(d).type, 1), Tail(d), s)
             /\ Head(d).tag \in Tag /\ Head(d).type \in LockTypes
  <2>1. <<c[1], c[2]>> \in Settable /\ c[1] \in Tag /\ c[2] \in LockTypes
    BY TagFacts, TypeFacts DEF Settable
  <2>2. Levels(Bump(h, c[1], c[2], 1), <<>>, s)
    BY <1>1, <2>1, GrantLast
  <2>3. Head(d) = Acq(c[1], c[2]) /\ Tail(d) = <<>>
    BY <1>1, Short
  <2>4. Head(d).tag = c[1] /\ Head(d).type = c[2]
    BY <2>3, HeadFacts
  <2> QED BY <2>1, <2>2, <2>3, <2>4
<1>2. ASSUME NEW c \in Settable, d = <<Rls(c[1], c[2])>> PROVE FALSE
  <2>1. Head(d) = Rls(c[1], c[2])
    BY <1>2, Short
  <2> QED BY <2>1, CallsDiffer
<1>3. ASSUME NEW t \in Block \X Tuple, d = <<Acq(t, READ_LOCK)>>
      PROVE  /\ Levels(Bump(h, Head(d).tag, Head(d).type, 1), Tail(d), s)
             /\ Head(d).tag \in Tag /\ Head(d).type \in LockTypes
  <2>1. Levels(Bump(h, t, READ_LOCK, 1), <<>>, s)
    BY <1>3, GrantTuple
  <2>2. Head(d) = Acq(t, READ_LOCK) /\ Tail(d) = <<>>
    BY <1>3, Short
  <2>3. Head(d).tag = t /\ Head(d).type = READ_LOCK
    BY <2>2, HeadFacts
  <2>4. t \in Tag /\ READ_LOCK \in LockTypes
    BY TagFacts, TypeFacts
  <2> QED BY <2>1, <2>2, <2>3, <2>4
<1>4. ASSUME NEW b \in Block,
             d = <<Acq(Rel, WRITE_INTENT), Acq(b, WRITE_LOCK)>>
      PROVE  /\ Levels(Bump(h, Head(d).tag, Head(d).type, 1), Tail(d), s)
             /\ Head(d).tag \in Tag /\ Head(d).type \in LockTypes
  <2>1. Levels(Bump(h, Rel, WRITE_INTENT, 1), <<Acq(b, WRITE_LOCK)>>, s)
    BY <1>4, GrantRelIntent
  <2>2. Head(d) = Acq(Rel, WRITE_INTENT) /\ Tail(d) = <<Acq(b, WRITE_LOCK)>>
    BY <1>4, Short
  <2>3. Head(d).tag = Rel /\ Head(d).type = WRITE_INTENT
    BY <2>2, HeadFacts
  <2>4. Rel \in Tag /\ WRITE_INTENT \in LockTypes
    BY TagFacts, TypeFacts
  <2> QED BY <2>1, <2>2, <2>3, <2>4
<1>5. ASSUME NEW t \in Block \X Tuple,
             d = <<Acq(t[1], READ_INTENT), Acq(t, READ_LOCK)>>
      PROVE  /\ Levels(Bump(h, Head(d).tag, Head(d).type, 1), Tail(d), s)
             /\ Head(d).tag \in Tag /\ Head(d).type \in LockTypes
  <2>1. Levels(Bump(h, t[1], READ_INTENT, 1), <<Acq(t, READ_LOCK)>>, s)
    BY <1>5, GrantTuple
  <2>2. Head(d) = Acq(t[1], READ_INTENT) /\ Tail(d) = <<Acq(t, READ_LOCK)>>
    BY <1>5, Short
  <2>3. Head(d).tag = t[1] /\ Head(d).type = READ_INTENT
    BY <2>2, HeadFacts
  <2>4. t[1] \in Tag /\ READ_INTENT \in LockTypes
    BY TagFacts, TypeFacts
  <2> QED BY <2>1, <2>2, <2>3, <2>4
<1>6. ASSUME NEW t \in Block \X Tuple,
             d = <<Acq(Rel, READ_INTENT), Acq(t[1], READ_INTENT),
                   Acq(t, READ_LOCK)>>
      PROVE  /\ Levels(Bump(h, Head(d).tag, Head(d).type, 1), Tail(d), s)
             /\ Head(d).tag \in Tag /\ Head(d).type \in LockTypes
  <2>1. Levels(Bump(h, Rel, READ_INTENT, 1),
               <<Acq(t[1], READ_INTENT), Acq(t, READ_LOCK)>>, s)
    BY <1>6, GrantRelIntent
  <2>2. Head(d) = Acq(Rel, READ_INTENT)
        /\ Tail(d) = <<Acq(t[1], READ_INTENT), Acq(t, READ_LOCK)>>
    BY <1>6, Short
  <2>3. Head(d).tag = Rel /\ Head(d).type = READ_INTENT
    BY <2>2, HeadFacts
  <2>4. Rel \in Tag /\ READ_INTENT \in LockTypes
    BY TagFacts, TypeFacts
  <2> QED BY <2>1, <2>2, <2>3, <2>4
<1> QED BY <1>1, <1>2, <1>3, <1>4, <1>5, <1>6, Zenon DEF Levels, Shape

\* A release ends its call.
LEMMA Surrender ==
  ASSUME NEW h, NEW s, NEW d, Levels(h, d, s), d # <<>>,
         Head(d).op = "release"
  PROVE  /\ Levels(Bump(h, Head(d).tag, Head(d).type, -1), Tail(d), s)
         /\ Head(d).tag \in Tag /\ Head(d).type \in LockTypes
<1>1. \A t, k, x, y : /\ Head(<<Acq(t, k)>>).op = "acquire"
                      /\ Head(<<Acq(t, k), x>>).op = "acquire"
                      /\ Head(<<Acq(t, k), x, y>>).op = "acquire"
  BY Short, CallsDiffer
<1>2. "acquire" # "release"
  OBVIOUS
<1>3. PICK c \in Settable : d = <<Rls(c[1], c[2])>>
  BY <1>1, <1>2, Zenon DEF Levels, Shape
<1>4. <<c[1], c[2]>> \in Settable /\ c[1] \in Tag /\ c[2] \in LockTypes
  BY TagFacts, TypeFacts DEF Settable
<1>5. Levels(Bump(h, c[1], c[2], -1), <<>>, s)
  BY <1>3, <1>4, GiveBack
<1>6. Head(d) = Rls(c[1], c[2]) /\ Tail(d) = <<>>
  BY <1>3, Short
<1>7. Head(d).tag = c[1] /\ Head(d).type = c[2]
  BY <1>6, HeadFacts
<1> QED BY <1>4, <1>5, <1>6, <1>7

-----------------------------------------------------------------------------
(* The inductive invariant.                                                *)

Info == [valid : BOOLEAN, mine : BOOLEAN, readRel : BOOLEAN,
         readTuple : BOOLEAN, count : 0 .. TupleLevelLockLimit]

Types ==
  /\ held \in [Proc -> LockTable]
  /\ todo = [p \in Proc |-> todo[p]]
  /\ info \in [Proc -> Info]
  /\ set \in [Proc -> SUBSET Settable]
  /\ read \in [Proc -> SUBSET (Block \X Tuple)]

\* The lock table grants no lock beside one that conflicts with it.
TableExcludes ==
  \A p, q \in Proc, t \in Tag, k, l \in LockTypes :
    p # q /\ l \in MultiConflicts[k] /\ held[p][t][k] > 0 => held[q][t][l] = 0

IInv ==
  /\ Types /\ TableExcludes
  /\ \A p \in Proc : Levels(held[p], todo[p], set[p])

LEMMA ConflictFacts ==
  /\ \A k, l \in LockTypes : l \in MultiConflicts[k] <=> k \in MultiConflicts[l]
  /\ MultiConflicts[WRITE_LOCK] = {WRITE_LOCK, WRITE_INTENT, READ_LOCK, READ_INTENT}
  /\ {WRITE_LOCK, WRITE_INTENT} \subseteq MultiConflicts[READ_LOCK]
  /\ READ_LOCK \in MultiConflicts[WRITE_INTENT]
  /\ WRITE_LOCK \in MultiConflicts[WRITE_INTENT]
BY DEF MultiConflicts, LockTypes, WRITE_LOCK, READ_LOCK, WRITE_INTENT,
       READ_INTENT, EXTEND_LOCK

\* Infos, and assignments to their fields, are infos.
LEMMA InfoFacts ==
  /\ RelationInitLockInfo \in Info
  /\ RelationInitLockInfo.valid /\ ~RelationInitLockInfo.readRel
  /\ \A I \in Info, x \in BOOLEAN :
       /\ [I EXCEPT !.valid = x] \in Info /\ [I EXCEPT !.mine = x] \in Info
       /\ [I EXCEPT !.readRel = x] \in Info
       /\ [I EXCEPT !.readTuple = x] \in Info
  /\ \A I \in Info, n \in 0 .. TupleLevelLockLimit :
       [I EXCEPT !.count = n] \in Info
<1>1. 0 \in 0 .. TupleLevelLockLimit
  BY RelLockAssumption
<1>2. TRUE \in BOOLEAN /\ FALSE \in BOOLEAN
  BY Zenon
<1>3. RelationInitLockInfo \in Info
  BY <1>1, <1>2 DEF RelationInitLockInfo, Info
<1>4. RelationInitLockInfo.valid /\ ~RelationInitLockInfo.readRel
  BY DEF RelationInitLockInfo
<1>5. ASSUME NEW I \in Info, NEW x \in BOOLEAN
      PROVE  /\ [I EXCEPT !.valid = x] \in Info /\ [I EXCEPT !.mine = x] \in Info
             /\ [I EXCEPT !.readRel = x] \in Info
             /\ [I EXCEPT !.readTuple = x] \in Info
  BY DEF Info
<1>6. ASSUME NEW I \in Info, NEW n \in 0 .. TupleLevelLockLimit
      PROVE  [I EXCEPT !.count = n] \in Info
  BY DEF Info
<1> QED BY <1>3, <1>4, <1>5, <1>6

LEMMA InitIInv == Init => IInv
<1> SUFFICES ASSUME Init PROVE IInv
  OBVIOUS
<1> DEFINE none == [t \in Tag |-> [k \in LockTypes |-> 0]]
<1>1. \A p \in Proc : held[p] = none /\ todo[p] = <<>> /\ set[p] = {}
  BY DEF Init
<1>2. Levels(none, <<>>, {})
  BY Released_All
<1>3. Types
  <2>1. none \in LockTable
    BY <1>2 DEF Levels
  <2>2. info \in [Proc -> Info]
    <3>1. {RelationInitLockInfo, NoInfo, [RelationInitLockInfo EXCEPT !.mine = FALSE]}
            \subseteq Info
      <4>1. TRUE \in BOOLEAN /\ FALSE \in BOOLEAN
        BY Zenon
      <4>2. [RelationInitLockInfo EXCEPT !.mine = FALSE] \in Info
        BY <4>1, InfoFacts
      <4>3. NoInfo = [[RelationInitLockInfo EXCEPT !.mine = FALSE]
                         EXCEPT !.valid = FALSE]
        BY DEF NoInfo, RelationInitLockInfo
      <4>4. NoInfo \in Info
        BY <4>1, <4>2, <4>3, InfoFacts
      <4> QED BY <4>2, <4>4, InfoFacts
    <3> QED BY <3>1 DEF Init
  <2> QED BY <2>1, <2>2 DEF Init, Types
<1>4. TableExcludes
  BY <1>1 DEF TableExcludes
<1> QED BY <1>1, <1>2, <1>3, <1>4 DEF IInv

\* A step that touches p only, and takes it from one good state to another
\* without a lock more.
LEMMA CallKeeps ==
  ASSUME IInv, NEW p \in Proc, NEW d, NEW s \in SUBSET Settable,
         UNCHANGED held, todo' = [todo EXCEPT ![p] = d],
         set' = [set EXCEPT ![p] = s],
         info' \in [Proc -> Info], read' \in [Proc -> SUBSET (Block \X Tuple)],
         Levels(held[p], d, s)
  PROVE  IInv'
<1>1. Types'
  BY DEF IInv, Types
<1>2. TableExcludes'
  BY DEF IInv, TableExcludes
<1>3. \A q \in Proc : /\ todo'[q] = IF q = p THEN d ELSE todo[q]
                      /\ set'[q] = IF q = p THEN s ELSE set[q]
  BY DEF IInv, Types
<1> QED BY <1>1, <1>2, <1>3 DEF IInv

\* SetLock and UnsetLock, for calls that are good for the process.
LEMMA SetLockKeeps ==
  ASSUME IInv, NEW p \in Proc, NEW t, NEW k, NEW c, <<t, k>> \in Settable,
         SetLock(p, t, k, c), Levels(held[p], c, set[p] \cup {<<t, k>>})
  PROVE  IInv'
<1>1. info' \in [Proc -> Info]
  <2>1. (t = Rel /\ k = READ_LOCK) \in BOOLEAN
    BY Zenon
  <2>2. [RelationInitLockInfo EXCEPT !.readRel = (t = Rel /\ k = READ_LOCK)] \in Info
    BY <2>1, InfoFacts
  <2> QED BY <2>2 DEF SetLock, IInv, Types
<1>2. /\ set' = [set EXCEPT ![p] = set[p] \cup {<<t, k>>}]
      /\ todo' = [todo EXCEPT ![p] = c] /\ UNCHANGED held
      /\ set[p] \cup {<<t, k>>} \in SUBSET Settable
      /\ read' \in [Proc -> SUBSET (Block \X Tuple)]
  BY DEF SetLock, Calls, IInv, Types
<1> QED BY <1>1, <1>2, CallKeeps

LEMMA UnsetLockKeeps ==
  ASSUME IInv, NEW p \in Proc, NEW t, NEW k, NEW c,
         UnsetLock(p, t, k, c), Levels(held[p], c, set[p] \ {<<t, k>>})
  PROVE  IInv'
<1>2. /\ set' = [set EXCEPT ![p] = set[p] \ {<<t, k>>}]
      /\ todo' = [todo EXCEPT ![p] = c] /\ UNCHANGED held
      /\ set[p] \ {<<t, k>>} \in SUBSET Settable
      /\ read' \in [Proc -> SUBSET (Block \X Tuple)]
      /\ info' \in [Proc -> Info]
  BY DEF UnsetLock, Calls, IInv, Types
<1> QED BY <1>2, CallKeeps

\* A process that makes no call.
LEMMA AtRest ==
  ASSUME IInv, NEW p \in Proc, Idle(p)
  PROVE  Levels(held[p], <<>>, set[p])
BY DEF IInv, Idle

\* The locks on the relation: RelationSetLockForRead and the like, and intents.
LEMMA RelKeeps ==
  ASSUME IInv, NEW p \in Proc, NEW k \in LockTypes,
         \/ SetLock(p, Rel, k, <<Acq(Rel, k)>>)
         \/ /\ UnsetLock(p, Rel, k, <<Rls(Rel, k)>>)
            /\ \A b \in Block, l \in {READ_LOCK, WRITE_LOCK} :
                 k = l + INTENT => <<b, l>> \notin set[p]
  PROVE  IInv'
<1>1. CASE SetLock(p, Rel, k, <<Acq(Rel, k)>>)
  <2>1. Idle(p) /\ <<Rel, k>> \notin set[p] /\ held[p][Rel][k] < MaxHold
    <3>1. Idle(p) /\ <<Rel, k>> \notin set[p]
      BY <1>1 DEF SetLock
    <3>2. \A i \in DOMAIN <<Acq(Rel, k)>> :
            Room(p, <<Acq(Rel, k)>>[i].tag, <<Acq(Rel, k)>>[i].type)
      BY <1>1 DEF SetLock
    <3>3. Room(p, Acq(Rel, k).tag, Acq(Rel, k).type)
      BY <3>2
    <3> QED BY <3>1, <3>3, CallsDiffer DEF Room
  <2>2. Levels(held[p], <<Acq(Rel, k)>>, set[p] \cup {<<Rel, k>>})
    BY <2>1, AtRest, SetRel
  <2>3. <<Rel, k>> \in Settable
    BY DEF Settable
  <2> QED BY <1>1, <2>2, <2>3, SetLockKeeps
<1>2. CASE /\ UnsetLock(p, Rel, k, <<Rls(Rel, k)>>)
           /\ \A b \in Block, l \in {READ_LOCK, WRITE_LOCK} :
                k = l + INTENT => <<b, l>> \notin set[p]
  <2>1. Idle(p) /\ <<Rel, k>> \in set[p]
    BY <1>2 DEF UnsetLock
  <2>2. Levels(held[p], <<Rls(Rel, k)>>, set[p] \ {<<Rel, k>>})
    BY <1>2, <2>1, AtRest, UnsetRel
  <2> QED BY <1>2, <2>2, UnsetLockKeeps
<1> QED BY <1>1, <1>2

LEMMA PageKeeps ==
  ASSUME IInv, NEW p \in Proc, NEW b \in Block,
         NEW k \in {READ_LOCK, WRITE_LOCK},
         SetSingleLockPage(p, b, k) \/ UnsetSingleLockPage(p, b, k)
  PROVE  IInv'
<1>0. <<b, k>> \in Settable
  BY DEF Settable
<1>1. CASE SetSingleLockPage(p, b, k)
  <2>0. SetLock(p, b, k, <<Acq(b, k)>>) /\ <<Rel, k + INTENT>> \in set[p]
    BY <1>1, MultiAcquires DEF SetSingleLockPage
  <2>1. Idle(p) /\ <<b, k>> \notin set[p] /\ held[p][b][k] < MaxHold
    <3>1. Idle(p) /\ <<b, k>> \notin set[p]
      BY <2>0 DEF SetLock
    <3>2. \A i \in DOMAIN <<Acq(b, k)>> :
            Room(p, <<Acq(b, k)>>[i].tag, <<Acq(b, k)>>[i].type)
      BY <2>0 DEF SetLock
    <3>3. Room(p, Acq(b, k).tag, Acq(b, k).type)
      BY <3>2
    <3> QED BY <3>1, <3>3, CallsDiffer DEF Room
  <2>2. Levels(held[p], <<Acq(b, k)>>, set[p] \cup {<<b, k>>})
    BY <2>0, <2>1, AtRest, SetPage
  <2> QED BY <1>0, <2>0, <2>2, SetLockKeeps
<1>2. CASE UnsetSingleLockPage(p, b, k)
  <2>0. UnsetLock(p, b, k, <<Rls(b, k)>>)
    BY <1>2, MultiAcquires DEF UnsetSingleLockPage
  <2>1. Idle(p) /\ <<b, k>> \in set[p]
    BY <2>0 DEF UnsetLock
  <2>2. Levels(held[p], <<Rls(b, k)>>, set[p] \ {<<b, k>>})
    BY <2>1, AtRest, UnsetPage
  <2> QED BY <2>0, <2>2, UnsetLockKeeps
<1> QED BY <1>1, <1>2

LEMMA WritePageKeeps ==
  ASSUME IInv, NEW p \in Proc, NEW b \in Block, SetLockForWritePage(p, b)
  PROVE  IInv'
<1> DEFINE d == <<Acq(Rel, WRITE_INTENT), Acq(b, WRITE_LOCK)>>
<1>1. MultiAcquire(b, WRITE_LOCK) = d
  <2>1. WRITE_LOCK + INTENT = WRITE_INTENT /\ WRITE_LOCK \in LockTypes
    BY TypeFacts
  <2> QED BY <2>1, MultiAcquires
<1>2. /\ todo' = [todo EXCEPT ![p] = d] /\ UNCHANGED <<held, set, read>>
      /\ Idle(p) /\ held[p][b][WRITE_LOCK] < MaxHold
      /\ held[p][Rel][WRITE_INTENT] < MaxHold
  BY <1>1 DEF SetLockForWritePage, Calls, Room
<1>3. info' \in [Proc -> Info]
  BY InfoFacts DEF SetLockForWritePage, Initialized, IInv, Types
<1>4. Shape(d)
  BY Zenon DEF Shape
<1>5. RoomLeft(held[p], d)
  BY <1>2, Short, CallsDiffer DEF RoomLeft
<1>6. Levels(held[p], <<>>, set[p])
  BY <1>2, AtRest
<1>7. Levels(held[p], d, set[p])
  <2> HIDE DEF d
  <2>1. \E c \in Block : d = <<Acq(Rel, WRITE_INTENT), Acq(c, WRITE_LOCK)>>
    BY DEF d
  <2> QED BY <1>4, <1>5, <1>6, <2>1, AskFor
<1> HIDE DEF d
<1>8. /\ set' = [set EXCEPT ![p] = set[p]] /\ set[p] \in SUBSET Settable
      /\ read' \in [Proc -> SUBSET (Block \X Tuple)]
  BY <1>2 DEF IInv, Types
<1> QED BY <1>2, <1>3, <1>7, <1>8, CallKeeps

\* What RelationSetLockForTupleRead makes of an info, and what it asks for.
ReadInfo(I, t) ==
  IF I.valid THEN TupleRead(I, t).info
  ELSE [RelationInitLockInfo EXCEPT !.readTuple = TRUE]

ReadCalls(I, t) ==
  IF I.valid THEN TupleRead(I, t).calls ELSE MultiAcquire(t, READ_LOCK)

TupleCalls(t) == <<Acq(Rel, READ_INTENT), Acq(t[1], READ_INTENT), Acq(t, READ_LOCK)>>

LEMMA ReadFacts ==
  ASSUME NEW I \in Info, NEW t \in Block \X Tuple
  PROVE  /\ ReadInfo(I, t) \in Info
         /\ \/ ReadCalls(I, t) = TupleCalls(t)
            \/ ReadCalls(I, t) = <<Acq(Rel, READ_LOCK)>>
            \/ ReadCalls(I, t) = <<>> /\ I.readRel /\ I.mine
         /\ I.valid /\ ~I.readRel =>
              ReadInfo(I, t).valid /\ ~ReadInfo(I, t).readRel
<1>1. /\ MultiAcquire(t, READ_LOCK) = TupleCalls(t)
      /\ MultiAcquire(Rel, READ_LOCK) = <<Acq(Rel, READ_LOCK)>>
  <2>1. READ_LOCK + INTENT = READ_INTENT /\ READ_LOCK \in LockTypes
    BY TypeFacts
  <2>2. MultiAcquire(t, READ_LOCK) =
          <<Acq(Rel, READ_LOCK + INTENT), Acq(t[1], READ_LOCK + INTENT),
            Acq(t, READ_LOCK)>>
    BY <2>1, MultiAcquires
  <2> QED BY <2>1, <2>2, MultiAcquires DEF TupleCalls
<1>2. TRUE \in BOOLEAN /\ FALSE \in BOOLEAN
  BY Zenon
<1>3. I.count \in 0 .. TupleLevelLockLimit /\ TupleLevelLockLimit \in Nat
  BY RelLockAssumption DEF Info
<1>4. CASE ~I.valid
  <2>1. ReadInfo(I, t) \in Info
    BY <1>2, <1>4, InfoFacts DEF ReadInfo
  <2> QED BY <1>1, <1>4, <2>1 DEF ReadCalls
<1>5. CASE I.valid /\ I.readRel /\ I.mine
  <2>1. TupleRead(I, t) = [info |-> I, calls |-> <<>>]
    BY <1>5 DEF TupleRead
  <2>2. ReadInfo(I, t) = I /\ ReadCalls(I, t) = <<>>
    BY <1>5, <2>1 DEF ReadInfo, ReadCalls
  <2> QED BY <1>5, <2>2
<1>6. CASE I.valid /\ ~(I.readRel /\ I.mine) /\ ~(I.readTuple /\ I.mine)
  <2> DEFINE J == [I EXCEPT !.readTuple = TRUE, !.count = 0, !.mine = TRUE]
  <2>1. TupleRead(I, t) = [info |-> J, calls |-> TupleCalls(t)]
    BY <1>1, <1>6 DEF TupleRead
  <2>2. J \in Info
    <3>1. J = [[[I EXCEPT !.readTuple = TRUE] EXCEPT !.count = 0]
                 EXCEPT !.mine = TRUE]
      BY DEF Info
    <3>2. [I EXCEPT !.readTuple = TRUE] \in Info
      BY <1>2, InfoFacts
    <3>3. [[I EXCEPT !.readTuple = TRUE] EXCEPT !.count = 0] \in Info
      <4>1. 0 \in 0 .. TupleLevelLockLimit
        BY <1>3
      <4> QED BY <3>2, <4>1, InfoFacts
    <3> QED BY <1>2, <3>1, <3>3, InfoFacts
  <2>3. J.valid = I.valid /\ J.readRel = I.readRel
    BY DEF Info
  <2> HIDE DEF J
  <2>4. ReadInfo(I, t) = J /\ ReadCalls(I, t) = TupleCalls(t)
    BY <1>6, <2>1 DEF ReadInfo, ReadCalls
  <2> QED BY <1>6, <2>2, <2>3, <2>4
<1>7. CASE /\ I.valid /\ ~(I.readRel /\ I.mine) /\ I.readTuple /\ I.mine
           /\ I.count = TupleLevelLockLimit
  <2> DEFINE J == [I EXCEPT !.count = 0]
  <2>1. TupleRead(I, t) = [info |-> J, calls |-> <<Acq(Rel, READ_LOCK)>>]
    BY <1>1, <1>7 DEF TupleRead
  <2>2. J \in Info /\ J.valid = I.valid /\ J.readRel = I.readRel
    BY <1>3 DEF Info
  <2> HIDE DEF J
  <2>3. ReadInfo(I, t) = J /\ ReadCalls(I, t) = <<Acq(Rel, READ_LOCK)>>
    BY <1>7, <2>1 DEF ReadInfo, ReadCalls
  <2> QED BY <1>7, <2>2, <2>3
<1>8. CASE /\ I.valid /\ ~(I.readRel /\ I.mine) /\ I.readTuple /\ I.mine
           /\ I.count # TupleLevelLockLimit
  <2> DEFINE J == [I EXCEPT !.count = I.count + 1]
  <2>1. TupleRead(I, t) = [info |-> J, calls |-> TupleCalls(t)]
    BY <1>1, <1>8 DEF TupleRead
  <2>2. I.count + 1 \in 0 .. TupleLevelLockLimit
    BY <1>3, <1>8
  <2>3. J \in Info /\ J.valid = I.valid /\ J.readRel = I.readRel
    BY <2>2 DEF Info
  <2> HIDE DEF J
  <2>4. ReadInfo(I, t) = J /\ ReadCalls(I, t) = TupleCalls(t)
    BY <1>8, <2>1 DEF ReadInfo, ReadCalls
  <2> QED BY <1>8, <2>3, <2>4
<1> QED BY <1>4, <1>5, <1>6, <1>7, <1>8

\* What SetLockForTupleRead does.
LEMMA TupleReadStep ==
  ASSUME IInv, NEW p \in Proc, NEW t \in Block \X Tuple, SetLockForTupleRead(p, t)
  PROVE  LET c == ReadCalls(info[p], t)
         IN  /\ Idle(p) /\ UNCHANGED <<held, set>>
             /\ \A i \in DOMAIN c : Room(p, c[i].tag, c[i].type)
             /\ todo' = [todo EXCEPT ![p] = c]
             /\ info' = [info EXCEPT ![p] = ReadInfo(info[p], t)]
             /\ read' = [read EXCEPT ![p] = read[p] \cup {t}]
<1> DEFINE r == IF info[p].valid THEN TupleRead(info[p], t)
                ELSE [info |-> [RelationInitLockInfo EXCEPT !.readTuple = TRUE],
                      calls |-> MultiAcquire(t, READ_LOCK)]
<1>1. r.calls = ReadCalls(info[p], t) /\ r.info = ReadInfo(info[p], t)
  BY DEF ReadCalls, ReadInfo
<1>2. /\ Idle(p) /\ UNCHANGED <<held, set>>
      /\ \A i \in DOMAIN r.calls : Room(p, r.calls[i].tag, r.calls[i].type)
      /\ todo' = [todo EXCEPT ![p] = r.calls]
      /\ info' = [info EXCEPT ![p] = r.info]
      /\ read' = [read EXCEPT ![p] = read[p] \cup {t}]
  BY Zenon DEF SetLockForTupleRead, Calls
<1> HIDE DEF r
<1> QED BY <1>1, <1>2

LEMMA TupleReadKeeps ==
  ASSUME IInv, NEW p \in Proc, NEW t \in Block \X Tuple, SetLockForTupleRead(p, t)
  PROVE  IInv'
<1> DEFINE c == ReadCalls(info[p], t)
<1>1. /\ Idle(p) /\ UNCHANGED <<held, set>>
      /\ \A i \in DOMAIN c : Room(p, c[i].tag, c[i].type)
      /\ todo' = [todo EXCEPT ![p] = c]
      /\ info' = [info EXCEPT ![p] = ReadInfo(info[p], t)]
      /\ read' = [read EXCEPT ![p] = read[p] \cup {t}]
  BY TupleReadStep
<1>2. info[p] \in Info
  BY DEF IInv, Types
<1>3. Levels(held[p], <<>>, set[p])
  BY <1>1, AtRest
<1>4. Levels(held[p], c, set[p])
  <2>1. CASE c = <<>>
    BY <1>3, <2>1
  <2>2. CASE c = <<Acq(Rel, READ_LOCK)>>
    <3>1. Room(p, Acq(Rel, READ_LOCK).tag, Acq(Rel, READ_LOCK).type)
      BY <1>1, <2>2
    <3>2. held[p][Rel][READ_LOCK] < MaxHold
      BY <3>1, CallsDiffer DEF Room
    <3> QED BY <1>3, <2>2, <3>2, AskForRel
  <2>3. CASE c = TupleCalls(t)
    <3>1. Shape(TupleCalls(t))
      BY Zenon DEF Shape, TupleCalls
    <3>2. RoomLeft(held[p], TupleCalls(t))
      <4>1. DOMAIN TupleCalls(t) = 1 .. Len(TupleCalls(t))
        BY DEF TupleCalls
      <4> QED BY <1>1, <2>3, <4>1 DEF RoomLeft, Room
    <3>3. \E u \in Block \X Tuple :
            TupleCalls(t) = <<Acq(Rel, READ_INTENT), Acq(u[1], READ_INTENT),
                              Acq(u, READ_LOCK)>>
      BY Zenon DEF TupleCalls
    <3> QED BY <1>3, <2>3, <3>1, <3>2, <3>3, AskFor
  <2> QED BY <1>2, <2>1, <2>2, <2>3, ReadFacts
<1> HIDE DEF c
<1>5. info' \in [Proc -> Info]
  BY <1>1, <1>2, ReadFacts DEF IInv, Types
<1>6. /\ set' = [set EXCEPT ![p] = set[p]] /\ set[p] \in SUBSET Settable
      /\ read' \in [Proc -> SUBSET (Block \X Tuple)]
  BY <1>1 DEF IInv, Types
<1> QED BY <1>1, <1>4, <1>5, <1>6, CallKeeps

LEMMA EndKeeps ==
  ASSUME IInv, NEW p \in Proc, EndTransaction(p)
  PROVE  IInv'
<1> DEFINE none == [t \in Tag |-> [k \in LockTypes |-> 0]]
<1>1. /\ todo[p] = <<>> /\ UNCHANGED todo
      /\ held' = [held EXCEPT ![p] = none] /\ set' = [set EXCEPT ![p] = {}]
      /\ read' = [read EXCEPT ![p] = {}]
      /\ info' = [info EXCEPT ![p].mine = FALSE]
  BY DEF EndTransaction, Idle
<1>2. Levels(none, <<>>, {})
  BY Released_All
<1>3. \A t \in Tag, k \in LockTypes : none[t][k] = 0
  OBVIOUS
<1> HIDE DEF none
<1>4. \A q \in Proc : /\ held'[q] = IF q = p THEN none ELSE held[q]
                      /\ set'[q] = IF q = p THEN {} ELSE set[q]
  BY <1>1 DEF IInv, Types
<1>5. Types'
  <2>1. none \in LockTable
    BY <1>2 DEF Levels
  <2>2. info' \in [Proc -> Info]
    <3>1. FALSE \in BOOLEAN
      BY Zenon
    <3>2. [info[p] EXCEPT !.mine = FALSE] \in Info
      BY <3>1, InfoFacts DEF IInv, Types
    <3>3. info' = [info EXCEPT ![p] = [info[p] EXCEPT !.mine = FALSE]]
      BY <1>1
    <3> QED BY <3>2, <3>3 DEF IInv, Types
  <2> QED BY <1>1, <2>1, <2>2 DEF IInv, Types
<1>6. TableExcludes'
  BY <1>3, <1>4 DEF IInv, TableExcludes
<1> QED BY <1>1, <1>2, <1>4, <1>5, <1>6 DEF IInv

LEMMA AcquireKeeps ==
  ASSUME IInv, NEW p \in Proc, LockAcquire(p)
  PROVE  IInv'
<1> DEFINE c == Head(todo[p])
           g == Bump(held[p], c.tag, c.type, 1)
<1>1. /\ todo[p] # <<>> /\ c.op = "acquire"
      /\ held' = [held EXCEPT ![p] = g]
      /\ todo' = [todo EXCEPT ![p] = Tail(todo[p])]
      /\ UNCHANGED <<info, set, read>>
  BY DEF LockAcquire, Idle, Calls, Bump
<1>2. \A q \in Proc \ {p}, k \in MultiConflicts[c.type] : held[q][c.tag][k] = 0
  BY DEF LockAcquire
<1>3. Levels(held[p], todo[p], set[p])
  BY DEF IInv
<1>4. Levels(g, Tail(todo[p]), set[p]) /\ c.tag \in Tag /\ c.type \in LockTypes
  BY <1>1, <1>3, Grant
<1>5. g \in LockTable /\ held[p] \in LockTable
  BY <1>3, <1>4 DEF Levels
<1>6. \A u \in Tag, l \in LockTypes :
        ~(u = c.tag /\ l = c.type) => g[u][l] = held[p][u][l]
  <2> SUFFICES ASSUME NEW u \in Tag, NEW l \in LockTypes,
                      ~(u = c.tag /\ l = c.type)
               PROVE  g[u][l] = held[p][u][l]
    OBVIOUS
  <2>1. g[u][l] = held[p][u][l] + IF u = c.tag /\ l = c.type THEN 1 ELSE 0
    BY <1>4, <1>5, BumpAt
  <2> HIDE DEF g, c
  <2>2. held[p][u][l] \in Nat
    BY <1>5, TableFacts
  <2> QED BY <2>1, <2>2
<1> HIDE DEF g, c
<1>7. \A q \in Proc : /\ held'[q] = IF q = p THEN g ELSE held[q]
                      /\ todo'[q] = IF q = p THEN Tail(todo[p]) ELSE todo[q]
                      /\ set'[q] = set[q]
  BY <1>1 DEF IInv, Types
<1>8. Types'
  BY <1>1, <1>5 DEF IInv, Types
<1>9. TableExcludes'
  <2> SUFFICES ASSUME NEW q \in Proc, NEW r \in Proc, NEW t \in Tag,
                      NEW k \in LockTypes, NEW l \in LockTypes, q # r,
                      l \in MultiConflicts[k], held'[q][t][k] > 0
               PROVE  held'[r][t][l] = 0
    BY DEF TableExcludes
  <2>1. k \in MultiConflicts[l]
    BY ConflictFacts
  <2>2. CASE q = p /\ t = c.tag /\ k = c.type
    BY <1>2, <1>7, <2>2
  <2>3. CASE r = p /\ t = c.tag /\ l = c.type
    BY <1>2, <1>7, <2>1, <2>3, <1>5 DEF IInv, Types, LockTable
  <2>4. CASE ~(q = p /\ t = c.tag /\ k = c.type) /\ ~(r = p /\ t = c.tag /\ l = c.type)
    <3>1. held'[q][t][k] = held[q][t][k] /\ held'[r][t][l] = held[r][t][l]
      BY <1>6, <1>7, <2>4
    <3> QED BY <3>1 DEF IInv, TableExcludes
  <2> QED BY <2>2, <2>3, <2>4
<1> QED BY <1>4, <1>7, <1>8, <1>9 DEF IInv

LEMMA ReleaseKeeps ==
  ASSUME IInv, NEW p \in Proc, LockRelease(p)
  PROVE  IInv'
<1> DEFINE c == Head(todo[p])
           g == Bump(held[p], c.tag, c.type, -1)
<1>1. /\ todo[p] # <<>> /\ c.op = "release"
      /\ held' = [held EXCEPT ![p] = g]
      /\ todo' = [todo EXCEPT ![p] = Tail(todo[p])]
      /\ UNCHANGED <<info, set, read>>
  BY DEF LockRelease, Idle, Calls, Bump
<1>3. Levels(held[p], todo[p], set[p])
  BY DEF IInv
<1>4. Levels(g, Tail(todo[p]), set[p]) /\ c.tag \in Tag /\ c.type \in LockTypes
  BY <1>1, <1>3, Surrender
<1>5. g \in LockTable /\ held[p] \in LockTable
  BY <1>3, <1>4 DEF Levels
<1>6. \A u \in Tag, l \in LockTypes : g[u][l] <= held[p][u][l] /\ g[u][l] \in Nat
                                      /\ held[p][u][l] \in Nat
  <2> SUFFICES ASSUME NEW u \in Tag, NEW l \in LockTypes
               PROVE  /\ g[u][l] <= held[p][u][l] /\ g[u][l] \in Nat
                      /\ held[p][u][l] \in Nat
    OBVIOUS
  <2>1. g[u][l] = held[p][u][l] + IF u = c.tag /\ l = c.type THEN -1 ELSE 0
    BY <1>4, <1>5, BumpAt
  <2> HIDE DEF g, c
  <2>2. g[u][l] \in Nat /\ held[p][u][l] \in Nat
    BY <1>5, TableFacts
  <2> QED BY <2>1, <2>2
<1> HIDE DEF g, c
<1>7. \A q \in Proc : /\ held'[q] = IF q = p THEN g ELSE held[q]
                      /\ todo'[q] = IF q = p THEN Tail(todo[p]) ELSE todo[q]
                      /\ set'[q] = set[q]
  BY <1>1 DEF IInv, Types
<1>8. Types'
  BY <1>1, <1>5 DEF IInv, Types
<1>9. TableExcludes'
  <2> SUFFICES ASSUME NEW q \in Proc, NEW r \in Proc, NEW t \in Tag,
                      NEW k \in LockTypes, NEW l \in LockTypes, q # r,
                      l \in MultiConflicts[k], held'[q][t][k] > 0
               PROVE  held'[r][t][l] = 0
    BY DEF TableExcludes
  <2>1. held[q][t][k] > 0
    BY <1>6, <1>7
  <2>2. held[r][t][l] = 0
    BY <2>1 DEF IInv, TableExcludes
  <2> QED BY <1>6, <1>7, <2>2
<1> QED BY <1>4, <1>7, <1>8, <1>9 DEF IInv

LEMMA NextIInv == IInv /\ [Next]_vars => IInv'
<1> SUFFICES ASSUME IInv, [Next]_vars PROVE IInv'
  OBVIOUS
<1>1. CASE UNCHANGED vars
  BY <1>1 DEF vars, IInv, Types, TableExcludes
<1>2. CASE Next
  <2> PICK p \in Proc :
        \/ LockAcquire(p) \/ LockRelease(p) \/ EndTransaction(p)
        \/ \E k \in RelnLocks : SetLockReln(p, k) \/ UnsetLockReln(p, k)
        \/ \E t \in Block \X Tuple : SetLockForTupleRead(p, t)
        \/ \E b \in Block : SetLockForWritePage(p, b)
        \/ \E k \in {READ_LOCK, WRITE_LOCK} :
             \/ SetIntentLock(p, k) \/ UnsetIntentLock(p, k)
             \/ \E b \in Block :
                  SetSingleLockPage(p, b, k) \/ UnsetSingleLockPage(p, b, k)
    BY <1>2 DEF Next
  <2>1. CASE LockAcquire(p)
    BY <2>1, AcquireKeeps
  <2>2. CASE LockRelease(p)
    BY <2>2, ReleaseKeeps
  <2>3. CASE EndTransaction(p)
    BY <2>3, EndKeeps
  <2>4. ASSUME NEW k \in RelnLocks, SetLockReln(p, k) \/ UnsetLockReln(p, k)
        PROVE  IInv'
    <3>1. k \in LockTypes
          /\ \A l \in {READ_LOCK, WRITE_LOCK} : k # l + INTENT
      BY TypeFacts DEF RelnLocks
    <3>2. SetLock(p, Rel, k, <<Acq(Rel, k)>>) \/ UnsetLock(p, Rel, k, <<Rls(Rel, k)>>)
      BY <2>4, <3>1, MultiAcquires DEF SetLockReln, UnsetLockReln
    <3> QED BY <3>1, <3>2, RelKeeps
  <2>5. ASSUME NEW t \in Block \X Tuple, SetLockForTupleRead(p, t)
        PROVE  IInv'
    BY <2>5, TupleReadKeeps
  <2>6. ASSUME NEW b \in Block, SetLockForWritePage(p, b)
        PROVE  IInv'
    BY <2>6, WritePageKeeps
  <2>7. ASSUME NEW k \in {READ_LOCK, WRITE_LOCK},
               SetIntentLock(p, k) \/ UnsetIntentLock(p, k)
        PROVE  IInv'
    <3>1. k + INTENT \in LockTypes
          /\ \A l \in {READ_LOCK, WRITE_LOCK} : k + INTENT = l + INTENT => l = k
      BY TypeFacts
    <3>2. \/ SetLock(p, Rel, k + INTENT, <<Acq(Rel, k + INTENT)>>)
          \/ /\ UnsetLock(p, Rel, k + INTENT, <<Rls(Rel, k + INTENT)>>)
             /\ \A b \in Block : <<b, k>> \notin set[p]
      BY <2>7, MultiAcquires DEF SetIntentLock, UnsetIntentLock
    <3>3. \A b \in Block, l \in {READ_LOCK, WRITE_LOCK} :
            (\A a \in Block : <<a, k>> \notin set[p]) =>
              (k + INTENT = l + INTENT => <<b, l>> \notin set[p])
      BY <3>1
    <3> QED BY <3>1, <3>2, <3>3, RelKeeps
  <2>8. ASSUME NEW k \in {READ_LOCK, WRITE_LOCK}, NEW b \in Block,
               SetSingleLockPage(p, b, k) \/ UnsetSingleLockPage(p, b, k)
        PROVE  IInv'
    BY <2>8, PageKeeps
  <2> QED BY <2>1, <2>2, <2>3, <2>4, <2>5, <2>6, <2>7, <2>8
<1> QED BY <1>1, <1>2

\* A lock is never held without the intents above it.
LEMMA IntentsAbove ==
  ASSUME NEW h, NEW d, NEW s, Levels(h, d, s)
  PROVE  /\ \A b \in Block, k \in {READ_LOCK, WRITE_LOCK} :
              h[b][k] > 0 => h[Rel][k + INTENT] > 0
         /\ \A t \in Block \X Tuple :
              /\ h[t][WRITE_LOCK] = 0
              /\ h[t][READ_LOCK] > 0 => /\ h[t[1]][READ_INTENT] > 0
                                        /\ h[Rel][READ_INTENT] > 0
<1>1. ASSUME NEW b \in Block, NEW k \in {READ_LOCK, WRITE_LOCK}, h[b][k] > 0
      PROVE  h[Rel][k + INTENT] > 0
  <2>1. PageCovered(h, d, s, b, k)
    BY DEF Levels, PageCounts
  <2>2. b \in Tag /\ Rel \in Tag /\ k \in LockTypes /\ k + INTENT \in LockTypes
    BY TagFacts, TypeFacts
  <2>3. h[b][k] \in Nat /\ h[Rel][k + INTENT] \in Nat
    BY <2>2, TableFacts DEF Levels
  <2>4. /\ Own(d, s, b, k) \in {0, 1} /\ Own(d, s, Rel, k + INTENT) \in {0, 1}
        /\ Slack(d, s, b, k) \in {0, 1}
    BY OwnFacts
  <2> QED BY <1>1, <2>1, <2>3, <2>4 DEF PageCovered
<1>2. ASSUME NEW t \in Block \X Tuple
      PROVE  /\ h[t][WRITE_LOCK] = 0
             /\ h[t][READ_LOCK] > 0 => /\ h[t[1]][READ_INTENT] > 0
                                       /\ h[Rel][READ_INTENT] > 0
  <2>1. /\ h[t][WRITE_LOCK] = 0
        /\ h[t][READ_LOCK] + TupleNext(d, t) <= h[t[1]][READ_INTENT]
        /\ h[t[1]][READ_INTENT] + PageNext(d, t[1]) + Own(d, s, Rel, READ_INTENT)
             <= h[Rel][READ_INTENT]
    BY TagFacts DEF Levels, TupleCounts, IntentCounts
  <2>2. /\ t \in Tag /\ t[1] \in Tag /\ Rel \in Tag
        /\ {READ_LOCK, READ_INTENT} \subseteq LockTypes
    BY TagFacts, TypeFacts
  <2>3. /\ h[t][READ_LOCK] \in Nat /\ h[t[1]][READ_INTENT] \in Nat
        /\ h[Rel][READ_INTENT] \in Nat
    BY <2>2, TableFacts DEF Levels
  <2>4. Own(d, s, Rel, READ_INTENT) \in {0, 1}
    BY OwnFacts
  <2>5. TupleNext(d, t) \in {0, 1} /\ PageNext(d, t[1]) \in {0, 1}
    BY DEF TupleNext, PageNext
  <2> QED BY <2>1, <2>3, <2>4, <2>5
<1> QED BY <1>1, <1>2

LEMMA IInvTypes == IInv => TypeOK
<1> SUFFICES ASSUME IInv PROVE TypeOK
  OBVIOUS
<1>1. ASSUME NEW p \in Proc PROVE Len(todo[p]) <= 3
  <2>1. Shape(todo[p])
    BY DEF IInv, Levels
  <2>2. \A a, b, c : /\ Len(<<>>) <= 3 /\ Len(<<a>>) <= 3 /\ Len(<<a, b>>) <= 3
                     /\ Len(<<a, b, c>>) <= 3
    OBVIOUS
  <2> QED BY <2>1, <2>2, Zenon DEF Shape
<1>2. Settable \subseteq Tag \X LockTypes
  BY TagFacts, TypeFacts DEF Settable
<1>3. set \in [Proc -> SUBSET (Tag \X LockTypes)]
  BY <1>2 DEF IInv, Types
<1> QED BY <1>1, <1>3 DEF IInv, Types, TypeOK, LockTable, Info

LEMMA AboveFacts ==
  ASSUME NEW t \in Tag, NEW u \in Tag, Covers(t, u)
  PROVE  \/ t = u
         \/ t = Rel /\ u \in Block
         \/ u \in Block \X Tuple /\ (t = Rel \/ t = u[1])
<1>1. CASE u = Rel
  BY <1>1 DEF Covers, Above
<1>2. CASE u \in Block
  <2>1. Above(u) = <<Rel>>
    BY <1>2, TagFacts DEF Above
  <2> QED BY <1>2, <2>1 DEF Covers
<1>3. CASE u \in Block \X Tuple
  <2>1. Above(u) = <<Rel, u[1]>>
    BY <1>3, TagFacts DEF Above
  <2>2. \A i \in DOMAIN <<Rel, u[1]>> : <<Rel, u[1]>>[i] \in {Rel, u[1]}
    OBVIOUS
  <2> QED BY <1>3, <2>1, <2>2 DEF Covers
<1> QED BY <1>1, <1>2, <1>3 DEF Tag

LEMMA IInvExcludes == IInv => LevelsExclude
<1> SUFFICES ASSUME IInv PROVE LevelsExclude
  OBVIOUS
<1> SUFFICES ASSUME NEW p \in Proc, NEW q \in Proc, NEW t \in Tag, NEW u \in Tag,
                    p # q, Covers(t, u)
             PROVE  /\ held[p][t][WRITE_LOCK] > 0 =>
                         held[q][u][WRITE_LOCK] = 0 /\ held[q][u][READ_LOCK] = 0
                    /\ held[p][t][READ_LOCK] > 0 => held[q][u][WRITE_LOCK] = 0
  BY IInvTypes DEF LevelsExclude
<1>1. {WRITE_LOCK, READ_LOCK, WRITE_INTENT, READ_INTENT} \subseteq LockTypes
      /\ READ_LOCK + INTENT = READ_INTENT /\ WRITE_LOCK + INTENT = WRITE_INTENT
  BY TypeFacts
<1>2. \A r \in Proc, x \in Tag, k \in LockTypes : held[r][x][k] \in Nat
  BY TableFacts DEF IInv, Types
<1>3. \A x \in Tag : /\ held[p][x][WRITE_LOCK] > 0 =>
                          /\ held[q][x][WRITE_LOCK] = 0
                          /\ held[q][x][READ_LOCK] = 0
                          /\ held[q][x][WRITE_INTENT] = 0
                          /\ held[q][x][READ_INTENT] = 0
                     /\ held[p][x][READ_LOCK] > 0 =>
                          /\ held[q][x][WRITE_LOCK] = 0
                          /\ held[q][x][WRITE_INTENT] = 0
  BY <1>1, ConflictFacts DEF IInv, TableExcludes
<1>4. /\ \A b \in Block, k \in {READ_LOCK, WRITE_LOCK} :
           held[q][b][k] > 0 => held[q][Rel][k + INTENT] > 0
      /\ \A x \in Block \X Tuple :
           /\ held[q][x][WRITE_LOCK] = 0
           /\ held[q][x][READ_LOCK] > 0 => /\ held[q][x[1]][READ_INTENT] > 0
                                           /\ held[q][Rel][READ_INTENT] > 0
  BY IntentsAbove DEF IInv
<1>5. CASE t = u
  BY <1>3, <1>5
<1>6. CASE t = Rel /\ u \in Block
  <2>1. /\ held[q][u][READ_LOCK] > 0 => held[q][Rel][READ_INTENT] > 0
        /\ held[q][u][WRITE_LOCK] > 0 => held[q][Rel][WRITE_INTENT] > 0
    BY <1>1, <1>4, <1>6
  <2> QED BY <1>1, <1>2, <1>3, <1>6, <2>1
<1>7. CASE u \in Block \X Tuple /\ (t = Rel \/ t = u[1])
  <2>1. /\ held[q][u][WRITE_LOCK] = 0
        /\ held[q][u][READ_LOCK] > 0 => held[q][t][READ_INTENT] > 0
    BY <1>4, <1>7
  <2> QED BY <1>1, <1>2, <1>3, <2>1
<1> QED BY <1>5, <1>6, <1>7, AboveFacts

\* Two transactions never hold locks, one of them to write, on a relation, a
\* page or a tuple and on something inside it, for any number of processes and
\* of tags: multi.c takes the intents from the top and gives them back from the
\* bottom, and single.c works under an intent its caller keeps.
THEOREM LevelsApart == Spec => []LevelsExclude
<1>1. Init => IInv
  BY InitIInv
<1>2. IInv /\ [Next]_vars => IInv'
  BY NextIInv
<1>3. IInv => LevelsExclude
  BY IInvExcludes
<1> QED BY <1>1, <1>2, <1>3, PTL DEF Spec

-----------------------------------------------------------------------------
(* The tuples a transaction was given to read.                             *)

\* u is read-locked, by itself or by a lock on the relation that no call will
\* unset, or the call under way is about to lock it.
Kept(h, d, s, u) ==
  \/ h[u][READ_LOCK] > 0
  \/ h[Rel][READ_LOCK] > Own(d, s, Rel, READ_LOCK)
  \/ d = <<Acq(u, READ_LOCK)>>
  \/ d = <<Acq(u[1], READ_INTENT), Acq(u, READ_LOCK)>>
  \/ d = TupleCalls(u)
  \/ /\ d = <<Acq(Rel, READ_LOCK)>>
     /\ <<Rel, READ_LOCK>> \in s => h[Rel][READ_LOCK] > 0

\* The lock information of a relation that was opened the usual way never
\* says that the relation itself is read-locked.
ReadInv ==
  \A p \in Proc : /\ info[p].valid /\ ~info[p].readRel
                  /\ \A u \in read[p] : Kept(held[p], todo[p], set[p], u)

\* A call leaves no fewer locks that stay.
LEMMA CallKept ==
  ASSUME NEW h, NEW s, NEW d, NEW z, NEW u, h \in LockTable,
         Kept(h, <<>>, s, u),
         Own(d, z, Rel, READ_LOCK) <= Own(<<>>, s, Rel, READ_LOCK)
  PROVE  Kept(h, d, z, u)
<1>1. /\ <<>> # <<Acq(u, READ_LOCK)>> /\ <<>> # <<Acq(Rel, READ_LOCK)>>
      /\ <<>> # <<Acq(u[1], READ_INTENT), Acq(u, READ_LOCK)>>
      /\ <<>> # TupleCalls(u)
  BY ListsDiffer DEF TupleCalls
<1>2. h[u][READ_LOCK] > 0 \/ h[Rel][READ_LOCK] > Own(<<>>, s, Rel, READ_LOCK)
  BY <1>1 DEF Kept
<1>3. h[Rel][READ_LOCK] \in Nat
  <2>1. Rel \in Tag /\ READ_LOCK \in LockTypes
    BY TagFacts, TypeFacts
  <2> QED BY <2>1, TableFacts
<1>4. Own(d, z, Rel, READ_LOCK) \in {0, 1} /\ Own(<<>>, s, Rel, READ_LOCK) \in {0, 1}
  BY OwnFacts
<1>5. h[u][READ_LOCK] > 0 \/ h[Rel][READ_LOCK] > Own(d, z, Rel, READ_LOCK)
  BY <1>2, <1>3, <1>4
<1> QED BY <1>5 DEF Kept

\* What the calls do to the lock on the relation.
LEMMA OwnStays ==
  ASSUME NEW s, NEW t, NEW k
  PROVE  /\ <<t, k>> \notin s =>
              Own(<<Acq(t, k)>>, s \cup {<<t, k>>}, Rel, READ_LOCK) =
                Own(<<>>, s, Rel, READ_LOCK)
         /\ <<t, k>> \in s =>
              Own(<<Rls(t, k)>>, s \ {<<t, k>>}, Rel, READ_LOCK) =
                Own(<<>>, s, Rel, READ_LOCK)
         /\ Own(<<Acq(t, k)>>, s, Rel, READ_LOCK) <= Own(<<>>, s, Rel, READ_LOCK)
         /\ \A x, y : Own(<<x, y>>, s, Rel, READ_LOCK) = Own(<<>>, s, Rel, READ_LOCK)
         /\ \A x, y, z :
              Own(<<x, y, z>>, s, Rel, READ_LOCK) = Own(<<>>, s, Rel, READ_LOCK)
<1>1. <<t, k>> \notin s =>
        Own(<<Acq(t, k)>>, s \cup {<<t, k>>}, Rel, READ_LOCK) =
          Own(<<>>, s, Rel, READ_LOCK)
  BY ListsDiffer DEF Own
<1>2. <<t, k>> \in s =>
        Own(<<Rls(t, k)>>, s \ {<<t, k>>}, Rel, READ_LOCK) =
          Own(<<>>, s, Rel, READ_LOCK)
  BY ListsDiffer DEF Own
<1>3. Own(<<Acq(t, k)>>, s, Rel, READ_LOCK) <= Own(<<>>, s, Rel, READ_LOCK)
  BY ListsDiffer DEF Own
<1>4. \A x, y : Own(<<x, y>>, s, Rel, READ_LOCK) = Own(<<>>, s, Rel, READ_LOCK)
  BY ListsDiffer DEF Own
<1>5. \A x, y, z : Own(<<x, y, z>>, s, Rel, READ_LOCK) = Own(<<>>, s, Rel, READ_LOCK)
  BY ListsDiffer DEF Own
<1> QED BY <1>1, <1>2, <1>3, <1>4, <1>5

\* A grant keeps what was locked, and locks what was next.
LEMMA GrantKept ==
  ASSUME NEW h, NEW s, NEW d, Levels(h, d, s), d # <<>>,
         Head(d).op = "acquire", NEW u \in Block \X Tuple, Kept(h, d, s, u)
  PROVE  Kept(Bump(h, Head(d).tag, Head(d).type, 1), Tail(d), s, u)
<1>0. PICK x, k : x = Head(d).tag /\ k = Head(d).type
  OBVIOUS
<1>00. PICK g, e : g = Bump(h, x, k, 1) /\ e = Tail(d)
  OBVIOUS
<1>1. Levels(g, e, s) /\ x \in Tag /\ k \in LockTypes
  BY <1>0, <1>00, Grant
<1>2. h \in LockTable /\ g \in LockTable
  BY <1>1 DEF Levels
<1>3. \A y \in Tag, l \in LockTypes :
        /\ h[y][l] \in Nat
        /\ g[y][l] = h[y][l] + IF y = x /\ l = k THEN 1 ELSE 0
  BY <1>00, <1>1, <1>2, TableFacts DEF Bump, LockTable
<1>4. u \in Tag /\ Rel \in Tag /\ READ_LOCK \in LockTypes
  BY TagFacts, TypeFacts
<1>5. h[u][READ_LOCK] > 0 => g[u][READ_LOCK] > 0
  BY <1>3, <1>4
<1>6. ASSUME d = <<Acq(Rel, READ_LOCK)>>
      PROVE  /\ e = <<>> /\ x = Rel /\ k = READ_LOCK
             /\ Own(d, s, Rel, READ_LOCK) = 0
             /\ Own(e, s, Rel, READ_LOCK) = IF <<Rel, READ_LOCK>> \in s THEN 1 ELSE 0
  <2>1. Head(d) = Acq(Rel, READ_LOCK) /\ e = <<>>
    BY <1>00, <1>6, Short
  <2>2. x = Rel /\ k = READ_LOCK
    BY <1>0, <2>1, HeadFacts
  <2>3. Own(d, s, Rel, READ_LOCK) = 0
    BY <1>6, ListsDiffer DEF Own
  <2>4. Own(<<>>, s, Rel, READ_LOCK) = IF <<Rel, READ_LOCK>> \in s THEN 1 ELSE 0
    BY OwnFacts
  <2> QED BY <2>1, <2>2, <2>3, <2>4
<1>7. ASSUME d # <<Acq(Rel, READ_LOCK)>>
      PROVE  Own(e, s, Rel, READ_LOCK) <= Own(d, s, Rel, READ_LOCK)
  <2>1. d # <<Rls(Rel, READ_LOCK)>>
    <3>1. Head(<<Rls(Rel, READ_LOCK)>>) = Rls(Rel, READ_LOCK)
      BY Short
    <3>2. Head(<<Rls(Rel, READ_LOCK)>>).op = "release"
      BY <3>1, CallsDiffer
    <3> QED BY <3>2
  <2>2. e # <<Rls(Rel, READ_LOCK)>>
    <3>1. ASSUME NEW c, d = <<c>> PROVE e # <<Rls(Rel, READ_LOCK)>>
      BY <1>00, <3>1, Short, ListsDiffer
    <3>2. ASSUME NEW c, NEW y, NEW l, d = <<c, Acq(y, l)>>
          PROVE  e # <<Rls(Rel, READ_LOCK)>>
      BY <1>00, <3>2, Short, ListsDiffer
    <3>3. ASSUME NEW c, NEW y, NEW z, d = <<c, y, z>>
          PROVE  e # <<Rls(Rel, READ_LOCK)>>
      BY <1>00, <3>3, Short, ListsDiffer
    <3> QED BY <3>1, <3>2, <3>3, Zenon DEF Levels, Shape
  <2> QED BY <1>7, <2>1, <2>2 DEF Own
<1>8. ASSUME h[u][READ_LOCK] > 0 PROVE Kept(g, e, s, u)
  BY <1>5, <1>8 DEF Kept
<1>9. ASSUME h[Rel][READ_LOCK] > Own(d, s, Rel, READ_LOCK)
      PROVE  Kept(g, e, s, u)
  <2>1. /\ Own(d, s, Rel, READ_LOCK) \in {0, 1}
        /\ Own(e, s, Rel, READ_LOCK) \in {0, 1}
    BY OwnFacts
  <2>2. /\ h[Rel][READ_LOCK] \in Nat /\ g[Rel][READ_LOCK] \in Nat
        /\ g[Rel][READ_LOCK] >= h[Rel][READ_LOCK]
        /\ (x = Rel /\ k = READ_LOCK) => g[Rel][READ_LOCK] = h[Rel][READ_LOCK] + 1
    BY <1>3, <1>4
  <2>3. g[Rel][READ_LOCK] > Own(e, s, Rel, READ_LOCK)
    <3>1. CASE d = <<Acq(Rel, READ_LOCK)>>
      <4>1. Own(d, s, Rel, READ_LOCK) = 0 /\ x = Rel /\ k = READ_LOCK
        BY <1>6, <3>1
      <4> QED BY <1>9, <2>1, <2>2, <4>1
    <3>2. CASE d # <<Acq(Rel, READ_LOCK)>>
      <4>1. Own(e, s, Rel, READ_LOCK) <= Own(d, s, Rel, READ_LOCK)
        BY <1>7, <3>2
      <4> QED BY <1>9, <2>1, <2>2, <4>1
    <3> QED BY <3>1, <3>2
  <2> QED BY <2>3 DEF Kept
<1>10. ASSUME d = <<Acq(u, READ_LOCK)>> PROVE Kept(g, e, s, u)
  <2>1. Head(d) = Acq(u, READ_LOCK)
    BY <1>10, Short
  <2>2. x = u /\ k = READ_LOCK
    BY <1>0, <2>1, HeadFacts
  <2>3. g[u][READ_LOCK] > 0
    BY <1>3, <1>4, <2>2
  <2> QED BY <2>3 DEF Kept
<1>11. ASSUME d = <<Acq(u[1], READ_INTENT), Acq(u, READ_LOCK)>>
       PROVE  Kept(g, e, s, u)
  <2>1. e = <<Acq(u, READ_LOCK)>>
    BY <1>00, <1>11, Short
  <2> QED BY <2>1 DEF Kept
<1>12. ASSUME d = TupleCalls(u) PROVE Kept(g, e, s, u)
  <2>1. e = <<Acq(u[1], READ_INTENT), Acq(u, READ_LOCK)>>
    BY <1>00, <1>12, Short DEF TupleCalls
  <2> QED BY <2>1 DEF Kept
<1>13. ASSUME d = <<Acq(Rel, READ_LOCK)>>,
              <<Rel, READ_LOCK>> \in s => h[Rel][READ_LOCK] > 0
       PROVE  Kept(g, e, s, u)
  <2>1. h[Rel][READ_LOCK] \in Nat /\ g[Rel][READ_LOCK] = h[Rel][READ_LOCK] + 1
    BY <1>3, <1>4, <1>6, <1>13
  <2>2. g[Rel][READ_LOCK] > Own(e, s, Rel, READ_LOCK)
    BY <1>6, <1>13, <2>1
  <2> QED BY <2>2 DEF Kept
<1>14. Kept(g, e, s, u)
  BY <1>8, <1>9, <1>10, <1>11, <1>12, <1>13, Zenon DEF Kept
<1> QED BY <1>0, <1>00, <1>14

\* A release gives back a lock that the process set, so none of these.
LEMMA ReleaseKept ==
  ASSUME NEW h, NEW s, NEW d, Levels(h, d, s), d # <<>>,
         Head(d).op = "release", NEW u \in Block \X Tuple, Kept(h, d, s, u)
  PROVE  Kept(Bump(h, Head(d).tag, Head(d).type, -1), Tail(d), s, u)
<1>1. \A t, k, x, y : /\ Head(<<Acq(t, k)>>).op = "acquire"
                      /\ Head(<<Acq(t, k), x>>).op = "acquire"
                      /\ Head(<<Acq(t, k), x, y>>).op = "acquire"
  BY Short, CallsDiffer
<1>2. "acquire" # "release"
  OBVIOUS
<1>3. PICK c \in Settable : d = <<Rls(c[1], c[2])>>
  BY <1>1, <1>2, Zenon DEF Levels, Shape
<1>4. PICK x, k : x = c[1] /\ k = c[2]
  OBVIOUS
<1>5. /\ <<x, k>> \in Settable /\ x \in Tag /\ k \in LockTypes
      /\ x \notin Block \X Tuple
  BY <1>4, TagFacts, TypeFacts DEF Settable
<1>6. d = <<Rls(x, k)>>
  BY <1>3, <1>4
<1>7. Head(d) = Rls(x, k) /\ Tail(d) = <<>>
  BY <1>6, Short
<1>8. Head(d).tag = x /\ Head(d).type = k
  BY <1>7, HeadFacts
<1>9. PICK g : g = Bump(h, x, k, -1)
  OBVIOUS
<1>10. h \in LockTable
  BY DEF Levels
<1>11. u \in Tag /\ Rel \in Tag /\ READ_LOCK \in LockTypes
  BY TagFacts, TypeFacts
<1>12. /\ g[u][READ_LOCK] = h[u][READ_LOCK]
       /\ h[Rel][READ_LOCK] \in Nat
       /\ g[Rel][READ_LOCK] = h[Rel][READ_LOCK] -
            (IF x = Rel /\ k = READ_LOCK THEN 1 ELSE 0)
  <2>1. \A y \in Tag, l \in LockTypes :
          /\ h[y][l] \in Nat
          /\ g[y][l] = h[y][l] + IF y = x /\ l = k THEN -1 ELSE 0
    BY <1>5, <1>9, <1>10, TableFacts DEF Bump, LockTable
  <2>2. u # x
    BY <1>5
  <2> QED BY <1>11, <2>1, <2>2
<1>13. h[u][READ_LOCK] > 0 \/ h[Rel][READ_LOCK] > Own(d, s, Rel, READ_LOCK)
  <2>1. /\ d # <<Acq(u, READ_LOCK)>> /\ d # <<Acq(Rel, READ_LOCK)>>
        /\ d # <<Acq(u[1], READ_INTENT), Acq(u, READ_LOCK)>>
        /\ d # TupleCalls(u)
    BY <1>6, ListsDiffer DEF TupleCalls
  <2> QED BY <2>1 DEF Kept
<1>14. CASE h[u][READ_LOCK] > 0
  <2>1. Kept(g, <<>>, s, u)
    BY <1>12, <1>14 DEF Kept
  <2> QED BY <1>7, <1>8, <1>9, <2>1
<1>15. CASE h[Rel][READ_LOCK] > Own(d, s, Rel, READ_LOCK)
  <2>1. g[Rel][READ_LOCK] > Own(<<>>, s, Rel, READ_LOCK)
    <3>1. CASE x = Rel /\ k = READ_LOCK
      <4>1. <<Rel, READ_LOCK>> \notin s
        BY <1>6, <1>11, <3>1 DEF Levels, OwnHeld
      <4>2. Own(d, s, Rel, READ_LOCK) = 1 /\ Own(<<>>, s, Rel, READ_LOCK) = 0
        BY <1>6, <3>1, <4>1, ListsDiffer DEF Own
      <4> QED BY <1>12, <1>15, <3>1, <4>2
    <3>2. CASE ~(x = Rel /\ k = READ_LOCK)
      <4>1. Own(d, s, Rel, READ_LOCK) = Own(<<>>, s, Rel, READ_LOCK)
        BY <1>6, <3>2, ListsDiffer DEF Own
      <4>2. Own(<<>>, s, Rel, READ_LOCK) \in {0, 1}
        BY OwnFacts
      <4> QED BY <1>12, <1>15, <3>2, <4>1, <4>2
    <3> QED BY <3>1, <3>2
  <2>2. Kept(g, <<>>, s, u)
    BY <2>1 DEF Kept
  <2> QED BY <1>7, <1>8, <1>9, <2>2
<1> QED BY <1>13, <1>14, <1>15

\* A call of lmgr.c, made when the one before is over.
LEMMA CallReads ==
  ASSUME IInv, ReadInv, NEW p \in Proc, Idle(p), NEW d, NEW z, NEW J, NEW R,
         UNCHANGED held, todo' = [todo EXCEPT ![p] = d],
         set' = [set EXCEPT ![p] = z], info' = [info EXCEPT ![p] = J],
         read' = [read EXCEPT ![p] = R], J.valid, ~J.readRel,
         Own(d, z, Rel, READ_LOCK) <= Own(<<>>, set[p], Rel, READ_LOCK),
         \A u \in R : u \in read[p] \/ Kept(held[p], d, z, u)
  PROVE  ReadInv'
<1>1. held[p] \in LockTable
  BY DEF IInv, Types
<1>2. \A u \in read[p] : Kept(held[p], d, z, u)
  <2>1. \A u \in read[p] : Kept(held[p], <<>>, set[p], u)
    BY DEF ReadInv, Idle
  <2> QED BY <1>1, <2>1, CallKept
<1>3. \A q \in Proc : /\ todo'[q] = IF q = p THEN d ELSE todo[q]
                      /\ set'[q] = IF q = p THEN z ELSE set[q]
                      /\ info'[q] = IF q = p THEN J ELSE info[q]
                      /\ read'[q] = IF q = p THEN R ELSE read[q]
                      /\ held'[q] = held[q]
  BY DEF IInv, Types
<1>4. \A q \in Proc : info'[q].valid /\ ~info'[q].readRel
  BY <1>3 DEF ReadInv
<1>5. \A q \in Proc : \A u \in read'[q] : Kept(held'[q], todo'[q], set'[q], u)
  BY <1>2, <1>3 DEF ReadInv
<1> QED BY <1>4, <1>5 DEF ReadInv

\* The calls that set a lock or unset it.
LEMMA SetReads ==
  ASSUME IInv, ReadInv, NEW p \in Proc, NEW t, NEW k,
         \/ SetLock(p, t, k, <<Acq(t, k)>>)
         \/ UnsetLock(p, t, k, <<Rls(t, k)>>)
  PROVE  ReadInv'
<1>1. info[p].valid /\ ~info[p].readRel
  BY DEF ReadInv
<1>2. /\ info = [info EXCEPT ![p] = info[p]]
      /\ read = [read EXCEPT ![p] = read[p]]
  BY DEF IInv, Types
<1>3. CASE SetLock(p, t, k, <<Acq(t, k)>>)
  <2>1. /\ Idle(p) /\ UNCHANGED held /\ todo' = [todo EXCEPT ![p] = <<Acq(t, k)>>]
        /\ set' = [set EXCEPT ![p] = set[p] \cup {<<t, k>>}]
        /\ read' = [read EXCEPT ![p] = read[p]]
        /\ <<t, k>> \notin set[p]
    BY <1>2, <1>3 DEF SetLock, Calls
  <2>2. info' = [info EXCEPT ![p] = info[p]]
    BY <1>1, <1>3 DEF SetLock
  <2>3. Own(<<Acq(t, k)>>, set[p] \cup {<<t, k>>}, Rel, READ_LOCK) =
          Own(<<>>, set[p], Rel, READ_LOCK)
    BY <2>1, OwnStays
  <2>4. Own(<<>>, set[p], Rel, READ_LOCK) \in {0, 1}
    BY OwnFacts
  <2>5. Own(<<Acq(t, k)>>, set[p] \cup {<<t, k>>}, Rel, READ_LOCK) <=
          Own(<<>>, set[p], Rel, READ_LOCK)
    BY <2>3, <2>4
  <2> QED BY <1>1, <2>1, <2>2, <2>5, CallReads
<1>4. CASE UnsetLock(p, t, k, <<Rls(t, k)>>)
  <2>1. /\ Idle(p) /\ UNCHANGED held /\ todo' = [todo EXCEPT ![p] = <<Rls(t, k)>>]
        /\ set' = [set EXCEPT ![p] = set[p] \ {<<t, k>>}]
        /\ read' = [read EXCEPT ![p] = read[p]]
        /\ info' = [info EXCEPT ![p] = info[p]]
        /\ <<t, k>> \in set[p]
    BY <1>2, <1>4 DEF UnsetLock, Calls
  <2>3. Own(<<Rls(t, k)>>, set[p] \ {<<t, k>>}, Rel, READ_LOCK) =
          Own(<<>>, set[p], Rel, READ_LOCK)
    BY <2>1, OwnStays
  <2>4. Own(<<>>, set[p], Rel, READ_LOCK) \in {0, 1}
    BY OwnFacts
  <2>5. Own(<<Rls(t, k)>>, set[p] \ {<<t, k>>}, Rel, READ_LOCK) <=
          Own(<<>>, set[p], Rel, READ_LOCK)
    BY <2>3, <2>4
  <2> QED BY <1>1, <2>1, <2>5, CallReads
<1> QED BY <1>3, <1>4

LEMMA WritePageReads ==
  ASSUME IInv, ReadInv, NEW p \in Proc, NEW b \in Block,
         SetLockForWritePage(p, b)
  PROVE  ReadInv'
<1>1. info[p].valid /\ ~info[p].readRel
  BY DEF ReadInv
<1>2. PICK x, y : MultiAcquire(b, WRITE_LOCK) = <<x, y>>
  <2>1. WRITE_LOCK \in LockTypes
    BY TypeFacts
  <2> QED BY <2>1, MultiAcquires
<1>3. /\ Idle(p) /\ UNCHANGED held /\ todo' = [todo EXCEPT ![p] = <<x, y>>]
      /\ set' = [set EXCEPT ![p] = set[p]]
      /\ read' = [read EXCEPT ![p] = read[p]]
      /\ info' = [info EXCEPT ![p] = info[p]]
  BY <1>1, <1>2 DEF SetLockForWritePage, Calls, Initialized, IInv, Types
<1>4. Own(<<x, y>>, set[p], Rel, READ_LOCK) = Own(<<>>, set[p], Rel, READ_LOCK)
  BY OwnStays
<1>5. Own(<<>>, set[p], Rel, READ_LOCK) \in {0, 1}
  BY OwnFacts
<1>6. Own(<<x, y>>, set[p], Rel, READ_LOCK) <= Own(<<>>, set[p], Rel, READ_LOCK)
  BY <1>4, <1>5
<1> QED BY <1>1, <1>3, <1>6, CallReads

\* RelationSetLockForTupleRead: the tuple, or the relation, is locked next.
LEMMA TupleReads ==
  ASSUME IInv, ReadInv, NEW p \in Proc, NEW t \in Block \X Tuple,
         SetLockForTupleRead(p, t)
  PROVE  ReadInv'
<1>1. info[p].valid /\ ~info[p].readRel /\ info[p] \in Info
  BY DEF ReadInv, IInv, Types
<1>2. PICK c, J : c = ReadCalls(info[p], t) /\ J = ReadInfo(info[p], t)
  OBVIOUS
<1>3. /\ Idle(p) /\ UNCHANGED held /\ todo' = [todo EXCEPT ![p] = c]
      /\ set' = [set EXCEPT ![p] = set[p]]
      /\ read' = [read EXCEPT ![p] = read[p] \cup {t}]
      /\ info' = [info EXCEPT ![p] = J]
  BY <1>2, TupleReadStep DEF IInv, Types
<1>4. J.valid /\ ~J.readRel
      /\ (c = TupleCalls(t) \/ c = <<Acq(Rel, READ_LOCK)>>)
  BY <1>1, <1>2, ReadFacts
<1>5. Own(<<>>, set[p], Rel, READ_LOCK) \in {0, 1}
  BY OwnFacts
<1>6. Own(c, set[p], Rel, READ_LOCK) <= Own(<<>>, set[p], Rel, READ_LOCK)
  <2>1. CASE c = TupleCalls(t)
    <3>0. \A x, y, z : Own(<<x, y, z>>, set[p], Rel, READ_LOCK) =
                         Own(<<>>, set[p], Rel, READ_LOCK)
      BY OwnStays
    <3>1. Own(c, set[p], Rel, READ_LOCK) = Own(<<>>, set[p], Rel, READ_LOCK)
      BY <2>1, <3>0, Zenon DEF TupleCalls
    <3> QED BY <1>5, <3>1
  <2>2. CASE c = <<Acq(Rel, READ_LOCK)>>
    BY <2>2, OwnStays
  <2> QED BY <1>4, <2>1, <2>2
<1>7. Kept(held[p], c, set[p], t)
  <2>1. CASE c = TupleCalls(t)
    BY <2>1 DEF Kept
  <2>2. CASE c = <<Acq(Rel, READ_LOCK)>>
    <3>1. Rel \in Tag /\ READ_LOCK \in LockTypes
      BY TagFacts, TypeFacts
    <3>2. Levels(held[p], <<>>, set[p])
      BY <1>3, AtRest
    <3>3. Own(<<>>, set[p], Rel, READ_LOCK) <= held[p][Rel][READ_LOCK]
      BY <3>1, <3>2 DEF Levels, OwnHeld
    <3>4. Own(<<>>, set[p], Rel, READ_LOCK) =
            IF <<Rel, READ_LOCK>> \in set[p] THEN 1 ELSE 0
      BY OwnFacts
    <3>5. held[p][Rel][READ_LOCK] \in Nat
      BY <3>1, TableFacts DEF IInv, Types
    <3>6. <<Rel, READ_LOCK>> \in set[p] => held[p][Rel][READ_LOCK] > 0
      BY <3>3, <3>4, <3>5
    <3> QED BY <2>2, <3>6 DEF Kept
  <2> QED BY <1>4, <2>1, <2>2
<1>8. \A u \in read[p] \cup {t} : u \in read[p] \/ Kept(held[p], c, set[p], u)
  BY <1>7
<1> QED BY <1>3, <1>4, <1>6, <1>8, CallReads

\* Of a transaction that ended nothing is left to keep.
LEMMA EndReads ==
  ASSUME IInv, ReadInv, NEW p \in Proc, EndTransaction(p)
  PROVE  ReadInv'
<1>1. /\ UNCHANGED todo
      /\ \A q \in Proc : q # p => /\ held'[q] = held[q] /\ info'[q] = info[q]
                                  /\ set'[q] = set[q] /\ read'[q] = read[q]
      /\ read'[p] = {} /\ info'[p] = [info[p] EXCEPT !.mine = FALSE]
  BY DEF EndTransaction, IInv, Types
<1>2. info'[p].valid = info[p].valid /\ info'[p].readRel = info[p].readRel
  BY <1>1 DEF IInv, Types, Info
<1>3. \A q \in Proc : info'[q].valid /\ ~info'[q].readRel
  BY <1>1, <1>2 DEF ReadInv
<1>4. \A q \in Proc : \A u \in read'[q] : Kept(held'[q], todo'[q], set'[q], u)
  BY <1>1 DEF ReadInv
<1> QED BY <1>3, <1>4 DEF ReadInv

\* The lock manager's steps.
LEMMA LockReads ==
  ASSUME IInv, ReadInv, NEW p \in Proc, LockAcquire(p) \/ LockRelease(p)
  PROVE  ReadInv'
<1>1. PICK i : i = IF LockAcquire(p) THEN 1 ELSE -1
  OBVIOUS
<1>2. PICK g : g = Bump(held[p], Head(todo[p]).tag, Head(todo[p]).type, i)
  OBVIOUS
<1>3. /\ todo[p] # <<>> /\ held' = [held EXCEPT ![p] = g]
      /\ todo' = [todo EXCEPT ![p] = Tail(todo[p])]
      /\ UNCHANGED <<info, set, read>>
  <2>1. CASE LockAcquire(p)
    BY <1>1, <1>2, <2>1 DEF LockAcquire, Idle, Calls, Bump
  <2>2. CASE LockRelease(p) /\ ~LockAcquire(p)
    <3>1. i = -1
      BY <1>1, <2>2
    <3>2. /\ todo[p] # <<>>
          /\ held' = [held EXCEPT ![p] = Bump(held[p], Head(todo[p]).tag,
                                              Head(todo[p]).type, -1)]
          /\ todo' = [todo EXCEPT ![p] = Tail(todo[p])]
          /\ UNCHANGED <<info, set, read>>
      BY <2>2 DEF LockRelease, Idle, Calls, Bump
    <3> QED BY <1>2, <3>1, <3>2
  <2> QED BY <2>1, <2>2
<1>4. \A q \in Proc : /\ held'[q] = IF q = p THEN g ELSE held[q]
                      /\ todo'[q] = IF q = p THEN Tail(todo[p]) ELSE todo[q]
                      /\ set'[q] = set[q] /\ read'[q] = read[q]
                      /\ info'[q] = info[q]
  BY <1>3 DEF IInv, Types
<1>5. \A u \in read[p] : Kept(g, Tail(todo[p]), set[p], u)
  <2> SUFFICES ASSUME NEW u \in read[p] PROVE Kept(g, Tail(todo[p]), set[p], u)
    OBVIOUS
  <2>1. /\ u \in Block \X Tuple /\ Levels(held[p], todo[p], set[p])
        /\ Kept(held[p], todo[p], set[p], u)
    BY DEF IInv, Types, ReadInv
  <2>2. CASE LockAcquire(p)
    <3>1. Head(todo[p]).op = "acquire" /\ i = 1
      BY <1>1, <2>2 DEF LockAcquire
    <3> QED BY <1>2, <1>3, <2>1, <3>1, GrantKept
  <2>3. CASE LockRelease(p) /\ ~LockAcquire(p)
    <3>1. Head(todo[p]).op = "release" /\ i = -1
      BY <1>1, <2>3 DEF LockRelease
    <3> QED BY <1>2, <1>3, <2>1, <3>1, ReleaseKept
  <2> QED BY <2>2, <2>3
<1> QED BY <1>4, <1>5 DEF ReadInv

LEMMA NextReads == IInv /\ ReadInv /\ [Next]_vars => ReadInv'
<1> SUFFICES ASSUME IInv, ReadInv, [Next]_vars PROVE ReadInv'
  OBVIOUS
<1>1. CASE UNCHANGED vars
  BY <1>1 DEF vars, ReadInv
<1>2. CASE Next
  <2> PICK p \in Proc :
        \/ LockAcquire(p) \/ LockRelease(p) \/ EndTransaction(p)
        \/ \E k \in RelnLocks : SetLockReln(p, k) \/ UnsetLockReln(p, k)
        \/ \E t \in Block \X Tuple : SetLockForTupleRead(p, t)
        \/ \E b \in Block : SetLockForWritePage(p, b)
        \/ \E k \in {READ_LOCK, WRITE_LOCK} :
             \/ SetIntentLock(p, k) \/ UnsetIntentLock(p, k)
             \/ \E b \in Block :
                  SetSingleLockPage(p, b, k) \/ UnsetSingleLockPage(p, b, k)
    BY <1>2 DEF Next
  <2>1. CASE LockAcquire(p) \/ LockRelease(p)
    BY <2>1, LockReads
  <2>2. CASE EndTransaction(p)
    BY <2>2, EndReads
  <2>3. ASSUME NEW k \in RelnLocks, SetLockReln(p, k) \/ UnsetLockReln(p, k)
        PROVE  ReadInv'
    <3>1. k \in LockTypes
      BY TypeFacts DEF RelnLocks
    <3>2. SetLock(p, Rel, k, <<Acq(Rel, k)>>) \/ UnsetLock(p, Rel, k, <<Rls(Rel, k)>>)
      BY <2>3, <3>1, MultiAcquires DEF SetLockReln, UnsetLockReln
    <3> QED BY <3>2, SetReads
  <2>4. ASSUME NEW t \in Block \X Tuple, SetLockForTupleRead(p, t)
        PROVE  ReadInv'
    BY <2>4, TupleReads
  <2>5. ASSUME NEW b \in Block, SetLockForWritePage(p, b)
        PROVE  ReadInv'
    BY <2>5, WritePageReads
  <2>6. ASSUME NEW k \in {READ_LOCK, WRITE_LOCK},
               SetIntentLock(p, k) \/ UnsetIntentLock(p, k)
        PROVE  ReadInv'
    <3>1. \/ SetLock(p, Rel, k + INTENT, <<Acq(Rel, k + INTENT)>>)
          \/ UnsetLock(p, Rel, k + INTENT, <<Rls(Rel, k + INTENT)>>)
      BY <2>6, MultiAcquires DEF SetIntentLock, UnsetIntentLock
    <3> QED BY <3>1, SetReads
  <2>7. ASSUME NEW k \in {READ_LOCK, WRITE_LOCK}, NEW b \in Block,
               SetSingleLockPage(p, b, k) \/ UnsetSingleLockPage(p, b, k)
        PROVE  ReadInv'
    <3>1. SetLock(p, b, k, <<Acq(b, k)>>) \/ UnsetLock(p, b, k, <<Rls(b, k)>>)
      BY <2>7, MultiAcquires DEF SetSingleLockPage, UnsetSingleLockPage
    <3> QED BY <3>1, SetReads
  <2> QED BY <2>1, <2>2, <2>3, <2>4, <2>5, <2>6, <2>7
<1> QED BY <1>1, <1>2

LEMMA InitReads == AtOpen /\ Init => ReadInv
<1> SUFFICES ASSUME AtOpen, Init PROVE ReadInv
  OBVIOUS
<1>1. \A p \in Proc : info[p] = [RelationInitLockInfo EXCEPT !.mine = FALSE]
  BY DEF Init
<1>2. /\ [RelationInitLockInfo EXCEPT !.mine = FALSE].valid
      /\ ~[RelationInitLockInfo EXCEPT !.mine = FALSE].readRel
  BY DEF RelationInitLockInfo
<1>3. \A p \in Proc : read[p] = {}
  BY DEF Init
<1> QED BY <1>1, <1>2, <1>3 DEF ReadInv

LEMMA ReadInvLocks == IInv /\ ReadInv => ReadsLocked
<1> SUFFICES ASSUME IInv, ReadInv, NEW p \in Proc, Idle(p), NEW u \in read[p]
             PROVE  \E t \in Tag : Covers(t, u) /\ held[p][t][READ_LOCK] > 0
  BY DEF ReadsLocked
<1>1. /\ u \in Block \X Tuple /\ held[p] \in LockTable
      /\ Kept(held[p], <<>>, set[p], u)
  BY DEF IInv, Types, ReadInv, Idle
<1>2. u \in Tag /\ Rel \in Tag /\ READ_LOCK \in LockTypes
  BY <1>1, TagFacts, TypeFacts
<1>3. /\ <<>> # <<Acq(u, READ_LOCK)>> /\ <<>> # <<Acq(Rel, READ_LOCK)>>
      /\ <<>> # <<Acq(u[1], READ_INTENT), Acq(u, READ_LOCK)>>
      /\ <<>> # TupleCalls(u)
  BY ListsDiffer DEF TupleCalls
<1>4. \/ held[p][u][READ_LOCK] > 0
      \/ held[p][Rel][READ_LOCK] > Own(<<>>, set[p], Rel, READ_LOCK)
  BY <1>1, <1>3 DEF Kept
<1>5. Own(<<>>, set[p], Rel, READ_LOCK) \in {0, 1}
  BY OwnFacts
<1>6. held[p][Rel][READ_LOCK] \in Nat
  BY <1>1, <1>2, TableFacts
<1>7. held[p][u][READ_LOCK] > 0 \/ held[p][Rel][READ_LOCK] > 0
  BY <1>4, <1>5, <1>6
<1>8. Covers(u, u) /\ Covers(Rel, u)
  <2>1. Above(u) = <<Rel, u[1]>>
    BY <1>1, TagFacts DEF Above
  <2>2. 1 \in DOMAIN <<Rel, u[1]>> /\ <<Rel, u[1]>>[1] = Rel
    OBVIOUS
  <2> QED BY <2>1, <2>2 DEF Covers
<1> QED BY <1>2, <1>7, <1>8

\* Where opening a relation sets up its lock information (heap_create), every
\* tuple that RelationSetLockForTupleRead was called for stays read-locked to
\* the end of the transaction, by itself or through the relation, whichever
\* locks on the relation and its pages are set and unset in between.
THEOREM ReadsStayLocked == AtOpen => (Spec => []ReadsLocked)
<1> SUFFICES ASSUME AtOpen PROVE Spec => []ReadsLocked
  OBVIOUS
<1>1. Init => IInv /\ ReadInv
  BY InitIInv, InitReads
<1>2. IInv /\ ReadInv /\ [Next]_vars => (IInv /\ ReadInv)'
  BY NextIInv, NextReads
<1>3. IInv /\ ReadInv => ReadsLocked
  BY ReadInvLocks
<1> QED BY <1>1, <1>2, <1>3, PTL DEF Spec
=============================================================================
