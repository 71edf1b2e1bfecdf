----------------------------- MODULE Md_proofs -----------------------------
(***************************************************************************)
(* Proofs about Md, for any number of processes, relations and blocks, and *)
(* any size of a segment.                                                  *)
(***************************************************************************)
EXTENDS Md, SequenceTheorems, WellFoundedInduction, TLAPS

-----------------------------------------------------------------------------
(* Numbers.                                                                *)

\* Every set of naturals that is not empty has a least element.
LEMMA LeastOf ==
  ASSUME NEW T, T \subseteq Nat, T # {}
  PROVE  \E x \in T : \A y \in T : x <= y
<1>1. PICK D : D = OpToRel(<, Nat)
  OBVIOUS
<1>2. IsWellFoundedOn(D, Nat)
  BY <1>1, NatLessThanWellFounded
<1>3. PICK x \in T : \A y \in T : ~(<<y, x>> \in D)
  BY <1>2, WFMin
<1>4. ASSUME NEW y \in T PROVE x <= y
  <2>1. x \in Nat /\ y \in Nat
    OBVIOUS
  <2>2. y < x => <<y, x>> \in D
    BY <1>1, <2>1 DEF OpToRel
  <2>3. ~(y < x)
    BY <1>3, <2>2
  <2> QED BY <2>1, <2>3
<1> QED BY <1>4

LEMMA SizeFacts ==
  RelsegSize \in Nat /\ RelsegSize >= 1 /\ MaxBlocks \in Nat /\ MaxBlocks >= 1
BY MdAssumption

LEMMA Divides ==
  ASSUME NEW b \in Nat, NEW m \in Nat, m > 0, NEW q, q = b \div m,
         NEW i, i = b % m
  PROVE  q \in Nat /\ i \in Nat /\ i < m /\ b = q * m + i
<1>1. b = m * q + i
  OBVIOUS
<1>2. i \in 0 .. m - 1 /\ q \in Int
  OBVIOUS
<1>3. q \in Nat
  BY <1>2
<1> QED BY <1>1, <1>2, <1>3

\* Block b is block PosOf(b) of segment SegOf(b).
SegOf(b) == b \div RelsegSize
PosOf(b) == b % RelsegSize

LEMMA Located ==
  ASSUME NEW b \in Nat
  PROVE  /\ SegOf(b) \in Nat /\ PosOf(b) \in Nat /\ PosOf(b) < RelsegSize
         /\ b = SegOf(b) * RelsegSize + PosOf(b)
<1>1. RelsegSize \in Nat /\ RelsegSize > 0
  BY SizeFacts
<1>2. PICK m, q, i : m = RelsegSize /\ q = SegOf(b) /\ i = PosOf(b)
  OBVIOUS
<1>3. q = b \div m /\ i = b % m
  BY <1>2, Zenon DEF SegOf, PosOf
<1>4. q \in Nat /\ i \in Nat /\ i < m /\ b = q * m + i
  <2>1. m \in Nat /\ m > 0
    BY <1>1, <1>2
  <2> QED BY <1>3, <2>1, Divides
<1> QED BY <1>2, <1>4

LEMMA Times ==
  ASSUME NEW i \in Nat, NEW j \in Nat, i < j
  PROVE  i * RelsegSize + RelsegSize <= j * RelsegSize
BY SizeFacts

LEMMA LocatedOnce ==
  ASSUME NEW i \in Nat, NEW j \in Nat, i < RelsegSize,
         NEW b, b = j * RelsegSize + i
  PROVE  b \in Nat /\ SegOf(b) = j /\ PosOf(b) = i
<1>0. j * RelsegSize \in Nat
  BY SizeFacts
<1>2. b \in Nat
  BY <1>0
<1>3. PICK q, m : q = SegOf(b) /\ m = PosOf(b)
  OBVIOUS
<1>4. /\ q \in Nat /\ m \in Nat /\ m < RelsegSize
      /\ b = q * RelsegSize + m
  BY <1>2, <1>3, Located
<1>5. q * RelsegSize \in Nat
  BY <1>4, SizeFacts
<1>6. ~(q < j)
  <2>1. q < j => q * RelsegSize + RelsegSize <= j * RelsegSize
    BY <1>4, Times
  <2> QED BY <1>0, <1>4, <1>5, <2>1, SizeFacts
<1>7. ~(j < q)
  <2>1. j < q => j * RelsegSize + RelsegSize <= q * RelsegSize
    BY <1>4, Times
  <2> QED BY <1>0, <1>4, <1>5, <2>1, SizeFacts
<1>8. q = j
  BY <1>4, <1>6, <1>7
<1>9. m = i
  BY <1>0, <1>4, <1>8
<1> QED BY <1>2, <1>3, <1>8, <1>9

-----------------------------------------------------------------------------
(* The shape of the state.  k stands for the files, c for the vector of    *)
(* one process, v for one of its entries.                                  *)

Pg == Page \cup {Zero}
Store == [Rel -> [Seg -> File \cup {Absent}]]
Flags == [dirty : BOOLEAN, lst : 0 .. RelsegSize, fdirty : BOOLEAN]
Entry == [rel : Rel \cup {Absent}, segs : Seq(Flags)]

IsFull(k, r, j) == SegLen(k, r, j) = RelsegSize

\* Every segment before an existing one is full; the last that there may be
\* is not.
Gapless(k, r) ==
  /\ \A j \in Seg : j # 0 /\ k[r][j] # Absent =>
       k[r][j - 1] # Absent /\ IsFull(k, r, j - 1)
  /\ k[r][MaxSeg] # Absent => ~ IsFull(k, r, MaxSeg)

Files(k) == k \in Store /\ \A r \in Rel : Gapless(k, r)

\* The files along the chain of an entry exist, and what it takes for full is.
Chained(k, r, q) ==
  /\ Len(q) \in 1 .. MaxSeg + 1
  /\ \A j \in 0 .. Len(q) - 1 :
       /\ k[r][j] # Absent
       /\ q[j + 1].lst = RelsegSize => IsFull(k, r, j)

Hooked(k, v) ==
  /\ v \in Entry
  /\ v.rel = Absent => v.segs = <<>>
  /\ v.rel # Absent => Chained(k, v.rel, v.segs)

Vector(k, c) == c \in Seq(Entry) /\ \A e \in 1 .. Len(c) : Hooked(k, c[e])

IsState(s) == s = [k |-> s.k, c |-> s.c]

Sound(s) == IsState(s) /\ Files(s.k) /\ Vector(s.k, s.c)

Indexed(c, f) ==
  /\ f \in [Rel -> 0 .. Len(c)]
  /\ \A r \in Rel : f[r] # 0 => c[f[r]].rel = r

\* Entry e knows that segment j of its relation is to be forced.
Marked(c, e, r, j) ==
  /\ c[e].rel = r /\ j + 1 <= Len(c[e].segs)
  /\ c[e].segs[j + 1].dirty /\ c[e].segs[j + 1].fdirty

Owed(c, W) ==
  \A w \in W : /\ w \in Rel \X Block
               /\ \E e \in 1 .. Len(c) : Marked(c, e, w[1], SegOf(w[2]))

Inv ==
  /\ Files(file)
  /\ DOMAIN vec = Proc /\ DOMAIN fdOf = Proc
  /\ \A p \in Proc : Vector(file, vec[p]) /\ Indexed(vec[p], fdOf[p])

Debts ==
  /\ DOMAIN wrote = Proc
  /\ \A p \in Proc : Owed(vec[p], wrote[p])

-----------------------------------------------------------------------------
(* Changing one file or one segment of a chain.                            *)

PutFile(k, r, j, f) == [k EXCEPT ![r][j] = f]
PutSeg(c, e, i, g) == [c EXCEPT ![e].segs[i] = g]
AddSeg(c, e, g) == [c EXCEPT ![e].segs = Append(@, g)]

\* Only file j of r differs, and it is f.
FilePut(k, m, r, j, f) ==
  /\ m \in Store /\ m[r][j] = f
  /\ \A x \in Rel, y \in Seg : ~(x = r /\ y = j) => m[x][y] = k[x][y]

\* Only entry e differs.
OnlyEntry(c, d, e) ==
  /\ d \in Seq(Entry) /\ Len(d) = Len(c)
  /\ \A x \in 1 .. Len(c) : x # e => d[x] = c[x]
  /\ d[e].rel = c[e].rel

SegPut(c, d, e, i, g) ==
  /\ OnlyEntry(c, d, e)
  /\ Len(d[e].segs) = Len(c[e].segs) /\ d[e].segs[i] = g
  /\ \A y \in 1 .. Len(c[e].segs) : y # i => d[e].segs[y] = c[e].segs[y]

SegAdded(c, d, e, g) ==
  /\ OnlyEntry(c, d, e)
  /\ Len(d[e].segs) = Len(c[e].segs) + 1
  /\ d[e].segs[Len(c[e].segs) + 1] = g
  /\ \A y \in 1 .. Len(c[e].segs) : d[e].segs[y] = c[e].segs[y]

LEMMA FilePutFacts ==
  ASSUME NEW k \in Store, NEW r \in Rel, NEW j \in Seg, NEW f \in File
  PROVE  FilePut(k, PutFile(k, r, j, f), r, j, f)
<1>1. PICK h : h = [k[r] EXCEPT ![j] = f]
  OBVIOUS
<1>2. k[r] \in [Seg -> File \cup {Absent}]
  BY DEF Store
<1>3. h \in [Seg -> File \cup {Absent}] /\ h[j] = f
      /\ \A y \in Seg : y # j => h[y] = k[r][y]
  BY <1>1, <1>2
<1>4. PICK m : m = PutFile(k, r, j, f)
  OBVIOUS
<1>5. m = [k EXCEPT ![r] = h]
  BY <1>1, <1>4 DEF PutFile
<1>6. m \in Store /\ m[r] = h /\ \A x \in Rel : x # r => m[x] = k[x]
  BY <1>3, <1>5 DEF Store
<1>7. FilePut(k, m, r, j, f)
  BY <1>3, <1>6 DEF FilePut
<1> QED BY <1>4, <1>7

LEMMA EntryFacts ==
  ASSUME NEW v \in Entry
  PROVE  /\ v = [rel |-> v.rel, segs |-> v.segs]
         /\ v.rel \in Rel \cup {Absent} /\ v.segs \in Seq(Flags)
         /\ Len(v.segs) \in Nat
BY DEF Entry

LEMMA EntryMade ==
  ASSUME NEW v \in Entry, NEW q \in Seq(Flags)
  PROVE  /\ [v EXCEPT !.segs = q] \in Entry
         /\ [v EXCEPT !.segs = q].rel = v.rel
         /\ [v EXCEPT !.segs = q].segs = q
<1>1. PICK x : x = [v EXCEPT !.segs = q]
  OBVIOUS
<1>2. x = [rel |-> v.rel, segs |-> q]
  BY <1>1, EntryFacts
<1>3. x \in Entry /\ x.rel = v.rel /\ x.segs = q
  BY <1>2, EntryFacts DEF Entry
<1> QED BY <1>1, <1>3

\* One entry gets another chain.
Rechained(c, e, q) == [c EXCEPT ![e] = [c[e] EXCEPT !.segs = q]]

LEMMA ChainPut ==
  ASSUME NEW c \in Seq(Entry), NEW e \in 1 .. Len(c), NEW q \in Seq(Flags),
         NEW d, d = Rechained(c, e, q)
  PROVE  OnlyEntry(c, d, e) /\ d[e].segs = q
<1>0. PICK v : v = [c[e] EXCEPT !.segs = q]
  OBVIOUS
<1>01. d = [c EXCEPT ![e] = v]
  BY <1>0 DEF Rechained
<1>1. c[e] \in Entry
  OBVIOUS
<1>2. v \in Entry /\ v.rel = c[e].rel /\ v.segs = q
  BY <1>0, <1>1, EntryMade
<1>3. d \in Seq(Entry) /\ Len(d) = Len(c) /\ d[e] = v
      /\ \A x \in 1 .. Len(c) : x # e => d[x] = c[x]
  BY <1>01, <1>2, ExceptSeq
<1> QED BY <1>2, <1>3 DEF OnlyEntry

LEMMA SegPutFacts ==
  ASSUME NEW c \in Seq(Entry), NEW e \in 1 .. Len(c),
         NEW i \in 1 .. Len(c[e].segs), NEW g \in Flags
  PROVE  SegPut(c, PutSeg(c, e, i, g), e, i, g)
<1>1. PICK q : q = [c[e].segs EXCEPT ![i] = g]
  OBVIOUS
<1>2. PICK o : o = c[e].segs
  OBVIOUS
<1>3. o \in Seq(Flags)
  <2>1. c[e] \in Entry
    OBVIOUS
  <2> QED BY <1>2, <2>1, EntryFacts
<1>4. /\ q \in Seq(Flags) /\ Len(q) = Len(o) /\ q[i] = g
      /\ \A y \in 1 .. Len(o) : y # i => q[y] = o[y]
  BY <1>1, <1>2, <1>3, ExceptSeq
<1>5. PICK d : d = Rechained(c, e, q)
  OBVIOUS
<1>6. OnlyEntry(c, d, e) /\ d[e].segs = q
  BY <1>4, <1>5, ChainPut
<1>7. PutSeg(c, e, i, g) = d
  BY <1>1, <1>5 DEF PutSeg, Rechained
<1> QED BY <1>2, <1>4, <1>6, <1>7 DEF SegPut

LEMMA SegAddedFacts ==
  ASSUME NEW c \in Seq(Entry), NEW e \in 1 .. Len(c), NEW g \in Flags
  PROVE  SegAdded(c, AddSeg(c, e, g), e, g)
<1>1. PICK o, q : o = c[e].segs /\ q = Append(o, g)
  OBVIOUS
<1>3. o \in Seq(Flags)
  <2>1. c[e] \in Entry
    OBVIOUS
  <2> QED BY <1>1, <2>1, EntryFacts
<1>4. /\ q \in Seq(Flags) /\ Len(q) = Len(o) + 1 /\ q[Len(o) + 1] = g
      /\ \A y \in 1 .. Len(o) : q[y] = o[y]
  BY <1>1, <1>3
<1>5. PICK d : d = Rechained(c, e, q)
  OBVIOUS
<1>6. OnlyEntry(c, d, e) /\ d[e].segs = q
  BY <1>4, <1>5, ChainPut
<1>7. AddSeg(c, e, g) = d
  BY <1>1, <1>5 DEF AddSeg, Rechained
<1> QED BY <1>1, <1>4, <1>6, <1>7 DEF SegAdded

-----------------------------------------------------------------------------
(* What a change of the files and of the chains keeps.                     *)

\* Files stay, and what is full stays full.
Grows(k, m) ==
  \A r \in Rel, j \in Seg : k[r][j] # Absent =>
    m[r][j] # Absent /\ (IsFull(k, r, j) => IsFull(m, r, j))

LEMMA SegFacts ==
  /\ MaxSeg \in Nat /\ 0 \in Seg /\ MaxSeg \in Seg
  /\ \A j : j \in Seg <=> j \in Nat /\ j <= MaxSeg
  /\ \A j \in Seg : j # 0 => j - 1 \in Seg
<1>1. MaxSeg = SegOf(MaxBlocks)
  BY DEF MaxSeg, SegOf
<1>2. MaxSeg \in Nat
  BY <1>1, Located, SizeFacts
<1>3. \A j : j \in Seg <=> j \in Nat /\ j <= MaxSeg
  BY <1>2 DEF Seg
<1> QED BY <1>2, <1>3

LEMMA HookedGrows ==
  ASSUME NEW k, NEW m, Grows(k, m), NEW v, Hooked(k, v)
  PROVE  Hooked(m, v)
<1>1. CASE v.rel = Absent
  BY <1>1 DEF Hooked
<1>2. CASE v.rel # Absent
  <2>1. v \in Entry /\ v.rel \in Rel /\ Chained(k, v.rel, v.segs)
    BY <1>2 DEF Hooked, Entry
  <2>2. PICK q, r : q = v.segs /\ r = v.rel
    OBVIOUS
  <2>3. r \in Rel /\ Chained(k, r, q)
    BY <2>1, <2>2
  <2>4. Chained(m, r, q)
    <3>1. Len(q) \in 1 .. MaxSeg + 1
      BY <2>3 DEF Chained
    <3>2. ASSUME NEW j \in 0 .. Len(q) - 1
          PROVE  m[r][j] # Absent /\ (q[j + 1].lst = RelsegSize => IsFull(m, r, j))
      <4>0. MaxSeg \in Nat
        BY SegFacts
      <4>01. j \in Nat /\ j <= MaxSeg
        BY <3>1, <4>0
      <4>1. j \in Seg
        BY <4>01, SegFacts
      <4>2. k[r][j] # Absent /\ (q[j + 1].lst = RelsegSize => IsFull(k, r, j))
        BY <2>3 DEF Chained
      <4> QED BY <2>3, <4>1, <4>2 DEF Grows
    <3> QED BY <3>1, <3>2 DEF Chained
  <2> QED BY <1>2, <2>1, <2>2, <2>4 DEF Hooked
<1> QED BY <1>1, <1>2

LEMMA VectorGrows ==
  ASSUME NEW k, NEW m, Grows(k, m), NEW c, Vector(k, c)
  PROVE  Vector(m, c)
BY HookedGrows DEF Vector

\* Segment j of the chain of entry e.
In(s, e, j) ==
  /\ e \in 1 .. Len(s.c) /\ s.c[e].rel \in Rel
  /\ j \in Nat /\ j + 1 <= Len(s.c[e].segs)

LEMMA InFacts ==
  ASSUME NEW s, Sound(s), NEW e, NEW j, In(s, e, j)
  PROVE  /\ s.c \in Seq(Entry) /\ s.c[e] \in Entry /\ s.k \in Store
         /\ j \in Seg /\ j + 1 \in 1 .. Len(s.c[e].segs)
         /\ s.k[s.c[e].rel][j] # Absent /\ s.k[s.c[e].rel][j] \in File
         /\ s.c[e].segs[j + 1] \in Flags
         /\ s.c[e].segs[j + 1].lst = RelsegSize => IsFull(s.k, s.c[e].rel, j)
<1>1. s.c \in Seq(Entry) /\ Hooked(s.k, s.c[e]) /\ s.k \in Store
  BY DEF In, Sound, Vector, Files
<1>2. PICK v : v = s.c[e]
  OBVIOUS
<1>3. v \in Entry /\ Hooked(s.k, v) /\ v.rel \in Rel
  BY <1>1, <1>2 DEF In, Hooked
<1>4. v.rel # Absent
  BY <1>3, MdAssumption
<1>5. Chained(s.k, v.rel, v.segs)
  BY <1>3, <1>4 DEF Hooked
<1>6. PICK q, r : q = v.segs /\ r = v.rel
  OBVIOUS
<1>7. Len(q) \in 1 .. MaxSeg + 1 /\ j \in Nat /\ j + 1 <= Len(q)
  BY <1>2, <1>5, <1>6 DEF Chained, In
<1>8. j \in Seg /\ j + 1 \in 1 .. Len(q) /\ j \in 0 .. Len(q) - 1
  BY <1>7, SegFacts
<1>9. s.k[r][j] # Absent /\ (q[j + 1].lst = RelsegSize => IsFull(s.k, r, j))
  BY <1>5, <1>6, <1>8 DEF Chained
<1>10. s.k[r][j] \in File
  BY <1>1, <1>3, <1>6, <1>8, <1>9 DEF Store
<1>11. q[j + 1] \in Flags
  <2>1. q \in Seq(Flags)
    BY <1>3, <1>6, EntryFacts
  <2> QED BY <1>8, <2>1
<1> QED BY <1>1, <1>2, <1>3, <1>6, <1>8, <1>9, <1>10, <1>11

\* Segment j of entry e gets other flags.
LEMMA VectorPut ==
  ASSUME NEW s, Sound(s), NEW e, NEW j, In(s, e, j), NEW m, Grows(s.k, m),
         NEW g \in Flags, g.lst = RelsegSize => IsFull(m, s.c[e].rel, j),
         NEW d, SegPut(s.c, d, e, j + 1, g)
  PROVE  Vector(m, d)
<1>1. /\ d \in Seq(Entry) /\ Len(d) = Len(s.c)
      /\ \A x \in 1 .. Len(s.c) : x # e => d[x] = s.c[x]
      /\ e \in 1 .. Len(s.c)
  BY DEF SegPut, OnlyEntry, In
<1>2. Vector(m, s.c)
  BY VectorGrows DEF Sound
<1>3. Hooked(m, d[e])
  <2>1. PICK q, r, n : q = s.c[e].segs /\ r = s.c[e].rel /\ n = d[e].segs
    OBVIOUS
  <2>2. Chained(m, r, q) /\ r # Absent /\ r \in Rel
    <3>1. Hooked(m, s.c[e])
      BY <1>1, <1>2 DEF Vector
    <3>2. r \in Rel /\ r # Absent
      BY <2>1, MdAssumption DEF In
    <3> QED BY <2>1, <3>1, <3>2 DEF Hooked
  <2>3. d[e].rel = r /\ d[e] \in Entry
    BY <1>1, <2>1 DEF SegPut, OnlyEntry
  <2>4. /\ Len(n) = Len(q) /\ n[j + 1] = g
        /\ \A y \in 1 .. Len(q) : y # j + 1 => n[y] = q[y]
    BY <2>1 DEF SegPut
  <2>5. Chained(m, r, n)
    <3>1. Len(q) \in 1 .. MaxSeg + 1 /\ Len(q) \in Nat /\ j \in Nat
      BY <2>2, SegFacts DEF Chained, In
    <3>2. ASSUME NEW i \in 0 .. Len(n) - 1
          PROVE  m[r][i] # Absent /\ (n[i + 1].lst = RelsegSize => IsFull(m, r, i))
      <4>1. i \in 0 .. Len(q) - 1 /\ i + 1 \in 1 .. Len(q)
        BY <2>4, <3>1
      <4>2. m[r][i] # Absent /\ (q[i + 1].lst = RelsegSize => IsFull(m, r, i))
        BY <2>2, <4>1 DEF Chained
      <4>3. CASE i = j
        BY <2>1, <2>4, <4>2, <4>3
      <4>4. CASE i # j
        <5>1. i + 1 # j + 1
          BY <3>1, <4>1, <4>4
        <5> QED BY <2>4, <4>1, <4>2, <5>1
      <4> QED BY <4>3, <4>4
    <3> QED BY <2>4, <3>1, <3>2 DEF Chained
  <2> QED BY <2>1, <2>2, <2>3, <2>5 DEF Hooked
<1>4. \A x \in 1 .. Len(d) : Hooked(m, d[x])
  BY <1>1, <1>2, <1>3 DEF Vector
<1> QED BY <1>1, <1>4 DEF Vector

\* Segment j is chained to entry e.
LEMMA VectorAdded ==
  ASSUME NEW s, Sound(s), NEW e, NEW j, In(s, e, j - 1), j \in Seg,
         j = Len(s.c[e].segs), NEW m, Grows(s.k, m), m[s.c[e].rel][j] # Absent,
         NEW g \in Flags, g.lst = RelsegSize => IsFull(m, s.c[e].rel, j),
         NEW d, SegAdded(s.c, d, e, g)
  PROVE  Vector(m, d)
<1>1. /\ d \in Seq(Entry) /\ Len(d) = Len(s.c)
      /\ \A x \in 1 .. Len(s.c) : x # e => d[x] = s.c[x]
      /\ e \in 1 .. Len(s.c)
  BY DEF SegAdded, OnlyEntry, In
<1>2. Vector(m, s.c)
  BY VectorGrows DEF Sound
<1>3. Hooked(m, d[e])
  <2>1. PICK q, r, n : q = s.c[e].segs /\ r = s.c[e].rel /\ n = d[e].segs
    OBVIOUS
  <2>2. Chained(m, r, q) /\ r # Absent /\ r \in Rel
    <3>1. Hooked(m, s.c[e])
      BY <1>1, <1>2 DEF Vector
    <3>2. r \in Rel /\ r # Absent
      BY <2>1, MdAssumption DEF In
    <3> QED BY <2>1, <3>1, <3>2 DEF Hooked
  <2>3. d[e].rel = r /\ d[e] \in Entry
    BY <1>1, <2>1 DEF SegAdded, OnlyEntry
  <2>4. /\ Len(n) = j + 1 /\ n[j + 1] = g /\ Len(q) = j
        /\ \A y \in 1 .. Len(q) : n[y] = q[y]
    BY <2>1 DEF SegAdded
  <2>5. Chained(m, r, n)
    <3>1. j \in Nat /\ j <= MaxSeg /\ MaxSeg \in Nat
      BY SegFacts
    <3>2. ASSUME NEW i \in 0 .. Len(n) - 1
          PROVE  m[r][i] # Absent /\ (n[i + 1].lst = RelsegSize => IsFull(m, r, i))
      <4>3. CASE i = j
        BY <2>1, <2>4, <4>3
      <4>4. CASE i # j
        <5>1. i \in 0 .. Len(q) - 1 /\ i + 1 \in 1 .. Len(q)
          BY <2>4, <3>1, <4>4
        <5>2. m[r][i] # Absent /\ (q[i + 1].lst = RelsegSize => IsFull(m, r, i))
          BY <2>2, <5>1 DEF Chained
        <5> QED BY <2>4, <5>1, <5>2
      <4> QED BY <4>3, <4>4
    <3> QED BY <2>4, <3>1, <3>2, SMTT(40) DEF Chained
  <2> QED BY <2>1, <2>2, <2>3, <2>5 DEF Hooked
<1>4. \A x \in 1 .. Len(d) : Hooked(m, d[x])
  BY <1>1, <1>2, <1>3 DEF Vector
<1> QED BY <1>1, <1>4 DEF Vector

-----------------------------------------------------------------------------
(* The operations on files, field by field.                                *)

Flagged(d, n, f) == [dirty |-> d, lst |-> n, fdirty |-> f]
MadeFile(a, b) == [data |-> a, disk |-> b]

LEMMA FlagFacts ==
  ASSUME NEW o \in Flags
  PROVE  /\ o = Flagged(o.dirty, o.lst, o.fdirty)
         /\ o.dirty \in BOOLEAN /\ o.lst \in 0 .. RelsegSize /\ o.fdirty \in BOOLEAN
BY DEF Flags, Flagged

LEMMA Reflags ==
  ASSUME NEW o \in Flags, NEW z
  PROVE  [o EXCEPT !.fdirty = z] = Flagged(o.dirty, o.lst, z)
BY FlagFacts DEF Flagged

LEMMA FlaggedFacts ==
  ASSUME NEW d \in BOOLEAN, NEW n \in 0 .. RelsegSize, NEW f \in BOOLEAN
  PROVE  /\ Flagged(d, n, f) \in Flags
         /\ Flagged(d, n, f).dirty = d /\ Flagged(d, n, f).lst = n
         /\ Flagged(d, n, f).fdirty = f
BY DEF Flags, Flagged

LEMMA FileFacts ==
  ASSUME NEW f \in File
  PROVE  /\ f = MadeFile(f.data, f.disk) /\ f.data \in Stored /\ f.disk \in Stored
         /\ f # Absent
BY MdAssumption DEF File, MadeFile

LEMMA MadeFacts ==
  ASSUME NEW a \in Stored, NEW b \in Stored
  PROVE  /\ MadeFile(a, b) \in File /\ MadeFile(a, b).data = a
         /\ MadeFile(a, b).disk = b /\ MadeFile(a, b) # Absent
BY MdAssumption DEF File, MadeFile

LEMMA StoredFacts ==
  ASSUME NEW a \in Stored
  PROVE  a \in Seq(Pg) /\ Len(a) \in Nat /\ Len(a) <= RelsegSize
BY DEF Stored, Pg

Reflagged(s, t, e, j, g) ==
  IsState(t) /\ t.k = s.k /\ SegPut(s.c, t.c, e, j + 1, g)

LEMMA PutSegState ==
  ASSUME NEW s, Sound(s), NEW e, NEW j, In(s, e, j), NEW g \in Flags,
         NEW t, t = [k |-> s.k, c |-> PutSeg(s.c, e, j + 1, g)]
  PROVE  Reflagged(s, t, e, j, g)
<1>1. IsState(t) /\ t.k = s.k /\ t.c = PutSeg(s.c, e, j + 1, g)
  BY DEF IsState
<1>2. s.c \in Seq(Entry) /\ e \in 1 .. Len(s.c) /\ j + 1 \in 1 .. Len(s.c[e].segs)
  BY InFacts DEF In
<1> QED BY <1>1, <1>2, SegPutFacts DEF Reflagged

\* The flags of segment j of entry e.
Of(s, e, j) == s.c[e].segs[j + 1]

LEMMA SetDirtyIs ==
  ASSUME NEW s, Sound(s), NEW e, NEW j, In(s, e, j), NEW d \in BOOLEAN
  PROVE  Reflagged(s, SetDirty(s, e, j, d), e, j,
                   Flagged(d, Of(s, e, j).lst, Of(s, e, j).fdirty))
<1>1. PICK o, g : /\ o = Of(s, e, j) /\ g = Flagged(d, o.lst, o.fdirty)
  OBVIOUS
<1>2. o \in Flags /\ o = s.c[e].segs[j + 1]
  BY <1>1, InFacts DEF Of
<1>3. g \in Flags
  BY <1>1, <1>2, FlagFacts, FlaggedFacts
<1>4. [o EXCEPT !.dirty = d] = g
  BY <1>1, <1>2, FlagFacts DEF Flagged
<1>5. PICK c : c = PutSeg(s.c, e, j + 1, g)
  OBVIOUS
<1>6. c = [s.c EXCEPT ![e].segs[j + 1].dirty = d]
  BY <1>2, <1>4, <1>5 DEF PutSeg
<1>7. IsState(s)
  BY DEF Sound
<1>8. SetDirty(s, e, j, d) = [s EXCEPT !.c = c]
  BY <1>6 DEF SetDirty
<1>9. SetDirty(s, e, j, d) = [k |-> s.k, c |-> c]
  BY <1>7, <1>8 DEF IsState
<1> QED BY <1>1, <1>3, <1>5, <1>9, PutSegState

LEMMA SetLstIs ==
  ASSUME NEW s, Sound(s), NEW e, NEW j, In(s, e, j), NEW n \in 0 .. RelsegSize
  PROVE  Reflagged(s, SetLst(s, e, j, n), e, j,
                   Flagged(Of(s, e, j).dirty, n, Of(s, e, j).fdirty))
<1>1. PICK o, g : /\ o = Of(s, e, j) /\ g = Flagged(o.dirty, n, o.fdirty)
  OBVIOUS
<1>2. o \in Flags /\ o = s.c[e].segs[j + 1]
  BY <1>1, InFacts DEF Of
<1>3. g \in Flags
  BY <1>1, <1>2, FlagFacts, FlaggedFacts
<1>4. [o EXCEPT !.lst = n] = g
  BY <1>1, <1>2, FlagFacts DEF Flagged
<1>5. PICK c : c = PutSeg(s.c, e, j + 1, g)
  OBVIOUS
<1>6. c = [s.c EXCEPT ![e].segs[j + 1].lst = n]
  BY <1>2, <1>4, <1>5 DEF PutSeg
<1>7. IsState(s)
  BY DEF Sound
<1>8. SetLst(s, e, j, n) = [s EXCEPT !.c = c]
  BY <1>6 DEF SetLst
<1>9. SetLst(s, e, j, n) = [k |-> s.k, c |-> c]
  BY <1>7, <1>8 DEF IsState
<1> QED BY <1>1, <1>3, <1>5, <1>9, PutSegState

\* The kernel or the disk gets file f in the place of segment j.
Refiled(s, t, e, j, f, g) ==
  /\ IsState(t) /\ FilePut(s.k, t.k, s.c[e].rel, j, f)
  /\ SegPut(s.c, t.c, e, j + 1, g)

LEMMA PutFileState ==
  ASSUME NEW s, Sound(s), NEW e, NEW j, In(s, e, j), NEW f \in File, NEW g \in Flags,
         NEW t, t = [k |-> PutFile(s.k, s.c[e].rel, j, f),
                     c |-> PutSeg(s.c, e, j + 1, g)]
  PROVE  Refiled(s, t, e, j, f, g)
<1>1. IsState(t) /\ t.k = PutFile(s.k, s.c[e].rel, j, f)
      /\ t.c = PutSeg(s.c, e, j + 1, g)
  BY DEF IsState
<1>2. /\ s.c \in Seq(Entry) /\ e \in 1 .. Len(s.c)
      /\ j + 1 \in 1 .. Len(s.c[e].segs)
      /\ s.k \in Store /\ j \in Seg /\ s.c[e].rel \in Rel
  BY InFacts DEF In
<1> QED BY <1>1, <1>2, SegPutFacts, FilePutFacts DEF Refiled

\* The file of segment j of entry e.
FileOf(s, e, j) == s.k[s.c[e].rel][j]

LEMMA FileSyncIs ==
  ASSUME NEW s, Sound(s), NEW e, NEW j, In(s, e, j)
  PROVE  /\ ~ Of(s, e, j).fdirty => FileSync(s, e, j) = s
         /\ Of(s, e, j).fdirty =>
              Refiled(s, FileSync(s, e, j), e, j,
                      MadeFile(FileOf(s, e, j).data, FileOf(s, e, j).data),
                      Flagged(Of(s, e, j).dirty, Of(s, e, j).lst, FALSE))
<1>1. PICK o, g, r, f : /\ o = Of(s, e, j) /\ g = Flagged(o.dirty, o.lst, FALSE)
                        /\ r = s.c[e].rel /\ f = s.k[r][j]
  OBVIOUS
<1>2. o \in Flags /\ o = s.c[e].segs[j + 1] /\ f \in File
  BY <1>1, InFacts DEF Of
<1>3. g \in Flags
  BY <1>1, <1>2, FlagFacts, FlaggedFacts
<1>4. [o EXCEPT !.fdirty = FALSE] = g
  BY <1>1, <1>2, Reflags
<1>5. PICK h : h = MadeFile(f.data, f.data)
  OBVIOUS
<1>6. [f EXCEPT !.disk = f.data] = h /\ h \in File
  BY <1>2, <1>5, FileFacts, MadeFacts DEF MadeFile
<1>7. PICK c, k : c = PutSeg(s.c, e, j + 1, g) /\ k = PutFile(s.k, r, j, h)
  OBVIOUS
<1>8. c = [s.c EXCEPT ![e].segs[j + 1].fdirty = FALSE]
  BY <1>2, <1>4, <1>7 DEF PutSeg
<1>9. k = [s.k EXCEPT ![r][j].disk = s.k[r][j].data]
  BY <1>1, <1>6, <1>7 DEF PutFile
<1>10. CASE ~ o.fdirty
  <2>1. FileSync(s, e, j) = s
    BY <1>2, <1>10 DEF FileSync
  <2> QED BY <1>1, <1>10, <2>1
<1>11. CASE o.fdirty
  <2>1. FileSync(s, e, j) = [k |-> k, c |-> c]
    BY <1>1, <1>2, <1>8, <1>9, <1>11 DEF FileSync
  <2>2. Refiled(s, FileSync(s, e, j), e, j, h, g)
    BY <1>1, <1>3, <1>6, <1>7, <2>1, PutFileState
  <2>3. h = MadeFile(FileOf(s, e, j).data, FileOf(s, e, j).data)
    BY <1>1, <1>5 DEF FileOf
  <2> QED BY <1>1, <1>11, <2>2, <2>3
<1> QED BY <1>10, <1>11

\* What the write of x at i leaves in a file.
Put(d, i, x) == IF i < Len(d) THEN [d EXCEPT ![i + 1] = x] ELSE Append(d, x)

LEMMA FileWriteIs ==
  ASSUME NEW s, Sound(s), NEW e, NEW j, In(s, e, j), NEW i, NEW x,
         Put(FileOf(s, e, j).data, i, x) \in Stored
  PROVE  /\ Refiled(s, FileWrite(s, e, j, i, x, TRUE), e, j,
                    MadeFile(Put(FileOf(s, e, j).data, i, x), FileOf(s, e, j).disk),
                    Flagged(Of(s, e, j).dirty, Of(s, e, j).lst, TRUE))
         /\ Reflagged(s, FileWrite(s, e, j, i, x, FALSE), e, j,
                      Flagged(Of(s, e, j).dirty, Of(s, e, j).lst, TRUE))
<1>1. PICK o, g, r, f : /\ o = Of(s, e, j) /\ g = Flagged(o.dirty, o.lst, TRUE)
                        /\ r = s.c[e].rel /\ f = s.k[r][j]
  OBVIOUS
<1>2. o \in Flags /\ o = s.c[e].segs[j + 1] /\ f \in File
  BY <1>1, InFacts DEF Of
<1>3. g \in Flags
  BY <1>1, <1>2, FlagFacts, FlaggedFacts
<1>4. [o EXCEPT !.fdirty = TRUE] = g
  BY <1>1, <1>2, Reflags
<1>5. PICK h, y : y = Put(f.data, i, x) /\ h = MadeFile(y, f.disk)
  OBVIOUS
<1>51. y \in Stored
  BY <1>1, <1>5 DEF FileOf
<1>6. [f EXCEPT !.data = y] = h /\ h \in File
  BY <1>2, <1>5, <1>51, FileFacts, MadeFacts DEF MadeFile
<1>7. PICK c, k : c = PutSeg(s.c, e, j + 1, g) /\ k = PutFile(s.k, r, j, h)
  OBVIOUS
<1>8. c = [s.c EXCEPT ![e].segs[j + 1].fdirty = TRUE]
  BY <1>2, <1>4, <1>7 DEF PutSeg
<1>9. k = [s.k EXCEPT ![r][j].data = y]
  BY <1>1, <1>6, <1>7 DEF PutFile
<1>91. [s.k EXCEPT ![r][j].data = y] =
       [s.k EXCEPT ![r][j].data =
          IF i < Len(@) THEN [@ EXCEPT ![i + 1] = x] ELSE Append(@, x)]
  BY <1>1, <1>5 DEF Put
<1>10. FileWrite(s, e, j, i, x, TRUE) = [k |-> k, c |-> c]
  BY <1>1, <1>8, <1>9, <1>91 DEF FileWrite
<1>11. FileWrite(s, e, j, i, x, FALSE) = [k |-> s.k, c |-> c]
  BY <1>8 DEF FileWrite
<1>12. Refiled(s, FileWrite(s, e, j, i, x, TRUE), e, j, h, g)
  BY <1>1, <1>3, <1>6, <1>7, <1>10, PutFileState
<1>13. Reflagged(s, FileWrite(s, e, j, i, x, FALSE), e, j, g)
  BY <1>3, <1>7, <1>11, PutSegState
<1>14. h = MadeFile(Put(FileOf(s, e, j).data, i, x), FileOf(s, e, j).disk)
  BY <1>1, <1>5 DEF FileOf
<1> QED BY <1>1, <1>12, <1>13, <1>14

-----------------------------------------------------------------------------
(* Looking: a call opens files along a chain and writes nothing.           *)

LEMMA EmptyFacts ==
  <<>> \in Stored /\ <<>> \in Seq(Pg) /\ Len(<<>>) = 0
BY SizeFacts DEF Stored, Pg

Empty == MadeFile(<<>>, <<>>)

LEMMA EmptyFile ==
  Empty \in File /\ Empty # Absent /\ Empty.data = <<>> /\ Empty.disk = <<>>
BY EmptyFacts, MadeFacts DEF Empty

LEMMA CreatedIs ==
  ASSUME NEW k \in Store, NEW r \in Rel, NEW j \in Seg
  PROVE  /\ k[r][j] = Absent => FilePut(k, Created(k, r, j), r, j, Empty)
         /\ k[r][j] # Absent => Created(k, r, j) = k
<1>1. PICK m : m = Created(k, r, j)
  OBVIOUS
<1>2. CASE k[r][j] = Absent
  <2>1. m = PutFile(k, r, j, Empty)
    BY <1>1, <1>2 DEF Created, PutFile, Empty, MadeFile
  <2>2. FilePut(k, m, r, j, Empty)
    BY <2>1, FilePutFacts, EmptyFile
  <2> QED BY <1>1, <1>2, <2>2
<1>3. CASE k[r][j] # Absent
  <2>1. m = [k EXCEPT ![r][j] = k[r][j]]
    BY <1>1, <1>3 DEF Created
  <2>2. k[r] = [y \in Seg |-> k[r][y]] /\ k = [x \in Rel |-> k[x]]
    BY DEF Store
  <2>3. [k[r] EXCEPT ![j] = k[r][j]] = k[r]
    BY <2>2
  <2>4. m = [k EXCEPT ![r] = k[r]]
    BY <2>1, <2>3
  <2>5. m = k
    BY <2>2, <2>4
  <2> QED BY <1>1, <1>3, <2>5
<1> QED BY <1>2, <1>3

\* The files are the ones of k, and empty ones behind them.
Opened(k, m) ==
  \A r \in Rel, j \in Seg :
    /\ k[r][j] # Absent => m[r][j] = k[r][j]
    /\ k[r][j] = Absent => m[r][j] = Absent \/ (j # 0 /\ m[r][j] = Empty)

\* The chains are the ones of c, some of them longer.
Longer(c, d) ==
  /\ Len(d) = Len(c)
  /\ \A x \in 1 .. Len(c) :
       /\ d[x].rel = c[x].rel /\ Len(c[x].segs) <= Len(d[x].segs)
       /\ \A y \in 1 .. Len(c[x].segs) :
            /\ d[x].segs[y].dirty = c[x].segs[y].dirty
            /\ d[x].segs[y].fdirty = c[x].segs[y].fdirty

Looked(s, t) == Sound(t) /\ Opened(s.k, t.k) /\ Longer(s.c, t.c)

LEMMA VectorLens ==
  ASSUME NEW s, Sound(s)
  PROVE  /\ Len(s.c) \in Nat
         /\ \A e \in 1 .. Len(s.c) : s.c[e] \in Entry /\ Len(s.c[e].segs) \in Nat
<1>1. s.c \in Seq(Entry)
  BY DEF Sound, Vector
<1> QED BY <1>1, EntryFacts

LEMMA LookedSame ==
  ASSUME NEW s, Sound(s)
  PROVE  Looked(s, s)
BY VectorLens DEF Looked, Opened, Longer

LEMMA LookedTrans ==
  ASSUME NEW s, NEW t, NEW u, Sound(s), Looked(s, t), Looked(t, u)
  PROVE  Looked(s, u)
<1>1. Opened(s.k, u.k)
  BY EmptyFile DEF Looked, Opened
<1>2. Longer(s.c, u.c)
  <2>1. Len(u.c) = Len(s.c) /\ Len(t.c) = Len(s.c)
    BY DEF Looked, Longer
  <2> SUFFICES ASSUME NEW x \in 1 .. Len(s.c)
               PROVE  /\ u.c[x].rel = s.c[x].rel
                      /\ Len(s.c[x].segs) <= Len(u.c[x].segs)
                      /\ \A y \in 1 .. Len(s.c[x].segs) :
                           /\ u.c[x].segs[y].dirty = s.c[x].segs[y].dirty
                           /\ u.c[x].segs[y].fdirty = s.c[x].segs[y].fdirty
    BY <2>1 DEF Longer
  <2>2. x \in 1 .. Len(t.c) /\ x \in 1 .. Len(u.c)
    BY <2>1
  <2>3. Len(s.c[x].segs) \in Nat /\ Len(t.c[x].segs) \in Nat /\ Len(u.c[x].segs) \in Nat
    BY <2>2, VectorLens DEF Looked
  <2>4. /\ t.c[x].rel = s.c[x].rel /\ Len(s.c[x].segs) <= Len(t.c[x].segs)
        /\ \A y \in 1 .. Len(s.c[x].segs) :
             /\ t.c[x].segs[y].dirty = s.c[x].segs[y].dirty
             /\ t.c[x].segs[y].fdirty = s.c[x].segs[y].fdirty
    BY DEF Looked, Longer
  <2>5. /\ u.c[x].rel = t.c[x].rel /\ Len(t.c[x].segs) <= Len(u.c[x].segs)
        /\ \A y \in 1 .. Len(t.c[x].segs) :
             /\ u.c[x].segs[y].dirty = t.c[x].segs[y].dirty
             /\ u.c[x].segs[y].fdirty = t.c[x].segs[y].fdirty
    BY <2>2 DEF Looked, Longer
  <2>6. \A y \in 1 .. Len(s.c[x].segs) : y \in 1 .. Len(t.c[x].segs)
    BY <2>3, <2>4
  <2>7. Len(s.c[x].segs) <= Len(u.c[x].segs)
    <3>1. PICK l, m, n : /\ l = Len(s.c[x].segs) /\ m = Len(t.c[x].segs)
                         /\ n = Len(u.c[x].segs)
      OBVIOUS
    <3>2. l \in Nat /\ m \in Nat /\ n \in Nat /\ l <= m /\ m <= n
      BY <2>3, <2>4, <2>5, <3>1
    <3>3. l <= n
      BY <3>2
    <3> QED BY <3>1, <3>3
  <2>8. \A y \in 1 .. Len(s.c[x].segs) :
          /\ u.c[x].segs[y].dirty = s.c[x].segs[y].dirty
          /\ u.c[x].segs[y].fdirty = s.c[x].segs[y].fdirty
    BY <2>4, <2>5, <2>6
  <2> QED BY <2>4, <2>5, <2>7, <2>8
<1> QED BY <1>1, <1>2 DEF Looked

LEMMA LookedIn ==
  ASSUME NEW s, NEW t, Sound(s), Looked(s, t), NEW e, NEW j, In(s, e, j)
  PROVE  In(t, e, j) /\ t.c[e].rel = s.c[e].rel
<1>1. e \in 1 .. Len(s.c) /\ e \in 1 .. Len(t.c)
  BY DEF Looked, Longer, In
<1>2. Len(s.c[e].segs) \in Nat /\ Len(t.c[e].segs) \in Nat
  BY <1>1, VectorLens DEF Looked
<1>3. t.c[e].rel = s.c[e].rel /\ Len(s.c[e].segs) <= Len(t.c[e].segs)
  BY <1>1 DEF Looked, Longer
<1>4. s.c[e].rel \in Rel /\ j \in Nat /\ j + 1 <= Len(s.c[e].segs)
  BY DEF In
<1> QED BY <1>1, <1>2, <1>3, <1>4 DEF In

LEMMA OpenedGrows ==
  ASSUME NEW k, NEW m, Opened(k, m)
  PROVE  Grows(k, m)
BY DEF Opened, Grows, IsFull, SegLen

\* SetLst to RELSEG_SIZE of a segment that is full.
LEMMA LstLooks ==
  ASSUME NEW s, Sound(s), NEW e, NEW j, In(s, e, j),
         IsFull(s.k, s.c[e].rel, j), NEW t, t = SetLst(s, e, j, RelsegSize)
  PROVE  Looked(s, t) /\ Len(t.c[e].segs) = Len(s.c[e].segs) /\ t.k = s.k
<1>1. PICK o, g : o = Of(s, e, j) /\ g = Flagged(o.dirty, RelsegSize, o.fdirty)
  OBVIOUS
<1>2. RelsegSize \in 0 .. RelsegSize
  BY SizeFacts
<1>3. Reflagged(s, t, e, j, g)
  BY <1>1, <1>2, SetLstIs
<1>4. o \in Flags
  BY <1>1, InFacts DEF Of
<1>5. g \in Flags /\ g.dirty = o.dirty /\ g.fdirty = o.fdirty
  <2>1. o.dirty \in BOOLEAN /\ o.fdirty \in BOOLEAN
    BY <1>4, FlagFacts
  <2> QED BY <1>1, <1>2, <2>1, FlaggedFacts
<1>6. Opened(s.k, s.k) /\ Grows(s.k, s.k)
  BY DEF Opened, Grows
<1>7. IsState(t) /\ t.k = s.k /\ SegPut(s.c, t.c, e, j + 1, g)
  BY <1>3 DEF Reflagged
<1>8. Vector(s.k, t.c)
  BY <1>5, <1>6, <1>7, VectorPut
<1>9. Sound(t)
  BY <1>7, <1>8 DEF Sound
<1>10. Longer(s.c, t.c)
  <2>1. /\ Len(t.c) = Len(s.c) /\ t.c[e].rel = s.c[e].rel
        /\ \A x \in 1 .. Len(s.c) : x # e => t.c[x] = s.c[x]
        /\ Len(t.c[e].segs) = Len(s.c[e].segs) /\ t.c[e].segs[j + 1] = g
        /\ \A y \in 1 .. Len(s.c[e].segs) : y # j + 1 => t.c[e].segs[y] = s.c[e].segs[y]
    BY <1>7 DEF SegPut, OnlyEntry
  <2>2. \A x \in 1 .. Len(s.c) : Len(s.c[x].segs) \in Nat
    BY VectorLens
  <2>3. s.c[e].segs[j + 1] = o
    BY <1>1 DEF Of
  <2>4. ASSUME NEW x \in 1 .. Len(s.c)
        PROVE  /\ t.c[x].rel = s.c[x].rel /\ Len(s.c[x].segs) <= Len(t.c[x].segs)
               /\ \A y \in 1 .. Len(s.c[x].segs) :
                    /\ t.c[x].segs[y].dirty = s.c[x].segs[y].dirty
                    /\ t.c[x].segs[y].fdirty = s.c[x].segs[y].fdirty
    <3>1. CASE x # e
      <4>1. t.c[x] = s.c[x] /\ Len(s.c[x].segs) \in Nat
        BY <2>1, <2>2, <3>1
      <4> QED BY <4>1
    <3>2. CASE x = e
      <4>1. \A y \in 1 .. Len(s.c[e].segs) :
              /\ t.c[e].segs[y].dirty = s.c[e].segs[y].dirty
              /\ t.c[e].segs[y].fdirty = s.c[e].segs[y].fdirty
        BY <1>5, <2>1, <2>3
      <4>2. Len(s.c[e].segs) <= Len(t.c[e].segs)
        BY <2>1, <2>2, <3>2
      <4> QED BY <2>1, <3>2, <4>1, <4>2
    <3> QED BY <3>1, <3>2
  <2> QED BY <2>1, <2>4 DEF Longer
<1> QED BY <1>6, <1>7, <1>9, <1>10 DEF Looked, SegPut

\* An empty file behind a full one.
LEMMA FilesOpened ==
  ASSUME NEW k, Files(k), NEW r \in Rel, NEW j \in Seg, j # 0,
         k[r][j - 1] # Absent, IsFull(k, r, j - 1), NEW m, m = Created(k, r, j)
  PROVE  Files(m) /\ Opened(k, m) /\ m[r][j] # Absent
<1>1. k \in Store /\ \A x \in Rel : Gapless(k, x)
  BY DEF Files
<1>2. CASE k[r][j] # Absent
  <2>1. m = k
    BY <1>1, <1>2, CreatedIs
  <2> QED BY <1>2, <2>1 DEF Opened
<1>3. CASE k[r][j] = Absent
  <2>1. FilePut(k, m, r, j, Empty)
    BY <1>1, <1>3, CreatedIs
  <2>2. /\ m \in Store /\ m[r][j] = Empty
        /\ \A x \in Rel, y \in Seg : ~(x = r /\ y = j) => m[x][y] = k[x][y]
    BY <2>1 DEF FilePut
  <2>3. Opened(k, m)
    BY <1>3, <2>2 DEF Opened
  <2>4. ASSUME NEW x \in Rel PROVE Gapless(m, x)
    <3>1. Gapless(k, x)
      BY <1>1
    <3>2. ASSUME NEW y \in Seg, y # 0, m[x][y] # Absent
          PROVE  m[x][y - 1] # Absent /\ IsFull(m, x, y - 1)
      <4>1. y - 1 \in Seg
        BY <3>2, SegFacts
      <4>2. CASE x = r /\ y = j
        <5>1. y - 1 # j
          BY <4>2, SegFacts
        <5>2. m[x][y - 1] = k[x][y - 1]
          BY <2>2, <4>1, <5>1
        <5> QED BY <4>2, <5>2 DEF IsFull, SegLen
      <4>3. CASE ~(x = r /\ y = j)
        <5>1. k[x][y] # Absent
          BY <2>2, <3>2, <4>3
        <5>2. k[x][y - 1] # Absent /\ IsFull(k, x, y - 1)
          BY <3>1, <3>2, <5>1 DEF Gapless
        <5>3. m[x][y - 1] = k[x][y - 1]
          BY <1>3, <2>2, <4>1, <5>2
        <5> QED BY <5>2, <5>3 DEF IsFull, SegLen
      <4> QED BY <4>2, <4>3
    <3>3. ASSUME m[x][MaxSeg] # Absent PROVE ~ IsFull(m, x, MaxSeg)
      <4>1. CASE x = r /\ MaxSeg = j
        <5>1. SegLen(m, x, MaxSeg) = 0
          BY <2>2, <4>1, EmptyFile, EmptyFacts DEF SegLen
        <5> QED BY <5>1, SizeFacts DEF IsFull
      <4>2. CASE ~(x = r /\ MaxSeg = j)
        <5>1. m[x][MaxSeg] = k[x][MaxSeg]
          BY <2>2, <4>2, SegFacts
        <5> QED BY <3>1, <3>3, <5>1 DEF Gapless, IsFull, SegLen
      <4> QED BY <4>1, <4>2
    <3> QED BY <3>2, <3>3 DEF Gapless
  <2> QED BY <2>2, <2>3, <2>4, EmptyFile DEF Files
<1> QED BY <1>2, <1>3

LEMMA OpensegLooks ==
  ASSUME NEW s, Sound(s), NEW e, NEW j \in Seg, In(s, e, j - 1),
         j = Len(s.c[e].segs), IsFull(s.k, s.c[e].rel, j - 1),
         NEW t, t = mdfd_openseg(s, e, j)
  PROVE  Looked(s, t) /\ In(t, e, j) /\ Len(t.c[e].segs) = j + 1
<1>1. PICK r, m, n : /\ r = s.c[e].rel /\ m = Created(s.k, r, j)
                     /\ n = SegLen(m, r, j)
  OBVIOUS
<1>2. PICK g : g = NewSeg(n)
  OBVIOUS
<1>3. PICK d : d = AddSeg(s.c, e, g)
  OBVIOUS
<1>4. t = [k |-> m, c |-> d]
  BY <1>1, <1>2, <1>3 DEF mdfd_openseg, AddSeg
<1>5. IsState(t) /\ t.k = m /\ t.c = d
  BY <1>4 DEF IsState
<1>6. /\ s.c \in Seq(Entry) /\ e \in 1 .. Len(s.c) /\ r \in Rel /\ j \in Nat
      /\ j - 1 \in Nat /\ s.k[r][j - 1] # Absent /\ Files(s.k)
  BY <1>1, InFacts, SegFacts DEF In, Sound
<1>61. j # 0
  BY <1>6
<1>7. Files(m) /\ Opened(s.k, m) /\ m[r][j] # Absent
  BY <1>1, <1>6, <1>61, FilesOpened
<1>8. Grows(s.k, m)
  BY <1>7, OpenedGrows
<1>9. m[r][j] \in File
  BY <1>6, <1>7 DEF Files, Store
<1>10. n \in Nat /\ n <= RelsegSize
  BY <1>1, <1>9, FileFacts, StoredFacts DEF SegLen
<1>11. g = Flagged(FALSE, n, FALSE)
  BY <1>2 DEF NewSeg, Flagged
<1>12. g \in Flags /\ g.lst = n
  <2>1. n \in 0 .. RelsegSize
    BY <1>10, SizeFacts
  <2>2. FALSE \in BOOLEAN
    BY Zenon
  <2> QED BY <1>11, <2>1, <2>2, FlaggedFacts
<1>13. SegAdded(s.c, d, e, g)
  BY <1>3, <1>6, <1>12, SegAddedFacts
<1>14. Vector(m, d)
  <2>1. g.lst = RelsegSize => IsFull(m, s.c[e].rel, j)
    BY <1>1, <1>12 DEF IsFull
  <2>2. m[s.c[e].rel][j] # Absent
    BY <1>1, <1>7
  <2> QED BY <1>8, <1>12, <1>13, <2>1, <2>2, VectorAdded
<1>15. Sound(t)
  BY <1>5, <1>7, <1>14 DEF Sound
<1>16. /\ Len(d) = Len(s.c) /\ d[e].rel = r
       /\ \A x \in 1 .. Len(s.c) : x # e => d[x] = s.c[x]
       /\ Len(d[e].segs) = j + 1
       /\ \A y \in 1 .. Len(s.c[e].segs) : d[e].segs[y] = s.c[e].segs[y]
  BY <1>1, <1>13 DEF SegAdded, OnlyEntry
<1>17. Longer(s.c, d)
  <2>1. ASSUME NEW x \in 1 .. Len(s.c)
        PROVE  /\ d[x].rel = s.c[x].rel /\ Len(s.c[x].segs) <= Len(d[x].segs)
               /\ \A y \in 1 .. Len(s.c[x].segs) :
                    /\ d[x].segs[y].dirty = s.c[x].segs[y].dirty
                    /\ d[x].segs[y].fdirty = s.c[x].segs[y].fdirty
    <3>1. CASE x # e
      <4>1. d[x] = s.c[x] /\ Len(s.c[x].segs) \in Nat
        BY <1>16, <3>1, VectorLens
      <4> QED BY <4>1
    <3>2. CASE x = e
      <4>1. Len(s.c[e].segs) <= Len(d[e].segs)
        BY <1>6, <1>16
      <4> QED BY <1>1, <1>16, <3>2, <4>1
    <3> QED BY <3>1, <3>2
  <2> QED BY <1>16, <2>1 DEF Longer
<1>18. In(t, e, j)
  BY <1>5, <1>6, <1>16 DEF In
<1> QED BY <1>5, <1>7, <1>15, <1>16, <1>17, <1>18 DEF Looked

-----------------------------------------------------------------------------
(* The loops, each a function on the segments or entries it goes through:  *)
(* what its recursive definition says, and that there is such a function.  *)

GetStep(u, e, b, j) ==
  IF j > b \div RelsegSize \/ j < Len(u.c[e].segs) THEN u
  ELSE mdfd_openseg(u, e, j)

SweepStep(u, commit, e, j) ==
  IF commit THEN CommitSeg(u, e, j) ELSE AbortSeg(u, e, j)

Begun(s) == [s |-> s, done |-> FALSE, n |-> 0]

\* The loop of mdfd_getseg, up to segment n.
IsGet(h, s, e, b, n) ==
  h = [i \in 0 .. n |-> IF i = 0 THEN s ELSE GetStep(h[i - 1], e, b, i)]

LEMMA GetExists ==
  ASSUME NEW s, NEW e, NEW b, NEW n \in Nat
  PROVE  \E h : IsGet(h, s, e, b, n)
<1>1. PICK B : B = {m \in Nat : ~\E h : IsGet(h, s, e, b, m)}
  OBVIOUS
<1>2. SUFFICES ASSUME B # {} PROVE FALSE
  BY <1>1
<1>3. PICK m \in B : \A y \in B : m <= y
  <2>1. B \subseteq Nat
    BY <1>1
  <2> QED BY <1>2, <2>1, LeastOf
<1>4. m \in Nat /\ ~\E h : IsGet(h, s, e, b, m)
  BY <1>1, <1>3
<1>5. CASE m = 0
  <2>1. PICK h : h = [i \in 0 .. 0 |-> s]
    OBVIOUS
  <2>2. 0 .. 0 = 0 .. 0
    OBVIOUS
  <2>3. IsGet(h, s, e, b, 0)
    BY <2>1, <2>2 DEF IsGet
  <2> QED BY <1>4, <1>5, <2>3
<1>6. CASE m # 0
  <2>1. m - 1 \in Nat /\ ~(m <= m - 1)
    BY <1>4, <1>6
  <2>2. PICK h : IsGet(h, s, e, b, m - 1)
    <3>1. m - 1 \notin B
      BY <1>3, <2>1
    <3> QED BY <1>1, <2>1, <3>1
  <2>3. \A i \in 0 .. m - 1 :
          h[i] = IF i = 0 THEN s ELSE GetStep(h[i - 1], e, b, i)
    BY <2>2 DEF IsGet
  <2>4. PICK z : z = m
    OBVIOUS
  <2>5. z \in Int /\ z > 0 /\ z - 1 = m - 1
    BY <1>4, <1>6, <2>4
  <2>6. PICK x : x = GetStep(h[z - 1], e, b, z)
    OBVIOUS
  <2>7. PICK f : f = [i \in 0 .. m |-> IF i = z THEN x ELSE h[i]]
    OBVIOUS
  <2>8. \A i \in 0 .. m :
          f[i] = IF i = 0 THEN s ELSE GetStep(f[i - 1], e, b, i)
    <3> SUFFICES ASSUME NEW i \in 0 .. m
                 PROVE  f[i] = IF i = 0 THEN s ELSE GetStep(f[i - 1], e, b, i)
      OBVIOUS
    <3>1. i \in Int /\ i >= 0 /\ i <= z
      BY <1>4, <2>4
    <3>2. CASE i = z
      <4>1. z - 1 \in 0 .. m /\ z - 1 # z /\ z # 0
        BY <1>4, <2>4, <2>5
      <4>2. f[i] = x /\ f[z - 1] = h[z - 1]
        BY <2>7, <3>2, <4>1
      <4> QED BY <2>6, <3>2, <4>1, <4>2
    <3>3. CASE i # z /\ i # 0
      <4>1. i \in 0 .. m - 1 /\ i - 1 \in 0 .. m /\ i - 1 # z
        BY <1>4, <2>4, <3>1, <3>3
      <4>2. f[i] = h[i] /\ f[i - 1] = h[i - 1]
        BY <2>7, <3>3, <4>1
      <4>3. h[i] = GetStep(h[i - 1], e, b, i)
        BY <2>3, <3>3, <4>1
      <4> QED BY <3>3, <4>2, <4>3
    <3>4. CASE i # z /\ i = 0
      <4>1. i \in 0 .. m - 1
        BY <1>4, <2>4, <3>1, <3>4
      <4>2. f[i] = h[i] /\ h[i] = s
        BY <2>3, <2>7, <3>4, <4>1
      <4> QED BY <3>4, <4>2
    <3> QED BY <3>2, <3>3, <3>4
  <2>9. IsGet(f, s, e, b, m)
    BY <2>7, <2>8 DEF IsGet
  <2> QED BY <1>4, <2>9
<1> QED BY <1>5, <1>6

\* The loop of mdnblocks, up to segment n - 1.
IsLoop(h, s, e, n) ==
  h = [i \in -1 .. n - 1 |-> IF i = -1 THEN Begun(s) ELSE Visit(h[i - 1], e, i)]

LEMMA LoopExists ==
  ASSUME NEW s, NEW e, NEW n \in Nat
  PROVE  \E h : IsLoop(h, s, e, n)
<1>1. PICK B : B = {m \in Nat : ~\E h : IsLoop(h, s, e, m)}
  OBVIOUS
<1>2. SUFFICES ASSUME B # {} PROVE FALSE
  BY <1>1
<1>3. PICK m \in B : \A y \in B : m <= y
  <2>1. B \subseteq Nat
    BY <1>1
  <2> QED BY <1>2, <2>1, LeastOf
<1>4. m \in Nat /\ ~\E h : IsLoop(h, s, e, m)
  BY <1>1, <1>3
<1>5. CASE m = 0
  <2>1. PICK h : h = [i \in -1 .. -1 |-> Begun(s)]
    OBVIOUS
  <2>2. -1 .. 0 - 1 = -1 .. -1
    OBVIOUS
  <2>3. IsLoop(h, s, e, 0)
    BY <2>1, <2>2 DEF IsLoop
  <2> QED BY <1>4, <1>5, <2>3
<1>6. CASE m # 0
  <2>1. m - 1 \in Nat /\ ~(m <= m - 1)
    BY <1>4, <1>6
  <2>2. PICK h : IsLoop(h, s, e, m - 1)
    <3>1. m - 1 \notin B
      BY <1>3, <2>1
    <3> QED BY <1>1, <2>1, <3>1
  <2>3. \A i \in -1 .. m - 1 - 1 :
          h[i] = IF i = -1 THEN Begun(s) ELSE Visit(h[i - 1], e, i)
    BY <2>2 DEF IsLoop
  <2>4. PICK z : z = m - 1
    OBVIOUS
  <2>5. z \in Int /\ z > -1 /\ z - 1 = m - 2
    BY <1>4, <1>6, <2>4
  <2>6. PICK x : x = Visit(h[z - 1], e, z)
    OBVIOUS
  <2>7. PICK f : f = [i \in -1 .. m - 1 |-> IF i = z THEN x ELSE h[i]]
    OBVIOUS
  <2>8. \A i \in -1 .. m - 1 :
          f[i] = IF i = -1 THEN Begun(s) ELSE Visit(f[i - 1], e, i)
    <3> SUFFICES ASSUME NEW i \in -1 .. m - 1
                 PROVE  f[i] = IF i = -1 THEN Begun(s) ELSE Visit(f[i - 1], e, i)
      OBVIOUS
    <3>1. i \in Int /\ i >= -1 /\ i <= z
      BY <1>4, <2>4
    <3>2. CASE i = z
      <4>1. z - 1 \in -1 .. m - 1 /\ z - 1 # z /\ z # -1
        BY <1>4, <2>4, <2>5
      <4>2. f[i] = x /\ f[z - 1] = h[z - 1]
        BY <2>7, <3>2, <4>1
      <4> QED BY <2>6, <3>2, <4>1, <4>2
    <3>3. CASE i # z /\ i # -1
      <4>1. i \in -1 .. m - 1 - 1 /\ i - 1 \in -1 .. m - 1 /\ i - 1 # z
        BY <1>4, <2>4, <3>1, <3>3
      <4>2. f[i] = h[i] /\ f[i - 1] = h[i - 1]
        BY <2>7, <3>3, <4>1
      <4>3. h[i] = Visit(h[i - 1], e, i)
        BY <2>3, <3>3, <4>1
      <4> QED BY <3>3, <4>2, <4>3
    <3>4. CASE i # z /\ i = -1
      <4>1. i \in -1 .. m - 1 - 1
        BY <1>4, <2>4, <3>1, <3>4
      <4>2. f[i] = h[i] /\ h[i] = Begun(s)
        BY <2>3, <2>7, <3>4, <4>1
      <4> QED BY <3>4, <4>2
    <3> QED BY <3>2, <3>3, <3>4
  <2>9. IsLoop(f, s, e, m)
    BY <2>7, <2>8 DEF IsLoop
  <2> QED BY <1>4, <2>9
<1> QED BY <1>5, <1>6

\* The inner loop of a sweep, up to segment n - 1 of entry e.
IsRow(h, s, commit, e, n) ==
  h = [i \in -1 .. n - 1 |-> IF i = -1 THEN s ELSE SweepStep(h[i - 1], commit, e, i)]

LEMMA RowExists ==
  ASSUME NEW s, NEW commit, NEW e, NEW n \in Nat
  PROVE  \E h : IsRow(h, s, commit, e, n)
<1>1. PICK B : B = {m \in Nat : ~\E h : IsRow(h, s, commit, e, m)}
  OBVIOUS
<1>2. SUFFICES ASSUME B # {} PROVE FALSE
  BY <1>1
<1>3. PICK m \in B : \A y \in B : m <= y
  <2>1. B \subseteq Nat
    BY <1>1
  <2> QED BY <1>2, <2>1, LeastOf
<1>4. m \in Nat /\ ~\E h : IsRow(h, s, commit, e, m)
  BY <1>1, <1>3
<1>5. CASE m = 0
  <2>1. PICK h : h = [i \in -1 .. -1 |-> s]
    OBVIOUS
  <2>2. -1 .. 0 - 1 = -1 .. -1
    OBVIOUS
  <2>3. IsRow(h, s, commit, e, 0)
    BY <2>1, <2>2 DEF IsRow
  <2> QED BY <1>4, <1>5, <2>3
<1>6. CASE m # 0
  <2>1. m - 1 \in Nat /\ ~(m <= m - 1)
    BY <1>4, <1>6
  <2>2. PICK h : IsRow(h, s, commit, e, m - 1)
    <3>1. m - 1 \notin B
      BY <1>3, <2>1
    <3> QED BY <1>1, <2>1, <3>1
  <2>3. \A i \in -1 .. m - 1 - 1 :
          h[i] = IF i = -1 THEN s ELSE SweepStep(h[i - 1], commit, e, i)
    BY <2>2 DEF IsRow
  <2>4. PICK z : z = m - 1
    OBVIOUS
  <2>5. z \in Int /\ z > -1 /\ z - 1 = m - 2
    BY <1>4, <1>6, <2>4
  <2>6. PICK x : x = SweepStep(h[z - 1], commit, e, z)
    OBVIOUS
  <2>7. PICK f : f = [i \in -1 .. m - 1 |-> IF i = z THEN x ELSE h[i]]
    OBVIOUS
  <2>8. \A i \in -1 .. m - 1 :
          f[i] = IF i = -1 THEN s ELSE SweepStep(f[i - 1], commit, e, i)
    <3> SUFFICES ASSUME NEW i \in -1 .. m - 1
                 PROVE  f[i] = IF i = -1 THEN s ELSE SweepStep(f[i - 1], commit, e, i)
      OBVIOUS
    <3>1. i \in Int /\ i >= -1 /\ i <= z
      BY <1>4, <2>4
    <3>2. CASE i = z
      <4>1. z - 1 \in -1 .. m - 1 /\ z - 1 # z /\ z # -1
        BY <1>4, <2>4, <2>5
      <4>2. f[i] = x /\ f[z - 1] = h[z - 1]
        BY <2>7, <3>2, <4>1
      <4> QED BY <2>6, <3>2, <4>1, <4>2
    <3>3. CASE i # z /\ i # -1
      <4>1. i \in -1 .. m - 1 - 1 /\ i - 1 \in -1 .. m - 1 /\ i - 1 # z
        BY <1>4, <2>4, <3>1, <3>3
      <4>2. f[i] = h[i] /\ f[i - 1] = h[i - 1]
        BY <2>7, <3>3, <4>1
      <4>3. h[i] = SweepStep(h[i - 1], commit, e, i)
        BY <2>3, <3>3, <4>1
      <4> QED BY <3>3, <4>2, <4>3
    <3>4. CASE i # z /\ i = -1
      <4>1. i \in -1 .. m - 1 - 1
        BY <1>4, <2>4, <3>1, <3>4
      <4>2. f[i] = h[i] /\ h[i] = s
        BY <2>3, <2>7, <3>4, <4>1
      <4> QED BY <3>4, <4>2
    <3> QED BY <3>2, <3>3, <3>4
  <2>9. IsRow(f, s, commit, e, m)
    BY <2>7, <2>8 DEF IsRow
  <2> QED BY <1>4, <2>9
<1> QED BY <1>5, <1>6

\* The loop of mdclose, up to segment n - 1.
IsClose(h, s, e, n) ==
  h = [i \in -1 .. n - 1 |-> IF i = -1 THEN s ELSE FileSync(h[i - 1], e, i)]

LEMMA CloseExists ==
  ASSUME NEW s, NEW e, NEW n \in Nat
  PROVE  \E h : IsClose(h, s, e, n)
<1>1. PICK B : B = {m \in Nat : ~\E h : IsClose(h, s, e, m)}
  OBVIOUS
<1>2. SUFFICES ASSUME B # {} PROVE FALSE
  BY <1>1
<1>3. PICK m \in B : \A y \in B : m <= y
  <2>1. B \subseteq Nat
    BY <1>1
  <2> QED BY <1>2, <2>1, LeastOf
<1>4. m \in Nat /\ ~\E h : IsClose(h, s, e, m)
  BY <1>1, <1>3
<1>5. CASE m = 0
  <2>1. PICK h : h = [i \in -1 .. -1 |-> s]
    OBVIOUS
  <2>2. -1 .. 0 - 1 = -1 .. -1
    OBVIOUS
  <2>3. IsClose(h, s, e, 0)
    BY <2>1, <2>2 DEF IsClose
  <2> QED BY <1>4, <1>5, <2>3
<1>6. CASE m # 0
  <2>1. m - 1 \in Nat /\ ~(m <= m - 1)
    BY <1>4, <1>6
  <2>2. PICK h : IsClose(h, s, e, m - 1)
    <3>1. m - 1 \notin B
      BY <1>3, <2>1
    <3> QED BY <1>1, <2>1, <3>1
  <2>3. \A i \in -1 .. m - 1 - 1 :
          h[i] = IF i = -1 THEN s ELSE FileSync(h[i - 1], e, i)
    BY <2>2 DEF IsClose
  <2>4. PICK z : z = m - 1
    OBVIOUS
  <2>5. z \in Int /\ z > -1 /\ z - 1 = m - 2
    BY <1>4, <1>6, <2>4
  <2>6. PICK x : x = FileSync(h[z - 1], e, z)
    OBVIOUS
  <2>7. PICK f : f = [i \in -1 .. m - 1 |-> IF i = z THEN x ELSE h[i]]
    OBVIOUS
  <2>8. \A i \in -1 .. m - 1 :
          f[i] = IF i = -1 THEN s ELSE FileSync(f[i - 1], e, i)
    <3> SUFFICES ASSUME NEW i \in -1 .. m - 1
                 PROVE  f[i] = IF i = -1 THEN s ELSE FileSync(f[i - 1], e, i)
      OBVIOUS
    <3>1. i \in Int /\ i >= -1 /\ i <= z
      BY <1>4, <2>4
    <3>2. CASE i = z
      <4>1. z - 1 \in -1 .. m - 1 /\ z - 1 # z /\ z # -1
        BY <1>4, <2>4, <2>5
      <4>2. f[i] = x /\ f[z - 1] = h[z - 1]
        BY <2>7, <3>2, <4>1
      <4> QED BY <2>6, <3>2, <4>1, <4>2
    <3>3. CASE i # z /\ i # -1
      <4>1. i \in -1 .. m - 1 - 1 /\ i - 1 \in -1 .. m - 1 /\ i - 1 # z
        BY <1>4, <2>4, <3>1, <3>3
      <4>2. f[i] = h[i] /\ f[i - 1] = h[i - 1]
        BY <2>7, <3>3, <4>1
      <4>3. h[i] = FileSync(h[i - 1], e, i)
        BY <2>3, <3>3, <4>1
      <4> QED BY <3>3, <4>2, <4>3
    <3>4. CASE i # z /\ i = -1
      <4>1. i \in -1 .. m - 1 - 1
        BY <1>4, <2>4, <3>1, <3>4
      <4>2. f[i] = h[i] /\ h[i] = s
        BY <2>3, <2>7, <3>4, <4>1
      <4> QED BY <3>4, <4>2
    <3> QED BY <3>2, <3>3, <3>4
  <2>9. IsClose(f, s, e, m)
    BY <2>7, <2>8 DEF IsClose
  <2> QED BY <1>4, <2>9
<1> QED BY <1>5, <1>6

-----------------------------------------------------------------------------
(* mdnblocks.                                                              *)

FullTo(k, r, j) == \A i \in 0 .. j - 1 : k[r][i] # Absent /\ IsFull(k, r, i)

\* Segment j is the first that is not full, and the chain of e reaches it.
Stops(u, e, j, n) ==
  /\ In(u, e, j) /\ FullTo(u.k, u.c[e].rel, j) /\ ~ IsFull(u.k, u.c[e].rel, j)
  /\ n = j * RelsegSize + SegLen(u.k, u.c[e].rel, j)

IsWalk(t) == t = [s |-> t.s, done |-> t.done, n |-> t.n] /\ t.done \in BOOLEAN

\* The walk from s has gone through the segments up to j.
Walked(s, e, t, j) ==
  /\ IsWalk(t) /\ Looked(s, t.s)
  /\ t.done => \E i \in Seg : Stops(t.s, e, i, t.n)
  /\ ~ t.done => FullTo(t.s.k, t.s.c[e].rel, j + 1) /\ In(t.s, e, j + 1)

LEMMA FullIs ==
  ASSUME NEW s, Sound(s), NEW e, NEW j, In(s, e, j)
  PROVE  Full(s, e, j) <=> IsFull(s.k, s.c[e].rel, j)
BY InFacts DEF Full, IsFull

LEMMA WalksOn ==
  ASSUME NEW s, Sound(s), NEW e, NEW j \in Seg, NEW t, Walked(s, e, t, j - 1),
         NEW u, u = Visit(t, e, j)
  PROVE  Walked(s, e, u, j)
<1>0. j \in Nat /\ MaxSeg \in Nat /\ j <= MaxSeg
  BY SegFacts
<1>1. CASE t.done
  <2>1. u = t
    BY <1>1 DEF Visit
  <2> QED BY <1>1, <2>1 DEF Walked
<1>2. CASE ~ t.done
  <2>1. PICK x, r : x = t.s /\ r = x.c[e].rel
    OBVIOUS
  <2>2. j - 1 + 1 = j
    BY <1>0
  <2>3. Looked(s, x) /\ FullTo(x.k, r, j) /\ In(x, e, j) /\ IsWalk(t)
    BY <1>2, <2>1, <2>2 DEF Walked
  <2>4. Sound(x)
    BY <2>3 DEF Looked
  <2>5. Full(x, e, j) <=> IsFull(x.k, r, j)
    BY <2>1, <2>3, <2>4, FullIs
  <2>6. CASE ~ IsFull(x.k, r, j)
    <3>1. PICK n : n = j * RelsegSize + SegLen(x.k, r, j)
      OBVIOUS
    <3>2. Stops(x, e, j, n)
      BY <2>1, <2>3, <2>6, <3>1 DEF Stops
    <3>3. u = [s |-> x, done |-> TRUE, n |-> n]
      BY <1>2, <2>1, <2>5, <2>6, <3>1 DEF Visit
    <3>4. IsWalk(u) /\ u.s = x /\ u.done /\ u.n = n
      <4>1. u.s = x /\ u.done = TRUE /\ u.n = n
        BY <3>3
      <4> QED BY <3>3, <4>1, Zenon DEF IsWalk
    <3> QED BY <2>3, <3>2, <3>4 DEF Walked
  <2>7. CASE IsFull(x.k, r, j)
    <3>1. PICK m : m = SetLst(x, e, j, RelsegSize)
      OBVIOUS
    <3>2. Looked(x, m) /\ Len(m.c[e].segs) = Len(x.c[e].segs) /\ m.k = x.k
      BY <2>1, <2>3, <2>4, <2>7, <3>1, LstLooks
    <3>3. Sound(m) /\ In(m, e, j) /\ m.c[e].rel = r
      <4>1. In(m, e, j) /\ m.c[e].rel = r
        BY <2>1, <2>3, <2>4, <3>2, LookedIn
      <4> QED BY <3>2, <4>1 DEF Looked
    <3>4. j # MaxSeg
      <4>1. x.k[r][j] # Absent /\ r \in Rel
        BY <2>1, <2>3, <2>4, InFacts DEF In
      <4> QED BY <2>4, <2>7, <4>1 DEF Sound, Files, Gapless
    <3>5. j + 1 \in Seg
      <4>1. j + 1 \in Nat /\ j + 1 <= MaxSeg
        BY <1>0, <3>4
      <4> QED BY <4>1, SegFacts
    <3>6. PICK y : y = IF Len(m.c[e].segs) > j + 1 THEN m ELSE mdfd_openseg(m, e, j + 1)
      OBVIOUS
    <3>7. u = [t EXCEPT !.s = y]
      BY <1>2, <2>1, <2>5, <2>7, <3>1, <3>6 DEF Visit
    <3>8. u = [s |-> y, done |-> t.done, n |-> t.n]
      BY <2>3, <3>7 DEF IsWalk
    <3>9. IsWalk(u) /\ u.s = y /\ ~ u.done
      <4>1. u.s = y /\ u.done = t.done /\ u.n = t.n
        BY <3>8
      <4>2. t.done \in BOOLEAN
        BY <2>3 DEF IsWalk
      <4> QED BY <1>2, <3>8, <4>1, <4>2, Zenon DEF IsWalk
    <3>10. Looked(m, y) /\ In(y, e, j + 1)
      <4>0. Len(m.c[e].segs) \in Nat /\ j + 1 <= Len(m.c[e].segs)
        BY <3>3, VectorLens DEF In
      <4>1. CASE Len(m.c[e].segs) > j + 1
        <5>1. y = m
          BY <3>6, <4>1
        <5>2. In(m, e, j + 1)
          BY <1>0, <3>3, <4>0, <4>1 DEF In
        <5> QED BY <3>3, <5>1, <5>2, LookedSame
      <4>2. CASE ~(Len(m.c[e].segs) > j + 1)
        <5>1. PICK i : i = j + 1
          OBVIOUS
        <5>2. i = Len(m.c[e].segs) /\ i - 1 = j /\ i \in Seg
          BY <1>0, <3>5, <4>0, <4>2, <5>1
        <5>3. y = mdfd_openseg(m, e, i)
          BY <3>6, <4>2, <5>1
        <5>4. In(m, e, i - 1) /\ IsFull(m.k, m.c[e].rel, i - 1)
          BY <2>7, <3>2, <3>3, <5>2
        <5>5. Looked(m, y) /\ In(y, e, i)
          BY <3>3, <5>2, <5>3, <5>4, OpensegLooks
        <5> QED BY <5>1, <5>5
      <4> QED BY <4>1, <4>2
    <3>11. Looked(x, y)
      BY <2>4, <3>2, <3>10, LookedTrans
    <3>12. Looked(s, y)
      BY <2>3, <3>11, LookedTrans
    <3>13. y.c[e].rel = r
      BY <2>1, <2>3, <2>4, <3>11, LookedIn
    <3>14. FullTo(y.k, r, j + 1)
      <4> SUFFICES ASSUME NEW i \in 0 .. j
                   PROVE  y.k[r][i] # Absent /\ IsFull(y.k, r, i)
        BY <1>0 DEF FullTo
      <4>1. i \in Seg /\ r \in Rel
        <5>1. i \in Nat /\ i <= MaxSeg
          BY <1>0
        <5> QED BY <2>1, <2>3, <5>1, SegFacts DEF In
      <4>2. x.k[r][i] # Absent /\ IsFull(x.k, r, i)
        <5>1. CASE i = j
          BY <2>1, <2>3, <2>4, <2>7, <5>1, InFacts
        <5>2. CASE i # j
          <6>1. i \in 0 .. j - 1
            BY <1>0, <5>2
          <6> QED BY <2>3, <6>1 DEF FullTo
        <5> QED BY <5>1, <5>2
      <4>3. y.k[r][i] = x.k[r][i]
        BY <3>11, <4>1, <4>2 DEF Looked, Opened
      <4> QED BY <4>2, <4>3 DEF IsFull, SegLen
    <3> QED BY <3>9, <3>10, <3>12, <3>13, <3>14 DEF Walked
  <2> QED BY <2>6, <2>7
<1> QED BY <1>1, <1>2

LEMMA WalksAll ==
  ASSUME NEW s, Sound(s), NEW e, In(s, e, 0), NEW t, t = mdnblocks(s, e)
  PROVE  IsWalk(t) /\ Looked(s, t.s) /\ \E i \in Seg : Stops(t.s, e, i, t.n)
<1> DEFINE W(h) == h = [j \in -1 .. MaxSeg |->
                          IF j = -1 THEN [s |-> s, done |-> FALSE, n |-> 0]
                          ELSE Visit(h[j - 1], e, j)]
<1>0. MaxSeg \in Nat
  BY SegFacts
<1>1. PICK w : w = CHOOSE h : W(h)
  OBVIOUS
<1>2. W(w)
  <2>1. \E h : W(h)
    <3>1. PICK n : n = MaxSeg + 1
      OBVIOUS
    <3>2. n \in Nat /\ n - 1 = MaxSeg
      BY <1>0, <3>1
    <3>3. PICK h : IsLoop(h, s, e, n)
      BY <3>2, LoopExists
    <3>4. W(h)
      BY <3>2, <3>3 DEF IsLoop, Begun
    <3> HIDE DEF W
    <3> QED BY <3>4
  <2> HIDE DEF W
  <2> QED BY <1>1, <2>1
<1>3. t = w[MaxSeg]
  BY <1>1 DEF mdnblocks
<1>4. \A j \in -1 .. MaxSeg : Walked(s, e, w[j], j)
  <2>1. PICK B : B = {j \in Nat : j <= MaxSeg + 1 /\ ~ Walked(s, e, w[j - 1], j - 1)}
    OBVIOUS
  <2>2. CASE B = {}
    <3> SUFFICES ASSUME NEW j \in -1 .. MaxSeg PROVE Walked(s, e, w[j], j)
      OBVIOUS
    <3>1. PICK i : i = j + 1
      OBVIOUS
    <3>2. i \in Nat /\ i <= MaxSeg + 1 /\ i - 1 = j
      BY <1>0, <3>1
    <3> QED BY <2>1, <2>2, <3>2
  <2>3. CASE B # {}
    <3>1. PICK i \in B : \A y \in B : i <= y
      <4>1. B \subseteq Nat
        BY <2>1
      <4> QED BY <2>3, <4>1, LeastOf
    <3>2. i \in Nat /\ i <= MaxSeg + 1 /\ ~ Walked(s, e, w[i - 1], i - 1)
      BY <2>1, <3>1
    <3>3. CASE i = 0
      <4>1. PICK o : o = w[-1]
        OBVIOUS
      <4>2. o = [s |-> s, done |-> FALSE, n |-> 0]
        BY <1>0, <1>2, <4>1
      <4>3. o.s = s /\ o.done = FALSE /\ o.n = 0
        BY <4>2
      <4>4. IsWalk(o) /\ ~ o.done
        BY <4>2, <4>3, Zenon DEF IsWalk
      <4>5. FullTo(s.k, s.c[e].rel, 0)
        BY DEF FullTo
      <4>6. Walked(s, e, o, -1)
        <5>1. -1 + 1 = 0
          OBVIOUS
        <5> QED BY <4>3, <4>4, <4>5, <5>1, LookedSame DEF Walked
      <4>7. i - 1 = -1
        BY <3>3
      <4> QED BY <3>2, <4>1, <4>6, <4>7
    <3>4. CASE i # 0
      <4>1. PICK j : j = i - 1
        OBVIOUS
      <4>2. j \in Nat /\ j <= MaxSeg + 1 /\ ~(i <= j) /\ j <= MaxSeg
        BY <1>0, <3>2, <3>4, <4>1
      <4>3. j \notin B
        BY <3>1, <4>2
      <4>4. Walked(s, e, w[j - 1], j - 1)
        BY <2>1, <4>2, <4>3
      <4>5. j \in Seg /\ j \in -1 .. MaxSeg /\ j # -1
        BY <1>0, <4>2, SegFacts
      <4>6. w[j] = Visit(w[j - 1], e, j)
        BY <1>2, <4>5
      <4>7. Walked(s, e, w[j], j)
        BY <4>4, <4>5, <4>6, WalksOn
      <4> QED BY <3>2, <4>1, <4>7
    <3> QED BY <3>3, <3>4
  <2> QED BY <2>2, <2>3
<1> HIDE DEF W
<1>5. Walked(s, e, t, MaxSeg)
  BY <1>0, <1>3, <1>4
<1>6. t.done
  <2> SUFFICES ASSUME ~ t.done PROVE FALSE
    OBVIOUS
  <2>1. In(t.s, e, MaxSeg + 1) /\ Sound(t.s)
    BY <1>5 DEF Walked, Looked
  <2>2. MaxSeg + 1 \in Seg
    BY <2>1, InFacts
  <2>3. MaxSeg + 1 <= MaxSeg
    BY <2>2, SegFacts
  <2> QED BY <1>0, <2>3
<1> QED BY <1>5, <1>6 DEF Walked

-----------------------------------------------------------------------------
(* mdfd_getseg.                                                            *)

\* The files hold what they held; what is new is empty.
SamePages(k, m) ==
  \A r \in Rel, j \in Seg :
    /\ k[r][j] # Absent => m[r][j] # Absent /\ m[r][j].data = k[r][j].data
    /\ k[r][j] = Absent => m[r][j] = Absent \/ (j # 0 /\ m[r][j].data = <<>>)

LEMMA OpenedSame ==
  ASSUME NEW k, NEW m, Opened(k, m)
  PROVE  SamePages(k, m)
BY EmptyFile DEF Opened, SamePages

LEMMA SamePagesTrans ==
  ASSUME NEW k, NEW l, NEW m, SamePages(k, l), SamePages(l, m)
  PROVE  SamePages(k, m)
BY DEF SamePages

LEMMA SameFullTo ==
  ASSUME NEW k, NEW m, SamePages(k, m), NEW r \in Rel, NEW j \in Seg, FullTo(k, r, j)
  PROVE  FullTo(m, r, j)
<1> SUFFICES ASSUME NEW i \in 0 .. j - 1
             PROVE  m[r][i] # Absent /\ IsFull(m, r, i)
  BY DEF FullTo
<1>1. k[r][i] # Absent /\ IsFull(k, r, i)
  BY DEF FullTo
<1>2. i \in Seg
  <2>1. i \in Nat /\ i <= MaxSeg
    BY SegFacts
  <2> QED BY <2>1, SegFacts
<1>3. m[r][i] # Absent /\ m[r][i].data = k[r][i].data
  BY <1>1, <1>2 DEF SamePages
<1> QED BY <1>1, <1>3 DEF IsFull, SegLen

Got(s, e, z, u, j) ==
  Looked(s, u) /\ (j <= z => In(u, e, j)) /\ (j > z => In(u, e, z))

LEMMA GetsOn ==
  ASSUME NEW s, Sound(s), NEW e, NEW b, NEW z, z = SegOf(b), z \in Seg,
         s.c[e].rel \in Rel, FullTo(s.k, s.c[e].rel, z), In(s, e, 0),
         NEW j \in Seg, j # 0, NEW u, Got(s, e, z, u, j - 1),
         NEW t, t = GetStep(u, e, b, j)
  PROVE  Got(s, e, z, t, j)
<1>0. j \in Nat /\ z \in Nat /\ j - 1 \in Nat
  BY SegFacts
<1>1. Looked(s, u) /\ Sound(u) /\ u.c[e].rel = s.c[e].rel
  BY LookedIn DEF Got, Looked
<1>2. CASE j > z
  <2>1. t = u
    BY <1>2 DEF GetStep, SegOf
  <2>2. In(u, e, z)
    <3>1. CASE j - 1 > z
      BY <3>1 DEF Got
    <3>2. CASE j - 1 = z
      <4>1. j - 1 <= z
        BY <1>0, <3>2
      <4> QED BY <3>2, <4>1 DEF Got
    <3> QED BY <1>0, <1>2, <3>1, <3>2
  <2> QED BY <1>0, <1>1, <1>2, <2>1, <2>2 DEF Got
<1>3. CASE ~(j > z)
  <2>0. j <= z /\ j - 1 <= z
    BY <1>0, <1>3
  <2>1. In(u, e, j - 1)
    BY <2>0 DEF Got
  <2>2. Len(u.c[e].segs) \in Nat /\ j <= Len(u.c[e].segs)
    BY <1>0, <1>1, <2>1, VectorLens DEF In
  <2>3. CASE j < Len(u.c[e].segs)
    <3>1. t = u
      BY <2>3 DEF GetStep
    <3>2. In(u, e, j)
      BY <1>0, <2>1, <2>2, <2>3 DEF In
    <3> QED BY <1>1, <1>3, <3>1, <3>2 DEF Got
  <2>4. CASE ~(j < Len(u.c[e].segs))
    <3>1. t = mdfd_openseg(u, e, j)
      BY <1>3, <2>4 DEF GetStep, SegOf
    <3>2. j = Len(u.c[e].segs)
      BY <1>0, <2>2, <2>4
    <3>3. IsFull(u.k, u.c[e].rel, j - 1)
      <4>1. FullTo(u.k, u.c[e].rel, z)
        BY <1>1, OpenedSame, SameFullTo DEF Looked
      <4>2. j - 1 \in 0 .. z - 1
        BY <1>0, <2>0
      <4> QED BY <4>1, <4>2 DEF FullTo
    <3>4. Looked(u, t) /\ In(t, e, j)
      BY <1>1, <2>1, <3>1, <3>2, <3>3, OpensegLooks
    <3>5. Looked(s, t)
      BY <1>1, <3>4, LookedTrans
    <3> QED BY <1>3, <3>4, <3>5 DEF Got
  <2> QED BY <2>3, <2>4
<1> QED BY <1>2, <1>3

LEMMA GetsAll ==
  ASSUME NEW s, Sound(s), NEW e, In(s, e, 0), NEW b, SegOf(b) \in Seg,
         FullTo(s.k, s.c[e].rel, SegOf(b)), NEW t, t = mdfd_getseg(s, e, b)
  PROVE  Looked(s, t) /\ In(t, e, SegOf(b))
<1> DEFINE W(h) == h = [j \in Seg |->
                          IF j = 0 THEN s
                          ELSE IF j > b \div RelsegSize \/ j < Len(h[j - 1].c[e].segs)
                          THEN h[j - 1] ELSE mdfd_openseg(h[j - 1], e, j)]
<1>0. MaxSeg \in Nat /\ MaxSeg \in Seg
  BY SegFacts
<1>1. PICK w : w = CHOOSE h : W(h)
  OBVIOUS
<1>2. W(w)
  <2>1. \E h : W(h)
    <3>1. PICK h : IsGet(h, s, e, b, MaxSeg)
      BY <1>0, GetExists
    <3>2. W(h)
      BY <3>1 DEF IsGet, GetStep, Seg
    <3> HIDE DEF W
    <3> QED BY <3>2
  <2> HIDE DEF W
  <2> QED BY <1>1, <2>1
<1>3. t = w[MaxSeg]
  BY <1>1 DEF mdfd_getseg
<1>4. w[0] = s /\ \A j \in Seg : j # 0 => w[j] = GetStep(w[j - 1], e, b, j)
  BY <1>2, SegFacts DEF GetStep
<1> HIDE DEF W
<1>5. PICK z : z = SegOf(b)
  OBVIOUS
<1>6. z \in Nat /\ z \in Seg /\ z <= MaxSeg
  BY <1>5, SegFacts
<1>7. \A j \in Seg : Got(s, e, z, w[j], j)
  <2>1. PICK B : B = {j \in Seg : ~ Got(s, e, z, w[j], j)}
    OBVIOUS
  <2>2. SUFFICES ASSUME B # {} PROVE FALSE
    BY <2>1
  <2>3. PICK j \in B : \A y \in B : j <= y
    <3>1. B \subseteq Nat
      BY <2>1, SegFacts
    <3> QED BY <2>2, <3>1, LeastOf
  <2>4. j \in Seg /\ ~ Got(s, e, z, w[j], j) /\ j \in Nat
    BY <2>1, <2>3, SegFacts
  <2>5. CASE j = 0
    <3>1. ~(0 > z)
      BY <1>6
    <3>2. Got(s, e, z, s, 0)
      BY <3>1, LookedSame DEF Got
    <3> QED BY <1>4, <2>4, <2>5, <3>2
  <2>6. CASE j # 0
    <3>1. PICK i : i = j - 1
      OBVIOUS
    <3>2. i \in Seg /\ ~(j <= i)
      BY <2>4, <2>6, <3>1, SegFacts
    <3>3. Got(s, e, z, w[i], i)
      BY <2>1, <2>3, <3>2
    <3>4. Got(s, e, z, w[j - 1], j - 1)
      BY <3>1, <3>3
    <3>5. w[j] = GetStep(w[j - 1], e, b, j)
      BY <1>4, <2>4, <2>6
    <3>6. s.c[e].rel \in Rel /\ FullTo(s.k, s.c[e].rel, z)
      BY <1>5 DEF In
    <3> QED BY <1>5, <1>6, <2>4, <2>6, <3>4, <3>5, <3>6, GetsOn
  <2> QED BY <2>5, <2>6
<1>8. Got(s, e, z, t, MaxSeg)
  BY <1>0, <1>3, <1>7
<1>9. In(t, e, z)
  <2>1. CASE MaxSeg = z
    <3>1. MaxSeg <= z
      BY <1>0, <2>1
    <3> QED BY <1>8, <2>1, <3>1 DEF Got
  <2>2. CASE MaxSeg # z
    <3>1. MaxSeg > z
      BY <1>0, <1>6, <2>2
    <3> QED BY <1>8, <3>1 DEF Got
  <2> QED BY <2>1, <2>2
<1> QED BY <1>5, <1>8, <1>9 DEF Got

-----------------------------------------------------------------------------
(* The number of blocks of a relation.                                     *)

\* Segment j is the first that is not full; there are n blocks up to its end.
EndsAt(k, r, j, n) ==
  /\ FullTo(k, r, j)
  /\ \/ k[r][j] = Absent /\ n = j * RelsegSize
     \/ /\ k[r][j] # Absent /\ ~ IsFull(k, r, j)
        /\ n = j * RelsegSize + SegLen(k, r, j)

Counts(k, r, n) == \E j \in Seg : EndsAt(k, r, j, n)

LEMMA SegLenFacts ==
  ASSUME NEW k \in Store, NEW r \in Rel, NEW j \in Seg, k[r][j] # Absent
  PROVE  /\ k[r][j] \in File
         /\ SegLen(k, r, j) \in Nat /\ SegLen(k, r, j) <= RelsegSize
         /\ ~ IsFull(k, r, j) => SegLen(k, r, j) < RelsegSize
<1>1. k[r][j] \in File
  BY DEF Store
<1>2. SegLen(k, r, j) \in Nat /\ SegLen(k, r, j) <= RelsegSize
  BY <1>1, FileFacts, StoredFacts DEF SegLen
<1>3. ~ IsFull(k, r, j) => SegLen(k, r, j) < RelsegSize
  BY <1>2, SizeFacts DEF IsFull
<1> QED BY <1>1, <1>2, <1>3

LEMMA Product ==
  ASSUME NEW j \in Nat
  PROVE  /\ j * RelsegSize \in Nat /\ (j + 1) * RelsegSize = j * RelsegSize + RelsegSize
         /\ 0 * RelsegSize = 0
BY SizeFacts

LEMMA EndsFacts ==
  ASSUME NEW k, Files(k), NEW r \in Rel, NEW j \in Seg, NEW n, EndsAt(k, r, j, n)
  PROVE  n \in Nat /\ j * RelsegSize <= n /\ n < j * RelsegSize + RelsegSize
<1>0. k \in Store /\ j \in Nat
  BY SegFacts DEF Files
<1>1. j * RelsegSize \in Nat
  BY <1>0, Product
<1>2. CASE k[r][j] = Absent
  BY <1>1, <1>2, SizeFacts DEF EndsAt
<1>3. CASE k[r][j] # Absent
  <2>1. SegLen(k, r, j) \in Nat /\ SegLen(k, r, j) < RelsegSize
    BY <1>0, <1>3, SegLenFacts DEF EndsAt
  <2>2. n = j * RelsegSize + SegLen(k, r, j)
    BY <1>3 DEF EndsAt
  <2> QED BY <1>1, <2>1, <2>2, SizeFacts
<1> QED BY <1>2, <1>3

LEMMA EndsOnce ==
  ASSUME NEW k, NEW r \in Rel, NEW i \in Seg, NEW j \in Seg, NEW n, NEW m,
         EndsAt(k, r, i, n), EndsAt(k, r, j, m)
  PROVE  i = j /\ n = m
<1>0. i \in Nat /\ j \in Nat
  BY SegFacts
<1>1. ASSUME NEW x \in Seg, NEW y \in Seg, NEW a, NEW b, EndsAt(k, r, x, a),
             EndsAt(k, r, y, b), x < y
      PROVE  FALSE
  <2>1. x \in 0 .. y - 1
    BY <1>1, SegFacts
  <2>2. k[r][x] # Absent /\ IsFull(k, r, x)
    BY <1>1, <2>1 DEF EndsAt, FullTo
  <2> QED BY <1>1, <2>2 DEF EndsAt
<1>2. ~(i < j) /\ ~(j < i)
  BY <1>1
<1>3. i = j
  BY <1>0, <1>2
<1> QED BY <1>3 DEF EndsAt

LEMMA CountsOnce ==
  ASSUME NEW k, NEW r \in Rel, NEW n, NEW m, Counts(k, r, n), Counts(k, r, m)
  PROVE  n = m
BY EndsOnce DEF Counts

LEMMA EndsSome ==
  ASSUME NEW k, Files(k), NEW r \in Rel
  PROVE  \E j, n : j \in Seg /\ EndsAt(k, r, j, n)
<1>1. PICK T : T = {j \in Seg : ~(k[r][j] # Absent /\ IsFull(k, r, j))}
  OBVIOUS
<1>2. MaxSeg \in T
  BY <1>1, SegFacts DEF Files, Gapless
<1>3. PICK j \in T : \A y \in T : j <= y
  <2>1. T \subseteq Nat
    BY <1>1, SegFacts
  <2> QED BY <1>2, <2>1, LeastOf
<1>4. j \in Seg /\ ~(k[r][j] # Absent /\ IsFull(k, r, j)) /\ j \in Nat /\ j <= MaxSeg
  BY <1>1, <1>3, SegFacts
<1>5. FullTo(k, r, j)
  <2> SUFFICES ASSUME NEW i \in 0 .. j - 1
               PROVE  k[r][i] # Absent /\ IsFull(k, r, i)
    BY DEF FullTo
  <2>1. i \in Nat /\ i <= MaxSeg /\ ~(j <= i)
    BY <1>4, SegFacts
  <2>2. i \in Seg /\ i \notin T
    BY <1>3, <2>1, SegFacts
  <2> QED BY <1>1, <2>2
<1>6. PICK n : n = IF k[r][j] = Absent THEN j * RelsegSize
                   ELSE j * RelsegSize + SegLen(k, r, j)
  OBVIOUS
<1>7. EndsAt(k, r, j, n)
  BY <1>4, <1>5, <1>6 DEF EndsAt
<1> QED BY <1>4, <1>7

\* The segments before an existing one are full.
LEMMA FullBelow ==
  ASSUME NEW k, Files(k), NEW r \in Rel, NEW j \in Seg, k[r][j] # Absent
  PROVE  FullTo(k, r, j)
<1>1. PICK z, n : z \in Seg /\ EndsAt(k, r, z, n)
  BY EndsSome
<1>2. z \in Nat /\ j \in Nat /\ j <= MaxSeg
  BY <1>1, SegFacts
<1>3. ~(z < j)
  <2> SUFFICES ASSUME z < j PROVE FALSE
    OBVIOUS
  <2>1. PICK T : T = {i \in Seg : z < i /\ k[r][i] # Absent}
    OBVIOUS
  <2>2. PICK i \in T : \A y \in T : i <= y
    <3>1. T \subseteq Nat /\ j \in T
      BY <2>1, SegFacts
    <3> QED BY <3>1, LeastOf
  <2>3. i \in Seg /\ z < i /\ k[r][i] # Absent /\ i \in Nat
    BY <2>1, <2>2, SegFacts
  <2>4. i # 0
    BY <1>2, <2>3
  <2>5. i - 1 \in Seg /\ ~(i <= i - 1)
    BY <2>3, <2>4, SegFacts
  <2>6. k[r][i - 1] # Absent /\ IsFull(k, r, i - 1)
    BY <2>3, <2>4 DEF Files, Gapless
  <2>7. ~(z < i - 1)
    BY <2>1, <2>2, <2>5, <2>6
  <2>8. i - 1 = z
    BY <1>2, <2>3, <2>7
  <2> QED BY <1>1, <2>6, <2>8 DEF EndsAt
<1>4. FullTo(k, r, z)
  BY <1>1 DEF EndsAt
<1> QED BY <1>2, <1>3, <1>4 DEF FullTo

LEMMA CountsSame ==
  ASSUME NEW k, NEW m, SamePages(k, m), NEW r \in Rel, NEW n, Counts(k, r, n)
  PROVE  Counts(m, r, n)
<1>1. PICK j \in Seg : EndsAt(k, r, j, n)
  BY DEF Counts
<1>2. FullTo(m, r, j)
  BY <1>1, SameFullTo DEF EndsAt
<1>3. CASE k[r][j] # Absent
  <2>1. m[r][j] # Absent /\ m[r][j].data = k[r][j].data
    BY <1>3 DEF SamePages
  <2>2. EndsAt(m, r, j, n)
    BY <1>1, <1>2, <1>3, <2>1 DEF EndsAt, IsFull, SegLen
  <2> QED BY <2>2 DEF Counts
<1>4. CASE k[r][j] = Absent
  <2>0. n = j * RelsegSize
    BY <1>1, <1>4 DEF EndsAt
  <2>1. CASE m[r][j] = Absent
    BY <1>2, <2>0, <2>1 DEF EndsAt, Counts
  <2>2. CASE m[r][j] # Absent
    <3>1. m[r][j].data = <<>>
      BY <1>4, <2>2 DEF SamePages
    <3>2. SegLen(m, r, j) = 0
      BY <3>1, EmptyFacts DEF SegLen
    <3>3. ~ IsFull(m, r, j)
      BY <3>2, SizeFacts DEF IsFull
    <3>4. n = j * RelsegSize + SegLen(m, r, j)
      <4>1. j * RelsegSize \in Nat
        BY Product, SegFacts
      <4> QED BY <2>0, <3>2, <4>1
    <3>5. EndsAt(m, r, j, n)
      BY <1>2, <2>2, <3>3, <3>4 DEF EndsAt
    <3> QED BY <3>5 DEF Counts
  <2> QED BY <2>1, <2>2
<1> QED BY <1>3, <1>4

LEMMA EndsSeg ==
  ASSUME NEW k, Files(k), NEW r \in Rel, NEW n, Counts(k, r, n)
  PROVE  /\ n \in Nat /\ SegOf(n) \in Seg /\ EndsAt(k, r, SegOf(n), n)
<1>1. PICK j \in Seg : EndsAt(k, r, j, n)
  BY DEF Counts
<1>2. n \in Nat /\ j * RelsegSize <= n /\ n < j * RelsegSize + RelsegSize
  BY <1>1, EndsFacts
<1>3. j \in Nat
  BY <1>1, SegFacts
<1>4. j * RelsegSize \in Nat
  BY <1>3, Product
<1>5. PICK i : i = n - j * RelsegSize
  OBVIOUS
<1>6. i \in Nat /\ i < RelsegSize /\ n = j * RelsegSize + i
  BY <1>2, <1>4, <1>5, SizeFacts
<1>7. SegOf(n) = j
  BY <1>3, <1>6, LocatedOnce
<1> QED BY <1>1, <1>2, <1>7

LEMMA StopsCounts ==
  ASSUME NEW u, Sound(u), NEW e, NEW j \in Seg, NEW n, Stops(u, e, j, n)
  PROVE  /\ EndsAt(u.k, u.c[e].rel, j, n) /\ Counts(u.k, u.c[e].rel, n)
         /\ u.k[u.c[e].rel][j] # Absent
         /\ n \in Nat /\ SegOf(n) = j /\ PosOf(n) = SegLen(u.k, u.c[e].rel, j)
<1>1. PICK r, k : r = u.c[e].rel /\ k = u.k
  OBVIOUS
<1>2. r \in Rel /\ k[r][j] # Absent /\ k \in Store /\ j \in Nat
  BY <1>1, InFacts, SegFacts DEF Stops, In
<1>3. EndsAt(k, r, j, n)
  BY <1>1, <1>2 DEF Stops, EndsAt
<1>4. SegLen(k, r, j) \in Nat /\ SegLen(k, r, j) < RelsegSize
  BY <1>2, <1>3, SegLenFacts DEF EndsAt
<1>5. n = j * RelsegSize + SegLen(k, r, j)
  BY <1>2, <1>3 DEF EndsAt
<1>6. n \in Nat /\ SegOf(n) = j /\ PosOf(n) = SegLen(k, r, j)
  BY <1>2, <1>4, <1>5, LocatedOnce
<1> QED BY <1>1, <1>2, <1>3, <1>6 DEF Counts

\* A block of the relation is in an existing segment.
LEMMA BlockIn ==
  ASSUME NEW k, Files(k), NEW r \in Rel, NEW n, Counts(k, r, n), NEW b \in Nat, b < n
  PROVE  /\ SegOf(b) \in Seg /\ k[r][SegOf(b)] # Absent
         /\ PosOf(b) < SegLen(k, r, SegOf(b)) /\ FullTo(k, r, SegOf(b))
<1>1. PICK j \in Seg : EndsAt(k, r, j, n)
  BY DEF Counts
<1>2. PICK q, i : q = SegOf(b) /\ i = PosOf(b)
  OBVIOUS
<1>3. q \in Nat /\ i \in Nat /\ i < RelsegSize /\ b = q * RelsegSize + i
  BY <1>2, Located
<1>4. j \in Nat /\ j <= MaxSeg /\ MaxSeg \in Nat /\ k \in Store
  BY SegFacts DEF Files
<1>5. n \in Nat /\ n < j * RelsegSize + RelsegSize /\ j * RelsegSize \in Nat
      /\ q * RelsegSize \in Nat
  BY <1>1, <1>3, <1>4, EndsFacts, Product
<1>6. ~(j < q)
  <2>1. j < q => j * RelsegSize + RelsegSize <= q * RelsegSize
    BY <1>3, <1>4, Times
  <2> QED BY <1>3, <1>5, <2>1, SizeFacts
<1>7. q \in Seg
  <2>1. q <= MaxSeg
    BY <1>3, <1>4, <1>6
  <2> QED BY <1>3, <2>1, SegFacts
<1>8. k[r][q] # Absent /\ i < SegLen(k, r, q)
  <2>1. CASE q = j
    <3>1. k[r][j] # Absent
      <4> SUFFICES ASSUME k[r][j] = Absent PROVE FALSE
        OBVIOUS
      <4>1. n = j * RelsegSize
        BY <1>1 DEF EndsAt
      <4> QED BY <1>3, <1>5, <2>1, <4>1
    <3>2. n = j * RelsegSize + SegLen(k, r, j)
      BY <1>1, <3>1 DEF EndsAt
    <3>3. SegLen(k, r, j) \in Nat
      BY <1>4, <3>1, SegLenFacts
    <3> QED BY <1>3, <1>5, <2>1, <3>1, <3>2, <3>3
  <2>2. CASE q # j
    <3>1. q \in 0 .. j - 1
      BY <1>3, <1>4, <1>6, <2>2
    <3>2. k[r][q] # Absent /\ IsFull(k, r, q)
      BY <1>1, <3>1 DEF EndsAt, FullTo
    <3> QED BY <1>3, <3>2 DEF IsFull
  <2> QED BY <2>1, <2>2
<1>9. FullTo(k, r, q)
  BY <1>7, <1>8, FullBelow
<1> QED BY <1>2, <1>7, <1>8, <1>9

LEMMA NBlocksIs ==
  ASSUME Files(file), NEW r \in Rel
  PROVE  Counts(file, r, NBlocks(r))
<1> DEFINE W(h) == h = [j \in Seg |->
                          IF file[r][j] = Absent THEN 0
                          ELSE SegLen(file, r, j)
                               + (IF j < MaxSeg /\ SegLen(file, r, j) = RelsegSize
                                  THEN h[j + 1] ELSE 0)]
<1>1. PICK z, n : z \in Seg /\ EndsAt(file, r, z, n)
  BY EndsSome
<1>2. /\ z \in Nat /\ z <= MaxSeg /\ MaxSeg \in Nat /\ n \in Nat
      /\ file \in Store /\ z * RelsegSize \in Nat
  BY <1>1, EndsFacts, SegFacts, Product DEF Files
<1>3. ASSUME NEW j \in Seg
      PROVE  /\ j \in Nat /\ j * RelsegSize \in Nat
             /\ j < z => /\ file[r][j] # Absent /\ SegLen(file, r, j) = RelsegSize
                         /\ j < MaxSeg /\ j + 1 \in Seg
             /\ j = z => /\ file[r][j] = Absent => n = j * RelsegSize
                         /\ file[r][j] # Absent =>
                              /\ SegLen(file, r, j) # RelsegSize
                              /\ n = j * RelsegSize + SegLen(file, r, j)
             /\ j > z => file[r][j] = Absent
  <2>1. j \in Nat /\ j * RelsegSize \in Nat /\ j <= MaxSeg
    BY SegFacts, Product
  <2>2. ASSUME j < z
        PROVE  /\ file[r][j] # Absent /\ SegLen(file, r, j) = RelsegSize
               /\ j < MaxSeg /\ j + 1 \in Seg
    <3>1. j \in 0 .. z - 1 /\ j < MaxSeg /\ j + 1 \in Nat /\ j + 1 <= MaxSeg
      BY <1>2, <2>1, <2>2
    <3>2. j + 1 \in Seg
      BY <3>1, SegFacts
    <3> QED BY <1>1, <3>1, <3>2 DEF EndsAt, FullTo, IsFull
  <2>3. ASSUME j = z
        PROVE  /\ file[r][j] = Absent => n = j * RelsegSize
               /\ file[r][j] # Absent =>
                    /\ SegLen(file, r, j) # RelsegSize
                    /\ n = j * RelsegSize + SegLen(file, r, j)
    BY <1>1, <2>3 DEF EndsAt, IsFull
  <2>4. ASSUME j > z PROVE file[r][j] = Absent
    <3> SUFFICES ASSUME file[r][j] # Absent PROVE FALSE
      OBVIOUS
    <3>1. FullTo(file, r, j)
      BY FullBelow
    <3>2. z \in 0 .. j - 1
      BY <1>2, <2>1, <2>4
    <3> QED BY <1>1, <3>1, <3>2 DEF EndsAt, FullTo
  <2> QED BY <2>1, <2>2, <2>3, <2>4
\* The blocks from segment j on.
<1>4. PICK h : h = [j \in Seg |-> IF file[r][j] = Absent THEN 0 ELSE n - j * RelsegSize]
  OBVIOUS
<1>5. W(h)
  <2>1. ASSUME NEW j \in Seg
        PROVE  h[j] = IF file[r][j] = Absent THEN 0
                      ELSE SegLen(file, r, j)
                           + (IF j < MaxSeg /\ SegLen(file, r, j) = RelsegSize
                              THEN h[j + 1] ELSE 0)
    <3>1. CASE file[r][j] = Absent
      BY <1>4, <3>1
    <3>2. CASE file[r][j] # Absent /\ j = z
      <4>1. h[j] = n - j * RelsegSize
        BY <1>4, <3>2
      <4>2. n = j * RelsegSize + SegLen(file, r, j) /\ SegLen(file, r, j) # RelsegSize
            /\ j * RelsegSize \in Nat
        BY <1>3, <3>2
      <4>3. SegLen(file, r, j) \in Nat
        BY <1>2, <3>2, SegLenFacts
      <4>4. h[j] = SegLen(file, r, j) + 0
        BY <1>2, <4>1, <4>2, <4>3
      <4> QED BY <3>2, <4>2, <4>4
    <3>3. CASE j < z
      <4>1. file[r][j] # Absent /\ SegLen(file, r, j) = RelsegSize
            /\ j < MaxSeg /\ j + 1 \in Seg /\ j \in Nat /\ j * RelsegSize \in Nat
        BY <1>3, <3>3
      <4>2. PICK i : i = j + 1
        OBVIOUS
      <4>3. i \in Seg /\ i * RelsegSize = j * RelsegSize + RelsegSize
            /\ i * RelsegSize \in Nat /\ (i < z \/ i = z)
        BY <1>2, <1>3, <3>3, <4>1, <4>2, Product
      <4>4. h[i] = n - i * RelsegSize
        <5>1. CASE file[r][i] = Absent
          <6>1. i = z
            BY <1>3, <4>3, <5>1
          <6>2. n = i * RelsegSize
            BY <1>3, <4>3, <5>1, <6>1
          <6> QED BY <1>2, <1>4, <4>3, <5>1, <6>2
        <5>2. CASE file[r][i] # Absent
          BY <1>4, <4>3, <5>2
        <5> QED BY <5>1, <5>2
      <4>5. h[j] = n - j * RelsegSize
        BY <1>4, <4>1
      <4>6. h[j] = RelsegSize + h[i]
        BY <1>2, <4>1, <4>3, <4>4, <4>5, SizeFacts
      <4> QED BY <4>1, <4>2, <4>6
    <3>4. j < z \/ j = z \/ j > z
      BY <1>2, <1>3
    <3> QED BY <1>3, <3>1, <3>2, <3>3, <3>4
  <2> QED BY <1>4, <2>1
<1>6. PICK w : w = CHOOSE f : W(f)
  OBVIOUS
<1>7. W(w)
  <2> HIDE DEF W
  <2> QED BY <1>5, <1>6
<1>8. NBlocks(r) = w[0]
  BY <1>6 DEF NBlocks
<1>9. ASSUME NEW d \in Nat, d <= z PROVE w[z - d] = n - (z - d) * RelsegSize
  <2>1. PICK B : B = {x \in Nat : x <= z /\ w[z - x] # n - (z - x) * RelsegSize}
    OBVIOUS
  <2>2. SUFFICES ASSUME B # {} PROVE FALSE
    BY <1>9, <2>1
  <2>3. PICK x \in B : \A y \in B : x <= y
    <3>1. B \subseteq Nat
      BY <2>1
    <3> QED BY <2>2, <3>1, LeastOf
  <2>4. x \in Nat /\ x <= z /\ w[z - x] # n - (z - x) * RelsegSize
    BY <2>1, <2>3
  <2>5. PICK j : j = z - x
    OBVIOUS
  <2>6. j \in Seg
    <3>1. j \in Nat /\ j <= MaxSeg
      BY <1>2, <2>4, <2>5
    <3> QED BY <3>1, SegFacts
  <2>7. w[j] # n - j * RelsegSize
    BY <2>4, <2>5
  <2>8. w[j] = IF file[r][j] = Absent THEN 0
               ELSE SegLen(file, r, j)
                    + (IF j < MaxSeg /\ SegLen(file, r, j) = RelsegSize
                       THEN w[j + 1] ELSE 0)
    BY <1>7, <2>6
  <2>9. CASE x = 0
    <3>1. j = z
      BY <1>2, <2>5, <2>9
    <3>2. CASE file[r][j] = Absent
      <4>1. n = j * RelsegSize /\ w[j] = 0
        BY <1>3, <2>6, <2>8, <3>1, <3>2
      <4> QED BY <1>2, <2>7, <4>1
    <3>3. CASE file[r][j] # Absent
      <4>1. SegLen(file, r, j) # RelsegSize /\ n = j * RelsegSize + SegLen(file, r, j)
            /\ j * RelsegSize \in Nat
        BY <1>3, <2>6, <3>1, <3>3
      <4>2. SegLen(file, r, j) \in Nat
        BY <1>2, <2>6, <3>3, SegLenFacts
      <4>3. w[j] = SegLen(file, r, j) + 0
        BY <2>8, <3>3, <4>1
      <4> QED BY <1>2, <2>7, <4>1, <4>2, <4>3
    <3> QED BY <3>2, <3>3
  <2>10. CASE x # 0
    <3>1. j < z
      BY <1>2, <2>4, <2>5, <2>10
    <3>2. file[r][j] # Absent /\ SegLen(file, r, j) = RelsegSize
          /\ j < MaxSeg /\ j \in Nat /\ j * RelsegSize \in Nat
      BY <1>3, <2>6, <3>1
    <3>3. x - 1 \in Nat /\ x - 1 <= z /\ ~(x <= x - 1) /\ z - (x - 1) = j + 1
      BY <1>2, <2>4, <2>5, <2>10
    <3>4. x - 1 \notin B
      BY <2>3, <3>3
    <3>5. w[z - (x - 1)] = n - (z - (x - 1)) * RelsegSize
      BY <2>1, <3>3, <3>4
    <3>6. w[j + 1] = n - (j + 1) * RelsegSize
      BY <3>3, <3>5
    <3>7. (j + 1) * RelsegSize = j * RelsegSize + RelsegSize
      BY <3>2, Product
    <3>8. w[j] = RelsegSize + w[j + 1]
      BY <2>8, <3>2
    <3> QED BY <1>2, <2>7, <3>2, <3>6, <3>7, <3>8, SizeFacts
  <2> QED BY <2>9, <2>10
<1> HIDE DEF W
<1>10. w[0] = n
  <2>1. w[z - z] = n - (z - z) * RelsegSize
    BY <1>2, <1>9
  <2>2. z - z = 0 /\ 0 * RelsegSize = 0
    BY <1>2, Product
  <2> QED BY <1>2, <2>1, <2>2
<1> QED BY <1>1, <1>8, <1>10 DEF Counts

-----------------------------------------------------------------------------
(* Changing a file and the flags of the segment that leads to it.          *)

LEMMA FilesPut ==
  ASSUME NEW k, Files(k), NEW r \in Rel, NEW j \in Seg, k[r][j] # Absent,
         NEW f \in File, IsFull(k, r, j) => Len(f.data) = RelsegSize,
         j = MaxSeg => Len(f.data) # RelsegSize,
         NEW m, FilePut(k, m, r, j, f)
  PROVE  Files(m) /\ Grows(k, m)
<1>1. /\ m \in Store /\ m[r][j] = f
      /\ \A x \in Rel, y \in Seg : ~(x = r /\ y = j) => m[x][y] = k[x][y]
  BY DEF FilePut
<1>2. f # Absent
  BY FileFacts
<1>3. Grows(k, m)
  <2> SUFFICES ASSUME NEW x \in Rel, NEW y \in Seg, k[x][y] # Absent
               PROVE  m[x][y] # Absent /\ (IsFull(k, x, y) => IsFull(m, x, y))
    BY DEF Grows
  <2>1. CASE x = r /\ y = j
    BY <1>1, <1>2, <2>1 DEF IsFull, SegLen
  <2>2. CASE ~(x = r /\ y = j)
    <3>1. m[x][y] = k[x][y]
      BY <1>1, <2>2
    <3> QED BY <3>1 DEF IsFull, SegLen
  <2> QED BY <2>1, <2>2
<1>4. ASSUME NEW x \in Rel PROVE Gapless(m, x)
  <2>1. Gapless(k, x)
    BY DEF Files
  <2>2. ASSUME NEW y \in Seg, y # 0, m[x][y] # Absent
        PROVE  m[x][y - 1] # Absent /\ IsFull(m, x, y - 1)
    <3>1. k[x][y] # Absent
      <4>1. CASE x = r /\ y = j
        BY <4>1
      <4>2. CASE ~(x = r /\ y = j)
        BY <1>1, <2>2, <4>2
      <4> QED BY <4>1, <4>2
    <3>2. k[x][y - 1] # Absent /\ IsFull(k, x, y - 1)
      BY <2>1, <2>2, <3>1 DEF Gapless
    <3>3. y - 1 \in Seg
      BY <2>2, SegFacts
    <3> QED BY <1>3, <3>2, <3>3 DEF Grows
  <2>3. ASSUME m[x][MaxSeg] # Absent PROVE ~ IsFull(m, x, MaxSeg)
    <3>1. CASE x = r /\ MaxSeg = j
      BY <1>1, <3>1 DEF IsFull, SegLen
    <3>2. CASE ~(x = r /\ MaxSeg = j)
      <4>1. m[x][MaxSeg] = k[x][MaxSeg]
        BY <1>1, <3>2, SegFacts
      <4> QED BY <2>1, <2>3, <4>1 DEF Gapless, IsFull, SegLen
    <3> QED BY <3>1, <3>2
  <2> QED BY <2>2, <2>3 DEF Gapless
<1> QED BY <1>1, <1>3, <1>4 DEF Files

\* The same entries, and chains of the same length.
Shaped(c, d) ==
  /\ Len(d) = Len(c)
  /\ \A x \in 1 .. Len(c) : d[x].rel = c[x].rel /\ Len(d[x].segs) = Len(c[x].segs)

\* Segment j of entry e gets flags g, with a change of the files or without.
Turned(s, t, e, j, g) ==
  /\ IsState(t) /\ Files(t.k) /\ Grows(s.k, t.k)
  /\ g \in Flags /\ SegPut(s.c, t.c, e, j + 1, g)
  /\ g.lst = RelsegSize => IsFull(t.k, s.c[e].rel, j)

LEMMA ShapedIn ==
  ASSUME NEW s, NEW t, Shaped(s.c, t.c), NEW x, NEW y
  PROVE  /\ In(s, x, y) <=> In(t, x, y)
         /\ In(s, x, y) => t.c[x].rel = s.c[x].rel
BY DEF Shaped, In

LEMMA TurnedFacts ==
  ASSUME NEW s, Sound(s), NEW e, NEW j, In(s, e, j), NEW t, NEW g,
         Turned(s, t, e, j, g)
  PROVE  /\ Sound(t) /\ Shaped(s.c, t.c) /\ Of(t, e, j) = g
         /\ \A x, y : In(s, x, y) /\ ~(x = e /\ y = j) => Of(t, x, y) = Of(s, x, y)
<1>1. Vector(t.k, t.c)
  BY VectorPut DEF Turned
<1>2. Sound(t)
  BY <1>1 DEF Turned, Sound
<1>3. /\ Len(t.c) = Len(s.c) /\ t.c[e].rel = s.c[e].rel
      /\ \A x \in 1 .. Len(s.c) : x # e => t.c[x] = s.c[x]
      /\ Len(t.c[e].segs) = Len(s.c[e].segs) /\ t.c[e].segs[j + 1] = g
      /\ \A y \in 1 .. Len(s.c[e].segs) : y # j + 1 => t.c[e].segs[y] = s.c[e].segs[y]
  BY DEF Turned, SegPut, OnlyEntry
<1>4. Shaped(s.c, t.c)
  <2>1. ASSUME NEW x \in 1 .. Len(s.c)
        PROVE  t.c[x].rel = s.c[x].rel /\ Len(t.c[x].segs) = Len(s.c[x].segs)
    BY <1>3
  <2> QED BY <1>3, <2>1 DEF Shaped
<1>5. Of(t, e, j) = g
  BY <1>3 DEF Of
<1>6. ASSUME NEW x, NEW y, In(s, x, y), ~(x = e /\ y = j)
      PROVE  Of(t, x, y) = Of(s, x, y)
  <2>1. x \in 1 .. Len(s.c) /\ y \in Nat /\ j \in Nat /\ y + 1 \in 1 .. Len(s.c[x].segs)
    BY <1>6, InFacts DEF In
  <2>2. CASE x # e
    BY <1>3, <2>1, <2>2 DEF Of
  <2>3. CASE x = e
    <3>1. y + 1 # j + 1
      BY <1>6, <2>1, <2>3
    <3> QED BY <1>3, <2>1, <2>3, <3>1 DEF Of
  <2> QED BY <2>2, <2>3
<1> QED BY <1>2, <1>4, <1>5, <1>6

LEMMA GrowsSame ==
  ASSUME NEW k
  PROVE  Grows(k, k) /\ SamePages(k, k)
BY DEF Grows, SamePages

LEMMA SameGrows ==
  ASSUME NEW k, NEW m, SamePages(k, m)
  PROVE  Grows(k, m)
BY DEF SamePages, Grows, IsFull, SegLen

LEMMA GrowsTrans ==
  ASSUME NEW k, NEW l, NEW m, Grows(k, l), Grows(l, m)
  PROVE  Grows(k, m)
BY DEF Grows

LEMMA ReflaggedTurns ==
  ASSUME NEW s, Sound(s), NEW e, NEW j, In(s, e, j), NEW t, NEW g \in Flags,
         Reflagged(s, t, e, j, g),
         g.lst = RelsegSize => IsFull(s.k, s.c[e].rel, j)
  PROVE  Turned(s, t, e, j, g)
BY GrowsSame DEF Reflagged, Turned, Sound

LEMMA RefiledTurns ==
  ASSUME NEW s, Sound(s), NEW e, NEW j, In(s, e, j), NEW t, NEW f \in File,
         NEW g \in Flags, Refiled(s, t, e, j, f, g),
         IsFull(s.k, s.c[e].rel, j) => Len(f.data) = RelsegSize,
         j = MaxSeg => Len(f.data) # RelsegSize,
         g.lst = RelsegSize => Len(f.data) = RelsegSize
  PROVE  Turned(s, t, e, j, g)
<1>1. PICK r : r = s.c[e].rel
  OBVIOUS
<1>2. r \in Rel /\ j \in Seg /\ s.k[r][j] # Absent /\ Files(s.k)
  BY <1>1, InFacts DEF In, Sound
<1>3. FilePut(s.k, t.k, r, j, f)
  BY <1>1 DEF Refiled
<1>4. IsFull(s.k, r, j) => Len(f.data) = RelsegSize
  BY <1>1
<1>5. Files(t.k) /\ Grows(s.k, t.k)
  BY <1>2, <1>3, <1>4, FilesPut
<1>6. g.lst = RelsegSize => IsFull(t.k, r, j)
  BY <1>3 DEF FilePut, IsFull, SegLen
<1> QED BY <1>1, <1>5, <1>6 DEF Refiled, Turned

-----------------------------------------------------------------------------
(* What is to be forced.                                                   *)

\* Segment j of r is on disk, as far as it goes.
Forced(k, r, j) ==
  /\ k[r][j] \in File
  /\ \A i \in 1 .. Len(k[r][j].data) :
       i <= Len(k[r][j].disk) /\ k[r][j].disk[i] = k[r][j].data[i]

LEMMA ForcedBlock ==
  ASSUME NEW k, NEW r, NEW b \in Nat, Forced(k, r, SegOf(b))
  PROVE  ~ Unforced(k, <<r, b>>)
<1>1. PICK f, i : f = k[r][SegOf(b)] /\ i = PosOf(b) + 1
  OBVIOUS
<1>2. f \in File /\ \A y \in 1 .. Len(f.data) : y <= Len(f.disk) /\ f.disk[y] = f.data[y]
  BY <1>1 DEF Forced
<1>3. i \in Nat /\ i >= 1 /\ Len(f.data) \in Nat
  <2>1. PosOf(b) \in Nat
    BY Located
  <2>2. f.data \in Stored
    BY <1>2, FileFacts
  <2>3. Len(f.data) \in Nat
    BY <2>2, StoredFacts
  <2> QED BY <1>1, <2>1, <2>3
<1>4. PICK w : w = <<r, b>>
  OBVIOUS
<1>5. w[1] = r /\ w[2] = b
  BY <1>4
<1>6. Unforced(k, w) <=> i <= Len(f.data) /\ (i <= Len(f.disk) => f.disk[i] # f.data[i])
  <2>1. f = k[w[1]][w[2] \div RelsegSize] /\ i = (w[2] % RelsegSize) + 1
    BY <1>1, <1>5 DEF SegOf, PosOf
  <2> QED BY <2>1 DEF Unforced
<1>7. i <= Len(f.data) => i <= Len(f.disk) /\ f.disk[i] = f.data[i]
  BY <1>2, <1>3
<1> QED BY <1>4, <1>6, <1>7

\* Entry e remembers segment j of r, or it is on disk.
Due(s, e, r, j) == Marked(s.c, e, r, j) \/ Forced(s.k, r, j)

Settled(s, t) ==
  \A e \in 1 .. Len(s.c), r \in Rel, j \in Seg : Due(s, e, r, j) => Due(t, e, r, j)

Remarked(c, d) ==
  \A e \in 1 .. Len(c), r \in Rel, j \in Seg : Marked(c, e, r, j) => Marked(d, e, r, j)

\* What a call does to the marks it finds.
Pays(s, t) ==
  \A e \in 1 .. Len(s.c), r \in Rel, j \in Seg : Marked(s.c, e, r, j) => Due(t, e, r, j)

Kept(c, d) ==
  Len(c) <= Len(d) /\ \A x \in 1 .. Len(c) : d[x].rel = c[x].rel

LEMMA KeptTrans ==
  ASSUME NEW b, NEW c, NEW d, Kept(b, c), Kept(c, d), Len(b) \in Nat, Len(c) \in Nat,
         Len(d) \in Nat
  PROVE  Kept(b, d)
<1>1. PICK l, m, n : l = Len(b) /\ m = Len(c) /\ n = Len(d)
  OBVIOUS
<1>2. l \in Nat /\ m \in Nat /\ n \in Nat /\ l <= m /\ m <= n
  BY <1>1 DEF Kept
<1>3. l <= n /\ \A x \in 1 .. l : x \in 1 .. m
  BY <1>2
<1> QED BY <1>1, <1>3 DEF Kept

LEMMA ShapedKept ==
  ASSUME NEW s, Sound(s), NEW t, Shaped(s.c, t.c)
  PROVE  Kept(s.c, t.c)
<1>1. Len(s.c) \in Nat
  BY VectorLens
<1> QED BY <1>1 DEF Shaped, Kept

LEMMA SettledTrans ==
  ASSUME NEW s, NEW t, NEW u, Len(s.c) = Len(t.c), Settled(s, t), Settled(t, u)
  PROVE  Settled(s, u)
BY DEF Settled

LEMMA MarkedIn ==
  ASSUME NEW s, Sound(s), NEW e \in 1 .. Len(s.c), NEW r \in Rel, NEW j \in Seg
  PROVE  Marked(s.c, e, r, j) <=> /\ In(s, e, j) /\ s.c[e].rel = r
                                  /\ Of(s, e, j).dirty /\ Of(s, e, j).fdirty
<1>1. j \in Nat
  BY SegFacts
<1>2. PICK a : a = s.c[e].segs[j + 1]
  OBVIOUS
<1>3. Marked(s.c, e, r, j) <=> /\ s.c[e].rel = r /\ j + 1 <= Len(s.c[e].segs)
                               /\ a.dirty /\ a.fdirty
  BY <1>2, Zenon DEF Marked
<1>4. s.c[e].rel = r => (In(s, e, j) <=> j + 1 <= Len(s.c[e].segs))
  BY <1>1 DEF In
<1> QED BY <1>2, <1>3, <1>4, Zenon DEF Of

LEMMA LookedDoes ==
  ASSUME NEW s, Sound(s), NEW t, Looked(s, t)
  PROVE  /\ Sound(t) /\ SamePages(s.k, t.k) /\ Kept(s.c, t.c) /\ Remarked(s.c, t.c)
         /\ Len(t.c) = Len(s.c)
<1>1. Sound(t) /\ SamePages(s.k, t.k)
  BY OpenedSame DEF Looked
<1>2. Kept(s.c, t.c) /\ Len(t.c) = Len(s.c)
  <2>1. Len(s.c) \in Nat
    BY VectorLens
  <2> QED BY <2>1 DEF Looked, Longer, Kept
<1>3. ASSUME NEW e \in 1 .. Len(s.c), NEW r \in Rel, NEW j \in Seg,
             Marked(s.c, e, r, j)
      PROVE  Marked(t.c, e, r, j)
  <2>1. In(s, e, j) /\ s.c[e].rel = r /\ s.c[e].segs[j + 1].dirty
        /\ s.c[e].segs[j + 1].fdirty
    BY <1>3, MarkedIn DEF Of
  <2>2. j + 1 \in 1 .. Len(s.c[e].segs)
    BY <2>1, InFacts
  <2>3. In(t, e, j) /\ t.c[e].rel = r
    BY <2>1, LookedIn
  <2>4. t.c[e].segs[j + 1].dirty /\ t.c[e].segs[j + 1].fdirty
    BY <2>1, <2>2 DEF Looked, Longer
  <2> QED BY <2>3, <2>4 DEF Marked, In
<1> QED BY <1>1, <1>2, <1>3 DEF Remarked

\* Marks that a turned segment leaves alone.
LEMMA TurnedMarks ==
  ASSUME NEW s, Sound(s), NEW e, NEW j, In(s, e, j), NEW t, NEW g,
         Turned(s, t, e, j, g), NEW x \in 1 .. Len(s.c), NEW r \in Rel, NEW y \in Seg,
         Marked(s.c, x, r, y), ~(x = e /\ y = j)
  PROVE  Marked(t.c, x, r, y)
<1>1. In(s, x, y) /\ s.c[x].rel = r /\ Of(s, x, y).dirty /\ Of(s, x, y).fdirty
  BY MarkedIn
<1>2. /\ Sound(t) /\ Shaped(s.c, t.c)
      /\ \A a, b : In(s, a, b) /\ ~(a = e /\ b = j) => Of(t, a, b) = Of(s, a, b)
  BY TurnedFacts
<1>3. Of(t, x, y) = Of(s, x, y) /\ In(t, x, y) /\ t.c[x].rel = r
  BY <1>1, <1>2, ShapedIn
<1>4. x \in 1 .. Len(t.c)
  BY <1>2 DEF Shaped
<1> QED BY <1>1, <1>2, <1>3, <1>4, MarkedIn

\* The flags of a segment turn, and a mark on it stays.
LEMMA TurnedRemarks ==
  ASSUME NEW s, Sound(s), NEW e, NEW j, In(s, e, j), NEW t, NEW g,
         Turned(s, t, e, j, g),
         Of(s, e, j).dirty /\ Of(s, e, j).fdirty => g.dirty /\ g.fdirty
  PROVE  Remarked(s.c, t.c)
<1> SUFFICES ASSUME NEW x \in 1 .. Len(s.c), NEW r \in Rel, NEW y \in Seg,
                    Marked(s.c, x, r, y)
             PROVE  Marked(t.c, x, r, y)
  BY DEF Remarked
<1>1. CASE ~(x = e /\ y = j)
  BY <1>1, TurnedMarks
<1>2. CASE x = e /\ y = j
  <2>1. In(s, x, y) /\ s.c[x].rel = r /\ Of(s, x, y).dirty /\ Of(s, x, y).fdirty
    BY MarkedIn
  <2>2. Sound(t) /\ Shaped(s.c, t.c) /\ Of(t, e, j) = g
    BY TurnedFacts
  <2>3. In(t, x, y) /\ t.c[x].rel = r /\ x \in 1 .. Len(t.c)
    BY <2>1, <2>2, ShapedIn DEF Shaped
  <2>4. Of(t, x, y).dirty /\ Of(t, x, y).fdirty
    BY <1>2, <2>1, <2>2
  <2> QED BY <2>2, <2>3, <2>4, MarkedIn
<1> QED BY <1>1, <1>2

LEMMA SyncedForces ==
  ASSUME NEW k, NEW r, NEW j, NEW d \in Stored, k[r][j] = MadeFile(d, d)
  PROVE  Forced(k, r, j)
<1>1. /\ MadeFile(d, d) \in File
      /\ MadeFile(d, d).data = d /\ MadeFile(d, d).disk = d
  BY MadeFacts
<1>2. Len(d) \in Nat
  BY StoredFacts
<1> QED BY <1>1, <1>2 DEF Forced

LEMMA LastNotFull ==
  ASSUME NEW s, Sound(s), NEW e, NEW j, In(s, e, j), IsFull(s.k, s.c[e].rel, j)
  PROVE  j # MaxSeg
<1>1. s.k[s.c[e].rel][j] # Absent /\ s.c[e].rel \in Rel
  BY InFacts DEF In
<1> QED BY <1>1 DEF Sound, Files, Gapless

\* Only the flags of segment j of entry e may differ.
Elsewhere(s, t, e, j) ==
  \A x, y : In(s, x, y) /\ ~(x = e /\ y = j) => Of(t, x, y) = Of(s, x, y)

\* Only file j of r may differ.
OtherFiles(k, m, r, j) ==
  \A x \in Rel, y \in Seg : ~(x = r /\ y = j) => m[x][y] = k[x][y]

LEMMA SyncTurns ==
  ASSUME NEW s, Sound(s), NEW e, NEW j, In(s, e, j), Of(s, e, j).fdirty,
         NEW t, t = FileSync(s, e, j)
  PROVE  /\ Turned(s, t, e, j, Flagged(Of(s, e, j).dirty, Of(s, e, j).lst, FALSE))
         /\ SamePages(s.k, t.k) /\ Forced(t.k, s.c[e].rel, j)
         /\ OtherFiles(s.k, t.k, s.c[e].rel, j)
<1>1. PICK r, f, d, o, g, h :
        /\ r = s.c[e].rel /\ f = FileOf(s, e, j) /\ d = f.data /\ o = Of(s, e, j)
        /\ g = Flagged(o.dirty, o.lst, FALSE) /\ h = MadeFile(d, d)
  OBVIOUS
<1>2. Refiled(s, t, e, j, h, g)
  BY <1>1, FileSyncIs
<1>3. /\ r \in Rel /\ j \in Seg /\ f = s.k[r][j] /\ f \in File /\ o \in Flags
      /\ o.lst = RelsegSize => IsFull(s.k, r, j)
  BY <1>1, InFacts DEF Of, FileOf, In
<1>4. d \in Stored /\ h \in File /\ h.data = d /\ h # Absent /\ f # Absent
  BY <1>1, <1>3, FileFacts, MadeFacts
<1>5. g \in Flags /\ g.lst = o.lst
  <2>1. o.dirty \in BOOLEAN /\ o.lst \in 0 .. RelsegSize /\ FALSE \in BOOLEAN
    BY <1>3, FlagFacts, Zenon
  <2> QED BY <1>1, <2>1, FlaggedFacts
<1>6. IsFull(s.k, r, j) <=> Len(h.data) = RelsegSize
  BY <1>1, <1>3, <1>4 DEF IsFull, SegLen
<1>7. Turned(s, t, e, j, g)
  <2>1. IsFull(s.k, s.c[e].rel, j) => Len(h.data) = RelsegSize
    BY <1>1, <1>6
  <2>2. j = MaxSeg => Len(h.data) # RelsegSize
    BY <1>1, <1>6, LastNotFull
  <2>3. g.lst = RelsegSize => Len(h.data) = RelsegSize
    BY <1>3, <1>5, <1>6
  <2> QED BY <1>2, <1>4, <1>5, <2>1, <2>2, <2>3, RefiledTurns
<1>8. /\ t.k[r][j] = h
      /\ \A x \in Rel, y \in Seg : ~(x = r /\ y = j) => t.k[x][y] = s.k[x][y]
  BY <1>1, <1>2 DEF Refiled, FilePut
<1>9. SamePages(s.k, t.k)
  <2> SUFFICES ASSUME NEW x \in Rel, NEW y \in Seg
               PROVE  /\ s.k[x][y] # Absent =>
                           t.k[x][y] # Absent /\ t.k[x][y].data = s.k[x][y].data
                      /\ s.k[x][y] = Absent => t.k[x][y] = Absent
    BY DEF SamePages
  <2>1. CASE x = r /\ y = j
    BY <1>1, <1>3, <1>4, <1>8, <2>1
  <2>2. CASE ~(x = r /\ y = j)
    BY <1>8, <2>2
  <2> QED BY <2>1, <2>2
<1>10. Forced(t.k, r, j)
  BY <1>1, <1>4, <1>8, SyncedForces
<1>11. OtherFiles(s.k, t.k, r, j)
  BY <1>8 DEF OtherFiles
<1> QED BY <1>1, <1>7, <1>9, <1>10, <1>11

\* FileSync.
LEMMA SyncDoes ==
  ASSUME NEW s, Sound(s), NEW e, NEW j, In(s, e, j), NEW t, t = FileSync(s, e, j)
  PROVE  /\ Sound(t) /\ SamePages(s.k, t.k) /\ Shaped(s.c, t.c) /\ Settled(s, t)
         /\ ~ Of(t, e, j).fdirty /\ Of(t, e, j).dirty = Of(s, e, j).dirty
         /\ Elsewhere(s, t, e, j)
<1>1. CASE ~ Of(s, e, j).fdirty
  <2>1. t = s
    BY <1>1, FileSyncIs
  <2> QED BY <1>1, <2>1, GrowsSame DEF Shaped, Settled, Elsewhere
<1>2. CASE Of(s, e, j).fdirty
  <2>1. PICK r, o, g : /\ r = s.c[e].rel /\ o = Of(s, e, j)
                       /\ g = Flagged(o.dirty, o.lst, FALSE)
    OBVIOUS
  <2>2. /\ Turned(s, t, e, j, g) /\ SamePages(s.k, t.k) /\ Forced(t.k, r, j)
        /\ OtherFiles(s.k, t.k, r, j)
    BY <1>2, <2>1, SyncTurns
  <2>3. /\ Sound(t) /\ Shaped(s.c, t.c) /\ Of(t, e, j) = g
        /\ Elsewhere(s, t, e, j)
    BY <2>2, TurnedFacts DEF Elsewhere
  <2>4. g.dirty = o.dirty /\ g.fdirty = FALSE
    <3>1. o \in Flags
      BY <2>1, InFacts DEF Of
    <3>2. o.dirty \in BOOLEAN /\ o.lst \in 0 .. RelsegSize /\ FALSE \in BOOLEAN
      BY <3>1, FlagFacts, Zenon
    <3> QED BY <2>1, <3>2, FlaggedFacts
  <2>5. ASSUME NEW x \in 1 .. Len(s.c), NEW z \in Rel, NEW y \in Seg, Due(s, x, z, y)
        PROVE  Due(t, x, z, y)
    <3>1. CASE z = r /\ y = j
      BY <2>2, <3>1 DEF Due
    <3>2. CASE ~(z = r /\ y = j) /\ Marked(s.c, x, z, y)
      <4>1. ~(x = e /\ y = j)
        BY <2>1, <3>2 DEF Marked
      <4> QED BY <2>2, <3>2, <4>1, TurnedMarks DEF Due
    <3>3. CASE ~(z = r /\ y = j) /\ Forced(s.k, z, y)
      <4>1. t.k[z][y] = s.k[z][y]
        BY <2>2, <3>3 DEF OtherFiles
      <4> QED BY <3>3, <4>1 DEF Due, Forced
    <3> QED BY <2>5, <3>1, <3>2, <3>3 DEF Due
  <2> QED BY <2>1, <2>2, <2>3, <2>4, <2>5 DEF Settled
<1> QED BY <1>1, <1>2

\* SetDirty.
LEMMA DirtyTurns ==
  ASSUME NEW s, Sound(s), NEW e, NEW j, In(s, e, j), NEW d \in BOOLEAN,
         NEW t, t = SetDirty(s, e, j, d)
  PROVE  /\ Turned(s, t, e, j, Flagged(d, Of(s, e, j).lst, Of(s, e, j).fdirty))
         /\ t.k = s.k
<1>1. PICK o, g : o = Of(s, e, j) /\ g = Flagged(d, o.lst, o.fdirty)
  OBVIOUS
<1>2. Reflagged(s, t, e, j, g)
  BY <1>1, SetDirtyIs
<1>3. o \in Flags /\ (o.lst = RelsegSize => IsFull(s.k, s.c[e].rel, j))
  BY <1>1, InFacts DEF Of
<1>4. g \in Flags /\ g.lst = o.lst /\ g.dirty = d /\ g.fdirty = o.fdirty
  <2>1. o.fdirty \in BOOLEAN /\ o.lst \in 0 .. RelsegSize
    BY <1>3, FlagFacts
  <2> QED BY <1>1, <2>1, FlaggedFacts
<1>5. g.lst = RelsegSize => IsFull(s.k, s.c[e].rel, j)
  BY <1>3, <1>4
<1>6. Turned(s, t, e, j, g)
  BY <1>2, <1>4, <1>5, ReflaggedTurns
<1>8. t.k = s.k
  BY <1>2 DEF Reflagged
<1> QED BY <1>1, <1>6, <1>8

LEMMA DirtyFlags ==
  ASSUME NEW s, Sound(s), NEW e, NEW j, In(s, e, j), NEW d \in BOOLEAN,
         NEW t, t = SetDirty(s, e, j, d)
  PROVE  Of(t, e, j).dirty = d /\ Of(t, e, j).fdirty = Of(s, e, j).fdirty
<1>1. PICK o, g : o = Of(s, e, j) /\ g = Flagged(d, o.lst, o.fdirty)
  OBVIOUS
<1>2. Turned(s, t, e, j, g)
  BY <1>1, DirtyTurns
<1>3. Of(t, e, j) = g
  BY <1>2, TurnedFacts
<1>4. g.dirty = d /\ g.fdirty = o.fdirty
  <2>1. o \in Flags
    BY <1>1, InFacts DEF Of
  <2>2. o.fdirty \in BOOLEAN /\ o.lst \in 0 .. RelsegSize
    BY <2>1, FlagFacts
  <2> QED BY <1>1, <2>2, FlaggedFacts
<1> QED BY <1>1, <1>3, <1>4

\* A segment whose file is clean carries no mark to lose.
LEMMA ClearSettles ==
  ASSUME NEW s, Sound(s), NEW e, NEW j, In(s, e, j), ~ Of(s, e, j).fdirty,
         NEW d \in BOOLEAN, NEW t, t = SetDirty(s, e, j, d)
  PROVE  Settled(s, t)
<1>1. PICK g : g = Flagged(d, Of(s, e, j).lst, Of(s, e, j).fdirty)
  OBVIOUS
<1>2. Turned(s, t, e, j, g) /\ t.k = s.k
  BY <1>1, DirtyTurns
<1>3. ASSUME NEW x \in 1 .. Len(s.c), NEW z \in Rel, NEW y \in Seg, Due(s, x, z, y)
      PROVE  Due(t, x, z, y)
  <2>1. CASE Forced(s.k, z, y)
    BY <1>2, <2>1 DEF Due
  <2>2. CASE Marked(s.c, x, z, y)
    <3>1. ~(x = e /\ y = j)
      BY <2>2, MarkedIn
    <3> QED BY <1>2, <2>2, <3>1, TurnedMarks DEF Due
  <2> QED BY <1>3, <2>1, <2>2 DEF Due
<1> QED BY <1>3 DEF Settled

-----------------------------------------------------------------------------
(* mdcommit and mdabort.                                                   *)

LEMMA SweepStepDoes ==
  ASSUME NEW u, Sound(u), NEW e, NEW j, In(u, e, j), NEW commit,
         NEW t, t = SweepStep(u, commit, e, j)
  PROVE  /\ Sound(t) /\ SamePages(u.k, t.k) /\ Shaped(u.c, t.c)
         /\ ~ Of(t, e, j).dirty /\ Elsewhere(u, t, e, j) /\ (commit => Settled(u, t))
<1>1. PICK d : d = FALSE
  OBVIOUS
<1>2. d \in BOOLEAN /\ ~ d
  BY <1>1, Zenon
<1>3. ASSUME NEW v, Sound(v), In(v, e, j), NEW z, z = SetDirty(v, e, j, d)
      PROVE  /\ Sound(z) /\ z.k = v.k /\ Shaped(v.c, z.c)
             /\ ~ Of(z, e, j).dirty /\ Elsewhere(v, z, e, j)
             /\ ~ Of(v, e, j).fdirty => Settled(v, z)
  <2>1. PICK g : g = Flagged(d, Of(v, e, j).lst, Of(v, e, j).fdirty)
    OBVIOUS
  <2>2. Turned(v, z, e, j, g) /\ z.k = v.k
    BY <1>2, <1>3, <2>1, DirtyTurns
  <2>3. Sound(z) /\ Shaped(v.c, z.c) /\ Elsewhere(v, z, e, j)
    BY <1>3, <2>2, TurnedFacts DEF Elsewhere
  <2>4. Of(z, e, j).dirty = d
    BY <1>2, <1>3, DirtyFlags
  <2>5. ~ Of(z, e, j).dirty
    BY <1>2, <2>4
  <2>6. ~ Of(v, e, j).fdirty => Settled(v, z)
    BY <1>2, <1>3, ClearSettles
  <2> QED BY <2>2, <2>3, <2>5, <2>6
<1>4. CASE ~ commit
  <2>1. t = SetDirty(u, e, j, d)
    BY <1>1, <1>4 DEF SweepStep, AbortSeg
  <2>2. /\ Sound(t) /\ t.k = u.k /\ Shaped(u.c, t.c)
        /\ ~ Of(t, e, j).dirty /\ Elsewhere(u, t, e, j)
    BY <1>3, <2>1
  <2> QED BY <1>4, <2>2, GrowsSame
<1>5. CASE commit /\ ~ Of(u, e, j).dirty
  <2>1. t = u
    BY <1>5 DEF SweepStep, CommitSeg, Of
  <2> QED BY <1>5, <2>1, GrowsSame DEF Shaped, Settled, Elsewhere
<1>6. CASE commit /\ Of(u, e, j).dirty
  <2>1. PICK v : v = FileSync(u, e, j)
    OBVIOUS
  <2>2. t = SetDirty(v, e, j, d)
    BY <1>1, <1>6, <2>1 DEF SweepStep, CommitSeg, Of
  <2>3. /\ Sound(v) /\ SamePages(u.k, v.k) /\ Shaped(u.c, v.c) /\ Settled(u, v)
        /\ ~ Of(v, e, j).fdirty /\ Elsewhere(u, v, e, j)
    BY <2>1, SyncDoes
  <2>4. In(v, e, j)
    BY <2>3, ShapedIn
  <2>5. /\ Sound(t) /\ t.k = v.k /\ Shaped(v.c, t.c)
        /\ ~ Of(t, e, j).dirty /\ Elsewhere(v, t, e, j) /\ Settled(v, t)
    BY <1>3, <2>2, <2>3, <2>4
  <2>6. Shaped(u.c, t.c)
    BY <2>3, <2>5 DEF Shaped
  <2>7. Settled(u, t)
    BY <2>3, <2>5, SettledTrans DEF Shaped
  <2>8. Elsewhere(u, t, e, j)
    BY <2>3, <2>5, ShapedIn DEF Elsewhere
  <2> QED BY <2>3, <2>5, <2>6, <2>7, <2>8
<1> QED BY <1>4, <1>5, <1>6

\* From s, the segments before segment j of entry e are done, and that one.
Swept(s, commit, u, e, j) ==
  /\ Sound(u) /\ SamePages(s.k, u.k) /\ Shaped(s.c, u.c)
  /\ commit => Settled(s, u)
  /\ \A x, y : In(u, x, y) /\ (x < e \/ (x = e /\ y <= j)) => ~ Of(u, x, y).dirty

LEMMA SweptOn ==
  ASSUME NEW s, Sound(s), NEW commit, NEW e, NEW j, In(s, e, j), NEW u,
         Swept(s, commit, u, e, j - 1), NEW t, t = SweepStep(u, commit, e, j)
  PROVE  Swept(s, commit, t, e, j)
<1>1. /\ Sound(u) /\ SamePages(s.k, u.k) /\ Shaped(s.c, u.c)
      /\ commit => Settled(s, u)
  BY DEF Swept
<1>2. In(u, e, j)
  BY <1>1, ShapedIn
<1>3. /\ Sound(t) /\ SamePages(u.k, t.k) /\ Shaped(u.c, t.c)
      /\ ~ Of(t, e, j).dirty /\ Elsewhere(u, t, e, j) /\ (commit => Settled(u, t))
  BY <1>1, <1>2, SweepStepDoes
<1>4. SamePages(s.k, t.k)
  BY <1>1, <1>3, SamePagesTrans
<1>5. Shaped(s.c, t.c)
  BY <1>1, <1>3 DEF Shaped
<1>6. commit => Settled(s, t)
  BY <1>1, <1>3, SettledTrans DEF Shaped
<1>7. ASSUME NEW x, NEW y, In(t, x, y), x < e \/ (x = e /\ y <= j)
      PROVE  ~ Of(t, x, y).dirty
  <2>1. CASE x = e /\ y = j
    BY <1>3, <2>1
  <2>2. CASE ~(x = e /\ y = j)
    <3>1. In(u, x, y)
      BY <1>3, <1>7, ShapedIn
    <3>2. Of(t, x, y) = Of(u, x, y)
      BY <1>3, <2>2, <3>1 DEF Elsewhere
    <3>3. y \in Nat /\ j \in Nat
      BY <3>1 DEF In
    <3>4. x < e \/ (x = e /\ y <= j - 1)
      BY <1>7, <2>2, <3>3
    <3>5. ~ Of(u, x, y).dirty
      BY <3>1, <3>4 DEF Swept
    <3> QED BY <3>2, <3>5
  <2> QED BY <2>1, <2>2
<1> QED BY <1>3, <1>4, <1>5, <1>6, <1>7 DEF Swept

\* The inner loop, from u.
Row(s, commit, u, e) ==
  LET o[j \in -1 .. Len(s.c[e].segs) - 1] ==
        IF j = -1 THEN u
        ELSE IF commit THEN CommitSeg(o[j - 1], e, j)
        ELSE AbortSeg(o[j - 1], e, j)
  IN  o[Len(s.c[e].segs) - 1]

LEMMA RowSweeps ==
  ASSUME NEW s, Sound(s), NEW commit, NEW e \in 1 .. Len(s.c), NEW u,
         Swept(s, commit, u, e, -1), NEW t, t = Row(s, commit, u, e)
  PROVE  Swept(s, commit, t, e + 1, -1)
<1> DEFINE W(h) == h = [j \in -1 .. Len(s.c[e].segs) - 1 |->
                          IF j = -1 THEN u
                          ELSE IF commit THEN CommitSeg(h[j - 1], e, j)
                          ELSE AbortSeg(h[j - 1], e, j)]
<1>0. PICK n : n = Len(s.c[e].segs)
  OBVIOUS
<1>01. n \in Nat
  BY <1>0, VectorLens
<1>1. PICK w : w = CHOOSE h : W(h)
  OBVIOUS
<1>2. W(w)
  <2>1. \E h : W(h)
    <3>1. PICK h : IsRow(h, u, commit, e, n)
      BY <1>01, RowExists
    <3>2. W(h)
      BY <1>0, <3>1 DEF IsRow, SweepStep
    <3> HIDE DEF W
    <3> QED BY <3>2
  <2> HIDE DEF W
  <2> QED BY <1>1, <2>1
<1>3. t = w[n - 1]
  BY <1>0, <1>1 DEF Row
<1>4. w[-1] = u /\ \A j \in 0 .. n - 1 : w[j] = SweepStep(w[j - 1], commit, e, j)
  BY <1>0, <1>01, <1>2, SMTT(40) DEF SweepStep
<1> HIDE DEF W
<1>5. \A j \in -1 .. n - 1 : Swept(s, commit, w[j], e, j)
  <2>1. PICK B : B = {i \in Nat : i <= n /\ ~ Swept(s, commit, w[i - 1], e, i - 1)}
    OBVIOUS
  <2>2. CASE B = {}
    <3> SUFFICES ASSUME NEW j \in -1 .. n - 1 PROVE Swept(s, commit, w[j], e, j)
      OBVIOUS
    <3>1. PICK i : i = j + 1
      OBVIOUS
    <3>2. i \in Nat /\ i <= n /\ i - 1 = j
      BY <1>01, <3>1
    <3> QED BY <2>1, <2>2, <3>2
  <2>3. CASE B # {}
    <3>1. PICK i \in B : \A y \in B : i <= y
      <4>1. B \subseteq Nat
        BY <2>1
      <4> QED BY <2>3, <4>1, LeastOf
    <3>2. i \in Nat /\ i <= n /\ ~ Swept(s, commit, w[i - 1], e, i - 1)
      BY <2>1, <3>1
    <3>3. CASE i = 0
      <4>1. i - 1 = -1
        BY <3>3
      <4> QED BY <1>4, <3>2, <4>1
    <3>4. CASE i # 0
      <4>1. PICK j : j = i - 1
        OBVIOUS
      <4>2. j \in Nat /\ j <= n /\ ~(i <= j) /\ j + 1 <= n /\ j \in 0 .. n - 1
        BY <1>01, <3>2, <3>4, <4>1
      <4>3. Swept(s, commit, w[j - 1], e, j - 1)
        BY <2>1, <3>1, <4>2
      <4>4. w[j] = SweepStep(w[j - 1], commit, e, j)
        BY <1>4, <4>2
      <4>5. In(s, e, j)
        <5>1. s.c[e].rel \in Rel
          <6>1. Hooked(s.k, s.c[e]) /\ s.c[e] \in Entry
            BY DEF Sound, Vector, Hooked
          <6>2. s.c[e].segs # <<>>
            BY <1>0, <4>2, EmptyFacts
          <6> QED BY <6>1, <6>2, EntryFacts DEF Hooked
        <5> QED BY <1>0, <4>2, <5>1 DEF In
      <4>6. Swept(s, commit, w[j], e, j)
        BY <4>3, <4>4, <4>5, SweptOn
      <4> QED BY <3>2, <4>1, <4>6
    <3> QED BY <3>3, <3>4
  <2> QED BY <2>2, <2>3
<1>6. Swept(s, commit, t, e, n - 1)
  <2>1. n - 1 \in -1 .. n - 1
    BY <1>01
  <2> QED BY <1>3, <1>5, <2>1
<1>7. ASSUME NEW x, NEW y, In(t, x, y), x < e + 1 \/ (x = e + 1 /\ y <= -1)
      PROVE  ~ Of(t, x, y).dirty
  <2>1. Shaped(s.c, t.c)
    BY <1>6 DEF Swept
  <2>2. In(s, x, y)
    BY <1>7, <2>1, ShapedIn
  <2>3. y \in Nat /\ x \in Nat /\ e \in Nat
    BY <2>2, VectorLens DEF In
  <2>4. x < e \/ x = e
    BY <1>7, <2>3
  <2>5. x = e => y <= n - 1
    BY <1>0, <1>01, <2>2, <2>3 DEF In
  <2> QED BY <1>6, <1>7, <2>4, <2>5 DEF Swept
<1> QED BY <1>6, <1>7 DEF Swept

\* The outer loop of a sweep, up to entry n.
IsRows(h, s, commit, n) ==
  h = [i \in 0 .. n |-> IF i = 0 THEN s ELSE Row(s, commit, h[i - 1], i)]

LEMMA RowsExists ==
  ASSUME NEW s, NEW commit, NEW n \in Nat
  PROVE  \E h : IsRows(h, s, commit, n)
<1>1. PICK B : B = {m \in Nat : ~\E h : IsRows(h, s, commit, m)}
  OBVIOUS
<1>2. SUFFICES ASSUME B # {} PROVE FALSE
  BY <1>1
<1>3. PICK m \in B : \A y \in B : m <= y
  <2>1. B \subseteq Nat
    BY <1>1
  <2> QED BY <1>2, <2>1, LeastOf
<1>4. m \in Nat /\ ~\E h : IsRows(h, s, commit, m)
  BY <1>1, <1>3
<1>5. CASE m = 0
  <2>1. PICK h : h = [i \in 0 .. 0 |-> s]
    OBVIOUS
  <2>2. 0 .. 0 = 0 .. 0
    OBVIOUS
  <2>3. IsRows(h, s, commit, 0)
    BY <2>1, <2>2 DEF IsRows
  <2> QED BY <1>4, <1>5, <2>3
<1>6. CASE m # 0
  <2>1. m - 1 \in Nat /\ ~(m <= m - 1)
    BY <1>4, <1>6
  <2>2. PICK h : IsRows(h, s, commit, m - 1)
    <3>1. m - 1 \notin B
      BY <1>3, <2>1
    <3> QED BY <1>1, <2>1, <3>1
  <2>3. \A i \in 0 .. m - 1 :
          h[i] = IF i = 0 THEN s ELSE Row(s, commit, h[i - 1], i)
    BY <2>2 DEF IsRows
  <2>4. PICK z : z = m
    OBVIOUS
  <2>5. z \in Int /\ z > 0 /\ z - 1 = m - 1
    BY <1>4, <1>6, <2>4
  <2>6. PICK x : x = Row(s, commit, h[z - 1], z)
    OBVIOUS
  <2>7. PICK f : f = [i \in 0 .. m |-> IF i = z THEN x ELSE h[i]]
    OBVIOUS
  <2>8. \A i \in 0 .. m :
          f[i] = IF i = 0 THEN s ELSE Row(s, commit, f[i - 1], i)
    <3> SUFFICES ASSUME NEW i \in 0 .. m
                 PROVE  f[i] = IF i = 0 THEN s ELSE Row(s, commit, f[i - 1], i)
      OBVIOUS
    <3>1. i \in Int /\ i >= 0 /\ i <= z
      BY <1>4, <2>4
    <3>2. CASE i = z
      <4>1. z - 1 \in 0 .. m /\ z - 1 # z /\ z # 0
        BY <1>4, <2>4, <2>5
      <4>2. f[i] = x /\ f[z - 1] = h[z - 1]
        BY <2>7, <3>2, <4>1
      <4> QED BY <2>6, <3>2, <4>1, <4>2
    <3>3. CASE i # z /\ i # 0
      <4>1. i \in 0 .. m - 1 /\ i - 1 \in 0 .. m /\ i - 1 # z
        BY <1>4, <2>4, <3>1, <3>3
      <4>2. f[i] = h[i] /\ f[i - 1] = h[i - 1]
        BY <2>7, <3>3, <4>1
      <4>3. h[i] = Row(s, commit, h[i - 1], i)
        BY <2>3, <3>3, <4>1
      <4> QED BY <3>3, <4>2, <4>3
    <3>4. CASE i # z /\ i = 0
      <4>1. i \in 0 .. m - 1
        BY <1>4, <2>4, <3>1, <3>4
      <4>2. f[i] = h[i] /\ h[i] = s
        BY <2>3, <2>7, <3>4, <4>1
      <4> QED BY <3>4, <4>2
    <3> QED BY <3>2, <3>3, <3>4
  <2>9. IsRows(f, s, commit, m)
    BY <2>7, <2>8 DEF IsRows
  <2> QED BY <1>4, <2>9
<1> QED BY <1>5, <1>6

LEMMA SweepsAll ==
  ASSUME NEW s, Sound(s), NEW commit, NEW t, t = Sweep(s, commit)
  PROVE  /\ Sound(t) /\ SamePages(s.k, t.k) /\ Shaped(s.c, t.c)
         /\ commit => Settled(s, t)
         /\ \A x, y : In(t, x, y) => ~ Of(t, x, y).dirty
<1> DEFINE W(h) == h = [e \in 0 .. Len(s.c) |->
                          IF e = 0 THEN s ELSE Row(s, commit, h[e - 1], e)]
<1>0. PICK n : n = Len(s.c)
  OBVIOUS
<1>01. n \in Nat
  BY <1>0, VectorLens
<1>1. PICK w : w = CHOOSE h : W(h)
  OBVIOUS
<1>2. W(w)
  <2>1. \E h : W(h)
    <3>1. PICK h : IsRows(h, s, commit, n)
      BY <1>01, RowsExists
    <3>2. W(h)
      BY <1>0, <3>1 DEF IsRows
    <3> HIDE DEF W
    <3> QED BY <3>2
  <2> HIDE DEF W
  <2> QED BY <1>1, <2>1
<1>3. t = w[n]
  BY <1>0, <1>1 DEF Sweep, Row
<1>4. w[0] = s /\ \A e \in 1 .. n : w[e] = Row(s, commit, w[e - 1], e)
  BY <1>0, <1>01, <1>2
<1> HIDE DEF W
<1>5. \A e \in 0 .. n : Swept(s, commit, w[e], e + 1, -1)
  <2>1. PICK B : B = {e \in Nat : e <= n /\ ~ Swept(s, commit, w[e], e + 1, -1)}
    OBVIOUS
  <2>2. SUFFICES ASSUME B # {} PROVE FALSE
    BY <1>01, <2>1
  <2>3. PICK e \in B : \A y \in B : e <= y
    <3>1. B \subseteq Nat
      BY <2>1
    <3> QED BY <2>2, <3>1, LeastOf
  <2>4. e \in Nat /\ e <= n /\ ~ Swept(s, commit, w[e], e + 1, -1)
    BY <2>1, <2>3
  <2>5. CASE e = 0
    <3>1. \A x, y : In(s, x, y) => x \in Nat /\ y \in Nat /\ 1 <= x
      BY VectorLens DEF In
    <3>2. \A x, y : In(s, x, y) => ~(x < 1 \/ (x = 1 /\ y <= -1))
      BY <3>1
    <3>3. Settled(s, s) /\ Shaped(s.c, s.c) /\ SamePages(s.k, s.k)
      BY GrowsSame DEF Settled, Shaped
    <3>4. Swept(s, commit, s, 1, -1)
      BY <3>2, <3>3 DEF Swept
    <3> QED BY <1>4, <2>4, <2>5, <3>4
  <2>6. CASE e # 0
    <3>1. PICK i : i = e - 1
      OBVIOUS
    <3>2. i \in Nat /\ i <= n /\ ~(e <= i) /\ i + 1 = e /\ e \in 1 .. n /\ e - 1 = i
      BY <1>01, <2>4, <2>6, <3>1
    <3>3. Swept(s, commit, w[i], i + 1, -1)
      BY <2>1, <2>3, <3>2
    <3>4. Swept(s, commit, w[i], e, -1)
      BY <3>2, <3>3
    <3>5. w[e] = Row(s, commit, w[i], e)
      BY <1>4, <3>2
    <3> QED BY <1>0, <2>4, <3>2, <3>4, <3>5, RowSweeps
  <2> QED BY <2>5, <2>6
<1>6. Swept(s, commit, t, n + 1, -1)
  BY <1>01, <1>3, <1>5
<1>7. ASSUME NEW x, NEW y, In(t, x, y) PROVE ~ Of(t, x, y).dirty
  <2>1. x \in 1 .. Len(t.c) /\ Len(t.c) = n
    BY <1>0, <1>6, <1>7 DEF In, Swept, Shaped
  <2>2. x < n + 1
    BY <1>01, <2>1
  <2> QED BY <1>6, <1>7, <2>2 DEF Swept
<1> QED BY <1>6, <1>7 DEF Swept

-----------------------------------------------------------------------------
(* mdclose.                                                                *)

Shut(s, u, e, j) ==
  /\ Sound(u) /\ SamePages(s.k, u.k) /\ Shaped(s.c, u.c) /\ Settled(s, u)
  /\ \A y : In(u, e, y) /\ y <= j => ~ Of(u, e, y).fdirty

LEMMA ShutOn ==
  ASSUME NEW s, Sound(s), NEW e, NEW j, In(s, e, j), NEW u, Shut(s, u, e, j - 1),
         NEW t, t = FileSync(u, e, j)
  PROVE  Shut(s, t, e, j)
<1>1. Sound(u) /\ SamePages(s.k, u.k) /\ Shaped(s.c, u.c) /\ Settled(s, u)
  BY DEF Shut
<1>2. In(u, e, j)
  BY <1>1, ShapedIn
<1>3. /\ Sound(t) /\ SamePages(u.k, t.k) /\ Shaped(u.c, t.c) /\ Settled(u, t)
      /\ ~ Of(t, e, j).fdirty /\ Elsewhere(u, t, e, j)
  BY <1>1, <1>2, SyncDoes
<1>4. SamePages(s.k, t.k)
  BY <1>1, <1>3, SamePagesTrans
<1>5. Shaped(s.c, t.c)
  BY <1>1, <1>3 DEF Shaped
<1>6. Settled(s, t)
  BY <1>1, <1>3, SettledTrans DEF Shaped
<1>7. ASSUME NEW y, In(t, e, y), y <= j PROVE ~ Of(t, e, y).fdirty
  <2>1. CASE y = j
    BY <1>3, <2>1
  <2>2. CASE y # j
    <3>1. In(u, e, y)
      BY <1>3, <1>7, ShapedIn
    <3>2. Of(t, e, y) = Of(u, e, y)
      BY <1>3, <2>2, <3>1 DEF Elsewhere
    <3>3. y \in Nat /\ j \in Nat
      BY <3>1 DEF In
    <3>4. y <= j - 1
      BY <1>7, <2>2, <3>3
    <3> QED BY <3>1, <3>2, <3>4 DEF Shut
  <2> QED BY <2>1, <2>2
<1> QED BY <1>3, <1>4, <1>5, <1>6, <1>7 DEF Shut

\* Every other entry stays as it is.
LEMMA DeadFacts ==
  ASSUME NEW c \in Seq(Entry), NEW e \in 1 .. Len(c), NEW d, d = [c EXCEPT ![e] = Dead]
  PROVE  /\ d \in Seq(Entry) /\ Len(d) = Len(c) /\ d[e] = Dead
         /\ \A x \in 1 .. Len(c) : x # e => d[x] = c[x]
<1>1. Dead \in Entry
  BY DEF Dead, Entry
<1> QED BY <1>1, ExceptSeq

LEMMA DeadHooked ==
  ASSUME NEW k
  PROVE  Hooked(k, Dead) /\ Dead.rel = Absent
<1>1. Dead \in Entry /\ Dead.rel = Absent /\ Dead.segs = <<>>
  BY DEF Dead, Entry
<1> QED BY <1>1 DEF Hooked

LEMMA ClosesAll ==
  ASSUME NEW s, Sound(s), NEW e, In(s, e, 0), NEW t, t = mdclose(s, e)
  PROVE  /\ Sound(t) /\ SamePages(s.k, t.k) /\ Pays(s, t)
         /\ Len(t.c) = Len(s.c)
         /\ \A x \in 1 .. Len(s.c) : x # e => t.c[x].rel = s.c[x].rel
<1> DEFINE W(h) == h = [j \in -1 .. Len(s.c[e].segs) - 1 |->
                          IF j = -1 THEN s ELSE FileSync(h[j - 1], e, j)]
<1>0. PICK n : n = Len(s.c[e].segs)
  OBVIOUS
<1>01. n \in Nat /\ e \in 1 .. Len(s.c) /\ s.c[e].rel \in Rel
  BY <1>0, VectorLens DEF In
<1>1. PICK w : w = CHOOSE h : W(h)
  OBVIOUS
<1>2. W(w)
  <2>1. \E h : W(h)
    <3>1. PICK h : IsClose(h, s, e, n)
      BY <1>01, CloseExists
    <3>2. W(h)
      BY <1>0, <3>1 DEF IsClose
    <3> HIDE DEF W
    <3> QED BY <3>2
  <2> HIDE DEF W
  <2> QED BY <1>1, <2>1
<1>3. PICK u : u = w[n - 1]
  OBVIOUS
<1>31. t = [u EXCEPT !.c[e] = Dead]
  BY <1>0, <1>1, <1>3 DEF mdclose
<1>4. w[-1] = s /\ \A j \in 0 .. n - 1 : w[j] = FileSync(w[j - 1], e, j)
  BY <1>0, <1>01, <1>2, SMTT(40)
<1> HIDE DEF W
<1>5. \A j \in -1 .. n - 1 : Shut(s, w[j], e, j)
  <2>1. PICK B : B = {i \in Nat : i <= n /\ ~ Shut(s, w[i - 1], e, i - 1)}
    OBVIOUS
  <2>2. CASE B = {}
    <3> SUFFICES ASSUME NEW j \in -1 .. n - 1 PROVE Shut(s, w[j], e, j)
      OBVIOUS
    <3>1. PICK i : i = j + 1
      OBVIOUS
    <3>2. i \in Nat /\ i <= n /\ i - 1 = j
      BY <1>01, <3>1
    <3> QED BY <2>1, <2>2, <3>2
  <2>3. CASE B # {}
    <3>1. PICK i \in B : \A y \in B : i <= y
      <4>1. B \subseteq Nat
        BY <2>1
      <4> QED BY <2>3, <4>1, LeastOf
    <3>2. i \in Nat /\ i <= n /\ ~ Shut(s, w[i - 1], e, i - 1)
      BY <2>1, <3>1
    <3>3. CASE i = 0
      <4>1. i - 1 = -1
        BY <3>3
      <4>2. \A y : In(s, e, y) => ~(y <= -1)
        BY DEF In
      <4>3. Settled(s, s) /\ Shaped(s.c, s.c) /\ SamePages(s.k, s.k)
        BY GrowsSame DEF Settled, Shaped
      <4>4. Shut(s, s, e, -1)
        BY <4>2, <4>3 DEF Shut
      <4> QED BY <1>4, <3>2, <4>1, <4>4
    <3>4. CASE i # 0
      <4>1. PICK j : j = i - 1
        OBVIOUS
      <4>2. j \in Nat /\ j <= n /\ ~(i <= j) /\ j + 1 <= n /\ j \in 0 .. n - 1
        BY <1>01, <3>2, <3>4, <4>1
      <4>3. Shut(s, w[j - 1], e, j - 1)
        BY <2>1, <3>1, <4>2
      <4>4. w[j] = FileSync(w[j - 1], e, j)
        BY <1>4, <4>2
      <4>5. In(s, e, j)
        BY <1>0, <1>01, <4>2 DEF In
      <4>6. Shut(s, w[j], e, j)
        BY <4>3, <4>4, <4>5, ShutOn
      <4> QED BY <3>2, <4>1, <4>6
    <3> QED BY <3>3, <3>4
  <2> QED BY <2>2, <2>3
<1>6. Shut(s, u, e, n - 1)
  <2>1. n - 1 \in -1 .. n - 1
    BY <1>01
  <2> QED BY <1>3, <1>5, <2>1
<1>7. Sound(u) /\ SamePages(s.k, u.k) /\ Shaped(s.c, u.c) /\ Settled(s, u)
  BY <1>6 DEF Shut
<1>8. PICK d : d = [u.c EXCEPT ![e] = Dead]
  OBVIOUS
<1>9. t = [k |-> u.k, c |-> d]
  <2>1. IsState(u)
    BY <1>7 DEF Sound
  <2>2. t = [u EXCEPT !.c = d]
    BY <1>8, <1>31
  <2> QED BY <2>1, <2>2 DEF IsState
<1>10. IsState(t) /\ t.k = u.k /\ t.c = d
  BY <1>9 DEF IsState
<1>11. u.c \in Seq(Entry) /\ Len(u.c) = Len(s.c) /\ e \in 1 .. Len(u.c)
  BY <1>01, <1>7 DEF Sound, Vector, Shaped
<1>12. /\ d \in Seq(Entry) /\ Len(d) = Len(u.c) /\ d[e] = Dead
       /\ \A x \in 1 .. Len(u.c) : x # e => d[x] = u.c[x]
  BY <1>8, <1>11, DeadFacts
<1>13. Vector(u.k, d)
  <2>1. ASSUME NEW x \in 1 .. Len(d) PROVE Hooked(u.k, d[x])
    <3>1. CASE x = e
      BY <1>12, <3>1, DeadHooked
    <3>2. CASE x # e
      BY <1>7, <1>12, <3>2 DEF Sound, Vector
    <3> QED BY <3>1, <3>2
  <2> QED BY <1>12, <2>1 DEF Vector
<1>14. Sound(t)
  BY <1>7, <1>10, <1>13 DEF Sound
<1>15. ASSUME NEW x \in 1 .. Len(s.c), NEW r \in Rel, NEW y \in Seg, Marked(s.c, x, r, y)
       PROVE  Due(t, x, r, y)
  <2>1. Due(u, x, r, y)
    BY <1>7, <1>15 DEF Settled, Due
  <2>2. CASE Forced(u.k, r, y)
    BY <1>10, <2>2 DEF Due
  <2>3. CASE Marked(u.c, x, r, y) /\ x # e
    <3>1. d[x] = u.c[x]
      BY <1>11, <1>12, <2>3
    <3> QED BY <1>10, <2>3, <3>1 DEF Due, Marked
  <2>4. CASE Marked(u.c, x, r, y) /\ x = e
    <3>1. In(u, e, y) /\ Of(u, e, y).fdirty
      BY <1>7, <1>11, <2>4, MarkedIn
    <3>2. y \in Nat /\ y + 1 <= n
      BY <1>0, <1>7, <1>11, <3>1 DEF In, Shaped
    <3>3. y <= n - 1
      BY <1>01, <3>2
    <3> QED BY <1>6, <3>1, <3>3 DEF Shut
  <2> QED BY <2>1, <2>2, <2>3, <2>4 DEF Due
<1>16. ASSUME NEW x \in 1 .. Len(s.c), x # e PROVE t.c[x].rel = s.c[x].rel
  <2>1. d[x] = u.c[x] /\ u.c[x].rel = s.c[x].rel
    BY <1>7, <1>11, <1>12, <1>16 DEF Shaped
  <2> QED BY <1>10, <2>1
<1>17. Pays(s, t)
  BY <1>15 DEF Pays
<1>18. SamePages(s.k, t.k) /\ Len(t.c) = Len(s.c)
  BY <1>7, <1>10, <1>11, <1>12
<1> QED BY <1>14, <1>16, <1>17, <1>18

-----------------------------------------------------------------------------
(* Writing one block.                                                      *)

\* Segment j of r holds d; the others hold what they held.
Rewritten(k, m, r, j, d) ==
  /\ m[r][j] # Absent /\ m[r][j].data = d
  /\ \A x \in Rel, y \in Seg : ~(x = r /\ y = j) =>
       /\ k[x][y] # Absent => m[x][y] # Absent /\ m[x][y].data = k[x][y].data
       /\ k[x][y] = Absent => m[x][y] = Absent \/ (y # 0 /\ m[x][y].data = <<>>)

LEMMA SameRewritten ==
  ASSUME NEW k, NEW l, NEW m, SamePages(k, l), NEW r, NEW j, NEW d,
         Rewritten(l, m, r, j, d)
  PROVE  Rewritten(k, m, r, j, d)
<1>1. m[r][j] # Absent /\ m[r][j].data = d
  BY DEF Rewritten
<1>2. ASSUME NEW x \in Rel, NEW y \in Seg, ~(x = r /\ y = j)
      PROVE  /\ k[x][y] # Absent => m[x][y] # Absent /\ m[x][y].data = k[x][y].data
             /\ k[x][y] = Absent => m[x][y] = Absent \/ (y # 0 /\ m[x][y].data = <<>>)
  <2>1. /\ k[x][y] # Absent => l[x][y] # Absent /\ l[x][y].data = k[x][y].data
        /\ k[x][y] = Absent => l[x][y] = Absent \/ (y # 0 /\ l[x][y].data = <<>>)
    BY DEF SamePages
  <2>2. /\ l[x][y] # Absent => m[x][y] # Absent /\ m[x][y].data = l[x][y].data
        /\ l[x][y] = Absent => m[x][y] = Absent \/ (y # 0 /\ m[x][y].data = <<>>)
    BY <1>2 DEF Rewritten
  <2> QED BY <2>1, <2>2
<1> QED BY <1>1, <1>2 DEF Rewritten

LEMMA RewrittenSame ==
  ASSUME NEW k, NEW l, NEW m, NEW r \in Rel, NEW j \in Seg, NEW d,
         Rewritten(k, l, r, j, d), SamePages(l, m)
  PROVE  Rewritten(k, m, r, j, d)
<1>1. m[r][j] # Absent /\ m[r][j].data = d
  BY DEF Rewritten, SamePages
<1>2. ASSUME NEW x \in Rel, NEW y \in Seg, ~(x = r /\ y = j)
      PROVE  /\ k[x][y] # Absent => m[x][y] # Absent /\ m[x][y].data = k[x][y].data
             /\ k[x][y] = Absent => m[x][y] = Absent \/ (y # 0 /\ m[x][y].data = <<>>)
  <2>1. /\ l[x][y] # Absent => m[x][y] # Absent /\ m[x][y].data = l[x][y].data
        /\ l[x][y] = Absent => m[x][y] = Absent \/ (y # 0 /\ m[x][y].data = <<>>)
    BY DEF SamePages
  <2>2. /\ k[x][y] # Absent => l[x][y] # Absent /\ l[x][y].data = k[x][y].data
        /\ k[x][y] = Absent => l[x][y] = Absent \/ (y # 0 /\ l[x][y].data = <<>>)
    BY <1>2 DEF Rewritten
  <2> QED BY <2>1, <2>2
<1> QED BY <1>1, <1>2 DEF Rewritten

LEMMA PutRewrites ==
  ASSUME NEW k, NEW m, NEW r, NEW j, NEW f \in File, FilePut(k, m, r, j, f)
  PROVE  Rewritten(k, m, r, j, f.data)
BY FileFacts DEF FilePut, Rewritten

LEMMA PutInside ==
  ASSUME NEW d \in Stored, NEW i \in Nat, i < Len(d), NEW x \in Pg,
         NEW z, z = Put(d, i, x)
  PROVE  /\ z \in Stored /\ Len(z) = Len(d) /\ z[i + 1] = x
         /\ \A y \in 1 .. Len(d) : y # i + 1 => z[y] = d[y]
<1>1. d \in Seq(Pg) /\ Len(d) \in Nat /\ Len(d) <= RelsegSize
  BY StoredFacts
<1>2. z = [d EXCEPT ![i + 1] = x]
  BY DEF Put
<1>3. i + 1 \in 1 .. Len(d)
  BY <1>1
<1>4. /\ z \in Seq(Pg) /\ Len(z) = Len(d) /\ z[i + 1] = x
      /\ \A y \in 1 .. Len(d) : y # i + 1 => z[y] = d[y]
  BY <1>1, <1>2, <1>3, ExceptSeq
<1>5. z \in Stored
  BY <1>1, <1>4 DEF Stored, Pg
<1> QED BY <1>4, <1>5

LEMMA PutBehind ==
  ASSUME NEW d \in Stored, Len(d) < RelsegSize, NEW x \in Pg,
         NEW z, z = Put(d, Len(d), x)
  PROVE  z = Append(d, x) /\ z \in Stored /\ Len(z) = Len(d) + 1
<1>1. d \in Seq(Pg) /\ Len(d) \in Nat
  BY StoredFacts
<1>2. z = Append(d, x)
  BY <1>1 DEF Put
<1>3. z \in Seq(Pg) /\ Len(z) = Len(d) + 1
  BY <1>1, <1>2
<1>4. Len(z) <= RelsegSize
  BY <1>1, <1>3, SizeFacts
<1>5. z \in Stored
  BY <1>3, <1>4 DEF Stored, Pg
<1> QED BY <1>2, <1>3, <1>5

LEMMA PageIn ==
  Zero \in Pg /\ \A x \in Page : x \in Pg
BY DEF Pg

\* FileWrite, of block i of a file or behind its end.
LEMMA FileWriteDoes ==
  ASSUME NEW s, Sound(s), NEW e, NEW j, In(s, e, j), NEW i, NEW x, NEW z,
         z = Put(FileOf(s, e, j).data, i, x), z \in Stored,
         IsFull(s.k, s.c[e].rel, j) => Len(z) = RelsegSize,
         j = MaxSeg => Len(z) # RelsegSize,
         NEW full \in BOOLEAN, NEW t, t = FileWrite(s, e, j, i, x, full)
  PROVE  /\ Sound(t) /\ Grows(s.k, t.k) /\ Shaped(s.c, t.c) /\ Remarked(s.c, t.c)
         /\ Of(t, e, j).fdirty
         /\ full => Rewritten(s.k, t.k, s.c[e].rel, j, z)
         /\ ~ full => t.k = s.k
<1>1. PICK o, g, f, h : /\ o = Of(s, e, j) /\ g = Flagged(o.dirty, o.lst, TRUE)
                        /\ f = FileOf(s, e, j) /\ h = MadeFile(z, f.disk)
  OBVIOUS
<1>2. /\ o \in Flags /\ f \in File
      /\ o.lst = RelsegSize => IsFull(s.k, s.c[e].rel, j)
  BY <1>1, InFacts DEF Of, FileOf
<1>3. g \in Flags /\ g.lst = o.lst /\ g.dirty = o.dirty /\ g.fdirty = TRUE
  <2>1. o.dirty \in BOOLEAN /\ o.lst \in 0 .. RelsegSize /\ TRUE \in BOOLEAN
    BY <1>2, FlagFacts, Zenon
  <2> QED BY <1>1, <2>1, FlaggedFacts
<1>4. h \in File /\ h.data = z
  BY <1>1, <1>2, FileFacts, MadeFacts
<1>5. Put(FileOf(s, e, j).data, i, x) \in Stored
  OBVIOUS
<1>6. ASSUME Turned(s, t, e, j, g)
      PROVE  /\ Sound(t) /\ Grows(s.k, t.k) /\ Shaped(s.c, t.c) /\ Remarked(s.c, t.c)
             /\ Of(t, e, j).fdirty
  <2>1. Sound(t) /\ Shaped(s.c, t.c) /\ Of(t, e, j) = g
    BY <1>6, TurnedFacts
  <2>2. Remarked(s.c, t.c)
    BY <1>1, <1>3, <1>6, TurnedRemarks
  <2> QED BY <1>3, <1>6, <2>1, <2>2 DEF Turned
<1>7. CASE full = TRUE
  <2>1. t = FileWrite(s, e, j, i, x, TRUE)
    BY <1>7
  <2>2. Refiled(s, t, e, j, h, g)
    BY <1>1, <1>5, <2>1, FileWriteIs
  <2>3. Turned(s, t, e, j, g)
    <3>1. IsFull(s.k, s.c[e].rel, j) => Len(h.data) = RelsegSize
      BY <1>4
    <3>2. j = MaxSeg => Len(h.data) # RelsegSize
      BY <1>4
    <3>3. g.lst = RelsegSize => Len(h.data) = RelsegSize
      BY <1>2, <1>3, <1>4
    <3> QED BY <1>3, <1>4, <2>2, <3>1, <3>2, <3>3, RefiledTurns
  <2>4. Rewritten(s.k, t.k, s.c[e].rel, j, z)
    <3>1. FilePut(s.k, t.k, s.c[e].rel, j, h)
      BY <2>2 DEF Refiled
    <3> QED BY <1>4, <3>1, PutRewrites
  <2> QED BY <1>6, <1>7, <2>3, <2>4
<1>8. CASE full = FALSE
  <2>1. t = FileWrite(s, e, j, i, x, FALSE)
    BY <1>8
  <2>2. Reflagged(s, t, e, j, g)
    BY <1>1, <1>5, <2>1, FileWriteIs
  <2>3. g.lst = RelsegSize => IsFull(s.k, s.c[e].rel, j)
    BY <1>2, <1>3
  <2>4. Turned(s, t, e, j, g) /\ t.k = s.k
    BY <1>3, <2>2, <2>3, ReflaggedTurns DEF Reflagged
  <2> QED BY <1>6, <1>8, <2>4
<1> QED BY <1>7, <1>8

Yes(d) == d = TRUE

\* SetDirty to TRUE.
LEMMA DirtyDoes ==
  ASSUME NEW s, Sound(s), NEW e, NEW j, In(s, e, j), NEW d \in BOOLEAN, Yes(d),
         NEW t, t = SetDirty(s, e, j, d)
  PROVE  /\ Sound(t) /\ t.k = s.k /\ Shaped(s.c, t.c) /\ Remarked(s.c, t.c)
         /\ Of(t, e, j).dirty /\ (Of(t, e, j).fdirty <=> Of(s, e, j).fdirty)
<1>1. PICK g : g = Flagged(d, Of(s, e, j).lst, Of(s, e, j).fdirty)
  OBVIOUS
<1>2. Turned(s, t, e, j, g) /\ t.k = s.k
  BY <1>1, DirtyTurns
<1>3. Sound(t) /\ Shaped(s.c, t.c) /\ Of(t, e, j) = g
  BY <1>2, TurnedFacts
<1>4. Of(t, e, j).dirty = d /\ Of(t, e, j).fdirty = Of(s, e, j).fdirty
  BY DirtyFlags
<1>5. g.dirty /\ (g.fdirty <=> Of(s, e, j).fdirty)
  BY <1>3, <1>4, Zenon DEF Yes
<1>6. Remarked(s.c, t.c)
  <2>1. Of(s, e, j).dirty /\ Of(s, e, j).fdirty => g.dirty /\ g.fdirty
    BY <1>5, Zenon
  <2>2. Turned(s, t, e, j, g)
    BY <1>2
  <2> QED BY <2>1, <2>2, TurnedRemarks
<1> QED BY <1>2, <1>3, <1>5, <1>6, Zenon

\* SetLst.
LEMMA LstDoes ==
  ASSUME NEW s, Sound(s), NEW e, NEW j, In(s, e, j), NEW n \in 0 .. RelsegSize,
         n = RelsegSize => IsFull(s.k, s.c[e].rel, j),
         NEW t, t = SetLst(s, e, j, n)
  PROVE  /\ Sound(t) /\ t.k = s.k /\ Shaped(s.c, t.c) /\ Remarked(s.c, t.c)
<1>1. PICK o, g : o = Of(s, e, j) /\ g = Flagged(o.dirty, n, o.fdirty)
  OBVIOUS
<1>2. Reflagged(s, t, e, j, g)
  BY <1>1, SetLstIs
<1>3. o \in Flags
  BY <1>1, InFacts DEF Of
<1>4. g \in Flags /\ g.lst = n /\ g.dirty = o.dirty /\ g.fdirty = o.fdirty
  <2>1. o.dirty \in BOOLEAN /\ o.fdirty \in BOOLEAN
    BY <1>3, FlagFacts
  <2> QED BY <1>1, <2>1, FlaggedFacts
<1>5. Turned(s, t, e, j, g) /\ t.k = s.k
  BY <1>2, <1>4, ReflaggedTurns DEF Reflagged
<1>6. Sound(t) /\ Shaped(s.c, t.c)
  BY <1>5, TurnedFacts
<1>7. Remarked(s.c, t.c)
  BY <1>1, <1>4, <1>5, TurnedRemarks
<1> QED BY <1>5, <1>6, <1>7

-----------------------------------------------------------------------------
(* mdwrite and mdflush.                                                    *)

\* Entry e leads to r, and block b is in r.
Target(s, e, r, b) ==
  /\ Sound(s) /\ In(s, e, 0) /\ r = s.c[e].rel /\ b \in Nat
  /\ SegOf(b) \in Seg /\ s.k[r][SegOf(b)] # Absent
  /\ PosOf(b) < SegLen(s.k, r, SegOf(b)) /\ FullTo(s.k, r, SegOf(b))

LEMMA RemarkedTrans ==
  ASSUME NEW b, NEW c, NEW d, Len(c) = Len(b), Remarked(b, c), Remarked(c, d)
  PROVE  Remarked(b, d)
BY DEF Remarked

\* _mdfd_getseg and FileWrite.
LEMMA GetWrites ==
  ASSUME NEW s, NEW e, NEW r, NEW b, Target(s, e, r, b), NEW x \in Page,
         NEW full \in BOOLEAN, NEW g, g = mdfd_getseg(s, e, b),
         NEW t, t = FileWrite(g, e, SegOf(b), PosOf(b), x, full)
  PROVE  /\ Sound(t) /\ Grows(s.k, t.k) /\ Kept(s.c, t.c) /\ Remarked(s.c, t.c)
         /\ Len(t.c) = Len(s.c) /\ In(t, e, SegOf(b)) /\ t.c[e].rel = r
         /\ Of(t, e, SegOf(b)).fdirty
         /\ full => Rewritten(s.k, t.k, r, SegOf(b),
                              Put(s.k[r][SegOf(b)].data, PosOf(b), x))
         /\ ~ full => SamePages(s.k, t.k)
<1>1. PICK j, i, a : j = SegOf(b) /\ i = PosOf(b) /\ a = s.k[r][j].data
  OBVIOUS
<1>2. /\ Sound(s) /\ In(s, e, 0) /\ r = s.c[e].rel /\ b \in Nat /\ j \in Seg
      /\ s.k[r][j] # Absent /\ i < SegLen(s.k, r, j) /\ FullTo(s.k, r, j)
  BY <1>1 DEF Target
<1>3. Looked(s, g) /\ In(g, e, j)
  BY <1>1, <1>2, GetsAll
<1>4. /\ Sound(g) /\ SamePages(s.k, g.k) /\ Kept(s.c, g.c) /\ Remarked(s.c, g.c)
      /\ Len(g.c) = Len(s.c)
  BY <1>2, <1>3, LookedDoes
<1>5. g.c[e].rel = r /\ r \in Rel
  BY <1>2, <1>3, LookedIn, ZenonT(60) DEF In
<1>6. FileOf(g, e, j).data = a /\ g.k[r][j].data = a
  BY <1>1, <1>2, <1>4, <1>5 DEF SamePages, FileOf
<1>7. a \in Stored
  <2>1. g.k[r][j] \in File
    BY <1>3, <1>4, <1>5, InFacts
  <2> QED BY <1>6, <2>1, FileFacts
<1>8. PICK z : z = Put(a, i, x)
  OBVIOUS
<1>9. z \in Stored /\ Len(z) = Len(a)
  <2>1. i \in Nat /\ i < Len(a) /\ x \in Pg
    BY <1>1, <1>2, Located, PageIn DEF SegLen
  <2> QED BY <1>7, <1>8, <2>1, PutInside
<1>10. /\ Sound(t) /\ Grows(g.k, t.k) /\ Shaped(g.c, t.c) /\ Remarked(g.c, t.c)
       /\ Of(t, e, j).fdirty
       /\ full => Rewritten(g.k, t.k, r, j, z)
       /\ ~ full => t.k = g.k
  <2>1. IsFull(g.k, g.c[e].rel, j) <=> Len(z) = RelsegSize
    BY <1>5, <1>6, <1>9 DEF IsFull, SegLen
  <2>2. j = MaxSeg => Len(z) # RelsegSize
    BY <1>3, <1>4, <2>1, LastNotFull
  <2>3. z = Put(FileOf(g, e, j).data, i, x)
    BY <1>6, <1>8
  <2>4. t = FileWrite(g, e, j, i, x, full)
    BY <1>1
  <2>5. IsFull(g.k, g.c[e].rel, j) => Len(z) = RelsegSize
    BY <2>1
  <2>6. /\ Sound(t) /\ Grows(g.k, t.k) /\ Shaped(g.c, t.c) /\ Remarked(g.c, t.c)
        /\ Of(t, e, j).fdirty
        /\ full => Rewritten(g.k, t.k, g.c[e].rel, j, z)
        /\ ~ full => t.k = g.k
    BY <1>3, <1>4, <1>9, <2>2, <2>3, <2>4, <2>5, FileWriteDoes
  <2> QED BY <1>5, <2>6
<1>11. Grows(s.k, t.k)
  BY <1>4, <1>10, SameGrows, GrowsTrans
<1>12. Kept(s.c, t.c) /\ Len(t.c) = Len(s.c)
  BY <1>4, <1>10, ShapedKept, KeptTrans, VectorLens DEF Shaped
<1>13. Remarked(s.c, t.c)
  BY <1>4, <1>10, RemarkedTrans
<1>14. In(t, e, j) /\ t.c[e].rel = r
  BY <1>3, <1>5, <1>10, ShapedIn, ZenonT(60)
<1>15. full => Rewritten(s.k, t.k, r, j, z)
  BY <1>4, <1>10, SameRewritten
<1>16. ~ full => SamePages(s.k, t.k)
  BY <1>4, <1>10
<1> QED BY <1>1, <1>2, <1>8, <1>10, <1>11, <1>12, <1>13, <1>14, <1>15, <1>16

LEMMA WriteDoes ==
  ASSUME NEW s, NEW e, NEW r, NEW b, Target(s, e, r, b), NEW x \in Page,
         NEW full \in BOOLEAN, NEW t, t = mdwrite(s, e, b, x, full)
  PROVE  /\ Sound(t) /\ Grows(s.k, t.k) /\ Kept(s.c, t.c) /\ Remarked(s.c, t.c)
         /\ e \in 1 .. Len(t.c) /\ Marked(t.c, e, r, SegOf(b))
         /\ full => Rewritten(s.k, t.k, r, SegOf(b),
                              Put(s.k[r][SegOf(b)].data, PosOf(b), x))
         /\ ~ full => SamePages(s.k, t.k)
<1>0. PICK j, g, w, d : /\ j = SegOf(b) /\ g = mdfd_getseg(s, e, b)
                        /\ w = FileWrite(g, e, SegOf(b), PosOf(b), x, full) /\ d = TRUE
  OBVIOUS
<1>1. /\ Sound(w) /\ Grows(s.k, w.k) /\ Kept(s.c, w.c) /\ Remarked(s.c, w.c)
      /\ Len(w.c) = Len(s.c) /\ In(w, e, j) /\ w.c[e].rel = r
      /\ Of(w, e, j).fdirty
      /\ full => Rewritten(s.k, w.k, r, SegOf(b),
                           Put(s.k[r][SegOf(b)].data, PosOf(b), x))
      /\ ~ full => SamePages(s.k, w.k)
  BY <1>0, GetWrites
<1>2. t = SetDirty(w, e, j, d)
  BY <1>0 DEF mdwrite, SegOf, PosOf
<1>3. d \in BOOLEAN /\ Yes(d)
  BY <1>0, Zenon DEF Yes
<1>4. /\ Sound(t) /\ t.k = w.k /\ Shaped(w.c, t.c) /\ Remarked(w.c, t.c)
      /\ Of(t, e, j).dirty /\ (Of(t, e, j).fdirty <=> Of(w, e, j).fdirty)
  BY <1>1, <1>2, <1>3, DirtyDoes
<1>5. Kept(s.c, t.c)
  BY <1>1, <1>4, ShapedKept, KeptTrans, VectorLens, ZenonT(60) DEF Shaped, Target
<1>6. Remarked(s.c, t.c)
  BY <1>1, <1>4, RemarkedTrans
<1>7. In(t, e, j) /\ t.c[e].rel = r /\ e \in 1 .. Len(t.c) /\ r \in Rel
  BY <1>1, <1>4, ShapedIn, ZenonT(60) DEF In
<1>8. Marked(t.c, e, r, j)
  <2>1. j \in Seg
    BY <1>0 DEF Target
  <2> QED BY <1>1, <1>4, <1>7, <2>1, MarkedIn
<1> QED BY <1>0, <1>1, <1>4, <1>5, <1>6, <1>7, <1>8

LEMMA FlushDoes ==
  ASSUME NEW s, NEW e, NEW r, NEW b, Target(s, e, r, b), NEW x \in Page,
         NEW full \in BOOLEAN, NEW t, t = mdflush(s, e, b, x, full)
  PROVE  /\ Sound(t) /\ Grows(s.k, t.k) /\ Kept(s.c, t.c)
         /\ full => /\ Pays(s, t) /\ Forced(t.k, r, SegOf(b))
                    /\ Rewritten(s.k, t.k, r, SegOf(b),
                                 Put(s.k[r][SegOf(b)].data, PosOf(b), x))
         /\ ~ full => SamePages(s.k, t.k)
<1>0. PICK j, g, w, d, z :
        /\ j = SegOf(b) /\ g = mdfd_getseg(s, e, b)
        /\ w = FileWrite(g, e, SegOf(b), PosOf(b), x, full) /\ d = FALSE
        /\ z = Put(s.k[r][SegOf(b)].data, PosOf(b), x)
  OBVIOUS
<1>1. /\ Sound(w) /\ Grows(s.k, w.k) /\ Kept(s.c, w.c) /\ Remarked(s.c, w.c)
      /\ Len(w.c) = Len(s.c) /\ In(w, e, j) /\ w.c[e].rel = r
      /\ Of(w, e, j).fdirty
      /\ full => Rewritten(s.k, w.k, r, j, z)
      /\ ~ full => SamePages(s.k, w.k)
  BY <1>0, GetWrites
<1>2. PICK y : y = IF full THEN FileSync(w, e, j) ELSE w
  OBVIOUS
<1>3. t = SetDirty(y, e, j, d)
  BY <1>0, <1>2 DEF mdflush, SegOf, PosOf
<1>4. d \in BOOLEAN
  BY <1>0, Zenon
<1>5. Sound(y) /\ SamePages(w.k, y.k) /\ Shaped(w.c, y.c)
      /\ (full => Settled(w, y) /\ ~ Of(y, e, j).fdirty)
  <2>1. CASE ~ full
    BY <1>1, <1>2, <2>1, GrowsSame DEF Shaped
  <2>2. CASE full
    <3>1. y = FileSync(w, e, j)
      BY <1>2, <2>2
    <3> QED BY <1>1, <3>1, SyncDoes
  <2> QED BY <2>1, <2>2
<1>51. full => Forced(y.k, r, j)
  <2> SUFFICES ASSUME full PROVE Forced(y.k, r, j)
    OBVIOUS
  <2>1. y = FileSync(w, e, j)
    BY <1>2
  <2> QED BY <1>1, <2>1, SyncTurns
<1>6. In(y, e, j) /\ y.c[e].rel = r /\ Len(y.c) = Len(s.c)
  BY <1>1, <1>5, ShapedIn, ZenonT(60) DEF Shaped
<1>7. Sound(t) /\ t.k = y.k /\ Shaped(y.c, t.c)
  <2>1. PICK h : h = Flagged(d, Of(y, e, j).lst, Of(y, e, j).fdirty)
    OBVIOUS
  <2>2. Turned(y, t, e, j, h) /\ t.k = y.k
    BY <1>3, <1>4, <1>5, <1>6, <2>1, DirtyTurns
  <2> QED BY <1>5, <1>6, <2>2, TurnedFacts
<1>8. full => Settled(y, t)
  BY <1>3, <1>4, <1>5, <1>6, ClearSettles
<1>9. full => Pays(s, t)
  <2> SUFFICES ASSUME full, NEW q \in 1 .. Len(s.c), NEW m \in Rel, NEW i \in Seg,
                      Marked(s.c, q, m, i)
               PROVE  Due(t, q, m, i)
    BY DEF Pays
  <2>1. Due(w, q, m, i)
    BY <1>1 DEF Remarked, Due
  <2>2. Due(y, q, m, i)
    BY <1>1, <1>5, <2>1 DEF Settled
  <2> QED BY <1>6, <1>8, <2>2 DEF Settled
<1>10. Grows(s.k, t.k)
  BY <1>1, <1>5, <1>7, SameGrows, GrowsTrans
<1>11. Kept(s.c, t.c)
  <2>1. Kept(w.c, y.c) /\ Kept(y.c, t.c)
    BY <1>1, <1>5, <1>7, ShapedKept
  <2>2. Len(s.c) \in Nat /\ Len(w.c) \in Nat /\ Len(y.c) \in Nat /\ Len(t.c) \in Nat
    BY <1>1, <1>5, <1>7, VectorLens DEF Target
  <2>3. Kept(w.c, t.c)
    BY <2>1, <2>2, KeptTrans
  <2> QED BY <1>1, <2>2, <2>3, KeptTrans
<1>12. full => Rewritten(s.k, t.k, r, j, z)
  <2>1. r \in Rel /\ j \in Seg
    BY <1>0, <1>1 DEF Target, In
  <2> QED BY <1>1, <1>5, <1>7, <2>1, RewrittenSame
<1>13. ~ full => SamePages(s.k, t.k)
  BY <1>1, <1>5, <1>7, SamePagesTrans
<1> QED BY <1>0, <1>7, <1>9, <1>10, <1>11, <1>12, <1>13, <1>51

-----------------------------------------------------------------------------
(* mdextend.                                                               *)

\* The hint mdextend leaves, of a segment that holds l blocks and gets one.
Hint(n) == IF (n + 1) % RelsegSize = 0 THEN RelsegSize ELSE (n + 1) % RelsegSize

LEMMA HintIs ==
  ASSUME NEW j \in Nat, NEW l \in Nat, l < RelsegSize, NEW n,
         n = j * RelsegSize + l
  PROVE  Hint(n) = l + 1 /\ Hint(n) \in 0 .. RelsegSize
<1>1. PICK m, h : m = n + 1 /\ h = PosOf(m)
  OBVIOUS
<1>2. Hint(n) = IF h = 0 THEN RelsegSize ELSE h
  BY <1>1 DEF Hint, PosOf
<1>3. RelsegSize \in Nat /\ RelsegSize >= 1 /\ j * RelsegSize \in Nat
  BY SizeFacts, Product
<1>4. CASE l + 1 < RelsegSize
  <2>1. m = j * RelsegSize + (l + 1) /\ l + 1 \in Nat
    BY <1>1, <1>3
  <2>2. h = l + 1
    BY <1>1, <1>4, <2>1, LocatedOnce
  <2> QED BY <1>2, <1>3, <1>4, <2>2
<1>5. CASE ~(l + 1 < RelsegSize)
  <2>1. l + 1 = RelsegSize
    BY <1>3, <1>5
  <2>2. PICK q : q = j + 1
    OBVIOUS
  <2>3. q \in Nat /\ q * RelsegSize = j * RelsegSize + RelsegSize
    BY <2>2, Product
  <2>4. m = q * RelsegSize + 0 /\ 0 < RelsegSize
    BY <1>1, <1>3, <2>1, <2>3
  <2>5. h = 0
    BY <1>1, <2>3, <2>4, LocatedOnce
  <2> QED BY <1>2, <1>3, <2>1, <2>5
<1> QED BY <1>4, <1>5

\* The last block there is room for is not the last of a segment MaxSeg.
LEMMA RoomFor ==
  ASSUME NEW l \in Nat, l < RelsegSize, NEW n, n = MaxSeg * RelsegSize + l,
         n < MaxBlocks
  PROVE  l + 1 # RelsegSize
<1>1. PICK q, i : q = MaxSeg /\ i = PosOf(MaxBlocks)
  OBVIOUS
<1>2. q = SegOf(MaxBlocks)
  BY <1>1 DEF MaxSeg, SegOf
<1>3. q \in Nat /\ i \in Nat /\ i < RelsegSize /\ MaxBlocks = q * RelsegSize + i
  BY <1>1, <1>2, Located, SizeFacts
<1>4. q * RelsegSize \in Nat /\ RelsegSize \in Nat
  BY <1>3, Product, SizeFacts
<1>5. n = q * RelsegSize + l
  BY <1>1
<1> QED BY <1>3, <1>4, <1>5

\* mdnblocks: where it stops, in terms of the relation.
LEMMA CountFacts ==
  ASSUME NEW s, Sound(s), NEW e, In(s, e, 0), NEW r, r = s.c[e].rel,
         NEW v, v = mdnblocks(s, e), NEW u, u = v.s, NEW n, Counts(s.k, r, n)
  PROVE  /\ Looked(s, u) /\ Sound(u) /\ u.c[e].rel = r /\ In(u, e, 0)
         /\ v.n = n /\ n \in Nat /\ SegOf(n) \in Seg
         /\ EndsAt(u.k, r, SegOf(n), n) /\ u.k[r][SegOf(n)] # Absent
<1>1. Looked(s, u) /\ \E i \in Seg : Stops(u, e, i, v.n)
  BY WalksAll
<1>2. PICK j \in Seg : Stops(u, e, j, v.n)
  BY <1>1
<1>3. Sound(u) /\ SamePages(s.k, u.k) /\ u.c[e].rel = r /\ In(u, e, 0) /\ r \in Rel
  BY <1>1, LookedDoes, LookedIn DEF In
<1>4. PICK m : m = v.n
  OBVIOUS
<1>5. /\ EndsAt(u.k, u.c[e].rel, j, m) /\ Counts(u.k, u.c[e].rel, m)
      /\ u.k[u.c[e].rel][j] # Absent /\ m \in Nat /\ SegOf(m) = j
  <2>1. Stops(u, e, j, m) /\ Sound(u)
    BY <1>2, <1>3, <1>4
  <2> QED BY <1>2, <2>1, StopsCounts
<1>6. m = n
  BY <1>3, <1>5, CountsSame, CountsOnce
<1> QED BY <1>1, <1>2, <1>3, <1>4, <1>5, <1>6

\* The first half of mdextend: the blocks are counted, and the chain reaches
\* the segment of the next one.
LEMMA ExtendFinds ==
  ASSUME NEW s, Sound(s), NEW e, In(s, e, 0), NEW r, r = s.c[e].rel,
         NEW n, Counts(s.k, r, n), NEW v, v = mdnblocks(s, e),
         NEW g, g = mdfd_getseg(v.s, e, v.n)
  PROVE  Looked(s, g) /\ v.n = n /\ In(g, e, SegOf(n)) /\ n \in Nat
<1>1. PICK u : u = v.s
  OBVIOUS
<1>2. /\ Looked(s, u) /\ Sound(u) /\ u.c[e].rel = r /\ In(u, e, 0)
      /\ v.n = n /\ n \in Nat /\ SegOf(n) \in Seg
      /\ EndsAt(u.k, r, SegOf(n), n) /\ u.k[r][SegOf(n)] # Absent
  BY <1>1, CountFacts
<1>3. g = mdfd_getseg(u, e, n)
  BY <1>1, <1>2
<1>4. FullTo(u.k, u.c[e].rel, SegOf(n))
  BY <1>2 DEF EndsAt
<1>5. Looked(u, g) /\ In(g, e, SegOf(n))
  BY <1>2, <1>3, <1>4, GetsAll
<1> QED BY <1>2, <1>5, LookedTrans

\* Where the last segment of a relation ends.
LEMMA EndsHere ==
  ASSUME NEW k, Files(k), NEW r \in Rel, NEW n, Counts(k, r, n),
         k[r][SegOf(n)] # Absent
  PROVE  /\ n \in Nat /\ SegOf(n) \in Seg /\ EndsAt(k, r, SegOf(n), n)
         /\ SegLen(k, r, SegOf(n)) = PosOf(n) /\ PosOf(n) \in Nat
         /\ PosOf(n) < RelsegSize /\ n = SegOf(n) * RelsegSize + PosOf(n)
<1>1. n \in Nat /\ SegOf(n) \in Seg /\ EndsAt(k, r, SegOf(n), n)
  BY EndsSeg
<1>2. PICK j, i, l : j = SegOf(n) /\ i = PosOf(n) /\ l = SegLen(k, r, SegOf(n))
  OBVIOUS
<1>3. j \in Nat /\ i \in Nat /\ i < RelsegSize /\ n = j * RelsegSize + i
  BY <1>1, <1>2, Located
<1>4. n = j * RelsegSize + l
  BY <1>1, <1>2 DEF EndsAt
<1>5. l \in Nat
  BY <1>1, <1>2, SegLenFacts DEF Files
<1>6. j * RelsegSize \in Nat
  BY <1>3, Product
<1>7. l = i
  BY <1>3, <1>4, <1>5, <1>6
<1> QED BY <1>1, <1>2, <1>3, <1>7

\* The second half: a zero page behind the last one.
LEMMA ExtendDoes ==
  ASSUME NEW s, Sound(s), NEW e, NEW n, In(s, e, SegOf(n)), NEW r, r = s.c[e].rel,
         Counts(s.k, r, n), n < MaxBlocks, NEW full \in BOOLEAN,
         NEW i, i = PosOf(n), NEW t, t = mdextend(s, e, n, i, full)
  PROVE  /\ Sound(t) /\ Grows(s.k, t.k) /\ Kept(s.c, t.c) /\ Remarked(s.c, t.c)
         /\ full => /\ e \in 1 .. Len(t.c) /\ Marked(t.c, e, r, SegOf(n))
                    /\ Rewritten(s.k, t.k, r, SegOf(n),
                                 Append(s.k[r][SegOf(n)].data, Zero))
         /\ ~ full => SamePages(s.k, t.k)
<1>1. PICK j, a : j = SegOf(n) /\ a = s.k[r][j].data
  OBVIOUS
<1>2. r \in Rel /\ Files(s.k) /\ s.k[r][j] # Absent /\ s.k[r][j] \in File /\ In(s, e, j)
  BY <1>1, InFacts DEF In, Sound
<1>3. /\ n \in Nat /\ j \in Seg /\ EndsAt(s.k, r, j, n) /\ SegLen(s.k, r, j) = i
      /\ i \in Nat /\ i < RelsegSize /\ n = j * RelsegSize + i /\ j \in Nat
  BY <1>1, <1>2, EndsHere, SegFacts
<1>4. a \in Stored /\ i = Len(a)
  BY <1>1, <1>2, <1>3, FileFacts DEF SegLen
<1>5. i # RelsegSize
  BY <1>3, SizeFacts
<1>6. PICK d : d = Put(a, i, Zero)
  OBVIOUS
<1>7. d = Append(a, Zero) /\ d \in Stored /\ Len(d) = i + 1
  <2>1. Len(a) < RelsegSize /\ d = Put(a, Len(a), Zero)
    BY <1>3, <1>4, <1>6
  <2> QED BY <1>4, <2>1, PutBehind, PageIn
<1>8. PICK w : w = FileWrite(s, e, j, i, Zero, full)
  OBVIOUS
<1>9. /\ Sound(w) /\ Grows(s.k, w.k) /\ Shaped(s.c, w.c) /\ Remarked(s.c, w.c)
      /\ Of(w, e, j).fdirty
      /\ full => Rewritten(s.k, w.k, r, j, d)
      /\ ~ full => w.k = s.k
  <2>1. d = Put(FileOf(s, e, j).data, i, Zero)
    BY <1>1, <1>6 DEF FileOf
  <2>2. ~ IsFull(s.k, s.c[e].rel, j)
    BY <1>3, <1>5 DEF IsFull
  <2>3. j = MaxSeg => Len(d) # RelsegSize
    BY <1>3, <1>7, RoomFor
  <2>4. IsFull(s.k, s.c[e].rel, j) => Len(d) = RelsegSize
    BY <2>2
  <2>5. /\ Sound(w) /\ Grows(s.k, w.k) /\ Shaped(s.c, w.c) /\ Remarked(s.c, w.c)
        /\ Of(w, e, j).fdirty
        /\ full => Rewritten(s.k, w.k, s.c[e].rel, j, d)
        /\ ~ full => w.k = s.k
    BY <1>2, <1>7, <1>8, <2>1, <2>3, <2>4, FileWriteDoes
  <2> QED BY <2>5
<1>10. In(w, e, j) /\ w.c[e].rel = r
  BY <1>2, <1>9, ShapedIn
<1>11. Kept(s.c, w.c) /\ Len(w.c) = Len(s.c)
  BY <1>9, ShapedKept DEF Shaped
<1>12. CASE ~ full
  <2>1. t = w
    BY <1>1, <1>8, <1>12 DEF mdextend, SegOf
  <2>2. SamePages(s.k, t.k)
    BY <1>9, <1>12, <2>1, GrowsSame
  <2> QED BY <1>9, <1>11, <1>12, <2>1, <2>2
<1>13. CASE full
  <2>1. PICK b, y, h : b = TRUE /\ y = SetDirty(w, e, j, b) /\ h = Hint(n)
    OBVIOUS
  <2>2. t = SetLst(y, e, j, h)
    BY <1>1, <1>8, <1>13, <2>1 DEF mdextend, SegOf, Hint
  <2>3. b \in BOOLEAN /\ Yes(b)
    BY <2>1, Zenon DEF Yes
  <2>4. /\ Sound(y) /\ y.k = w.k /\ Shaped(w.c, y.c) /\ Remarked(w.c, y.c)
        /\ Of(y, e, j).dirty /\ (Of(y, e, j).fdirty <=> Of(w, e, j).fdirty)
    BY <1>9, <1>10, <2>1, <2>3, DirtyDoes
  <2>5. In(y, e, j) /\ y.c[e].rel = r
    BY <1>10, <2>4, ShapedIn
  <2>6. h = i + 1 /\ h \in 0 .. RelsegSize
    BY <1>3, <2>1, HintIs
  <2>7. w.k[r][j] # Absent /\ w.k[r][j].data = d
    BY <1>9, <1>13 DEF Rewritten
  <2>8. h = RelsegSize => IsFull(y.k, y.c[e].rel, j)
    BY <1>7, <2>4, <2>5, <2>6, <2>7 DEF IsFull, SegLen
  <2>9. Sound(t) /\ t.k = y.k /\ Shaped(y.c, t.c) /\ Remarked(y.c, t.c)
    BY <2>2, <2>4, <2>5, <2>6, <2>8, LstDoes
  <2>10. Kept(s.c, t.c) /\ Len(t.c) = Len(s.c) /\ Len(y.c) = Len(s.c)
    <3>1. Kept(w.c, y.c) /\ Kept(y.c, t.c)
      BY <1>9, <2>4, <2>9, ShapedKept
    <3>2. Len(s.c) \in Nat /\ Len(w.c) \in Nat /\ Len(y.c) \in Nat /\ Len(t.c) \in Nat
      BY <1>9, <2>4, <2>9, VectorLens
    <3>3. Kept(s.c, y.c)
      BY <1>11, <3>1, <3>2, KeptTrans
    <3> QED BY <1>11, <2>4, <2>9, <3>1, <3>2, <3>3, KeptTrans DEF Shaped
  <2>11. Remarked(s.c, t.c)
    <3>1. Remarked(s.c, y.c)
      BY <1>9, <1>11, <2>4, RemarkedTrans
    <3> QED BY <2>9, <2>10, <3>1, RemarkedTrans
  <2>12. Marked(t.c, e, r, j) /\ e \in 1 .. Len(t.c)
    <3>1. e \in 1 .. Len(y.c)
      BY <2>5 DEF In
    <3>2. Marked(y.c, e, r, j)
      BY <1>2, <1>3, <1>9, <2>4, <2>5, <3>1, MarkedIn
    <3> QED BY <1>2, <1>3, <2>9, <2>10, <3>1, <3>2 DEF Remarked
  <2>13. Rewritten(s.k, t.k, r, j, d) /\ Grows(s.k, t.k)
    BY <1>9, <1>13, <2>4, <2>9
  <2> QED BY <1>1, <1>7, <1>13, <2>9, <2>10, <2>11, <2>12, <2>13
<1> QED BY <1>12, <1>13

-----------------------------------------------------------------------------
(* mdblindwrt and mdtruncate.                                              *)

LEMMA BlindDoes ==
  ASSUME NEW k, Files(k), NEW r \in Rel, NEW b \in Nat, SegOf(b) \in Seg,
         k[r][SegOf(b)] # Absent, PosOf(b) < SegLen(k, r, SegOf(b)), NEW x \in Page,
         NEW m, m = mdblindwrt(k, r, b, x)
  PROVE  /\ Files(m) /\ Grows(k, m) /\ Forced(m, r, SegOf(b))
         /\ Rewritten(k, m, r, SegOf(b), Put(k[r][SegOf(b)].data, PosOf(b), x))
<1>1. PICK j, i, a : j = SegOf(b) /\ i = PosOf(b) /\ a = k[r][j].data
  OBVIOUS
<1>2. PICK d : d = Put(a, i, x)
  OBVIOUS
<1>3. k \in Store /\ k[r][j] \in File /\ k[r][j] # Absent /\ j \in Seg
  BY <1>1, SegLenFacts DEF Files
<1>4. a \in Stored
  BY <1>1, <1>3, FileFacts
<1>5. i \in Nat /\ i < Len(a) /\ x \in Pg
  BY <1>1, Located, PageIn DEF SegLen
<1>6. d \in Stored /\ Len(d) = Len(a)
  BY <1>2, <1>4, <1>5, PutInside
<1>7. d = [a EXCEPT ![i + 1] = x]
  BY <1>2, <1>5 DEF Put
<1>8. PICK f : f = MadeFile(d, d)
  OBVIOUS
<1>9. f \in File /\ f.data = d
  BY <1>6, <1>8, MadeFacts
<1>10. m = PutFile(k, r, j, f)
  BY <1>1, <1>7, <1>8 DEF mdblindwrt, PutFile, MadeFile, SegOf, PosOf
<1>11. FilePut(k, m, r, j, f)
  BY <1>3, <1>9, <1>10, FilePutFacts
<1>12. Files(m) /\ Grows(k, m)
  <2>1. IsFull(k, r, j) <=> Len(f.data) = RelsegSize
    BY <1>1, <1>6, <1>9 DEF IsFull, SegLen
  <2>2. j = MaxSeg => ~ IsFull(k, r, j)
    BY <1>3 DEF Files, Gapless
  <2>3. IsFull(k, r, j) => Len(f.data) = RelsegSize
    BY <2>1
  <2>4. j = MaxSeg => Len(f.data) # RelsegSize
    BY <2>1, <2>2
  <2> QED BY <1>3, <1>9, <1>11, <2>3, <2>4, FilesPut
<1>13. Rewritten(k, m, r, j, d)
  BY <1>9, <1>11, PutRewrites
<1>14. Forced(m, r, j)
  <2>1. m[r][j] = MadeFile(d, d)
    BY <1>8, <1>11 DEF FilePut
  <2> QED BY <1>6, <2>1, SyncedForces
<1> QED BY <1>1, <1>2, <1>12, <1>13, <1>14

LEMMA SubFacts ==
  ASSUME NEW d \in Stored, NEW n \in Nat, n <= Len(d), NEW z, z = SubSeq(d, 1, n)
  PROVE  /\ z \in Stored /\ Len(z) = n
         /\ \A y \in 1 .. n : z[y] = d[y]
<1>1. d \in Seq(Pg) /\ Len(d) \in Nat /\ Len(d) <= RelsegSize
  BY StoredFacts
<1>2. \A y \in 1 .. n : d[y] \in Pg
  BY <1>1
<1>3. z = [y \in 1 .. n |-> d[y]]
  BY <1>1
<1>4. z \in Seq(Pg) /\ Len(z) = n
  BY <1>2, <1>3
<1>5. Len(z) <= RelsegSize
  BY <1>1, <1>4, SizeFacts
<1>6. z \in Stored
  BY <1>4, <1>5 DEF Stored, Pg
<1> QED BY <1>3, <1>4, <1>6

\* Relation r of n blocks is cut to i of them, or left as it is; the answer m
\* says which.
Truncated(s, t, r, n, i, m) ==
  /\ Sound(t) /\ Grows(s.k, t.k) /\ Kept(s.c, t.c) /\ Pays(s, t)
  /\ \/ SamePages(s.k, t.k) /\ m = n
     \/ /\ SegOf(n) = 0 /\ s.k[r][0] # Absent /\ m = i
        /\ i <= Len(s.k[r][0].data)
        /\ Rewritten(s.k, t.k, r, 0, SubSeq(s.k[r][0].data, 1, i))

LEMMA TruncateDoes ==
  ASSUME NEW s, Sound(s), NEW e, In(s, e, 0), NEW r, r = s.c[e].rel,
         NEW n, Counts(s.k, r, n), NEW i \in Nat, i <= n,
         NEW w, w = mdtruncate(s, e, i), NEW t, t = w.s
  PROVE  Truncated(s, t, r, n, i, w.n)
<1>1. PICK v, u : v = mdnblocks(s, e) /\ u = v.s
  OBVIOUS
<1>2. /\ Looked(s, u) /\ Sound(u) /\ u.c[e].rel = r /\ In(u, e, 0)
      /\ v.n = n /\ n \in Nat /\ SegOf(n) \in Seg
      /\ EndsAt(u.k, r, SegOf(n), n) /\ u.k[r][SegOf(n)] # Absent
  BY <1>1, CountFacts
<1>3. /\ SamePages(s.k, u.k) /\ Kept(s.c, u.c) /\ Remarked(s.c, u.c)
      /\ Len(u.c) = Len(s.c)
  BY <1>2, LookedDoes
<1>4. SegOf(n) \in Nat
  BY <1>2, Located
<1>5. CASE SegOf(n) > 0
  <2>1. t = u /\ w.n = n
    BY <1>1, <1>2, <1>5 DEF mdtruncate, SegOf
  <2>2. Pays(s, t)
    BY <1>3, <2>1 DEF Remarked, Pays, Due
  <2>3. Grows(s.k, t.k) /\ SamePages(s.k, t.k)
    BY <1>3, <2>1, SameGrows
  <2> QED BY <1>2, <1>3, <2>1, <2>2, <2>3 DEF Truncated
<1>6. CASE ~(SegOf(n) > 0)
  <2>1. SegOf(n) = 0
    BY <1>4, <1>6
  <2>2. PICK y : y = FileSync(u, e, 0)
    OBVIOUS
  <2>3. Sound(y) /\ SamePages(u.k, y.k) /\ Shaped(u.c, y.c) /\ Settled(u, y)
    BY <1>2, <2>2, SyncDoes
  <2>4. In(y, e, 0) /\ y.c[e].rel = r /\ r \in Rel /\ Len(y.c) = Len(s.c)
    BY <1>2, <1>3, <2>3, ShapedIn DEF In, Shaped
  <2>5. PICK f, d : f = y.k[r][0] /\ d = f.data
    OBVIOUS
  <2>51. PICK z : z = SubSeq(d, 1, i)
    OBVIOUS
  <2>52. PICK h : h = MadeFile(z, f.disk)
    OBVIOUS
  <2>6. f \in File /\ f # Absent /\ d \in Stored /\ f.disk \in Stored /\ 0 \in Seg
    BY <2>3, <2>4, <2>5, InFacts, FileFacts, SegFacts
  <2>7. SamePages(s.k, y.k)
    BY <1>3, <2>3, SamePagesTrans
  <2>8. s.k[r][0] # Absent /\ s.k[r][0].data = d
    <3>1. s.k[r][0] # Absent /\ 0 \in Seg
      BY InFacts, SegFacts
    <3> QED BY <2>4, <2>5, <2>7, <3>1 DEF SamePages
  <2>9. u.k[r][0].data = d
    <3>1. u.k[r][0] # Absent
      BY <1>2, <2>1
    <3> QED BY <2>3, <2>4, <2>5, <2>6, <3>1 DEF SamePages
  <2>10. n = Len(d) /\ Len(d) # RelsegSize
    <3>1. n = 0 * RelsegSize + SegLen(u.k, r, 0) /\ ~ IsFull(u.k, r, 0)
      BY <1>2, <2>1 DEF EndsAt
    <3>2. SegLen(u.k, r, 0) = Len(d)
      BY <2>9 DEF SegLen
    <3>3. 0 * RelsegSize = 0
      BY Product
    <3>4. Len(d) \in Nat
      BY <2>6, StoredFacts
    <3> QED BY <3>1, <3>2, <3>3, <3>4 DEF IsFull
  <2>11. z \in Stored /\ Len(z) = i /\ \A q \in 1 .. i : z[q] = d[q]
    <3>1. d \in Stored /\ i <= Len(d)
      BY <2>6, <2>10
    <3> QED BY <2>51, <3>1, SubFacts
  <2>12. h \in File /\ h.data = z /\ h.disk = f.disk
    <3>1. z \in Stored /\ f.disk \in Stored
      BY <2>6, <2>11
    <3> QED BY <2>52, <3>1, MadeFacts
  <2>130. /\ t = [y EXCEPT !.k[y.c[e].rel][0].data = SubSeq(@, 1, i)]
          /\ w.n = i
    BY <1>1, <1>2, <1>6, <2>2 DEF mdtruncate, SegOf
  <2>13. PICK m : m = PutFile(y.k, r, 0, h)
    OBVIOUS
  <2>14. t = [k |-> m, c |-> y.c]
    <3>1. t = [y EXCEPT !.k[y.c[e].rel][0].data = SubSeq(@, 1, i)]
      BY <2>130
    <3>2. [f EXCEPT !.data = z] = h
      <4>1. f = MadeFile(f.data, f.disk)
        BY <2>6, FileFacts
      <4> QED BY <2>52, <4>1 DEF MadeFile
    <3>3. m = [y.k EXCEPT ![r][0].data = z]
      BY <2>5, <2>13, <3>2 DEF PutFile
    <3>4. [y.k EXCEPT ![r][0].data = z] = [y.k EXCEPT ![r][0].data = SubSeq(@, 1, i)]
      BY <2>5, <2>51
    <3>5. t = [y EXCEPT !.k = m]
      BY <2>4, <3>1, <3>3, <3>4
    <3>6. IsState(y)
      BY <2>3 DEF Sound
    <3> QED BY <3>5, <3>6 DEF IsState
  <2>15. IsState(t) /\ t.k = m /\ t.c = y.c
    BY <2>14 DEF IsState
  <2>16. FilePut(y.k, m, r, 0, h)
    BY <2>3, <2>4, <2>6, <2>12, <2>13, FilePutFacts DEF Sound, Files
  <2>17. Files(m) /\ Grows(y.k, m)
    <3>1. ~ IsFull(y.k, r, 0)
      BY <2>5, <2>10 DEF IsFull, SegLen
    <3>2. Len(h.data) # RelsegSize
      <4>1. Len(d) \in Nat /\ Len(d) <= RelsegSize
        BY <2>6, StoredFacts
      <4> QED BY <2>10, <2>11, <2>12, <4>1, SizeFacts
    <3>3. y.k[r][0] # Absent /\ Files(y.k)
      BY <2>3, <2>5, <2>6 DEF Sound
    <3> QED BY <2>4, <2>6, <2>12, <2>16, <3>1, <3>2, <3>3, FilesPut
  <2>18. Sound(t)
    <3>1. Vector(m, y.c)
      BY <2>3, <2>17, VectorGrows DEF Sound
    <3> QED BY <2>15, <2>17, <3>1 DEF Sound
  <2>19. Grows(s.k, t.k)
    BY <2>7, <2>15, <2>17, SameGrows, GrowsTrans
  <2>20. Kept(s.c, t.c)
    <3>1. Kept(u.c, y.c)
      BY <1>2, <2>3, ShapedKept
    <3>2. Len(s.c) \in Nat /\ Len(u.c) \in Nat /\ Len(y.c) \in Nat
      BY <1>2, <2>3, VectorLens
    <3> QED BY <1>3, <2>15, <3>1, <3>2, KeptTrans
  <2>21. Settled(y, t)
    <3> SUFFICES ASSUME NEW x \in 1 .. Len(y.c), NEW q \in Rel, NEW j \in Seg,
                        Due(y, x, q, j)
                 PROVE  Due(t, x, q, j)
      BY DEF Settled
    <3>1. CASE Marked(y.c, x, q, j)
      BY <2>15, <3>1 DEF Due
    <3>2. CASE Forced(y.k, q, j) /\ ~(q = r /\ j = 0)
      <4>1. m[q][j] = y.k[q][j]
        BY <2>16, <3>2 DEF FilePut
      <4> QED BY <2>15, <3>2, <4>1 DEF Due, Forced
    <3>3. CASE Forced(y.k, r, 0)
      <4>1. \A a \in 1 .. Len(d) : a <= Len(f.disk) /\ f.disk[a] = d[a]
        BY <2>5, <3>3 DEF Forced
      <4>2. \A a \in 1 .. i : a \in 1 .. Len(d)
        BY <2>10
      <4>3. m[r][0] = h
        BY <2>16 DEF FilePut
      <4>4. \A a \in 1 .. Len(h.data) : a <= Len(h.disk) /\ h.disk[a] = h.data[a]
        BY <2>11, <2>12, <4>1, <4>2
      <4>5. Forced(m, r, 0)
        BY <2>12, <4>3, <4>4 DEF Forced
      <4>6. CASE q = r /\ j = 0
        BY <2>15, <4>5, <4>6 DEF Due
      <4>7. CASE ~(q = r /\ j = 0)
        BY <3>1, <3>2, <4>7 DEF Due
      <4> QED BY <4>6, <4>7
    <3> QED BY <3>1, <3>2, <3>3 DEF Due
  <2>22. Pays(s, t)
    <3> SUFFICES ASSUME NEW x \in 1 .. Len(s.c), NEW q \in Rel, NEW j \in Seg,
                        Marked(s.c, x, q, j)
                 PROVE  Due(t, x, q, j)
      BY DEF Pays
    <3>1. Due(u, x, q, j)
      BY <1>3 DEF Remarked, Due
    <3>2. Due(y, x, q, j)
      BY <1>3, <2>3, <3>1 DEF Settled
    <3> QED BY <2>4, <2>21, <3>2 DEF Settled
  <2>23. Rewritten(s.k, t.k, r, 0, z)
    <3>1. Rewritten(y.k, m, r, 0, z)
      BY <2>12, <2>16, PutRewrites
    <3> QED BY <2>7, <2>15, <3>1, SameRewritten
  <2>24. i <= Len(s.k[r][0].data) /\ z = SubSeq(s.k[r][0].data, 1, i)
    BY <2>51, <2>8, <2>10
  <2> QED BY <2>1, <2>8, <2>130, <2>18, <2>19, <2>20, <2>22, <2>23, <2>24 DEF Truncated
<1> QED BY <1>5, <1>6

-----------------------------------------------------------------------------
(* mdcreate, mdopen and mdunlink.                                          *)

LEMMA FilesBegun ==
  ASSUME NEW k, Files(k), NEW r \in Rel, NEW m, m = Created(k, r, 0)
  PROVE  /\ Files(m) /\ Grows(k, m) /\ m[r][0] # Absent
         /\ k[r][0] # Absent => m = k
         /\ k[r][0] = Absent => FilePut(k, m, r, 0, Empty)
<1>1. k \in Store /\ 0 \in Seg
  BY SegFacts DEF Files
<1>2. CASE k[r][0] # Absent
  BY <1>1, <1>2, CreatedIs, GrowsSame
<1>3. CASE k[r][0] = Absent
  <2>1. FilePut(k, m, r, 0, Empty)
    BY <1>1, <1>3, CreatedIs
  <2>2. /\ m \in Store /\ m[r][0] = Empty
        /\ \A x \in Rel, y \in Seg : ~(x = r /\ y = 0) => m[x][y] = k[x][y]
    BY <2>1 DEF FilePut
  <2>3. Grows(k, m)
    <3> SUFFICES ASSUME NEW x \in Rel, NEW y \in Seg, k[x][y] # Absent
                 PROVE  m[x][y] # Absent /\ (IsFull(k, x, y) => IsFull(m, x, y))
      BY DEF Grows
    <3>1. m[x][y] = k[x][y]
      BY <1>3, <2>2
    <3> QED BY <3>1 DEF IsFull, SegLen
  <2>4. ASSUME NEW x \in Rel PROVE Gapless(m, x)
    <3>1. Gapless(k, x)
      BY DEF Files
    <3>2. ASSUME NEW y \in Seg, y # 0, m[x][y] # Absent
          PROVE  m[x][y - 1] # Absent /\ IsFull(m, x, y - 1)
      <4>1. k[x][y] # Absent
        BY <2>2, <3>2
      <4>2. k[x][y - 1] # Absent /\ IsFull(k, x, y - 1)
        BY <3>1, <3>2, <4>1 DEF Gapless
      <4>3. y - 1 \in Seg
        BY <3>2, SegFacts
      <4> QED BY <2>3, <4>2, <4>3 DEF Grows
    <3>3. ASSUME m[x][MaxSeg] # Absent PROVE ~ IsFull(m, x, MaxSeg)
      <4>1. CASE x = r /\ MaxSeg = 0
        <5>1. SegLen(m, x, MaxSeg) = 0
          BY <2>2, <4>1, EmptyFile, EmptyFacts DEF SegLen
        <5> QED BY <5>1, SizeFacts DEF IsFull
      <4>2. CASE ~(x = r /\ MaxSeg = 0)
        <5>1. m[x][MaxSeg] = k[x][MaxSeg]
          BY <2>2, <4>2, SegFacts
        <5> QED BY <3>1, <3>3, <5>1 DEF Gapless, IsFull, SegLen
      <4> QED BY <4>1, <4>2
    <3> QED BY <3>2, <3>3 DEF Gapless
  <2> QED BY <1>3, <2>1, <2>2, <2>3, <2>4, EmptyFile DEF Files
<1> QED BY <1>2, <1>3

LEMMA NewEntryDoes ==
  ASSUME NEW s, Sound(s), NEW r \in Rel, NEW m, m = Created(s.k, r, 0),
         NEW n \in 0 .. RelsegSize, n = RelsegSize => IsFull(m, r, 0),
         NEW t, t = NewEntry(s, r, m, n), NEW e, e = Len(s.c) + 1
  PROVE  /\ Sound(t) /\ Grows(s.k, t.k) /\ Kept(s.c, t.c) /\ Remarked(s.c, t.c)
         /\ In(t, e, 0) /\ t.c[e].rel = r /\ t.k = m
<1>1. /\ Files(m) /\ Grows(s.k, m) /\ m[r][0] # Absent
  BY FilesBegun DEF Sound
<1>2. PICK g, q, v : g = NewSeg(n) /\ q = <<g>> /\ v = [rel |-> r, segs |-> q]
  OBVIOUS
<1>3. PICK d : d = Append(s.c, v)
  OBVIOUS
<1>4. t = [k |-> m, c |-> d]
  BY <1>2, <1>3 DEF NewEntry
<1>5. IsState(t) /\ t.k = m /\ t.c = d
  BY <1>4 DEF IsState
<1>6. g \in Flags /\ g.lst = n
  <2>1. g = Flagged(FALSE, n, FALSE)
    BY <1>2 DEF NewSeg, Flagged
  <2>2. FALSE \in BOOLEAN
    BY Zenon
  <2> QED BY <2>1, <2>2, FlaggedFacts
<1>7. q \in Seq(Flags) /\ Len(q) = 1 /\ q[1] = g
  BY <1>2, <1>6
<1>8. v \in Entry /\ v.rel = r /\ v.segs = q
  BY <1>2, <1>7 DEF Entry
<1>9. s.c \in Seq(Entry) /\ Len(s.c) \in Nat
  BY DEF Sound, Vector
<1>10. /\ d \in Seq(Entry) /\ Len(d) = e /\ d[e] = v
       /\ \A x \in 1 .. Len(s.c) : d[x] = s.c[x]
  BY <1>3, <1>8, <1>9
<1>11. Hooked(m, v)
  <2>1. Chained(m, r, q)
    <3>1. Len(q) \in 1 .. MaxSeg + 1
      BY <1>7, SegFacts
    <3>2. ASSUME NEW j \in 0 .. Len(q) - 1
          PROVE  m[r][j] # Absent /\ (q[j + 1].lst = RelsegSize => IsFull(m, r, j))
      <4>1. j = 0 /\ j + 1 = 1
        BY <1>7
      <4> QED BY <1>1, <1>6, <1>7, <4>1
    <3> QED BY <3>1, <3>2 DEF Chained
  <2>2. r # Absent
    BY MdAssumption
  <2> QED BY <1>8, <2>1, <2>2 DEF Hooked
<1>12. Vector(m, d)
  <2>1. Vector(m, s.c)
    BY <1>1, VectorGrows DEF Sound
  <2>2. ASSUME NEW x \in 1 .. Len(d) PROVE Hooked(m, d[x])
    <3>1. CASE x = e
      BY <1>10, <1>11, <3>1
    <3>2. CASE x # e
      <4>1. x \in 1 .. Len(s.c)
        BY <1>9, <1>10, <3>2
      <4> QED BY <1>10, <2>1, <4>1 DEF Vector
    <3> QED BY <3>1, <3>2
  <2> QED BY <1>10, <2>2 DEF Vector
<1>13. Sound(t)
  BY <1>1, <1>5, <1>12 DEF Sound
<1>14. Kept(s.c, t.c)
  BY <1>5, <1>9, <1>10 DEF Kept
<1>15. Remarked(s.c, t.c)
  BY <1>5, <1>10 DEF Remarked, Marked
<1>16. In(t, e, 0) /\ t.c[e].rel = r
  <2>1. e \in 1 .. Len(t.c) /\ t.c[e] = v
    BY <1>5, <1>9, <1>10
  <2>2. Len(t.c[e].segs) = 1
    BY <1>7, <1>8, <2>1
  <2>3. t.c[e].rel = r /\ t.c[e].rel \in Rel
    BY <1>8, <2>1
  <2>4. 0 \in Nat /\ 0 + 1 <= 1
    OBVIOUS
  <2> QED BY <2>1, <2>2, <2>3, <2>4 DEF In
<1> QED BY <1>1, <1>5, <1>13, <1>14, <1>15, <1>16

LEMMA CreateDoes ==
  ASSUME NEW s, Sound(s), NEW r \in Rel, NEW t, t = mdcreate(s, r),
         NEW e, e = Len(s.c) + 1
  PROVE  /\ Sound(t) /\ Grows(s.k, t.k) /\ Kept(s.c, t.c) /\ Remarked(s.c, t.c)
         /\ In(t, e, 0) /\ t.c[e].rel = r /\ t.k = Created(s.k, r, 0)
<1>1. PICK m, n : m = Created(s.k, r, 0) /\ n = 0
  OBVIOUS
<1>2. t = NewEntry(s, r, m, n)
  BY <1>1 DEF mdcreate
<1>3. n \in 0 .. RelsegSize /\ n # RelsegSize
  BY <1>1, SizeFacts
<1>4. n = RelsegSize => IsFull(m, r, 0)
  BY <1>3
<1> QED BY <1>1, <1>2, <1>3, <1>4, NewEntryDoes

LEMMA OpenDoes ==
  ASSUME NEW s, Sound(s), NEW r \in Rel, NEW t, t = mdopen(s, r),
         NEW e, e = Len(s.c) + 1
  PROVE  /\ Sound(t) /\ Grows(s.k, t.k) /\ Kept(s.c, t.c) /\ Remarked(s.c, t.c)
         /\ In(t, e, 0) /\ t.c[e].rel = r /\ t.k = Created(s.k, r, 0)
<1>1. PICK m, n : m = Created(s.k, r, 0) /\ n = SegLen(m, r, 0)
  OBVIOUS
<1>2. t = NewEntry(s, r, m, n)
  BY <1>1 DEF mdopen
<1>3. n \in 0 .. RelsegSize
  <2>1. Files(m) /\ m[r][0] # Absent /\ m \in Store /\ 0 \in Seg
    BY <1>1, FilesBegun, SegFacts DEF Sound, Files
  <2>2. n \in Nat /\ n <= RelsegSize
    BY <1>1, <2>1, SegLenFacts
  <2> QED BY <2>2, SizeFacts
<1>4. n = RelsegSize => IsFull(m, r, 0)
  BY <1>1 DEF IsFull
<1> QED BY <1>1, <1>2, <1>3, <1>4, NewEntryDoes

LEMMA UnlinkDoes ==
  ASSUME NEW k, Files(k), NEW r \in Rel, NEW m, m = Unlinked(k, r)
  PROVE  /\ Files(m) /\ \A j \in Seg : m[r][j] = Absent
         /\ \A x \in Rel : x # r => m[x] = k[x]
<1>1. k \in Store
  BY DEF Files
<1>2. PICK h : h = [j \in Seg |->
                      IF \A i \in 0 .. j : k[r][i] # Absent THEN Absent ELSE k[r][j]]
  OBVIOUS
<1>3. m = [k EXCEPT ![r] = h]
  BY <1>2 DEF Unlinked
<1>4. ASSUME NEW j \in Seg PROVE h[j] = Absent
  <2>1. CASE k[r][j] = Absent
    BY <1>2, <2>1
  <2>2. CASE k[r][j] # Absent
    <3>1. FullTo(k, r, j) /\ j \in Nat
      BY <2>2, FullBelow, SegFacts
    <3>2. ASSUME NEW i \in 0 .. j PROVE k[r][i] # Absent
      <4>1. CASE i = j
        BY <2>2, <4>1
      <4>2. CASE i # j
        <5>1. i \in 0 .. j - 1
          BY <3>1, <4>2
        <5> QED BY <3>1, <5>1 DEF FullTo
      <4> QED BY <4>1, <4>2
    <3> QED BY <1>2, <3>2
  <2> QED BY <2>1, <2>2
<1>5. h \in [Seg -> File \cup {Absent}]
  BY <1>2, <1>4
<1>6. m \in Store /\ m[r] = h /\ \A x \in Rel : x # r => m[x] = k[x]
  BY <1>1, <1>3, <1>5 DEF Store
<1>7. ASSUME NEW x \in Rel PROVE Gapless(m, x)
  <2>1. CASE x = r
    BY <1>4, <1>6, <2>1, SegFacts DEF Gapless
  <2>2. CASE x # r
    BY <1>6, <2>2 DEF Files, Gapless, IsFull, SegLen
  <2> QED BY <2>1, <2>2
<1> QED BY <1>4, <1>6, <1>7 DEF Files

LEMMA ForgetDoes ==
  ASSUME NEW k, NEW m, NEW r \in Rel, \A x \in Rel : x # r => m[x] = k[x],
         NEW c, Vector(k, c), NEW d, d = Forgotten(c, r)
  PROVE  /\ Vector(m, d) /\ Len(d) = Len(c)
         /\ \A x \in 1 .. Len(c) : c[x].rel # r => d[x] = c[x]
<1>1. c \in Seq(Entry) /\ Len(c) \in Nat /\ DOMAIN c = 1 .. Len(c)
  BY DEF Vector
<1>2. d = [x \in 1 .. Len(c) |-> IF c[x].rel = r THEN Dead ELSE c[x]]
  BY <1>1 DEF Forgotten
<1>3. \A x \in 1 .. Len(c) : d[x] = IF c[x].rel = r THEN Dead ELSE c[x]
  BY <1>2
<1>4. \A x \in 1 .. Len(c) : d[x] \in Entry
  BY <1>1, <1>3, DeadHooked DEF Hooked
<1>5. d \in Seq(Entry) /\ Len(d) = Len(c)
  BY <1>1, <1>2, <1>4
<1>6. ASSUME NEW x \in 1 .. Len(c) PROVE Hooked(m, d[x])
  <2>1. CASE c[x].rel = r
    BY <1>3, <2>1, DeadHooked
  <2>2. CASE c[x].rel # r
    <3>1. d[x] = c[x] /\ Hooked(k, c[x])
      BY <1>3, <2>2 DEF Vector
    <3>2. PICK v : v = c[x]
      OBVIOUS
    <3>3. Hooked(k, v) /\ v.rel # r /\ v \in Entry
      BY <2>2, <3>1, <3>2 DEF Hooked
    <3>4. Hooked(m, v)
      <4>1. CASE v.rel = Absent
        BY <3>3, <4>1 DEF Hooked
      <4>2. CASE v.rel # Absent
        <5>1. v.rel \in Rel
          BY <3>3, <4>2, EntryFacts
        <5>2. m[v.rel] = k[v.rel]
          BY <3>3, <5>1
        <5> QED BY <3>3, <4>2, <5>2 DEF Hooked, Chained, IsFull, SegLen
      <4> QED BY <4>1, <4>2
    <3> QED BY <3>1, <3>2, <3>4
  <2> QED BY <2>1, <2>2
<1> QED BY <1>3, <1>5, <1>6 DEF Vector

-----------------------------------------------------------------------------
(* The refinement.  A relation is the array of its n pages.                *)

Paged(k, r, n) == [i \in 1 .. n |-> k[r][SegOf(i - 1)].data[PosOf(i - 1) + 1]]

Array(k, r, a) == \E n \in Nat : Counts(k, r, n) /\ a = Paged(k, r, n)

\* f says what every relation holds.
Held(k, f, r) ==
  IF k[r][0] = Absent THEN f[r] = Absent ELSE Array(k, r, f[r])

Viewed(k, f) == f = [r \in Rel |-> f[r]] /\ \A r \in Rel : Held(k, f, r)

\* No segment of r changes its length, but that empty ones may appear.
SameLens(k, m, r) ==
  \A j \in Seg :
    /\ k[r][j] # Absent => m[r][j] # Absent /\ SegLen(m, r, j) = SegLen(k, r, j)
    /\ k[r][j] = Absent => m[r][j] = Absent \/ (j # 0 /\ SegLen(m, r, j) = 0)

\* No page of r changes.
SameFor(k, m, r) ==
  \A j \in Seg :
    /\ k[r][j] # Absent => m[r][j] # Absent /\ m[r][j].data = k[r][j].data
    /\ k[r][j] = Absent => m[r][j] = Absent \/ (j # 0 /\ m[r][j].data = <<>>)

LEMMA SameForLens ==
  ASSUME NEW k, NEW m, NEW r, SameFor(k, m, r)
  PROVE  SameLens(k, m, r)
BY EmptyFacts DEF SameFor, SameLens, SegLen

LEMMA CountsLike ==
  ASSUME NEW k, NEW m, NEW r \in Rel, SameLens(k, m, r), NEW n, Counts(k, r, n)
  PROVE  Counts(m, r, n)
<1>1. PICK j \in Seg : EndsAt(k, r, j, n)
  BY DEF Counts
<1>2. FullTo(m, r, j)
  <2>1. ASSUME NEW i \in 0 .. j - 1 PROVE m[r][i] # Absent /\ IsFull(m, r, i)
    <3>1. k[r][i] # Absent /\ IsFull(k, r, i)
      BY <1>1 DEF EndsAt, FullTo
    <3>2. j \in Nat /\ j <= MaxSeg /\ MaxSeg \in Nat
      BY <1>1, SegFacts
    <3>3. i \in Nat /\ i <= MaxSeg
      BY <3>2
    <3>4. i \in Seg
      BY <3>3, SegFacts
    <3> QED BY <3>1, <3>4 DEF SameLens, IsFull
  <2> QED BY <2>1 DEF FullTo
<1>3. CASE k[r][j] # Absent
  <2>1. m[r][j] # Absent /\ SegLen(m, r, j) = SegLen(k, r, j)
    BY <1>3 DEF SameLens
  <2>2. EndsAt(m, r, j, n)
    BY <1>1, <1>2, <1>3, <2>1 DEF EndsAt, IsFull
  <2> QED BY <2>2 DEF Counts
<1>4. CASE k[r][j] = Absent
  <2>0. n = j * RelsegSize
    BY <1>1, <1>4 DEF EndsAt
  <2>1. CASE m[r][j] = Absent
    BY <1>2, <2>0, <2>1 DEF EndsAt, Counts
  <2>2. CASE m[r][j] # Absent
    <3>1. SegLen(m, r, j) = 0
      BY <1>4, <2>2 DEF SameLens
    <3>2. ~ IsFull(m, r, j)
      BY <3>1, SizeFacts DEF IsFull
    <3>3. n = j * RelsegSize + SegLen(m, r, j)
      <4>1. j * RelsegSize \in Nat
        BY Product, SegFacts
      <4> QED BY <2>0, <3>1, <4>1
    <3>4. EndsAt(m, r, j, n)
      BY <1>2, <2>2, <3>2, <3>3 DEF EndsAt
    <3> QED BY <3>4 DEF Counts
  <2> QED BY <2>1, <2>2
<1> QED BY <1>3, <1>4

LEMMA CountsNat ==
  ASSUME NEW k, Files(k), NEW r \in Rel, NEW n, Counts(k, r, n)
  PROVE  n \in Nat
BY EndsFacts DEF Counts

\* Two arrays of the same pages are one.
LEMMA PagedSame ==
  ASSUME NEW k, NEW m, NEW r, NEW n \in Nat,
         \A b \in Nat : b < n => k[r][SegOf(b)].data[PosOf(b) + 1]
                                   = m[r][SegOf(b)].data[PosOf(b) + 1]
  PROVE  Paged(k, r, n) = Paged(m, r, n)
<1>1. ASSUME NEW i \in 1 .. n
      PROVE  k[r][SegOf(i - 1)].data[PosOf(i - 1) + 1]
               = m[r][SegOf(i - 1)].data[PosOf(i - 1) + 1]
  <2>1. i - 1 \in Nat /\ i - 1 < n
    OBVIOUS
  <2> QED BY <2>1
<1> QED BY <1>1 DEF Paged

LEMMA ArrayLike ==
  ASSUME NEW k, Files(k), NEW m, NEW r \in Rel, SameFor(k, m, r), NEW a, Array(k, r, a)
  PROVE  Array(m, r, a)
<1>1. PICK n \in Nat : Counts(k, r, n) /\ a = Paged(k, r, n)
  BY DEF Array
<1>2. Counts(m, r, n)
  BY <1>1, SameForLens, CountsLike
<1>3. ASSUME NEW b \in Nat, b < n
      PROVE  k[r][SegOf(b)].data[PosOf(b) + 1] = m[r][SegOf(b)].data[PosOf(b) + 1]
  <2>1. SegOf(b) \in Seg /\ k[r][SegOf(b)] # Absent
    BY <1>1, <1>3, BlockIn
  <2> QED BY <2>1 DEF SameFor
<1>4. Paged(k, r, n) = Paged(m, r, n)
  BY <1>3, PagedSame
<1> QED BY <1>1, <1>2, <1>4 DEF Array

LEMMA HeldLike ==
  ASSUME NEW k, Files(k), NEW m, NEW r \in Rel, SameFor(k, m, r), NEW f, Held(k, f, r),
         NEW h, h[r] = f[r]
  PROVE  Held(m, h, r)
<1>1. k[r][0] = Absent <=> m[r][0] = Absent
  BY SegFacts DEF SameFor
<1>2. k[r][0] # Absent => Array(m, r, f[r])
  BY ArrayLike DEF Held
<1> QED BY <1>1, <1>2 DEF Held

LEMMA ArrayOnce ==
  ASSUME NEW k, NEW r \in Rel, NEW a, NEW b, Array(k, r, a), Array(k, r, b)
  PROVE  a = b
BY CountsOnce DEF Array

LEMMA ViewedOnce ==
  ASSUME NEW k, NEW f, NEW g, Viewed(k, f), Viewed(k, g)
  PROVE  f = g
<1>1. ASSUME NEW r \in Rel PROVE f[r] = g[r]
  BY ArrayOnce DEF Viewed, Held
<1> QED BY <1>1 DEF Viewed

LEMMA SameViewed ==
  ASSUME NEW k, Files(k), NEW m, SamePages(k, m), NEW f, Viewed(k, f)
  PROVE  Viewed(m, f)
<1>1. ASSUME NEW r \in Rel PROVE Held(m, f, r)
  <2>1. SameFor(k, m, r)
    BY DEF SamePages, SameFor
  <2> QED BY <2>1, HeldLike DEF Viewed
<1> QED BY <1>1 DEF Viewed

\* One relation differs.
LEMMA PutViewed ==
  ASSUME NEW k, Files(k), NEW m, NEW f, Viewed(k, f), NEW r \in Rel,
         \A x \in Rel : x # r => SameFor(k, m, x), NEW a, NEW h,
         h = [f EXCEPT ![r] = a], Held(m, h, r)
  PROVE  Viewed(m, h)
<1>1. f = [x \in Rel |-> f[x]] /\ \A x \in Rel : Held(k, f, x)
  BY DEF Viewed
<1>2. h = [x \in Rel |-> h[x]] /\ \A x \in Rel : x # r => h[x] = f[x]
  BY <1>1
<1>3. ASSUME NEW x \in Rel, x # r PROVE Held(m, h, x)
  <2>1. SameFor(k, m, x) /\ Held(k, f, x) /\ h[x] = f[x]
    BY <1>1, <1>2, <1>3
  <2> QED BY <2>1, HeldLike
<1> QED BY <1>2, <1>3 DEF Viewed

LEMMA PagedFacts ==
  ASSUME NEW k, Files(k), NEW r \in Rel, NEW n \in Nat, Counts(k, r, n),
         NEW a, a = Paged(k, r, n)
  PROVE  /\ a \in Seq(Pg) /\ Len(a) = n /\ a # Absent
         /\ \A b \in Nat : b < n => a[b + 1] = k[r][SegOf(b)].data[PosOf(b) + 1]
<1>1. ASSUME NEW i \in 1 .. n
      PROVE  k[r][SegOf(i - 1)].data[PosOf(i - 1) + 1] \in Pg
  <2>1. i - 1 \in Nat /\ i - 1 < n
    OBVIOUS
  <2>2. PICK j, o : j = SegOf(i - 1) /\ o = PosOf(i - 1)
    OBVIOUS
  <2>3. j \in Seg /\ k[r][j] # Absent /\ o < SegLen(k, r, j)
    BY <2>1, <2>2, BlockIn
  <2>4. o \in Nat
    BY <2>1, <2>2, Located
  <2>5. k[r][j] \in File
    BY <2>3, SegLenFacts DEF Files
  <2>6. PICK d : d = k[r][j].data
    OBVIOUS
  <2>7. d \in Seq(Pg) /\ Len(d) \in Nat /\ o < Len(d)
    BY <2>3, <2>5, <2>6, FileFacts, StoredFacts DEF SegLen
  <2>8. d[o + 1] \in Pg
    BY <2>4, <2>7
  <2> QED BY <2>2, <2>6, <2>8
<1>2. a = [i \in 1 .. n |-> k[r][SegOf(i - 1)].data[PosOf(i - 1) + 1]]
  BY DEF Paged
<1>3. a \in [1 .. n -> Pg]
  BY <1>1, <1>2
<1>4. a \in Seq(Pg) /\ Len(a) = n
  BY <1>3
<1>5. a # Absent
  BY <1>4, MdAssumption DEF Pg
<1>6. ASSUME NEW b \in Nat, b < n
      PROVE  a[b + 1] = k[r][SegOf(b)].data[PosOf(b) + 1]
  <2>1. b + 1 \in 1 .. n /\ (b + 1) - 1 = b
    BY <1>6
  <2> QED BY <1>2, <2>1
<1> QED BY <1>4, <1>5, <1>6

LEMMA OthersSame ==
  ASSUME NEW k, NEW m, NEW r, NEW j, NEW d, Rewritten(k, m, r, j, d)
  PROVE  \A x \in Rel : x # r => SameFor(k, m, x)
BY DEF Rewritten, SameFor

LEMMA HeldPages ==
  ASSUME NEW k, Files(k), NEW f, Viewed(k, f), NEW r \in Rel, k[r][0] # Absent,
         NEW n, Counts(k, r, n)
  PROVE  /\ n \in Nat /\ f[r] = Paged(k, r, n) /\ f[r] \in Seq(Pg)
         /\ Len(f[r]) = n /\ f[r] # Absent
         /\ \A b \in Nat : b < n => f[r][b + 1] = k[r][SegOf(b)].data[PosOf(b) + 1]
<1>1. n \in Nat
  BY CountsNat
<1>2. Array(k, r, f[r])
  BY DEF Viewed, Held
<1>3. PICK i \in Nat : Counts(k, r, i) /\ f[r] = Paged(k, r, i)
  BY <1>2 DEF Array
<1>4. i = n
  BY <1>3, CountsOnce
<1>5. f[r] = Paged(k, r, n)
  BY <1>3, <1>4
<1>6. PICK a : a = f[r]
  OBVIOUS
<1>7. a = Paged(k, r, n)
  BY <1>5, <1>6
<1>8. /\ a \in Seq(Pg) /\ Len(a) = n /\ a # Absent
      /\ \A b \in Nat : b < n => a[b + 1] = k[r][SegOf(b)].data[PosOf(b) + 1]
  BY <1>1, <1>7, PagedFacts
<1> QED BY <1>1, <1>5, <1>6, <1>8

\* An array that has the pages of r is what r holds.
LEMMA ArrayIs ==
  ASSUME NEW m, Files(m), NEW r \in Rel, NEW n \in Nat, Counts(m, r, n),
         NEW a \in Seq(Pg), Len(a) = n,
         \A b \in Nat : b < n => a[b + 1] = m[r][SegOf(b)].data[PosOf(b) + 1]
  PROVE  Array(m, r, a)
<1>1. PICK z : z = Paged(m, r, n)
  OBVIOUS
<1>2. /\ z \in Seq(Pg) /\ Len(z) = n
      /\ \A b \in Nat : b < n => z[b + 1] = m[r][SegOf(b)].data[PosOf(b) + 1]
  BY <1>1, PagedFacts
<1>3. ASSUME NEW i \in 1 .. Len(a) PROVE a[i] = z[i]
  <2>1. PICK b : b = i - 1
    OBVIOUS
  <2>2. b \in Nat /\ b < n /\ i = b + 1
    BY <2>1
  <2> QED BY <1>2, <2>2
<1>4. a = z
  BY <1>2, <1>3, SeqEqual
<1> QED BY <1>1, <1>4 DEF Array

LEMMA HeldPut ==
  ASSUME NEW f, f = [x \in Rel |-> f[x]], NEW r \in Rel, NEW a, NEW h,
         h = [f EXCEPT ![r] = a], NEW m, m[r][0] # Absent, Array(m, r, a)
  PROVE  Held(m, h, r)
<1>1. h[r] = a
  OBVIOUS
<1> QED BY <1>1 DEF Held

\* A page is put inside segment SegOf(b).
LEMMA Overwritten ==
  ASSUME NEW k, Files(k), NEW m, Files(m), NEW r \in Rel, NEW n, Counts(k, r, n),
         NEW b \in Nat, b < n, NEW x \in Page,
         Rewritten(k, m, r, SegOf(b), Put(k[r][SegOf(b)].data, PosOf(b), x))
  PROVE  /\ Counts(m, r, n)
         /\ m[r][SegOf(b)].data[PosOf(b) + 1] = x
         /\ \A c \in Nat : c < n /\ c # b =>
              m[r][SegOf(c)].data[PosOf(c) + 1] = k[r][SegOf(c)].data[PosOf(c) + 1]
<1>1. PICK j, o : j = SegOf(b) /\ o = PosOf(b)
  OBVIOUS
<1>2. j \in Seg /\ k[r][j] # Absent /\ o < SegLen(k, r, j)
  BY <1>1, BlockIn
<1>3. o \in Nat
  BY <1>1, Located
<1>4. PICK d, z : d = k[r][j].data /\ z = Put(k[r][j].data, o, x)
  OBVIOUS
<1>5. k[r][j] \in File
  BY <1>2, SegLenFacts DEF Files
<1>6. d \in Stored /\ o < Len(d) /\ z = Put(d, o, x) /\ x \in Pg
  BY <1>2, <1>4, <1>5, FileFacts, PageIn DEF SegLen
<1>7. /\ z \in Stored /\ Len(z) = Len(d) /\ z[o + 1] = x
      /\ \A y \in 1 .. Len(d) : y # o + 1 => z[y] = d[y]
  BY <1>3, <1>6, PutInside
<1>8. Rewritten(k, m, r, j, z)
  BY <1>1, <1>4
<1>9. m[r][j] # Absent /\ m[r][j].data = z
  BY <1>8 DEF Rewritten
<1>10. \A y \in Seg : y # j =>
         /\ k[r][y] # Absent => m[r][y] # Absent /\ m[r][y].data = k[r][y].data
         /\ k[r][y] = Absent => m[r][y] = Absent \/ (y # 0 /\ m[r][y].data = <<>>)
  BY <1>8 DEF Rewritten
<1>11. SameLens(k, m, r)
  <2>1. SegLen(m, r, j) = SegLen(k, r, j)
    BY <1>4, <1>7, <1>9 DEF SegLen
  <2> QED BY <1>2, <1>9, <1>10, <2>1, EmptyFacts DEF SameLens, SegLen
<1>12. Counts(m, r, n)
  BY <1>11, CountsLike
<1>13. m[r][SegOf(b)].data[PosOf(b) + 1] = x
  BY <1>1, <1>7, <1>9
<1>14. ASSUME NEW c \in Nat, c < n, c # b
       PROVE  m[r][SegOf(c)].data[PosOf(c) + 1] = k[r][SegOf(c)].data[PosOf(c) + 1]
  <2>1. PICK i, y : i = SegOf(c) /\ y = PosOf(c)
    OBVIOUS
  <2>2. i \in Seg /\ k[r][i] # Absent /\ y < SegLen(k, r, i)
    BY <1>14, <2>1, BlockIn
  <2>3. CASE i # j
    BY <1>10, <2>1, <2>2, <2>3
  <2>4. CASE i = j
    <3>1. y \in Nat /\ c = i * RelsegSize + y /\ b = j * RelsegSize + o
      BY <1>1, <2>1, Located
    <3>2. y # o
      BY <1>14, <2>4, <3>1
    <3>3. y < Len(d) /\ Len(d) \in Nat
      BY <1>4, <1>6, <2>2, <2>4, StoredFacts DEF SegLen
    <3>4. y + 1 \in 1 .. Len(d) /\ y + 1 # o + 1
      BY <1>3, <3>1, <3>2, <3>3
    <3>5. z[y + 1] = d[y + 1]
      BY <1>7, <3>4
    <3> QED BY <1>4, <1>9, <2>1, <2>4, <3>5
  <2> QED BY <2>3, <2>4
<1> QED BY <1>12, <1>13, <1>14

LEMMA OverwriteViewed ==
  ASSUME NEW k, Files(k), NEW m, Files(m), NEW f, Viewed(k, f), NEW r \in Rel,
         k[r][0] # Absent, NEW n, Counts(k, r, n), NEW b \in Nat, b < n, NEW x \in Page,
         Rewritten(k, m, r, SegOf(b), Put(k[r][SegOf(b)].data, PosOf(b), x)),
         NEW h, h = [f EXCEPT ![r] = [f[r] EXCEPT ![b + 1] = x]]
  PROVE  Viewed(m, h) /\ f[r] # Absent /\ b < Len(f[r])
<1>1. PICK o, a : o = f[r] /\ a = [f[r] EXCEPT ![b + 1] = x]
  OBVIOUS
<1>2. /\ n \in Nat /\ o \in Seq(Pg) /\ Len(o) = n /\ o # Absent
      /\ \A c \in Nat : c < n => o[c + 1] = k[r][SegOf(c)].data[PosOf(c) + 1]
  BY <1>1, HeldPages
<1>3. /\ Counts(m, r, n) /\ m[r][SegOf(b)].data[PosOf(b) + 1] = x
      /\ \A c \in Nat : c < n /\ c # b =>
           m[r][SegOf(c)].data[PosOf(c) + 1] = k[r][SegOf(c)].data[PosOf(c) + 1]
  BY Overwritten
<1>4. a = [o EXCEPT ![b + 1] = x] /\ b + 1 \in 1 .. Len(o) /\ x \in Pg
  BY <1>1, <1>2, PageIn
<1>5. /\ a \in Seq(Pg) /\ Len(a) = n /\ a[b + 1] = x
      /\ \A i \in 1 .. n : i # b + 1 => a[i] = o[i]
  BY <1>2, <1>4, ExceptSeq
<1>6. ASSUME NEW c \in Nat, c < n
      PROVE  a[c + 1] = m[r][SegOf(c)].data[PosOf(c) + 1]
  <2>1. CASE c = b
    BY <1>3, <1>5, <2>1
  <2>2. CASE c # b
    <3>1. c + 1 \in 1 .. n /\ c + 1 # b + 1
      BY <1>2, <1>6, <2>2
    <3>2. a[c + 1] = o[c + 1]
      BY <1>5, <3>1
    <3> QED BY <1>2, <1>3, <1>6, <2>2, <3>2
  <2> QED BY <2>1, <2>2
<1>7. Array(m, r, a)
  BY <1>2, <1>3, <1>5, <1>6, ArrayIs
<1>8. m[r][0] # Absent
  BY SegFacts DEF Rewritten
<1>9. h = [f EXCEPT ![r] = a] /\ f = [y \in Rel |-> f[y]]
  BY <1>1 DEF Viewed
<1>10. Held(m, h, r)
  BY <1>7, <1>8, <1>9, HeldPut
<1>11. \A y \in Rel : y # r => SameFor(k, m, y)
  BY OthersSame
<1>12. Viewed(m, h)
  BY <1>9, <1>10, <1>11, PutViewed
<1> QED BY <1>1, <1>2, <1>12

\* The first n pages of r are the same.
SameTo(k, m, r, n) ==
  \A c \in Nat : c < n =>
    m[r][SegOf(c)].data[PosOf(c) + 1] = k[r][SegOf(c)].data[PosOf(c) + 1]

\* A page is put behind the last one, in a segment that may be new.
LEMMA Lengthened ==
  ASSUME NEW k, Files(k), NEW m, Files(m), NEW r \in Rel, NEW n \in Nat,
         Counts(k, r, n), NEW j \in Seg, j = SegOf(n), NEW l \in Store,
         SamePages(k, l), EndsAt(l, r, j, n), l[r][j] # Absent,
         NEW d, d = Append(l[r][j].data, Zero), Rewritten(l, m, r, j, d)
  PROVE  /\ Counts(m, r, n + 1)
         /\ m[r][SegOf(n)].data[PosOf(n) + 1] = Zero
         /\ SameTo(k, m, r, n)
<1>1. PICK o : o = l[r][j].data
  OBVIOUS
<1>2. ~ IsFull(l, r, j) /\ n = j * RelsegSize + Len(o)
  BY <1>1 DEF EndsAt, SegLen
<1>3. o \in Stored /\ o \in Seq(Pg) /\ Len(o) \in Nat /\ Len(o) < RelsegSize
  <2>1. l[r][j] \in File /\ SegLen(l, r, j) < RelsegSize
    BY <1>2, SegLenFacts
  <2> QED BY <1>1, <2>1, FileFacts, StoredFacts DEF SegLen
<1>4. /\ d \in Seq(Pg) /\ Len(d) = Len(o) + 1 /\ d[Len(o) + 1] = Zero
      /\ \A y \in 1 .. Len(o) : d[y] = o[y]
  BY <1>1, <1>3, PageIn, SMTT(40)
<1>5. j \in Nat /\ j * RelsegSize \in Nat
      /\ (j + 1) * RelsegSize = j * RelsegSize + RelsegSize
  BY SegFacts, Product
<1>6. Rewritten(k, m, r, j, d)
  BY SameRewritten
<1>7. m[r][j] # Absent /\ m[r][j].data = d
  BY <1>6 DEF Rewritten
<1>8. SegLen(m, r, j) = Len(o) + 1
  BY <1>4, <1>7 DEF SegLen
<1>9. FullTo(m, r, j)
  <2>1. ASSUME NEW i \in 0 .. j - 1 PROVE m[r][i] # Absent /\ IsFull(m, r, i)
    <3>1. l[r][i] # Absent /\ IsFull(l, r, i)
      BY DEF EndsAt, FullTo
    <3>2. i \in Nat /\ i <= MaxSeg /\ i # j
      BY <1>5, SegFacts
    <3>3. i \in Seg
      BY <3>2, SegFacts
    <3>4. m[r][i] # Absent /\ m[r][i].data = l[r][i].data
      BY <3>1, <3>2, <3>3 DEF Rewritten
    <3> QED BY <3>1, <3>4 DEF IsFull, SegLen
  <2> QED BY <2>1 DEF FullTo
<1>10. Counts(m, r, n + 1)
  <2>1. CASE Len(o) + 1 # RelsegSize
    <3>1. ~ IsFull(m, r, j)
      BY <1>8, <2>1 DEF IsFull
    <3>2. n + 1 = j * RelsegSize + SegLen(m, r, j)
      BY <1>2, <1>3, <1>5, <1>8
    <3>3. EndsAt(m, r, j, n + 1)
      BY <1>7, <1>9, <3>1, <3>2 DEF EndsAt
    <3> QED BY <3>3 DEF Counts
  <2>2. CASE Len(o) + 1 = RelsegSize
    <3>1. IsFull(m, r, j)
      BY <1>8, <2>2 DEF IsFull
    <3>2. j # MaxSeg
      BY <1>7, <3>1 DEF Files, Gapless
    <3>3. j + 1 \in Nat /\ j + 1 <= MaxSeg
      BY <1>5, <3>2, SegFacts
    <3>4. j + 1 \in Seg /\ j + 1 # j /\ j + 1 # 0 /\ (j + 1) - 1 = j
      BY <1>5, <3>3, SegFacts
    <3>5. FullTo(m, r, j + 1)
      <4>1. ASSUME NEW i \in 0 .. (j + 1) - 1 PROVE m[r][i] # Absent /\ IsFull(m, r, i)
        <5>1. CASE i = j
          BY <1>7, <3>1, <5>1
        <5>2. CASE i # j
          <6>1. i \in 0 .. j - 1
            BY <1>5, <5>2
          <6> QED BY <1>9, <6>1 DEF FullTo
        <5> QED BY <5>1, <5>2
      <4> QED BY <4>1 DEF FullTo
    <3>6. n + 1 = (j + 1) * RelsegSize
      BY <1>2, <1>3, <1>5, <2>2
    <3>7. k[r][j + 1] = Absent
      <4>1. k[r][j + 1] # Absent => k[r][j] # Absent /\ IsFull(k, r, j)
        BY <3>4 DEF Files, Gapless
      <4>2. k[r][j] # Absent => l[r][j].data = k[r][j].data
        BY DEF SamePages
      <4>3. k[r][j] # Absent /\ IsFull(k, r, j) => IsFull(l, r, j)
        BY <4>2 DEF IsFull, SegLen
      <4> QED BY <1>2, <4>1, <4>3
    <3>8. m[r][j + 1] = Absent \/ m[r][j + 1].data = <<>>
      BY <1>6, <3>4, <3>7 DEF Rewritten
    <3>9. EndsAt(m, r, j + 1, n + 1)
      <4>1. CASE m[r][j + 1] = Absent
        BY <3>5, <3>6, <4>1 DEF EndsAt
      <4>2. CASE m[r][j + 1] # Absent
        <5>1. SegLen(m, r, j + 1) = 0
          BY <3>8, <4>2, EmptyFacts DEF SegLen
        <5>2. ~ IsFull(m, r, j + 1)
          BY <5>1, SizeFacts DEF IsFull
        <5>3. n + 1 = (j + 1) * RelsegSize + SegLen(m, r, j + 1)
          <6>1. n + 1 \in Nat
            OBVIOUS
          <6> QED BY <3>6, <5>1, <6>1
        <5> QED BY <3>5, <4>2, <5>2, <5>3 DEF EndsAt
      <4> QED BY <4>1, <4>2
    <3> QED BY <3>4, <3>9 DEF Counts
  <2> QED BY <2>1, <2>2
<1>11. m[r][SegOf(n)].data[PosOf(n) + 1] = Zero
  <2>1. PosOf(n) = Len(o)
    BY <1>2, <1>3, <1>5, LocatedOnce
  <2> QED BY <1>4, <1>7, <2>1
<1>12. ASSUME NEW c \in Nat, c < n
       PROVE  m[r][SegOf(c)].data[PosOf(c) + 1] = k[r][SegOf(c)].data[PosOf(c) + 1]
  <2>1. PICK i, y : i = SegOf(c) /\ y = PosOf(c)
    OBVIOUS
  <2>2. i \in Seg /\ k[r][i] # Absent /\ y < SegLen(k, r, i)
    BY <1>12, <2>1, BlockIn
  <2>3. CASE i # j
    <3>1. m[r][i].data = k[r][i].data
      BY <1>6, <2>2, <2>3 DEF Rewritten
    <3> QED BY <2>1, <3>1
  <2>4. CASE i = j
    <3>1. k[r][j].data = o
      BY <1>1, <2>2, <2>4 DEF SamePages
    <3>2. y \in Nat /\ y < Len(o)
      BY <2>1, <2>2, <2>4, <3>1, Located DEF SegLen
    <3>3. y + 1 \in 1 .. Len(o)
      BY <1>3, <3>2
    <3>4. d[y + 1] = o[y + 1]
      BY <1>4, <3>3
    <3> QED BY <1>7, <2>1, <2>4, <3>1, <3>4
  <2> QED BY <2>3, <2>4
<1> QED BY <1>10, <1>11, <1>12 DEF SameTo

LEMMA LengthenViewed ==
  ASSUME NEW k, Files(k), NEW m, Files(m), NEW f, Viewed(k, f), NEW r \in Rel,
         k[r][0] # Absent, NEW n, Counts(k, r, n), NEW l \in Store,
         SamePages(k, l), EndsAt(l, r, SegOf(n), n), l[r][SegOf(n)] # Absent,
         NEW d, d = Append(l[r][SegOf(n)].data, Zero), Rewritten(l, m, r, SegOf(n), d),
         NEW h, h = [f EXCEPT ![r] = Append(f[r], Zero)]
  PROVE  Viewed(m, h) /\ f[r] # Absent
<1>1. PICK o, a : o = f[r] /\ a = Append(f[r], Zero)
  OBVIOUS
<1>2. /\ n \in Nat /\ o \in Seq(Pg) /\ Len(o) = n /\ o # Absent
      /\ \A c \in Nat : c < n => o[c + 1] = k[r][SegOf(c)].data[PosOf(c) + 1]
  BY <1>1, HeldPages
<1>3. PICK j : j = SegOf(n)
  OBVIOUS
<1>4. /\ j \in Seg /\ EndsAt(l, r, j, n) /\ l[r][j] # Absent
      /\ d = Append(l[r][j].data, Zero) /\ Rewritten(l, m, r, j, d)
  BY <1>3, EndsSeg
<1>5. /\ Counts(m, r, n + 1) /\ m[r][SegOf(n)].data[PosOf(n) + 1] = Zero
      /\ \A c \in Nat : c < n =>
           m[r][SegOf(c)].data[PosOf(c) + 1] = k[r][SegOf(c)].data[PosOf(c) + 1]
  <2>1. n \in Nat
    BY <1>2
  <2>2. Counts(m, r, n + 1)
    BY <1>3, <1>4, <2>1, Lengthened
  <2>3. m[r][SegOf(n)].data[PosOf(n) + 1] = Zero
    BY <1>3, <1>4, <2>1, Lengthened
  <2>4. SameTo(k, m, r, n)
    BY <1>3, <1>4, <2>1, Lengthened
  <2> QED BY <2>2, <2>3, <2>4 DEF SameTo
<1>6. /\ a \in Seq(Pg) /\ Len(a) = n + 1 /\ a[n + 1] = Zero
      /\ \A i \in 1 .. n : a[i] = o[i]
  BY <1>1, <1>2, PageIn
<1>7. ASSUME NEW c \in Nat, c < n + 1
      PROVE  a[c + 1] = m[r][SegOf(c)].data[PosOf(c) + 1]
  <2>1. CASE c = n
    BY <1>5, <1>6, <2>1
  <2>2. CASE c # n
    <3>1. c < n /\ c + 1 \in 1 .. n
      BY <1>2, <1>7, <2>2
    <3>2. a[c + 1] = o[c + 1]
      BY <1>6, <3>1
    <3> QED BY <1>2, <1>5, <3>1, <3>2
  <2> QED BY <2>1, <2>2
<1>8. n + 1 \in Nat
  BY <1>2
<1>9. Array(m, r, a)
  BY <1>5, <1>6, <1>7, <1>8, ArrayIs
<1>10. Rewritten(k, m, r, j, d)
  BY <1>4, SameRewritten
<1>11. m[r][0] # Absent
  BY <1>10, SegFacts DEF Rewritten
<1>12. h = [f EXCEPT ![r] = a] /\ f = [y \in Rel |-> f[y]]
  BY <1>1 DEF Viewed
<1>13. Held(m, h, r)
  BY <1>9, <1>11, <1>12, HeldPut
<1>14. \A y \in Rel : y # r => SameFor(k, m, y)
  BY <1>10, OthersSame
<1>15. Viewed(m, h)
  BY <1>12, <1>13, <1>14, PutViewed
<1> QED BY <1>1, <1>2, <1>15

\* A relation of one segment that is not full loses its last pages.
LEMMA CutViewed ==
  ASSUME NEW k, Files(k), NEW m, Files(m), NEW f, Viewed(k, f), NEW r \in Rel,
         k[r][0] # Absent, NEW n, Counts(k, r, n), SegOf(n) = 0, NEW i \in Nat,
         i <= Len(k[r][0].data),
         Rewritten(k, m, r, 0, SubSeq(k[r][0].data, 1, i)),
         NEW h, h = [f EXCEPT ![r] = SubSeq(f[r], 1, i)]
  PROVE  Viewed(m, h) /\ f[r] # Absent /\ i <= Len(f[r])
<1>1. PICK o, a : o = f[r] /\ a = SubSeq(f[r], 1, i)
  OBVIOUS
<1>2. /\ n \in Nat /\ o \in Seq(Pg) /\ Len(o) = n /\ o # Absent
      /\ \A c \in Nat : c < n => o[c + 1] = k[r][SegOf(c)].data[PosOf(c) + 1]
  BY <1>1, HeldPages
<1>3. PICK d, z : d = k[r][0].data /\ z = SubSeq(k[r][0].data, 1, i)
  OBVIOUS
<1>4. EndsAt(k, r, 0, n)
  BY EndsSeg
<1>5. ~ IsFull(k, r, 0) /\ n = 0 * RelsegSize + Len(d)
  BY <1>3, <1>4 DEF EndsAt, SegLen
<1>6. d \in Stored /\ Len(d) \in Nat /\ Len(d) < RelsegSize
  <2>1. k[r][0] \in File /\ SegLen(k, r, 0) < RelsegSize
    BY <1>5, SegLenFacts, SegFacts DEF Files
  <2> QED BY <1>3, <2>1, FileFacts, StoredFacts DEF SegLen
<1>7. n = Len(d) /\ i <= n /\ i < RelsegSize
  BY <1>3, <1>5, <1>6, SizeFacts
<1>71. z = SubSeq(d, 1, i) /\ i <= Len(d)
  BY <1>3
<1>8. z \in Stored /\ Len(z) = i /\ \A y \in 1 .. i : z[y] = d[y]
  BY <1>6, <1>71, SubFacts, ZenonT(60)
<1>9. o \in Stored
  BY <1>2, <1>6, <1>7 DEF Stored, Pg
<1>10. a \in Stored /\ Len(a) = i /\ \A y \in 1 .. i : a[y] = o[y]
  <2>1. a = SubSeq(o, 1, i) /\ i <= Len(o)
    BY <1>1, <1>2, <1>7
  <2> QED BY <1>9, <2>1, SubFacts, ZenonT(60)
<1>11. m[r][0] # Absent /\ m[r][0].data = z
  BY <1>3 DEF Rewritten
<1>12. Counts(m, r, i)
  <2>1. FullTo(m, r, 0)
    BY DEF FullTo
  <2>2. SegLen(m, r, 0) = i
    BY <1>8, <1>11 DEF SegLen
  <2>3. ~ IsFull(m, r, 0)
    BY <1>7, <2>2, SizeFacts DEF IsFull
  <2>4. i = 0 * RelsegSize + SegLen(m, r, 0)
    BY <2>2, SizeFacts
  <2>5. EndsAt(m, r, 0, i)
    BY <1>11, <2>1, <2>3, <2>4 DEF EndsAt
  <2> QED BY <2>5, SegFacts DEF Counts
<1>13. ASSUME NEW c \in Nat, c < i
       PROVE  a[c + 1] = m[r][SegOf(c)].data[PosOf(c) + 1]
  <2>1. c < n /\ c < RelsegSize /\ c + 1 \in 1 .. i
    BY <1>2, <1>7, <1>13, SizeFacts
  <2>2. c = 0 * RelsegSize + c
    BY SizeFacts
  <2>3. SegOf(c) = 0 /\ PosOf(c) = c
    BY <2>1, <2>2, LocatedOnce
  <2>4. o[c + 1] = d[c + 1]
    BY <1>2, <1>3, <2>1, <2>3
  <2>5. a[c + 1] = o[c + 1] /\ z[c + 1] = d[c + 1]
    BY <1>8, <1>10, <2>1
  <2> QED BY <1>11, <2>3, <2>4, <2>5
<1>14. a \in Seq(Pg)
  BY <1>10, StoredFacts
<1>15. Array(m, r, a)
  BY <1>10, <1>12, <1>13, <1>14, ArrayIs
<1>16. h = [f EXCEPT ![r] = a] /\ f = [y \in Rel |-> f[y]]
  BY <1>1 DEF Viewed
<1>17. Held(m, h, r)
  BY <1>11, <1>15, <1>16, HeldPut
<1>18. \A y \in Rel : y # r => SameFor(k, m, y)
  BY OthersSame
<1>19. Viewed(m, h)
  BY <1>16, <1>17, <1>18, PutViewed
<1> QED BY <1>1, <1>2, <1>7, <1>19

LEMMA StartViewed ==
  ASSUME NEW k, Files(k), NEW m, Files(m), NEW f, Viewed(k, f), NEW r \in Rel,
         k[r][0] = Absent, FilePut(k, m, r, 0, Empty),
         NEW h, h = [f EXCEPT ![r] = <<>>]
  PROVE  Viewed(m, h) /\ f[r] = Absent
<1>1. m[r][0] = Empty
  BY DEF FilePut
<1>2. m[r][0] # Absent /\ SegLen(m, r, 0) = 0
  BY <1>1, EmptyFile, EmptyFacts DEF SegLen
<1>3. Counts(m, r, 0)
  <2>1. FullTo(m, r, 0)
    BY DEF FullTo
  <2>2. ~ IsFull(m, r, 0)
    BY <1>2, SizeFacts DEF IsFull
  <2>3. 0 = 0 * RelsegSize + SegLen(m, r, 0)
    BY <1>2, SizeFacts
  <2>4. EndsAt(m, r, 0, 0)
    BY <1>2, <2>1, <2>2, <2>3 DEF EndsAt
  <2> QED BY <2>4, SegFacts DEF Counts
<1>4. PICK a : a = <<>>
  OBVIOUS
<1>5. a \in Seq(Pg) /\ Len(a) = 0
  BY <1>4
<1>6. PICK n : n = 0
  OBVIOUS
<1>61. n \in Nat /\ Counts(m, r, n) /\ Len(a) = n
  BY <1>3, <1>5, <1>6
<1>62. \A c \in Nat : c < n => a[c + 1] = m[r][SegOf(c)].data[PosOf(c) + 1]
  BY <1>6
<1>7. Array(m, r, a)
  BY <1>5, <1>61, <1>62, ArrayIs
<1>8. h = [f EXCEPT ![r] = a] /\ f = [y \in Rel |-> f[y]]
  BY <1>4 DEF Viewed
<1>9. Held(m, h, r)
  BY <1>2, <1>7, <1>8, HeldPut
<1>10. \A y \in Rel : y # r => SameFor(k, m, y)
  <2>1. ASSUME NEW y \in Rel, y # r, NEW j \in Seg PROVE m[y][j] = k[y][j]
    BY <2>1 DEF FilePut
  <2> QED BY <2>1 DEF SameFor
<1>11. Viewed(m, h)
  BY <1>8, <1>9, <1>10, PutViewed
<1>12. f[r] = Absent
  BY DEF Viewed, Held
<1> QED BY <1>11, <1>12

\* Every other relation is as it was.
OtherRels(k, m, r) == \A x \in Rel : x # r => m[x] = k[x]

LEMMA RemoveViewed ==
  ASSUME NEW k, Files(k), NEW m, NEW f, Viewed(k, f), NEW r \in Rel,
         k[r][0] # Absent, m[r][0] = Absent, OtherRels(k, m, r),
         NEW h, h = [f EXCEPT ![r] = Absent]
  PROVE  Viewed(m, h) /\ f[r] # Absent
<1>1. f = [y \in Rel |-> f[y]]
  BY DEF Viewed
<1>2. h[r] = Absent
  BY <1>1
<1>3. Held(m, h, r)
  BY <1>2 DEF Held
<1>4. \A y \in Rel : y # r => SameFor(k, m, y)
  BY DEF SameFor, OtherRels
<1>5. Viewed(m, h)
  <2>1. PICK a : a = Absent
    OBVIOUS
  <2>2. h = [f EXCEPT ![r] = a]
    BY <2>1
  <2> QED BY <1>3, <1>4, <2>2, PutViewed
<1>6. f[r] # Absent
  <2>1. PICK j, n : j \in Seg /\ EndsAt(k, r, j, n)
    BY EndsSome
  <2>2. Counts(k, r, n)
    BY <2>1 DEF Counts
  <2> QED BY <2>2, HeldPages
<1> QED BY <1>5, <1>6

-----------------------------------------------------------------------------
(* From a call to a step.                                                  *)

LEMMA StateSound ==
  ASSUME Inv, NEW p \in Proc
  PROVE  /\ Sound(State(p)) /\ State(p).k = file /\ State(p).c = vec[p]
         /\ Len(vec[p]) \in Nat
<1>1. State(p).k = file /\ State(p).c = vec[p] /\ IsState(State(p))
  BY DEF State, IsState
<1>2. Files(file) /\ Vector(file, vec[p])
  BY DEF Inv
<1> QED BY <1>1, <1>2 DEF Sound, Vector

LEMMA FirstIn ==
  ASSUME NEW s, Sound(s), NEW e \in 1 .. Len(s.c), s.c[e].rel \in Rel
  PROVE  In(s, e, 0)
<1>1. Hooked(s.k, s.c[e])
  BY DEF Sound, Vector
<1>2. s.c[e].rel # Absent
  BY MdAssumption
<1>3. Len(s.c[e].segs) \in 1 .. MaxSeg + 1
  BY <1>1, <1>2 DEF Hooked, Chained
<1>4. 0 \in Nat /\ 0 + 1 <= Len(s.c[e].segs)
  BY <1>3, SegFacts
<1> QED BY <1>4 DEF In

LEMMA OpenIn ==
  ASSUME Inv, NEW p \in Proc, NEW r \in Rel, IsOpen(p, r), NEW e, e = fdOf[p][r]
  PROVE  In(State(p), e, 0) /\ State(p).c[e].rel = r
<1>1. Indexed(vec[p], fdOf[p])
  BY DEF Inv
<1>2. e \in 0 .. Len(vec[p]) /\ e # 0
  BY <1>1 DEF Indexed, IsOpen
<1>3. vec[p][e].rel = r
  BY <1>1 DEF Indexed, IsOpen
<1>4. e \in 1 .. Len(vec[p])
  BY <1>2, StateSound
<1>5. e \in 1 .. Len(State(p).c) /\ State(p).c[e].rel = r
  BY <1>3, <1>4, StateSound
<1> QED BY <1>5, StateSound, FirstIn

LEMMA OpenExists ==
  ASSUME Inv, NEW p \in Proc, NEW r \in Rel, IsOpen(p, r)
  PROVE  Exists(r)
<1>1. PICK s, e : s = State(p) /\ e = fdOf[p][r]
  OBVIOUS
<1>2. Sound(s) /\ In(s, e, 0) /\ s.c[e].rel = r /\ s.k = file
  BY <1>1, StateSound, OpenIn
<1>3. s.k[s.c[e].rel][0] # Absent
  BY <1>2, InFacts
<1> QED BY <1>2, <1>3 DEF Exists

LEMMA EnteredFacts ==
  ASSUME Inv, NEW p \in Proc, NEW r \in Rel, CanEnter(p, r),
         NEW s, s = Entered(p, r), NEW e, e = EntryOf(p, r)
  PROVE  /\ Sound(s) /\ In(s, e, 0) /\ s.c[e].rel = r /\ s.k = file
         /\ Kept(vec[p], s.c) /\ Remarked(vec[p], s.c)
<1>1. /\ Sound(State(p)) /\ State(p).k = file /\ State(p).c = vec[p]
      /\ Len(vec[p]) \in Nat
  BY StateSound
<1>2. CASE IsOpen(p, r)
  <2>1. s = State(p) /\ e = fdOf[p][r]
    BY <1>2 DEF Entered, EntryOf
  <2>2. Kept(vec[p], vec[p]) /\ Remarked(vec[p], vec[p])
    BY <1>1 DEF Kept, Remarked
  <2>3. In(s, e, 0) /\ s.c[e].rel = r
    BY <1>2, <2>1, OpenIn
  <2> QED BY <1>1, <2>1, <2>2, <2>3
<1>3. CASE ~ IsOpen(p, r)
  <2>1. s = mdopen(State(p), r) /\ e = Len(vec[p]) + 1
    BY <1>3 DEF Entered, EntryOf
  <2>2. file[r][0] # Absent /\ Files(file)
    BY DEF CanEnter, Exists, Inv
  <2>3. Created(file, r, 0) = file
    BY <2>2, FilesBegun
  <2>4. /\ Sound(s) /\ Kept(State(p).c, s.c) /\ Remarked(State(p).c, s.c)
        /\ In(s, e, 0) /\ s.c[e].rel = r /\ s.k = Created(State(p).k, r, 0)
    BY <1>1, <2>1, OpenDoes
  <2> QED BY <1>1, <2>3, <2>4
<1> QED BY <1>2, <1>3

LEMMA IndexedKept ==
  ASSUME NEW c, NEW d, NEW f, Indexed(c, f), Kept(c, d), Len(c) \in Nat, Len(d) \in Nat
  PROVE  Indexed(d, f)
<1>1. f \in [Rel -> 0 .. Len(c)] /\ \A r \in Rel : f[r] # 0 => c[f[r]].rel = r
  BY DEF Indexed
<1>2. 0 .. Len(c) \subseteq 0 .. Len(d)
  BY DEF Kept
<1>3. f \in [Rel -> 0 .. Len(d)]
  BY <1>1, <1>2
<1>4. ASSUME NEW r \in Rel, f[r] # 0 PROVE d[f[r]].rel = r
  <2>1. f[r] \in 1 .. Len(c) /\ c[f[r]].rel = r
    BY <1>1, <1>4
  <2> QED BY <2>1 DEF Kept
<1> QED BY <1>3, <1>4 DEF Indexed

LEMMA IndexedPut ==
  ASSUME NEW d, NEW f, Indexed(d, f), NEW r \in Rel, NEW e \in 1 .. Len(d),
         d[e].rel = r, Len(d) \in Nat, NEW g, g = [f EXCEPT ![r] = e]
  PROVE  Indexed(d, g)
<1>1. f \in [Rel -> 0 .. Len(d)] /\ \A x \in Rel : f[x] # 0 => d[f[x]].rel = x
  BY DEF Indexed
<1>2. e \in 0 .. Len(d)
  OBVIOUS
<1>3. g \in [Rel -> 0 .. Len(d)] /\ g[r] = e /\ \A x \in Rel : x # r => g[x] = f[x]
  BY <1>1, <1>2
<1> QED BY <1>1, <1>3 DEF Indexed

LEMMA BecomesInv ==
  ASSUME Inv, NEW p \in Proc, NEW t, NEW W, BecomesWith(p, t, W), Sound(t),
         Grows(file, t.k), DOMAIN fdOf' = Proc,
         \A q \in Proc : q # p => fdOf'[q] = fdOf[q], Indexed(t.c, fdOf'[p])
  PROVE  Inv'
<1>1. file' = t.k /\ vec' = [vec EXCEPT ![p] = t.c]
  BY DEF BecomesWith
<1>2. DOMAIN vec = Proc
  BY DEF Inv
<1>3. DOMAIN vec' = Proc /\ vec'[p] = t.c /\ \A q \in Proc : q # p => vec'[q] = vec[q]
  BY <1>1, <1>2
<1>4. Files(t.k) /\ Vector(t.k, t.c)
  BY DEF Sound
<1>5. ASSUME NEW q \in Proc PROVE Vector(t.k, vec'[q]) /\ Indexed(vec'[q], fdOf'[q])
  <2>1. CASE q = p
    BY <1>3, <1>4, <2>1
  <2>2. CASE q # p
    <3>1. Vector(file, vec[q]) /\ Indexed(vec[q], fdOf[q])
      BY DEF Inv
    <3>2. Vector(t.k, vec[q])
      BY <3>1, VectorGrows
    <3> QED BY <1>3, <2>2, <3>1, <3>2
  <2> QED BY <2>1, <2>2
<1> QED BY <1>1, <1>3, <1>4, <1>5 DEF Inv

LEMMA BlockSeg ==
  ASSUME NEW b \in Block
  PROVE  b \in Nat /\ SegOf(b) \in Seg
<1>1. b \in Nat /\ b < MaxBlocks
  BY SizeFacts DEF Block
<1>2. PICK q, i, z, o : /\ q = SegOf(b) /\ i = PosOf(b)
                        /\ z = SegOf(MaxBlocks) /\ o = PosOf(MaxBlocks)
  OBVIOUS
<1>3. q \in Nat /\ i \in Nat /\ b = q * RelsegSize + i
  BY <1>1, <1>2, Located
<1>4. z \in Nat /\ o \in Nat /\ o < RelsegSize /\ MaxBlocks = z * RelsegSize + o
  BY <1>2, Located, SizeFacts
<1>5. q * RelsegSize \in Nat /\ z * RelsegSize \in Nat
  BY <1>3, <1>4, Product
<1>6. ~(z < q)
  <2>1. z < q => z * RelsegSize + RelsegSize <= q * RelsegSize
    BY <1>3, <1>4, Times
  <2> QED BY <1>1, <1>3, <1>4, <1>5, <2>1, SizeFacts
<1>7. z = MaxSeg
  BY <1>2 DEF MaxSeg, SegOf
<1>8. q <= MaxSeg
  BY <1>3, <1>4, <1>6, <1>7
<1> QED BY <1>1, <1>2, <1>3, <1>8, SegFacts

\* What p owes for a block it has just written.
Backed(t, w) ==
  /\ w \in Rel \X Block
  /\ \/ \E e \in 1 .. Len(t.c) : Marked(t.c, e, w[1], SegOf(w[2]))
     \/ Forced(t.k, w[1], SegOf(w[2]))

LEMMA BecomesDebts ==
  ASSUME Inv, Debts, NEW p \in Proc, NEW t, NEW W, BecomesWith(p, t, W),
         Pays(State(p), t), Len(vec[p]) <= Len(t.c), Len(t.c) \in Nat,
         \A q \in Proc : q # p => W[q] \subseteq wrote[q],
         \A w \in W[p] : w \in wrote[p] \/ Backed(t, w)
  PROVE  Debts'
<1>1. /\ vec' = [vec EXCEPT ![p] = t.c]
      /\ wrote' = [q \in Proc |-> {w \in W[q] : Unforced(t.k, w)}]
  BY DEF BecomesWith
<1>2. DOMAIN vec = Proc
  BY DEF Inv
<1>3. vec'[p] = t.c /\ \A q \in Proc : q # p => vec'[q] = vec[q]
  BY <1>1, <1>2
<1>4. DOMAIN wrote' = Proc
      /\ \A q \in Proc : wrote'[q] = {w \in W[q] : Unforced(t.k, w)}
  BY <1>1
<1>5. ASSUME NEW q \in Proc PROVE Owed(vec'[q], wrote'[q])
  <2>1. Owed(vec[q], wrote[q])
    BY DEF Debts
  <2>2. CASE q # p
    <3>1. wrote'[q] \subseteq wrote[q]
      BY <1>4, <2>2
    <3> QED BY <1>3, <2>1, <2>2, <3>1 DEF Owed
  <2>3. CASE q = p
    <3> SUFFICES ASSUME NEW w \in W[p], Unforced(t.k, w)
                 PROVE  /\ w \in Rel \X Block
                        /\ \E e \in 1 .. Len(t.c) : Marked(t.c, e, w[1], SegOf(w[2]))
      BY <1>3, <1>4, <2>3 DEF Owed
    <3>1. Backed(t, w)
      <4>1. CASE w \in wrote[p]
        <5>1. w \in Rel \X Block
              /\ \E e \in 1 .. Len(vec[p]) : Marked(vec[p], e, w[1], SegOf(w[2]))
          BY <2>1, <2>3, <4>1 DEF Owed
        <5>2. PICK e \in 1 .. Len(vec[p]) : Marked(vec[p], e, w[1], SegOf(w[2]))
          BY <5>1
        <5>3. w[1] \in Rel /\ w[2] \in Block
          BY <5>1
        <5>4. SegOf(w[2]) \in Seg
          BY <5>3, BlockSeg
        <5>5. State(p).c = vec[p] /\ Len(vec[p]) \in Nat
          BY StateSound
        <5>6. Due(t, e, w[1], SegOf(w[2]))
          BY <5>2, <5>3, <5>4, <5>5 DEF Pays
        <5>7. e \in 1 .. Len(t.c)
          BY <5>2, <5>5
        <5> QED BY <5>1, <5>6, <5>7 DEF Backed, Due
      <4> QED BY <4>1
    <3>2. w \in Rel \X Block /\ w[1] \in Rel /\ w[2] \in Block /\ w = <<w[1], w[2]>>
      BY <3>1 DEF Backed
    <3>3. ~ Forced(t.k, w[1], SegOf(w[2]))
      BY <3>2, BlockSeg, ForcedBlock
    <3> QED BY <3>1, <3>2, <3>3 DEF Backed
  <2> QED BY <2>2, <2>3
<1> QED BY <1>4, <1>5 DEF Debts

LEMMA RemarkedPays ==
  ASSUME NEW s, NEW t, Remarked(s.c, t.c)
  PROVE  Pays(s, t)
BY DEF Remarked, Pays, Due

\* A call that leaves rd_fd alone.
LEMMA StepsInv ==
  ASSUME Inv, NEW p \in Proc, NEW t, NEW W, BecomesWith(p, t, W), Sound(t),
         Grows(file, t.k), Kept(vec[p], t.c), fdOf' = fdOf
  PROVE  Inv'
<1>1. Len(vec[p]) \in Nat /\ Len(t.c) \in Nat
  BY StateSound, VectorLens
<1>2. DOMAIN fdOf = Proc /\ Indexed(vec[p], fdOf[p])
  BY DEF Inv
<1>3. Indexed(t.c, fdOf[p])
  BY <1>1, <1>2, IndexedKept
<1>4. DOMAIN fdOf' = Proc /\ Indexed(t.c, fdOf'[p])
  BY <1>2, <1>3
<1>5. \A q \in Proc : q # p => fdOf'[q] = fdOf[q]
  OBVIOUS
<1> QED BY <1>4, <1>5, BecomesInv

\* A call that sets rd_fd of r to e.
LEMMA EntersInv ==
  ASSUME Inv, NEW p \in Proc, NEW t, NEW W, BecomesWith(p, t, W), Sound(t),
         Grows(file, t.k), Kept(vec[p], t.c), NEW r \in Rel, NEW e, In(t, e, 0),
         t.c[e].rel = r, fdOf' = [fdOf EXCEPT ![p][r] = e]
  PROVE  Inv'
<1>1. Len(vec[p]) \in Nat /\ Len(t.c) \in Nat
  BY StateSound, VectorLens
<1>2. DOMAIN fdOf = Proc /\ Indexed(vec[p], fdOf[p])
  BY DEF Inv
<1>3. PICK g : g = [fdOf[p] EXCEPT ![r] = e]
  OBVIOUS
<1>4. fdOf' = [fdOf EXCEPT ![p] = g]
  BY <1>3
<1>5. DOMAIN fdOf' = Proc /\ fdOf'[p] = g
      /\ \A q \in Proc : q # p => fdOf'[q] = fdOf[q]
  BY <1>2, <1>4
<1>6. Indexed(t.c, fdOf[p])
  BY <1>1, <1>2, IndexedKept
<1>7. e \in 1 .. Len(t.c)
  BY DEF In
<1>8. Indexed(t.c, g)
  BY <1>1, <1>3, <1>6, <1>7, IndexedPut
<1>9. Indexed(t.c, fdOf'[p])
  BY <1>5, <1>8
<1> QED BY <1>5, <1>9, BecomesInv

\* What a call owes when it writes nothing new.
LEMMA StepsDebts ==
  ASSUME Inv, Debts, NEW p \in Proc, NEW t, Becomes(p, t), Sound(t),
         Kept(vec[p], t.c), Pays(State(p), t)
  PROVE  Debts'
<1>1. Len(vec[p]) <= Len(t.c) /\ Len(t.c) \in Nat
  BY VectorLens DEF Kept
<1>2. BecomesWith(p, t, wrote)
  BY DEF Becomes
<1>3. \A q \in Proc : q # p => wrote[q] \subseteq wrote[q]
  OBVIOUS
<1>4. \A w \in wrote[p] : w \in wrote[p] \/ Backed(t, w)
  OBVIOUS
<1> QED BY <1>1, <1>2, <1>3, <1>4, BecomesDebts

LEMMA WroteByFacts ==
  ASSUME NEW p \in Proc, NEW r, NEW b, NEW W, W = WroteBy(p, r, b)
  PROVE  /\ \A q \in Proc : q # p => W[q] \subseteq wrote[q]
         /\ \A w \in W[p] : w \in wrote[p] \/ w = <<r, b>>
<1>1. W[p] = wrote[p] \cup {<<r, b>>}
  BY DEF WroteBy
<1>2. \A q \in Proc : q # p => W[q] = wrote[q] \ {<<r, b>>}
  BY DEF WroteBy
<1> QED BY <1>1, <1>2

\* And when it writes a block.
LEMMA WritesDebts ==
  ASSUME Inv, Debts, NEW p \in Proc, NEW t, NEW r, NEW b,
         BecomesWith(p, t, WroteBy(p, r, b)), Sound(t), Kept(vec[p], t.c),
         Pays(State(p), t), Backed(t, <<r, b>>)
  PROVE  Debts'
<1>1. Len(vec[p]) <= Len(t.c) /\ Len(t.c) \in Nat
  BY VectorLens DEF Kept
<1>2. PICK W : W = WroteBy(p, r, b)
  OBVIOUS
<1>3. BecomesWith(p, t, W)
  BY <1>2
<1>4. \A q \in Proc : q # p => W[q] \subseteq wrote[q]
  BY <1>2, WroteByFacts
<1>5. \A w \in W[p] : w \in wrote[p] \/ Backed(t, w)
  BY <1>2, WroteByFacts
<1> QED BY <1>1, <1>3, <1>4, <1>5, BecomesDebts

\* The end of a transaction.
LEMMA EndsDebts ==
  ASSUME Inv, Debts, NEW p \in Proc, NEW t,
         BecomesWith(p, t, [wrote EXCEPT ![p] = {}])
  PROVE  Debts'
<1>1. PICK W : W = [wrote EXCEPT ![p] = {}]
  OBVIOUS
<1>2. DOMAIN vec = Proc /\ DOMAIN wrote = Proc
  BY DEF Inv, Debts
<1>3. W[p] = {} /\ \A q \in Proc : q # p => W[q] = wrote[q]
  BY <1>1, <1>2
<1>4. /\ vec' = [vec EXCEPT ![p] = t.c]
      /\ wrote' = [q \in Proc |-> {w \in W[q] : Unforced(t.k, w)}]
  BY <1>1 DEF BecomesWith
<1>5. \A q \in Proc : q # p => vec'[q] = vec[q]
  BY <1>2, <1>4
<1>6. DOMAIN wrote' = Proc
      /\ \A q \in Proc : wrote'[q] = {w \in W[q] : Unforced(t.k, w)}
  BY <1>4
<1>7. ASSUME NEW q \in Proc PROVE Owed(vec'[q], wrote'[q])
  <2>1. CASE q = p
    <3>1. wrote'[q] = {}
      BY <1>3, <1>6, <2>1
    <3> QED BY <3>1 DEF Owed
  <2>2. CASE q # p
    <3>1. Owed(vec[q], wrote[q])
      BY DEF Debts
    <3>2. wrote'[q] \subseteq wrote[q] /\ vec'[q] = vec[q]
      BY <1>3, <1>5, <1>6, <2>2
    <3> QED BY <3>1, <3>2 DEF Owed
  <2> QED BY <2>1, <2>2
<1> QED BY <1>6, <1>7 DEF Debts

LEMMA BackedBlock ==
  ASSUME NEW r \in Rel, NEW b \in Block, NEW t,
         \/ \E e \in 1 .. Len(t.c) : Marked(t.c, e, r, SegOf(b))
         \/ Forced(t.k, r, SegOf(b))
  PROVE  Backed(t, <<r, b>>)
<1>1. PICK w : w = <<r, b>>
  OBVIOUS
<1>2. w \in Rel \X Block /\ w[1] = r /\ w[2] = b
  BY <1>1
<1>3. Backed(t, w)
  BY <1>2 DEF Backed
<1> QED BY <1>1, <1>3


-----------------------------------------------------------------------------
(* Extensions.  One that is under way has an entry whose chain reaches the *)
(* segment it will write, and the count it has taken stays right.          *)

Amid(k, c, f, x) ==
  /\ x \in [rel : Rel, n : Block, pos : -1 .. RelsegSize - 1]
  /\ f[x.rel] # 0
  /\ Counts(k, x.rel, x.n)
  /\ SegOf(x.n) + 1 <= Len(c[f[x.rel]].segs)
  /\ x.pos = -1 \/ x.pos = PosOf(x.n)

Apart(E) ==
  \A p, q \in Proc : p # q /\ E[p].rel = E[q].rel => E[p].rel = Absent

Midway ==
  /\ DOMAIN ext = Proc
  /\ \A p \in Proc : ext[p] = NoExt \/ Amid(file, vec[p], fdOf[p], ext[p])
  /\ Apart(ext)

-----------------------------------------------------------------------------
(* The steps.  What a step shows of the pages, when it leaves m.           *)

Overwrites(m, r, b, x) ==
  /\ Exists(r) /\ b < NBlocks(r)
  /\ Rewritten(file, m, r, SegOf(b), Put(file[r][SegOf(b)].data, PosOf(b), x))

Lengthens(m, r, n) ==
  /\ Exists(r) /\ Counts(file, r, n) /\ file[r][SegOf(n)] # Absent
  /\ Rewritten(file, m, r, SegOf(n), Append(file[r][SegOf(n)].data, Zero))

Cuts(m, r, i) ==
  /\ Exists(r) /\ i <= NBlocks(r) /\ SegOf(NBlocks(r)) = 0
  /\ i <= Len(file[r][0].data)
  /\ Rewritten(file, m, r, 0, SubSeq(file[r][0].data, 1, i))

Starts(m, r) == file[r][0] = Absent /\ FilePut(file, m, r, 0, Empty)

Removes(m, r) ==
  Exists(r) /\ m[r][0] = Absent /\ \A x \in Rel : x # r => m[x] = file[x]

\* What a call c on r that changes no page returns.
PageFound(r, b, o) ==
  IF b < NBlocks(r) THEN o = file[r][SegOf(b)].data[PosOf(b) + 1]
  ELSE b = NBlocks(r) /\ o = Zero

Found(c, o, r) ==
  \/ c = <<"open", r>> /\ o = Ok
  \/ c = <<"create", r>> /\ o = Ok /\ NBlocks(r) = 0
  \/ c = <<"count", r>> /\ o = NBlocks(r)
  \/ \E i \in 0 .. MaxBlocks :
       c = <<"truncate", r, i>> /\ i <= NBlocks(r) /\ o = NBlocks(r)
  \/ \E b \in Block : c = <<"read", r, b>> /\ PageFound(r, b, o)

Failed(c, o, r) ==
  /\ o = Fail
  /\ \/ c = <<"create", r>> \/ c = <<"extend", r>>
     \/ \E b \in Block, x \in Page : c = <<"write", r, b, x>>

Answered(c, o) ==
  \/ c = <<"other">> /\ o = Ok
  \/ \E r \in Rel : Failed(c, o, r) \/ (Exists(r) /\ Found(c, o, r))

\* A step of call c with result o, other than one that extends.
Quiet(c, o, m) ==
  \/ SamePages(file, m) /\ Answered(c, o)
  \/ \E r \in Rel, b \in Block, x \in Page :
       Overwrites(m, r, b, x) /\ c = <<"write", r, b, x>> /\ o = Ok
  \/ \E r \in Rel, i \in 0 .. MaxBlocks :
       Cuts(m, r, i) /\ ~ Extending(r) /\ c = <<"truncate", r, i>> /\ o = i
  \/ \E r \in Rel :
       Starts(m, r) /\ (c = <<"create", r>> \/ c = <<"open", r>>) /\ o = Ok
  \/ \E r \in Rel :
       Removes(m, r) /\ ~ Extending(r) /\ c = <<"unlink", r>> /\ o = Ok

Grown(c, o, m) ==
  \E r \in Rel, n \in Block : Lengthens(m, r, n) /\ c = <<"extend", r>> /\ o = Ok

\* Whether a write of mdflush may fail.
FlushFails == "flush" \in Faulty

Pledge == Inv' /\ (~ FlushFails /\ Debts => Debts')

Carries == Pledge /\ Quiet(call', out', file')

Moves == Pledge /\ (Quiet(call', out', file') \/ Grown(call', out', file'))

LEMMA HiddenTells ==
  ASSUME Hidden, SamePages(file, file')
  PROVE  Quiet(call', out', file')
BY DEF Hidden, Answers, Quiet, Answered

LEMMA FoundTells ==
  ASSUME NEW c, NEW o, Answers(c, o), SamePages(file, file'), NEW r \in Rel,
         Exists(r), Found(c, o, r)
  PROVE  Quiet(call', out', file')
BY DEF Answers, Quiet, Answered

LEMMA FailedTells ==
  ASSUME NEW c, NEW o, Answers(c, o), SamePages(file, file'), NEW r \in Rel,
         Failed(c, o, r)
  PROVE  Quiet(call', out', file')
BY DEF Answers, Quiet, Answered

LEMMA EmptyCounts ==
  ASSUME Inv, NEW r \in Rel, Exists(r), SegLen(file, r, 0) = 0
  PROVE  NBlocks(r) = 0
<1>1. FullTo(file, r, 0)
  BY DEF FullTo
<1>2. ~ IsFull(file, r, 0)
  BY SizeFacts DEF IsFull
<1>3. 0 = 0 * RelsegSize + SegLen(file, r, 0)
  BY SizeFacts
<1>4. EndsAt(file, r, 0, 0)
  BY <1>1, <1>2, <1>3 DEF EndsAt, Exists
<1>5. Counts(file, r, 0) /\ Counts(file, r, NBlocks(r))
  BY <1>4, SegFacts, NBlocksIs DEF Counts, Inv
<1> QED BY <1>5, CountsOnce

LEMMA TakenIs ==
  ASSUME NEW name, NEW full \in Taken(name)
  PROVE  full \in BOOLEAN /\ (name \notin Faulty => full = TRUE)
BY Zenon DEF Taken

LEMMA SweepKeeps ==
  ASSUME Inv, NEW p \in Proc, NEW commit, NEW t, t = Sweep(State(p), commit),
         Ends(p, t)
  PROVE  Carries
<1>1. /\ Sound(State(p)) /\ State(p).k = file /\ State(p).c = vec[p]
      /\ Len(vec[p]) \in Nat
  BY StateSound
<1>2. PICK s : s = State(p)
  OBVIOUS
<1>3. Sound(s) /\ s.k = file /\ s.c = vec[p] /\ t = Sweep(s, commit)
  BY <1>1, <1>2
<1>4. Sound(t) /\ SamePages(s.k, t.k) /\ Shaped(s.c, t.c)
  BY <1>3, SweepsAll
<1>5. Kept(s.c, t.c) /\ Grows(s.k, t.k)
  BY <1>3, <1>4, ShapedKept, SameGrows
<1>6. BecomesWith(p, t, [wrote EXCEPT ![p] = {}]) /\ fdOf' = fdOf /\ Hidden
  BY DEF Ends
<1>7. Inv'
  BY <1>3, <1>4, <1>5, <1>6, StepsInv
<1>8. Debts => Debts'
  BY <1>6, EndsDebts
<1>9. Quiet(call', out', file')
  BY <1>3, <1>4, <1>6, HiddenTells DEF BecomesWith
<1> QED BY <1>7, <1>8, <1>9 DEF Carries, Pledge

LEMMA CommitKeeps ==
  ASSUME Inv, NEW p \in Proc, Commit(p)
  PROVE  Carries
<1>1. Ends(p, Sweep(State(p), TRUE))
  BY DEF Commit, mdcommit
<1> QED BY <1>1, SweepKeeps

LEMMA AbortKeeps ==
  ASSUME Inv, NEW p \in Proc, Abort(p)
  PROVE  Carries
<1>1. Ends(p, Sweep(State(p), FALSE))
  BY DEF Abort, mdabort
<1> QED BY <1>1, SweepKeeps

LEMMA SettledPays ==
  ASSUME NEW s, NEW t, Settled(s, t)
  PROVE  Pays(s, t)
BY DEF Settled, Pays, Due

\* A segment of an entry belongs to a relation.
LEMMA SegmentIn ==
  ASSUME NEW s, Sound(s), NEW e \in 1 .. Len(s.c), NEW j \in 0 .. Len(s.c[e].segs) - 1
  PROVE  In(s, e, j)
<1>1. Hooked(s.k, s.c[e]) /\ Len(s.c[e].segs) \in Nat
  BY VectorLens DEF Sound, Vector
<1>2. j \in Nat /\ j + 1 <= Len(s.c[e].segs) /\ Len(s.c[e].segs) # 0
  BY <1>1
<1>3. s.c[e].rel # Absent
  BY <1>1, <1>2, EmptyFacts DEF Hooked
<1>4. s.c[e].rel \in Rel
  BY <1>1, <1>3 DEF Hooked, Entry
<1> QED BY <1>2, <1>4 DEF In

LEMMA EvictKeeps ==
  ASSUME Inv, NEW p \in Proc, NEW e \in DOMAIN vec[p],
         NEW j \in 0 .. Len(vec[p][e].segs) - 1, Evict(p, e, j)
  PROVE  Carries
<1>1. /\ Sound(State(p)) /\ State(p).k = file /\ State(p).c = vec[p]
      /\ Len(vec[p]) \in Nat
  BY StateSound
<1>2. PICK s, t : s = State(p) /\ t = FileSync(State(p), e, j)
  OBVIOUS
<1>3. Sound(s) /\ s.k = file /\ s.c = vec[p] /\ t = FileSync(s, e, j)
  BY <1>1, <1>2
<1>4. In(s, e, j)
  <2>1. vec[p] \in Seq(Entry)
    BY DEF Inv, Vector
  <2>2. e \in 1 .. Len(s.c)
    BY <1>3, <2>1
  <2>3. j \in 0 .. Len(s.c[e].segs) - 1
    BY <1>3
  <2> QED BY <1>3, <2>2, <2>3, SegmentIn
<1>5. Sound(t) /\ SamePages(s.k, t.k) /\ Shaped(s.c, t.c) /\ Settled(s, t)
  BY <1>3, <1>4, SyncDoes
<1>6. Kept(s.c, t.c) /\ Grows(s.k, t.k)
  BY <1>3, <1>5, ShapedKept, SameGrows
<1>7. Becomes(p, t) /\ fdOf' = fdOf /\ Hidden
  BY <1>2 DEF Evict
<1>8. BecomesWith(p, t, wrote)
  BY <1>7 DEF Becomes
<1>9. Inv'
  BY <1>3, <1>5, <1>6, <1>7, <1>8, StepsInv
<1>10. Pays(State(p), t)
  BY <1>2, <1>5, SettledPays
<1>11. Debts => Debts'
  BY <1>3, <1>5, <1>6, <1>7, <1>10, StepsDebts
<1>12. Quiet(call', out', file')
  BY <1>3, <1>5, <1>7, <1>8, HiddenTells DEF BecomesWith
<1> QED BY <1>9, <1>11, <1>12 DEF Carries, Pledge

\* mdcreate and mdopen end alike.
LEMMA BeginKeeps ==
  ASSUME Inv, NEW p \in Proc, NEW r \in Rel, NEW t, NEW e, e = Len(vec[p]) + 1,
         Sound(t), Grows(file, t.k), Kept(vec[p], t.c), Remarked(vec[p], t.c),
         In(t, e, 0), t.c[e].rel = r, t.k = Created(file, r, 0),
         Becomes(p, t), fdOf' = [fdOf EXCEPT ![p][r] = e], NEW a, Answers(a, Ok),
         a = <<"open", r>> \/ (a = <<"create", r>> /\ CanCreate(file, r))
  PROVE  Carries
<1>1. State(p).k = file /\ State(p).c = vec[p]
  BY StateSound
<1>2. BecomesWith(p, t, wrote)
  BY DEF Becomes
<1>3. Inv'
  BY <1>2, EntersInv
<1>4. Pays(State(p), t)
  BY <1>1, RemarkedPays
<1>5. Debts => Debts'
  BY <1>4, StepsDebts
<1>6. file' = t.k
  BY <1>2 DEF BecomesWith
<1>7. Quiet(call', out', file')
  <2>1. Files(file)
    BY DEF Inv
  <2>2. file[r][0] # Absent => t.k = file
    BY <2>1, FilesBegun
  <2>3. file[r][0] = Absent => FilePut(file, t.k, r, 0, Empty)
    BY <2>1, FilesBegun
  <2>4. CASE file[r][0] # Absent
    <3>1. SamePages(file, file') /\ Exists(r)
      BY <1>6, <2>2, <2>4, GrowsSame DEF Exists
    <3>2. CanCreate(file, r) => NBlocks(r) = 0
      BY <2>4, <3>1, EmptyCounts DEF CanCreate
    <3>3. Found(a, Ok, r)
      BY <3>2 DEF Found
    <3> QED BY <3>1, <3>3, FoundTells
  <2>5. CASE file[r][0] = Absent
    <3>1. Starts(file', r)
      BY <1>6, <2>3, <2>5 DEF Starts
    <3> QED BY <3>1 DEF Quiet, Answers
  <2> QED BY <2>4, <2>5
<1> QED BY <1>3, <1>5, <1>7 DEF Carries, Pledge

LEMMA CreateKeeps ==
  ASSUME Inv, NEW p \in Proc, NEW r \in Rel, Create(p, r)
  PROVE  Carries
<1>1. /\ Sound(State(p)) /\ State(p).k = file /\ State(p).c = vec[p]
  BY StateSound
<1>2. PICK t, e : t = mdcreate(State(p), r) /\ e = Len(vec[p]) + 1
  OBVIOUS
<1>3. e = Len(State(p).c) + 1
  BY <1>1, <1>2
<1>4. /\ Sound(t) /\ Grows(State(p).k, t.k) /\ Kept(State(p).c, t.c)
      /\ Remarked(State(p).c, t.c)
      /\ In(t, e, 0) /\ t.c[e].rel = r /\ t.k = Created(State(p).k, r, 0)
  BY <1>1, <1>2, <1>3, CreateDoes
<1>5. Becomes(p, t) /\ fdOf' = [fdOf EXCEPT ![p][r] = e] /\ CanCreate(file, r)
      /\ Answers(<<"create", r>>, Ok)
  BY <1>2 DEF Create
<1>6. PICK a : a = <<"create", r>>
  OBVIOUS
<1>7. Answers(a, Ok) /\ (a = <<"open", r>> \/ (a = <<"create", r>> /\ CanCreate(file, r)))
  BY <1>5, <1>6
<1> QED BY <1>1, <1>2, <1>4, <1>5, <1>7, BeginKeeps

LEMMA CreateFailsKeeps ==
  ASSUME Inv, NEW p \in Proc, NEW r \in Rel, CreateFails(p, r)
  PROVE  Carries
<1>1. /\ file' = file /\ vec' = vec /\ fdOf' = fdOf /\ wrote' = wrote
      /\ Answers(<<"create", r>>, Fail)
  BY DEF CreateFails
<1>2. Pledge
  BY <1>1 DEF Pledge, Inv, Debts
<1>3. SamePages(file, file')
  BY <1>1, GrowsSame
<1>4. Failed(<<"create", r>>, Fail, r)
  BY DEF Failed
<1>5. Quiet(call', out', file')
  BY <1>1, <1>3, <1>4, FailedTells
<1> QED BY <1>2, <1>5 DEF Carries

LEMMA OpenKeeps ==
  ASSUME Inv, NEW p \in Proc, NEW r \in Rel, Open(p, r)
  PROVE  Carries
<1>1. /\ Sound(State(p)) /\ State(p).k = file /\ State(p).c = vec[p]
  BY StateSound
<1>2. PICK t, e : t = mdopen(State(p), r) /\ e = Len(vec[p]) + 1
  OBVIOUS
<1>3. e = Len(State(p).c) + 1
  BY <1>1, <1>2
<1>4. /\ Sound(t) /\ Grows(State(p).k, t.k) /\ Kept(State(p).c, t.c)
      /\ Remarked(State(p).c, t.c)
      /\ In(t, e, 0) /\ t.c[e].rel = r /\ t.k = Created(State(p).k, r, 0)
  BY <1>1, <1>2, <1>3, OpenDoes
<1>5. Becomes(p, t) /\ fdOf' = [fdOf EXCEPT ![p][r] = e] /\ Answers(<<"open", r>>, Ok)
  BY <1>2 DEF Open
<1>6. PICK a : a = <<"open", r>>
  OBVIOUS
<1>7. Answers(a, Ok) /\ (a = <<"open", r>> \/ (a = <<"create", r>> /\ CanCreate(file, r)))
  BY <1>5, <1>6
<1> QED BY <1>1, <1>2, <1>4, <1>5, <1>7, BeginKeeps

LEMMA CloseKeeps ==
  ASSUME Inv, NEW p \in Proc, NEW r \in Rel, Close(p, r)
  PROVE  Carries
<1>1. /\ Sound(State(p)) /\ State(p).k = file /\ State(p).c = vec[p]
      /\ Len(vec[p]) \in Nat
  BY StateSound
<1>2. PICK s, e : s = State(p) /\ e = fdOf[p][r]
  OBVIOUS
<1>3. PICK t : t = mdclose(s, e)
  OBVIOUS
<1>4. /\ IsOpen(p, r) /\ Becomes(p, t) /\ Hidden
      /\ fdOf' = [fdOf EXCEPT ![p][r] = 0]
  BY <1>2, <1>3 DEF Close
<1>5. In(s, e, 0) /\ s.c[e].rel = r /\ Sound(s) /\ s.k = file /\ s.c = vec[p]
  BY <1>1, <1>2, <1>4, OpenIn
<1>6. /\ Sound(t) /\ SamePages(s.k, t.k) /\ Pays(s, t) /\ Len(t.c) = Len(s.c)
      /\ \A x \in 1 .. Len(s.c) : x # e => t.c[x].rel = s.c[x].rel
  BY <1>3, <1>5, ClosesAll
<1>7. BecomesWith(p, t, wrote)
  BY <1>4 DEF Becomes
<1>8. DOMAIN fdOf = Proc /\ Indexed(vec[p], fdOf[p])
  BY DEF Inv
<1>9. PICK g : g = [fdOf[p] EXCEPT ![r] = 0]
  OBVIOUS
<1>10. fdOf' = [fdOf EXCEPT ![p] = g]
  BY <1>4, <1>9
<1>11. DOMAIN fdOf' = Proc /\ fdOf'[p] = g
       /\ \A q \in Proc : q # p => fdOf'[q] = fdOf[q]
  BY <1>8, <1>10
<1>12. Indexed(t.c, g)
  <2>1. PICK f : f = fdOf[p]
    OBVIOUS
  <2>2. f \in [Rel -> 0 .. Len(t.c)]
        /\ \A x \in Rel : f[x] # 0 => s.c[f[x]].rel = x
    BY <1>5, <1>6, <1>8, <2>1 DEF Indexed
  <2>3. 0 \in 0 .. Len(t.c)
    BY <1>1, <1>5, <1>6
  <2>4. g \in [Rel -> 0 .. Len(t.c)] /\ g[r] = 0 /\ \A x \in Rel : x # r => g[x] = f[x]
    BY <1>9, <2>1, <2>2, <2>3
  <2>5. ASSUME NEW x \in Rel, g[x] # 0 PROVE t.c[g[x]].rel = x
    <3>1. x # r /\ g[x] = f[x]
      BY <2>4, <2>5
    <3>2. s.c[f[x]].rel = x
      BY <2>2, <2>5, <3>1
    <3>3. f[x] # e
      BY <1>5, <3>1, <3>2
    <3>4. f[x] \in 1 .. Len(s.c)
      BY <1>1, <1>5, <1>6, <2>2, <2>5, <3>1
    <3> QED BY <1>6, <3>1, <3>2, <3>3, <3>4
  <2> QED BY <2>4, <2>5 DEF Indexed
<1>13. Indexed(t.c, fdOf'[p])
  BY <1>11, <1>12
<1>14. Grows(file, t.k)
  BY <1>5, <1>6, SameGrows
<1>15. Inv'
  BY <1>6, <1>7, <1>11, <1>13, <1>14, BecomesInv
<1>16. Debts => Debts'
  <2>1. Len(vec[p]) <= Len(t.c) /\ Len(t.c) \in Nat
    BY <1>1, <1>5, <1>6
  <2>2. Pays(State(p), t)
    BY <1>2, <1>6
  <2>3. \A q \in Proc : q # p => wrote[q] \subseteq wrote[q]
    OBVIOUS
  <2>4. \A w \in wrote[p] : w \in wrote[p] \/ Backed(t, w)
    OBVIOUS
  <2> QED BY <1>7, <2>1, <2>2, <2>3, <2>4, BecomesDebts
<1>17. Quiet(call', out', file')
  BY <1>4, <1>5, <1>6, <1>7, HiddenTells DEF BecomesWith
<1> QED BY <1>15, <1>16, <1>17 DEF Carries, Pledge

LEMMA UnlinkKeeps ==
  ASSUME Inv, NEW p \in Proc, NEW r \in Rel, Unlink(p, r)
  PROVE  Carries
<1>1. /\ Exists(r) /\ file' = Unlinked(file, r) /\ ~ Extending(r)
      /\ Answers(<<"unlink", r>>, Ok)
      /\ vec' = [q \in Proc |-> Forgotten(vec[q], r)]
      /\ fdOf' = [q \in Proc |-> [fdOf[q] EXCEPT ![r] = 0]]
      /\ wrote' = [q \in Proc |-> {w \in wrote[q] : w[1] # r}]
  BY DEF Unlink
<1>2. Files(file) /\ DOMAIN fdOf = Proc
      /\ \A q \in Proc : Vector(file, vec[q]) /\ Indexed(vec[q], fdOf[q])
  BY DEF Inv
<1>3. PICK m : m = Unlinked(file, r)
  OBVIOUS
<1>4. /\ Files(m) /\ \A j \in Seg : m[r][j] = Absent
      /\ \A x \in Rel : x # r => m[x] = file[x]
  BY <1>2, <1>3, UnlinkDoes
<1>5. ASSUME NEW q \in Proc
      PROVE  /\ Vector(m, vec'[q]) /\ Len(vec'[q]) = Len(vec[q])
             /\ \A x \in 1 .. Len(vec[q]) : vec[q][x].rel # r => vec'[q][x] = vec[q][x]
  <2>1. PICK c, d : c = vec[q] /\ d = Forgotten(vec[q], r)
    OBVIOUS
  <2>2. Vector(file, c) /\ d = Forgotten(c, r)
    BY <1>2, <2>1
  <2>3. /\ Vector(m, d) /\ Len(d) = Len(c)
        /\ \A x \in 1 .. Len(c) : c[x].rel # r => d[x] = c[x]
    <3>1. \A x \in Rel : x # r => m[x] = file[x]
      BY <1>4
    <3>2. PICK k : k = file
      OBVIOUS
    <3>3. Vector(k, c) /\ \A x \in Rel : x # r => m[x] = k[x]
      BY <2>2, <3>1, <3>2
    <3>4. Vector(m, d)
      BY <2>2, <3>3, ForgetDoes
    <3>5. Len(d) = Len(c)
      BY <2>2, <3>3, ForgetDoes
    <3>6. \A x \in 1 .. Len(c) : c[x].rel # r => d[x] = c[x]
      <4>1. c \in Seq(Entry)
        BY <2>2 DEF Vector
      <4>2. DOMAIN c = 1 .. Len(c)
        BY <4>1
      <4> QED BY <2>2, <4>2 DEF Forgotten
    <3> QED BY <3>4, <3>5, <3>6
  <2>4. vec'[q] = d
    BY <1>1, <2>1
  <2> QED BY <2>1, <2>3, <2>4
<1>6. ASSUME NEW q \in Proc PROVE Indexed(vec'[q], fdOf'[q])
  <2>1. PICK f, g, c, d : /\ f = fdOf[q] /\ g = [fdOf[q] EXCEPT ![r] = 0]
                          /\ c = vec[q] /\ d = vec'[q]
    OBVIOUS
  <2>2. fdOf'[q] = g
    BY <1>1, <2>1
  <2>3. f \in [Rel -> 0 .. Len(c)] /\ \A x \in Rel : f[x] # 0 => c[f[x]].rel = x
    BY <1>2, <2>1 DEF Indexed
  <2>4. Len(c) \in Nat /\ Len(d) = Len(c)
        /\ \A x \in 1 .. Len(c) : c[x].rel # r => d[x] = c[x]
    BY <1>5, <2>1, StateSound
  <2>41. g = [f EXCEPT ![r] = 0]
    BY <2>1
  <2>42. f \in [Rel -> 0 .. Len(d)] /\ 0 \in 0 .. Len(d)
    BY <2>3, <2>4
  <2>5. g \in [Rel -> 0 .. Len(d)] /\ g[r] = 0 /\ \A x \in Rel : x # r => g[x] = f[x]
    BY <2>41, <2>42
  <2>6. ASSUME NEW x \in Rel, g[x] # 0 PROVE d[g[x]].rel = x
    <3>1. x # r /\ g[x] = f[x] /\ f[x] # 0
      BY <2>5, <2>6
    <3>2. f[x] \in 1 .. Len(c) /\ c[f[x]].rel = x
      BY <2>3, <2>4, <3>1
    <3>3. d[f[x]] = c[f[x]]
      BY <2>4, <3>1, <3>2
    <3> QED BY <3>1, <3>2, <3>3
  <2>7. Indexed(d, g)
    BY <2>5, <2>6 DEF Indexed
  <2> QED BY <2>1, <2>2, <2>7
<1>7. DOMAIN vec' = Proc /\ DOMAIN fdOf' = Proc /\ file' = m
  BY <1>1, <1>3
<1>8. Inv'
  BY <1>4, <1>5, <1>6, <1>7 DEF Inv
<1>9. ASSUME Debts PROVE Debts'
  <2>1. DOMAIN wrote' = Proc
        /\ \A q \in Proc : wrote'[q] = {w \in wrote[q] : w[1] # r}
    BY <1>1
  <2>2. ASSUME NEW q \in Proc PROVE Owed(vec'[q], wrote'[q])
    <3>1. Owed(vec[q], wrote[q])
      BY <1>9 DEF Debts
    <3>2. PICK c, d : c = vec[q] /\ d = vec'[q]
      OBVIOUS
    <3>3. Len(d) = Len(c) /\ \A x \in 1 .. Len(c) : c[x].rel # r => d[x] = c[x]
      BY <1>5, <3>2
    <3>4. ASSUME NEW w \in wrote'[q]
          PROVE  /\ w \in Rel \X Block
                 /\ \E e \in 1 .. Len(d) : Marked(d, e, w[1], SegOf(w[2]))
      <4>1. w \in wrote[q] /\ w[1] # r
        BY <2>1
      <4>2. /\ w \in Rel \X Block
            /\ \E e \in 1 .. Len(c) : Marked(c, e, w[1], SegOf(w[2]))
        BY <3>1, <3>2, <4>1 DEF Owed
      <4>3. PICK e \in 1 .. Len(c) : Marked(c, e, w[1], SegOf(w[2]))
        BY <4>2
      <4>4. c[e].rel = w[1]
        BY <4>3 DEF Marked
      <4>5. d[e] = c[e]
        BY <3>3, <4>1, <4>4
      <4>6. Marked(d, e, w[1], SegOf(w[2]))
        BY <4>3, <4>5 DEF Marked
      <4> QED BY <3>3, <4>2, <4>6
    <3> QED BY <3>2, <3>4 DEF Owed
  <2> QED BY <2>1, <2>2 DEF Debts
<1>10. Removes(m, r)
  BY <1>1, <1>4, SegFacts DEF Removes
<1>11. Quiet(call', out', file')
  BY <1>1, <1>7, <1>10 DEF Quiet, Answers
<1> QED BY <1>8, <1>9, <1>11 DEF Carries, Pledge

\* A call that leaves rd_fd alone and every page as it is.
LEMMA LooksKeep ==
  ASSUME Inv, NEW p \in Proc, NEW t, Becomes(p, t), Looked(State(p), t), fdOf' = fdOf
  PROVE  Pledge /\ SamePages(file, file')
<1>1. /\ Sound(State(p)) /\ State(p).k = file /\ State(p).c = vec[p]
  BY StateSound
<1>2. PICK s : s = State(p)
  OBVIOUS
<1>3. Sound(s) /\ s.k = file /\ s.c = vec[p] /\ Looked(s, t)
  BY <1>1, <1>2
<1>4. Sound(t) /\ SamePages(s.k, t.k) /\ Kept(s.c, t.c) /\ Remarked(s.c, t.c)
  BY <1>3, LookedDoes
<1>5. BecomesWith(p, t, wrote) /\ Grows(file, t.k)
  BY <1>3, <1>4, SameGrows DEF Becomes
<1>6. Inv'
  BY <1>3, <1>4, <1>5, StepsInv
<1>7. Pays(State(p), t)
  BY <1>2, <1>4, RemarkedPays
<1>8. Debts => Debts'
  BY <1>3, <1>4, <1>7, StepsDebts
<1>9. SamePages(file, file')
  BY <1>3, <1>4, <1>5 DEF BecomesWith
<1> QED BY <1>6, <1>8, <1>9 DEF Pledge

LEMMA CountKeeps ==
  ASSUME Inv, NEW p \in Proc, NEW r \in Rel, Count(p, r)
  PROVE  Carries
<1>1. PICK s, e : s = State(p) /\ e = fdOf[p][r]
  OBVIOUS
<1>2. PICK v, u : v = mdnblocks(s, e) /\ u = v.s
  OBVIOUS
<1>3. /\ IsOpen(p, r) /\ Becomes(p, u) /\ fdOf' = fdOf
      /\ Answers(<<"count", r>>, v.n)
  BY <1>1, <1>2 DEF Count
<1>4. Sound(s) /\ In(s, e, 0) /\ s.c[e].rel = r /\ s.k = file
  BY <1>1, <1>3, StateSound, OpenIn
<1>5. PICK n : n = NBlocks(r)
  OBVIOUS
<1>6. Counts(s.k, r, n)
  BY <1>4, <1>5, NBlocksIs DEF Inv
<1>7. Looked(s, u) /\ v.n = n
  BY <1>2, <1>4, <1>6, CountFacts
<1>8. Pledge /\ SamePages(file, file')
  BY <1>1, <1>3, <1>7, LooksKeep
<1>9. Found(<<"count", r>>, v.n, r)
  BY <1>5, <1>7 DEF Found
<1>10. Quiet(call', out', file')
  BY <1>3, <1>8, <1>9, OpenExists, FoundTells
<1> QED BY <1>8, <1>10 DEF Carries

LEMMA TruncateKeeps ==
  ASSUME Inv, NEW p \in Proc, NEW r \in Rel, NEW i \in 0 .. MaxBlocks, Truncate(p, r, i)
  PROVE  Carries
<1>1. PICK s, e, n : s = State(p) /\ e = fdOf[p][r] /\ n = NBlocks(r)
  OBVIOUS
<1>2. PICK w, t : w = mdtruncate(s, e, i) /\ t = w.s
  OBVIOUS
<1>3. /\ IsOpen(p, r) /\ i <= n /\ Becomes(p, t) /\ fdOf' = fdOf
      /\ ~ Extending(r) /\ Answers(<<"truncate", r, i>>, w.n)
  BY <1>1, <1>2 DEF Truncate
<1>4. /\ Sound(s) /\ In(s, e, 0) /\ s.c[e].rel = r
      /\ s.k = file /\ s.c = vec[p]
  BY <1>1, <1>3, StateSound, OpenIn
<1>5. Counts(s.k, r, n)
  <2>1. Files(file)
    BY DEF Inv
  <2> QED BY <1>1, <1>4, <2>1, NBlocksIs
<1>6. i \in Nat
  BY SizeFacts
<1>61. r = s.c[e].rel /\ Sound(s) /\ In(s, e, 0) /\ i <= n
  BY <1>3, <1>4
<1>62. Truncated(s, t, r, n, i, w.n)
  BY <1>2, <1>5, <1>6, <1>61, TruncateDoes
<1>7. Sound(t) /\ Grows(s.k, t.k) /\ Kept(s.c, t.c) /\ Pays(s, t)
  BY <1>62 DEF Truncated
<1>71. \/ SamePages(s.k, t.k) /\ w.n = n
       \/ /\ SegOf(n) = 0 /\ s.k[r][0] # Absent /\ w.n = i
          /\ i <= Len(s.k[r][0].data)
          /\ Rewritten(s.k, t.k, r, 0, SubSeq(s.k[r][0].data, 1, i))
  BY <1>62 DEF Truncated
<1>8. BecomesWith(p, t, wrote)
  BY <1>3 DEF Becomes
<1>9. Inv'
  BY <1>3, <1>4, <1>7, <1>8, StepsInv
<1>10. Debts => Debts'
  BY <1>1, <1>3, <1>4, <1>7, StepsDebts
<1>11. file' = t.k
  BY <1>8 DEF BecomesWith
<1>12. Quiet(call', out', file')
  <2>1. CASE SamePages(s.k, t.k) /\ w.n = n
    <3>1. SamePages(file, file')
      BY <1>4, <1>11, <2>1
    <3>2. Found(<<"truncate", r, i>>, w.n, r)
      BY <1>1, <1>3, <2>1 DEF Found
    <3> QED BY <1>3, <3>1, <3>2, OpenExists, FoundTells
  <2>2. CASE /\ SegOf(n) = 0 /\ s.k[r][0] # Absent /\ w.n = i
             /\ i <= Len(s.k[r][0].data)
             /\ Rewritten(s.k, t.k, r, 0, SubSeq(s.k[r][0].data, 1, i))
    <3>1. Cuts(file', r, i)
      BY <1>1, <1>3, <1>4, <1>11, <2>2 DEF Cuts, Exists
    <3> QED BY <1>3, <2>2, <3>1 DEF Quiet, Answers
  <2> QED BY <1>71, <2>1, <2>2
<1> QED BY <1>9, <1>10, <1>12 DEF Carries, Pledge

-----------------------------------------------------------------------------
(* Steps on a block.                                                       *)

LEMMA EntersKept ==
  ASSUME NEW s, Sound(s), NEW t, Sound(t), Kept(s.c, t.c), NEW e, In(s, e, 0)
  PROVE  In(t, e, 0) /\ t.c[e].rel = s.c[e].rel
<1>1. Len(s.c) \in Nat /\ Len(t.c) \in Nat
  BY VectorLens
<1>2. e \in 1 .. Len(s.c) /\ s.c[e].rel \in Rel
  BY DEF In
<1>3. e \in 1 .. Len(t.c) /\ t.c[e].rel = s.c[e].rel
  BY <1>1, <1>2 DEF Kept
<1> QED BY <1>2, <1>3, FirstIn

\* A call on relation r that begins with the entry of r ends in t.
LEMMA EnteredInv ==
  ASSUME Inv, NEW p \in Proc, NEW r \in Rel, CanEnter(p, r), NEW s, s = Entered(p, r),
         NEW t, NEW W, BecomesWith(p, t, W), Enter(p, r), Sound(t), Kept(s.c, t.c),
         Grows(s.k, t.k)
  PROVE  Inv' /\ Kept(vec[p], t.c)
<1>1. PICK e : e = EntryOf(p, r)
  OBVIOUS
<1>2. /\ Sound(s) /\ In(s, e, 0) /\ s.c[e].rel = r /\ s.k = file
      /\ Kept(vec[p], s.c)
  BY <1>1, EnteredFacts
<1>3. In(t, e, 0) /\ t.c[e].rel = r
  BY <1>2, EntersKept
<1>4. Kept(vec[p], t.c)
  <2>1. Len(vec[p]) \in Nat /\ Len(s.c) \in Nat /\ Len(t.c) \in Nat
    BY <1>2, StateSound, VectorLens
  <2> QED BY <1>2, <2>1, KeptTrans
<1>5. fdOf' = [fdOf EXCEPT ![p][r] = e]
  BY <1>1 DEF Enter
<1>6. Grows(file, t.k)
  BY <1>2
<1>7. Inv'
  BY <1>3, <1>4, <1>5, <1>6, EntersInv
<1> QED BY <1>4, <1>7

LEMMA EnteredPays ==
  ASSUME Inv, NEW p \in Proc, NEW r \in Rel, CanEnter(p, r), NEW s, s = Entered(p, r),
         NEW t, Pays(s, t)
  PROVE  Pays(State(p), t)
<1>1. PICK i : i = EntryOf(p, r)
  OBVIOUS
<1>2. Sound(s) /\ Kept(vec[p], s.c) /\ Remarked(vec[p], s.c)
  BY <1>1, EnteredFacts
<1>3. State(p).c = vec[p] /\ Len(vec[p]) \in Nat /\ Len(s.c) \in Nat
  BY <1>2, StateSound, VectorLens
<1>4. ASSUME NEW e \in 1 .. Len(vec[p]), NEW x \in Rel, NEW j \in Seg,
             Marked(vec[p], e, x, j)
      PROVE  Due(t, e, x, j)
  <2>1. e \in 1 .. Len(s.c)
    BY <1>2, <1>3 DEF Kept
  <2>2. Marked(s.c, e, x, j)
    BY <1>2, <1>4 DEF Remarked
  <2> QED BY <2>1, <2>2 DEF Pays
<1> QED BY <1>3, <1>4 DEF Pays

\* What read() finds.
LEMMA ReadFinds ==
  ASSUME Inv, NEW s, Sound(s), NEW e, In(s, e, 0), NEW r \in Rel, s.c[e].rel = r,
         s.k = file, NEW t, Looked(s, t), NEW b \in Block, Exists(r),
         b < NBlocks(r) \/ b = 0
  PROVE  PageFound(r, b, mdread(t, e, b))
<1>1. PICK n, i, d : /\ n = NBlocks(r) /\ i = PosOf(b)
                     /\ d = t.k[t.c[e].rel][SegOf(b)].data
  OBVIOUS
<1>2. b \in Nat /\ SegOf(b) \in Seg /\ i \in Nat
  BY <1>1, BlockSeg, Located
<1>3. Files(file) /\ Counts(file, r, n)
  BY <1>1, NBlocksIs DEF Inv
<1>4. n \in Nat
  BY <1>3, CountsNat
<1>5. t.c[e].rel = r
  BY LookedIn
<1>6. mdread(t, e, b) = IF i < Len(d) THEN d[i + 1] ELSE Zero
  BY <1>1, Zenon DEF mdread, SegOf, PosOf
<1>7. CASE b < n
  <2>1. file[r][SegOf(b)] # Absent /\ PosOf(b) < SegLen(file, r, SegOf(b))
    BY <1>2, <1>3, <1>7, BlockIn
  <2>2. t.k[r][SegOf(b)] = file[r][SegOf(b)]
    BY <1>2, <2>1 DEF Looked, Opened
  <2>3. d = file[r][SegOf(b)].data /\ i < Len(d)
    BY <1>1, <1>5, <2>1, <2>2 DEF SegLen
  <2>4. mdread(t, e, b) = file[r][SegOf(b)].data[PosOf(b) + 1]
    BY <1>1, <1>6, <2>3
  <2> QED BY <1>1, <1>7, <2>4 DEF PageFound
<1>8. CASE ~(b < n)
  <2>1. b = 0 /\ n = 0
    BY <1>1, <1>2, <1>4, <1>8
  <2>2. SegOf(b) = 0 /\ i = 0
    <3>1. b = 0 * RelsegSize + 0 /\ 0 < RelsegSize
      BY <2>1, SizeFacts
    <3> QED BY <1>1, <3>1, LocatedOnce
  <2>3. t.k[r][0] = file[r][0] /\ file[r][0] # Absent /\ SegOf(n) = 0
    BY <2>1, <2>2, SegFacts DEF Looked, Opened, Exists
  <2>4. SegLen(file, r, 0) = 0
    <3>1. SegLen(file, r, SegOf(n)) = PosOf(n)
      BY <1>3, <2>3, EndsHere
    <3> QED BY <1>1, <2>1, <2>2, <2>3, <3>1
  <2>5. Len(d) = 0
    BY <1>1, <1>5, <2>2, <2>3, <2>4 DEF SegLen
  <2>6. mdread(t, e, b) = Zero
    BY <1>6, <2>2, <2>5
  <2> QED BY <1>1, <1>8, <2>1, <2>6 DEF PageFound
<1> QED BY <1>7, <1>8

LEMMA ReadKeeps ==
  ASSUME Inv, NEW p \in Proc, NEW r \in Rel, NEW b \in Block, Read(p, r, b)
  PROVE  Carries
<1>1. PICK s, e : s = Entered(p, r) /\ e = EntryOf(p, r)
  OBVIOUS
<1>2. PICK t : t = mdfd_getseg(s, e, b)
  OBVIOUS
<1>3. /\ CanEnter(p, r) /\ (b < NBlocks(r) \/ b = 0) /\ Becomes(p, t) /\ Enter(p, r)
      /\ Answers(<<"read", r, b>>, mdread(t, e, b))
  BY <1>1, <1>2 DEF Read
<1>4. /\ Sound(s) /\ In(s, e, 0) /\ s.c[e].rel = r /\ s.k = file
  BY <1>1, <1>3, EnteredFacts
<1>5. b \in Nat /\ SegOf(b) \in Seg
  BY BlockSeg
<1>6. FullTo(s.k, r, SegOf(b))
  <2>1. CASE b < NBlocks(r)
    <3>1. Files(file) /\ Counts(file, r, NBlocks(r))
      BY NBlocksIs DEF Inv
    <3>2. FullTo(file, r, SegOf(b))
      BY <1>5, <2>1, <3>1, BlockIn
    <3> QED BY <1>4, <3>2
  <2>2. CASE b = 0
    <3>1. b = 0 * RelsegSize + 0 /\ 0 < RelsegSize
      BY <2>2, SizeFacts
    <3>2. SegOf(b) = 0
      BY <3>1, LocatedOnce
    <3>3. 0 .. SegOf(b) - 1 = {}
      BY <3>2
    <3> QED BY <3>3 DEF FullTo
  <2> QED BY <1>3, <2>1, <2>2
<1>7. Looked(s, t)
  BY <1>2, <1>4, <1>5, <1>6, GetsAll
<1>8. Sound(t) /\ SamePages(s.k, t.k) /\ Kept(s.c, t.c) /\ Remarked(s.c, t.c)
  BY <1>4, <1>7, LookedDoes
<1>9. BecomesWith(p, t, wrote) /\ Grows(s.k, t.k)
  BY <1>3, <1>8, SameGrows DEF Becomes
<1>10. Inv' /\ Kept(vec[p], t.c)
  BY <1>1, <1>3, <1>8, <1>9, EnteredInv
<1>11. Pays(State(p), t)
  <2>1. Pays(s, t)
    BY <1>8, RemarkedPays
  <2> QED BY <1>1, <1>3, <2>1, EnteredPays
<1>12. Debts => Debts'
  BY <1>3, <1>8, <1>10, <1>11, StepsDebts
<1>13. SamePages(file, file') /\ Exists(r)
  BY <1>3, <1>4, <1>8, <1>9 DEF BecomesWith, CanEnter
<1>14. PageFound(r, b, mdread(t, e, b))
  BY <1>1, <1>2, <1>3, <1>4, <1>7, <1>13, ReadFinds
<1>15. Found(<<"read", r, b>>, mdread(t, e, b), r)
  BY <1>14 DEF Found
<1>16. Quiet(call', out', file')
  BY <1>3, <1>13, <1>15, FoundTells
<1> QED BY <1>10, <1>12, <1>16 DEF Carries, Pledge

\* mdextend up to its seek changes no page.
LEMMA CountsAhead ==
  ASSUME Inv, NEW p \in Proc, NEW r \in Rel, ExtendCount(p, r)
  PROVE  /\ Carries /\ SamePages(file, file') /\ fdOf' = fdOf /\ Exists(r)
         /\ \A q \in Proc : q # p => vec'[q] = vec[q]
         /\ ext' = [ext EXCEPT ![p] = [rel |-> r, n |-> NBlocks(r), pos |-> -1]]
         /\ fdOf[p][r] # 0
         /\ SegOf(NBlocks(r)) + 1 <= Len(vec'[p][fdOf[p][r]].segs)
         /\ NBlocks(r) \in Block
<1>1. PICK s, e, n : s = State(p) /\ e = fdOf[p][r] /\ n = NBlocks(r)
  OBVIOUS
<1>2. PICK v, g : v = mdnblocks(s, e) /\ g = mdfd_getseg(v.s, e, v.n)
  OBVIOUS
<1>3. /\ IsOpen(p, r) /\ n < MaxBlocks /\ Hidden /\ Becomes(p, g) /\ fdOf' = fdOf
      /\ ext' = [ext EXCEPT ![p] = [rel |-> r, n |-> v.n, pos |-> -1]]
  BY <1>1, <1>2 DEF ExtendCount
<1>4. Sound(s) /\ In(s, e, 0) /\ s.c[e].rel = r /\ s.k = file
  BY <1>1, <1>3, StateSound, OpenIn
<1>5. Counts(s.k, r, n)
  BY <1>1, <1>4, NBlocksIs DEF Inv
<1>6. Looked(s, g) /\ v.n = n /\ In(g, e, SegOf(n)) /\ n \in Nat
  BY <1>2, <1>4, <1>5, ExtendFinds
<1>7. Pledge /\ SamePages(file, file')
  BY <1>1, <1>3, <1>6, LooksKeep
<1>8. Carries
  BY <1>3, <1>7, HiddenTells DEF Carries
<1>9. vec' = [vec EXCEPT ![p] = g.c] /\ DOMAIN vec = Proc
  BY <1>3 DEF Becomes, BecomesWith, Inv
<1>10. vec'[p] = g.c /\ \A q \in Proc : q # p => vec'[q] = vec[q]
  BY <1>9
<1>11. SegOf(n) + 1 <= Len(vec'[p][e].segs)
  BY <1>6, <1>10 DEF In
<1>12. n \in Block
  BY <1>3, <1>6, SizeFacts DEF Block
<1>13. e # 0 /\ Exists(r)
  BY <1>1, <1>3, OpenExists DEF IsOpen
<1> QED BY <1>1, <1>3, <1>6, <1>7, <1>8, <1>10, <1>11, <1>12, <1>13

\* Where an extension under way stands.
LEMMA AmidIn ==
  ASSUME Inv, Midway, NEW p \in Proc, ~ Idle(p), NEW x, x = ext[p],
         NEW r, r = x.rel, NEW e, e = fdOf[p][r]
  PROVE  /\ x = [rel |-> x.rel, n |-> x.n, pos |-> x.pos]
         /\ r \in Rel /\ x.n \in Block /\ x.pos \in -1 .. RelsegSize - 1
         /\ IsOpen(p, r) /\ Exists(r) /\ Counts(file, r, x.n)
         /\ x.pos = -1 \/ x.pos = PosOf(x.n)
         /\ In(State(p), e, SegOf(x.n)) /\ State(p).c[e].rel = r
         /\ file[r][SegOf(x.n)] # Absent
         /\ SegLen(file, r, SegOf(x.n)) = PosOf(x.n) /\ PosOf(x.n) \in Nat
         /\ PosOf(x.n) < RelsegSize
<1>1. Amid(file, vec[p], fdOf[p], x)
  <2>1. ext[p] # NoExt
    BY DEF Idle, NoExt
  <2> QED BY <2>1 DEF Midway
<1>2. x \in [rel : Rel, n : Block, pos : -1 .. RelsegSize - 1]
  BY <1>1 DEF Amid
<1>3. /\ x = [rel |-> x.rel, n |-> x.n, pos |-> x.pos]
      /\ r \in Rel /\ x.n \in Block /\ x.pos \in -1 .. RelsegSize - 1
  BY <1>2
<1>4. /\ IsOpen(p, r) /\ Counts(file, r, x.n) /\ (x.pos = -1 \/ x.pos = PosOf(x.n))
      /\ SegOf(x.n) + 1 <= Len(vec[p][e].segs)
  BY <1>1 DEF Amid, IsOpen
<1>5. /\ Sound(State(p)) /\ In(State(p), e, 0) /\ State(p).c[e].rel = r
      /\ State(p).c = vec[p] /\ State(p).k = file
  BY <1>3, <1>4, StateSound, OpenIn
<1>6. SegOf(x.n) \in Nat
  BY <1>3, BlockSeg, SegFacts
<1>7. In(State(p), e, SegOf(x.n))
  BY <1>4, <1>5, <1>6 DEF In
<1>8. file[r][SegOf(x.n)] # Absent
  BY <1>5, <1>7, InFacts
<1>9. /\ SegLen(file, r, SegOf(x.n)) = PosOf(x.n) /\ PosOf(x.n) \in Nat
      /\ PosOf(x.n) < RelsegSize
  BY <1>3, <1>4, <1>8, EndsHere DEF Inv
<1>10. Exists(r)
  BY <1>3, <1>4, OpenExists
<1> QED BY <1>3, <1>4, <1>5, <1>7, <1>8, <1>9, <1>10

LEMMA SeekKeeps ==
  ASSUME Inv, NEW p \in Proc, ExtendSeek(p)
  PROVE  Carries
<1>1. file' = file /\ vec' = vec /\ fdOf' = fdOf /\ wrote' = wrote /\ Hidden
  BY DEF ExtendSeek
<1>2. Pledge
  BY <1>1 DEF Pledge, Inv, Debts
<1>3. SamePages(file, file')
  BY <1>1, GrowsSame
<1> QED BY <1>1, <1>2, <1>3, HiddenTells DEF Carries

LEMMA SeekFailsKeeps ==
  ASSUME Inv, Midway, NEW p \in Proc, SeekFails(p)
  PROVE  Carries
<1>1. /\ file' = file /\ vec' = vec /\ fdOf' = fdOf /\ wrote' = wrote
      /\ Answers(<<"extend", ext[p].rel>>, Fail) /\ ~ Idle(p)
  BY DEF SeekFails
<1>2. Pledge
  BY <1>1 DEF Pledge, Inv, Debts
<1>3. SamePages(file, file')
  BY <1>1, GrowsSame
<1>4. PICK r : r = ext[p].rel
  OBVIOUS
<1>5. r \in Rel
  BY <1>1, <1>4, AmidIn
<1>6. Failed(<<"extend", r>>, Fail, r)
  BY DEF Failed
<1>7. Quiet(call', out', file')
  BY <1>1, <1>3, <1>4, <1>5, <1>6, FailedTells
<1> QED BY <1>2, <1>7 DEF Carries

\* The write itself.
LEMMA ExtendWriteKeeps ==
  ASSUME Inv, Midway, NEW p \in Proc, NEW full \in Taken("extend"),
         ExtendWrite(p, full), NEW r, r = ext[p].rel
  PROVE  /\ Moves /\ fdOf' = fdOf /\ r \in Rel
         /\ \A q \in Proc : q # p => vec'[q] = vec[q]
         /\ \A z \in Rel : z # r => SameFor(file, file', z)
<1>0. full \in BOOLEAN
  BY TakenIs
<1>1. PICK s, e, x : s = State(p) /\ x = ext[p] /\ e = fdOf[p][r]
  OBVIOUS
<1>11. PICK n : n = x.n
  OBVIOUS
<1>2. PICK t : t = mdextend(s, e, n, x.pos, full)
  OBVIOUS
<1>3. PICK W : W = IF full THEN WroteBy(p, r, n) ELSE wrote
  OBVIOUS
<1>4. /\ x.pos # -1 /\ BecomesWith(p, t, W) /\ fdOf' = fdOf
      /\ Answers(<<"extend", r>>, Result(full))
  BY <1>1, <1>11, <1>2, <1>3 DEF ExtendWrite
<1>41. ~ Idle(p)
  <2>1. x = NoExt => x.pos = -1
    BY DEF NoExt
  <2>2. Amid(file, vec[p], fdOf[p], x)
    BY <1>1, <1>4, <2>1 DEF Midway
  <2>3. x.rel \in Rel
    BY <2>2 DEF Amid
  <2> QED BY <1>1, <2>3, MdAssumption DEF Idle
<1>5. /\ r \in Rel /\ n \in Block /\ Exists(r) /\ Counts(file, r, n)
      /\ x.pos = PosOf(n) /\ In(s, e, SegOf(n)) /\ s.c[e].rel = r
      /\ file[r][SegOf(n)] # Absent
  BY <1>1, <1>11, <1>4, <1>41, AmidIn
<1>6. Sound(s) /\ s.k = file /\ s.c = vec[p] /\ n < MaxBlocks
  BY <1>1, <1>5, StateSound, SizeFacts DEF Block
<1>61. PICK i : i = x.pos
  OBVIOUS
<1>62. i = PosOf(n) /\ t = mdextend(s, e, n, i, full) /\ Counts(s.k, r, n)
  BY <1>2, <1>5, <1>6, <1>61
<1>7. Sound(t) /\ Grows(s.k, t.k) /\ Kept(s.c, t.c) /\ Remarked(s.c, t.c)
  BY <1>0, <1>5, <1>6, <1>62, ExtendDoes
<1>8. full => /\ e \in 1 .. Len(t.c) /\ Marked(t.c, e, r, SegOf(n))
              /\ Rewritten(s.k, t.k, r, SegOf(n), Append(s.k[r][SegOf(n)].data, Zero))
  BY <1>0, <1>5, <1>6, <1>62, ExtendDoes
<1>9. ~ full => SamePages(s.k, t.k)
  BY <1>0, <1>5, <1>6, <1>62, ExtendDoes
<1>10. Inv'
  BY <1>4, <1>6, <1>7, StepsInv
<1>110. Pays(State(p), t)
  <2>1. Pays(s, t)
    BY <1>7, RemarkedPays
  <2> QED BY <1>1, <2>1
<1>12. ASSUME Debts PROVE Debts'
  <2>1. CASE full
    <3>1. BecomesWith(p, t, WroteBy(p, r, n))
      BY <1>3, <1>4, <2>1
    <3>2. Backed(t, <<r, n>>)
      BY <1>5, <1>8, <2>1, BackedBlock
    <3> QED BY <1>6, <1>7, <1>110, <1>12, <3>1, <3>2, WritesDebts
  <2>2. CASE ~ full
    <3>1. Becomes(p, t)
      BY <1>3, <1>4, <2>2 DEF Becomes
    <3> QED BY <1>6, <1>7, <1>110, <1>12, <3>1, StepsDebts
  <2> QED BY <2>1, <2>2
<1>13. file' = t.k /\ vec' = [vec EXCEPT ![p] = t.c] /\ DOMAIN vec = Proc
  BY <1>4 DEF BecomesWith, Inv
<1>14. \A q \in Proc : q # p => vec'[q] = vec[q]
  BY <1>13
<1>15. /\ Quiet(call', out', file') \/ Grown(call', out', file')
       /\ \A z \in Rel : z # r => SameFor(file, file', z)
  <2>1. CASE full
    <3>1. Lengthens(file', r, n)
      BY <1>5, <1>6, <1>8, <1>13, <2>1 DEF Lengthens
    <3>2. Grown(call', out', file')
      BY <1>4, <1>5, <2>1, <3>1 DEF Grown, Answers, Result
    <3>3. \A z \in Rel : z # r => SameFor(file, file', z)
      BY <3>1, OthersSame DEF Lengthens
    <3> QED BY <3>2, <3>3
  <2>2. CASE ~ full
    <3>1. SamePages(file, file')
      BY <1>6, <1>9, <1>13, <2>2
    <3>2. Answers(<<"extend", r>>, Fail)
      BY <1>4, <2>2 DEF Result
    <3>3. Failed(<<"extend", r>>, Fail, r)
      BY DEF Failed
    <3>4. Quiet(call', out', file')
      BY <1>5, <3>1, <3>2, <3>3, FailedTells
    <3>5. \A z \in Rel : SameFor(file, file', z)
      BY <3>1 DEF SamePages, SameFor
    <3> QED BY <3>4, <3>5
  <2> QED BY <2>1, <2>2
<1> QED BY <1>10, <1>12, <1>4, <1>5, <1>14, <1>15 DEF Moves, Pledge

LEMMA BlindKeeps ==
  ASSUME Inv, NEW p \in Proc, NEW r \in Rel, NEW b \in Block, NEW x \in Page,
         BlindWrite(p, r, b, x)
  PROVE  Carries
<1>1. PICK m : m = mdblindwrt(file, r, b, x)
  OBVIOUS
<1>2. PICK t : t = [k |-> m, c |-> vec[p]]
  OBVIOUS
<1>3. /\ Exists(r) /\ b < NBlocks(r) /\ fdOf' = fdOf
      /\ BecomesWith(p, t, WroteBy(p, r, b)) /\ Answers(<<"write", r, b, x>>, Ok)
  BY <1>1, <1>2 DEF BlindWrite
<1>4. b \in Nat /\ SegOf(b) \in Seg
  BY BlockSeg
<1>5. Files(file) /\ Vector(file, vec[p]) /\ Counts(file, r, NBlocks(r))
  BY NBlocksIs DEF Inv
<1>6. file[r][SegOf(b)] # Absent /\ PosOf(b) < SegLen(file, r, SegOf(b))
  BY <1>3, <1>4, <1>5, BlockIn
<1>7. /\ Files(m) /\ Grows(file, m) /\ Forced(m, r, SegOf(b))
      /\ Rewritten(file, m, r, SegOf(b), Put(file[r][SegOf(b)].data, PosOf(b), x))
  BY <1>1, <1>4, <1>5, <1>6, BlindDoes
<1>8. t.k = m /\ t.c = vec[p] /\ IsState(t)
  BY <1>2 DEF IsState
<1>9. Sound(t) /\ Grows(file, t.k)
  BY <1>5, <1>7, <1>8, VectorGrows DEF Sound
<1>10. Kept(vec[p], t.c) /\ Pays(State(p), t)
  <2>1. Len(vec[p]) \in Nat /\ State(p).c = vec[p]
    BY StateSound
  <2> QED BY <1>8, <2>1 DEF Kept, Pays, Due
<1>11. Inv'
  BY <1>3, <1>9, <1>10, StepsInv
<1>12. Backed(t, <<r, b>>)
  BY <1>7, <1>8, BackedBlock
<1>13. Debts => Debts'
  BY <1>3, <1>9, <1>10, <1>12, WritesDebts
<1>14. Overwrites(file', r, b, x)
  BY <1>3, <1>7, <1>8 DEF Overwrites, BecomesWith
<1>15. Quiet(call', out', file')
  BY <1>3, <1>14 DEF Quiet, Answers
<1> QED BY <1>11, <1>13, <1>15 DEF Carries, Pledge

LEMMA EnteredTarget ==
  ASSUME Inv, NEW p \in Proc, NEW r \in Rel, NEW b \in Block, CanEnter(p, r),
         b < NBlocks(r), NEW s, s = Entered(p, r), NEW e, e = EntryOf(p, r)
  PROVE  Target(s, e, r, b) /\ s.k = file
<1>1. /\ Sound(s) /\ In(s, e, 0) /\ s.c[e].rel = r /\ s.k = file
  BY EnteredFacts
<1>2. b \in Nat
  BY BlockSeg
<1>3. Files(file) /\ Counts(file, r, NBlocks(r))
  BY NBlocksIs DEF Inv
<1>4. /\ SegOf(b) \in Seg /\ file[r][SegOf(b)] # Absent
      /\ PosOf(b) < SegLen(file, r, SegOf(b)) /\ FullTo(file, r, SegOf(b))
  BY <1>2, <1>3, BlockIn
<1> QED BY <1>1, <1>2, <1>4 DEF Target

\* What a call that writes block b leaves, seen from outside.
LEMMA WrittenShows ==
  ASSUME Inv, NEW r \in Rel, NEW b \in Block, NEW x \in Page, Exists(r),
         b < NBlocks(r), NEW full \in BOOLEAN,
         Answers(<<"write", r, b, x>>, Result(full)),
         full => Rewritten(file, file', r, SegOf(b),
                           Put(file[r][SegOf(b)].data, PosOf(b), x)),
         ~ full => SamePages(file, file')
  PROVE  Quiet(call', out', file')
<1>1. CASE full
  <2>1. Overwrites(file', r, b, x)
    BY <1>1 DEF Overwrites
  <2>2. Answers(<<"write", r, b, x>>, Ok)
    BY <1>1 DEF Result
  <2> QED BY <2>1, <2>2 DEF Quiet, Answers
<1>2. CASE ~ full
  <2>1. SamePages(file, file') /\ Answers(<<"write", r, b, x>>, Fail)
    BY <1>2 DEF Result
  <2>2. Failed(<<"write", r, b, x>>, Fail, r)
    BY DEF Failed
  <2> QED BY <2>1, <2>2, FailedTells
<1> QED BY <1>1, <1>2

LEMMA WriteKeeps ==
  ASSUME Inv, NEW p \in Proc, NEW r \in Rel, NEW b \in Block, NEW x \in Page,
         NEW full \in Taken("write"), Write(p, r, b, x, full)
  PROVE  Carries
<1>0. full \in BOOLEAN
  BY TakenIs
<1>1. PICK s, e : s = Entered(p, r) /\ e = EntryOf(p, r)
  OBVIOUS
<1>2. PICK t : t = mdwrite(s, e, b, x, full)
  OBVIOUS
<1>3. PICK W : W = IF full THEN WroteBy(p, r, b) ELSE wrote
  OBVIOUS
<1>4. /\ CanEnter(p, r) /\ b < NBlocks(r) /\ BecomesWith(p, t, W) /\ Enter(p, r)
      /\ Answers(<<"write", r, b, x>>, Result(full))
  BY <1>1, <1>2, <1>3 DEF Write, Written
<1>5. Target(s, e, r, b) /\ s.k = file
  BY <1>1, <1>4, EnteredTarget
<1>6. /\ Sound(t) /\ Grows(s.k, t.k) /\ Kept(s.c, t.c) /\ Remarked(s.c, t.c)
      /\ e \in 1 .. Len(t.c) /\ Marked(t.c, e, r, SegOf(b))
  BY <1>0, <1>2, <1>5, WriteDoes
<1>7. full => Rewritten(s.k, t.k, r, SegOf(b), Put(s.k[r][SegOf(b)].data, PosOf(b), x))
  BY <1>0, <1>2, <1>5, WriteDoes
<1>8. ~ full => SamePages(s.k, t.k)
  BY <1>0, <1>2, <1>5, WriteDoes
<1>9. Inv' /\ Kept(vec[p], t.c)
  BY <1>1, <1>4, <1>6, EnteredInv
<1>10. Pays(State(p), t)
  <2>1. Pays(s, t)
    BY <1>6, RemarkedPays
  <2> QED BY <1>1, <1>4, <2>1, EnteredPays
<1>11. ASSUME Debts PROVE Debts'
  <2>1. CASE full
    <3>1. BecomesWith(p, t, WroteBy(p, r, b))
      BY <1>3, <1>4, <2>1
    <3>2. Backed(t, <<r, b>>)
      BY <1>6, BackedBlock
    <3> QED BY <1>6, <1>9, <1>10, <1>11, <3>1, <3>2, WritesDebts
  <2>2. CASE ~ full
    <3>1. Becomes(p, t)
      BY <1>3, <1>4, <2>2 DEF Becomes
    <3> QED BY <1>6, <1>9, <1>10, <1>11, <3>1, StepsDebts
  <2> QED BY <2>1, <2>2
<1>13. Quiet(call', out', file')
  <2>0. file' = t.k
    BY <1>4 DEF BecomesWith
  <2>1. Exists(r)
    BY <1>4 DEF CanEnter
  <2>2. full => Rewritten(file, file', r, SegOf(b),
                          Put(file[r][SegOf(b)].data, PosOf(b), x))
    BY <1>5, <1>7, <2>0
  <2>3. ~ full => SamePages(file, file')
    BY <1>5, <1>8, <2>0
  <2> QED BY <1>0, <1>4, <2>1, <2>2, <2>3, WrittenShows
<1> QED BY <1>9, <1>11, <1>13 DEF Carries, Pledge

LEMMA FlushKeeps ==
  ASSUME Inv, NEW p \in Proc, NEW r \in Rel, NEW b \in Block, NEW x \in Page,
         NEW full \in Taken("flush"), Flush(p, r, b, x, full)
  PROVE  Carries
<1>0. full \in BOOLEAN /\ (~ FlushFails => full = TRUE)
  BY TakenIs DEF FlushFails
<1>1. PICK s, e : s = Entered(p, r) /\ e = EntryOf(p, r)
  OBVIOUS
<1>2. PICK t : t = mdflush(s, e, b, x, full)
  OBVIOUS
<1>3. PICK W : W = IF full THEN WroteBy(p, r, b) ELSE wrote
  OBVIOUS
<1>4. /\ CanEnter(p, r) /\ b < NBlocks(r) /\ BecomesWith(p, t, W) /\ Enter(p, r)
      /\ Answers(<<"write", r, b, x>>, Result(full))
  BY <1>1, <1>2, <1>3 DEF Flush, Written
<1>5. Target(s, e, r, b) /\ s.k = file
  BY <1>1, <1>4, EnteredTarget
<1>6. Sound(t) /\ Grows(s.k, t.k) /\ Kept(s.c, t.c)
  BY <1>0, <1>2, <1>5, FlushDoes
<1>7. full => /\ Pays(s, t) /\ Forced(t.k, r, SegOf(b))
              /\ Rewritten(s.k, t.k, r, SegOf(b), Put(s.k[r][SegOf(b)].data, PosOf(b), x))
  BY <1>0, <1>2, <1>5, FlushDoes
<1>8. ~ full => SamePages(s.k, t.k)
  BY <1>0, <1>2, <1>5, FlushDoes
<1>9. Inv' /\ Kept(vec[p], t.c)
  BY <1>1, <1>4, <1>6, EnteredInv
<1>10. ASSUME ~ FlushFails, Debts PROVE Debts'
  <2>0. full
    BY <1>0, <1>10
  <2>1. Pays(State(p), t)
    <3>1. Pays(s, t)
      BY <1>7, <2>0
    <3> QED BY <1>1, <1>4, <3>1, EnteredPays
  <2>2. BecomesWith(p, t, WroteBy(p, r, b))
    BY <1>3, <1>4, <2>0
  <2>3. Backed(t, <<r, b>>)
    BY <1>7, <2>0, BackedBlock
  <2> QED BY <1>6, <1>9, <1>10, <2>1, <2>2, <2>3, WritesDebts
<1>13. Quiet(call', out', file')
  <2>0. file' = t.k
    BY <1>4 DEF BecomesWith
  <2>1. Exists(r)
    BY <1>4 DEF CanEnter
  <2>2. full => Rewritten(file, file', r, SegOf(b),
                          Put(file[r][SegOf(b)].data, PosOf(b), x))
    BY <1>5, <1>7, <2>0
  <2>3. ~ full => SamePages(file, file')
    BY <1>5, <1>8, <2>0
  <2> QED BY <1>0, <1>4, <2>1, <2>2, <2>3, WrittenShows
<1> QED BY <1>9, <1>10, <1>13 DEF Carries, Pledge


LEMMA CallKeeps ==
  ASSUME Inv, NEW p \in Proc, Call(p)
  PROVE  Carries
<1>1. \/ Commit(p) \/ Abort(p)
      \/ \E r \in Rel :
           \/ Create(p, r) \/ CreateFails(p, r)
           \/ Open(p, r) \/ Close(p, r) \/ Unlink(p, r)
           \/ Count(p, r)
           \/ \E n \in 0 .. MaxBlocks : Truncate(p, r, n)
           \/ \E b \in Block : Read(p, r, b)
           \/ \E b \in Block, x \in Page :
                \/ BlindWrite(p, r, b, x)
                \/ \E full \in Taken("write") : Write(p, r, b, x, full)
                \/ \E full \in Taken("flush") : Flush(p, r, b, x, full)
  BY DEF Call
<1>2. CASE Commit(p) \/ Abort(p)
  BY <1>2, CommitKeeps, AbortKeeps
<1>4. ASSUME NEW r \in Rel,
             \/ Create(p, r) \/ CreateFails(p, r) \/ Open(p, r) \/ Close(p, r)
             \/ Unlink(p, r) \/ Count(p, r)
      PROVE  Carries
  BY <1>4, CreateKeeps, CreateFailsKeeps, OpenKeeps, CloseKeeps, UnlinkKeeps, CountKeeps
<1>5. ASSUME NEW r \in Rel, NEW n \in 0 .. MaxBlocks, Truncate(p, r, n)
      PROVE  Carries
  BY <1>5, TruncateKeeps
<1>6. ASSUME NEW r \in Rel, NEW b \in Block, Read(p, r, b)
      PROVE  Carries
  BY <1>6, ReadKeeps
<1>8. ASSUME NEW r \in Rel, NEW b \in Block, NEW x \in Page, BlindWrite(p, r, b, x)
      PROVE  Carries
  BY <1>8, BlindKeeps
<1>9. ASSUME NEW r \in Rel, NEW b \in Block, NEW x \in Page,
             NEW full \in Taken("write"), Write(p, r, b, x, full)
      PROVE  Carries
  BY <1>9, WriteKeeps
<1>10. ASSUME NEW r \in Rel, NEW b \in Block, NEW x \in Page,
              NEW full \in Taken("flush"), Flush(p, r, b, x, full)
       PROVE  Carries
  BY <1>10, FlushKeeps
<1> QED BY <1>1, <1>2, <1>4, <1>5, <1>6, <1>8, <1>9, <1>10

\* The five kinds of steps.
Steps(p) ==
  \/ Call(p)
  \/ \E r \in Rel : ExtendCount(p, r)
  \/ ExtendSeek(p) \/ SeekFails(p)
  \/ \E full \in Taken("extend") : ExtendWrite(p, full)
  \/ \E e \in DOMAIN vec[p] :
       \E j \in 0 .. Len(vec[p][e].segs) - 1 : Evict(p, e, j)

LEMMA NextSteps ==
  ASSUME Next
  PROVE  \E p \in Proc : Steps(p)
BY DEF Next, Steps

LEMMA NextKeeps ==
  ASSUME Inv, Midway, Next
  PROVE  Moves
<1>0. Carries => Moves
  BY DEF Carries, Moves
<1>1. PICK p \in Proc : Steps(p)
  BY NextSteps
<1>2. Call(p) => Carries
  BY CallKeeps
<1>3. ASSUME NEW r \in Rel, ExtendCount(p, r) PROVE Carries
  BY <1>3, CountsAhead
<1>4. ExtendSeek(p) \/ SeekFails(p) => Carries
  BY SeekKeeps, SeekFailsKeeps
<1>5. ASSUME NEW full \in Taken("extend"), ExtendWrite(p, full) PROVE Moves
  <2>1. PICK r : r = ext[p].rel
    OBVIOUS
  <2> QED BY <1>5, <2>1, ExtendWriteKeeps
<1>6. ASSUME NEW e \in DOMAIN vec[p], NEW j \in 0 .. Len(vec[p][e].segs) - 1,
             Evict(p, e, j)
      PROVE  Carries
  BY <1>6, EvictKeeps
<1> QED BY <1>0, <1>1, <1>2, <1>3, <1>4, <1>5, <1>6 DEF Steps

-----------------------------------------------------------------------------
(* Extensions under way.                                                   *)

\* A step other than one that extends leaves the number of blocks of a
\* relation that is being extended.
LEMMA QuietCounts ==
  ASSUME Inv, NEW c, NEW o, NEW m, Files(m), Quiet(c, o, m), NEW x \in Rel, Exists(x),
         Extending(x), NEW n, Counts(file, x, n)
  PROVE  Counts(m, x, n)
<1>0. Files(file)
  BY DEF Inv
<1>1. SamePages(file, m) => Counts(m, x, n)
  BY CountsSame
<1>2. SameFor(file, m, x) => Counts(m, x, n)
  BY SameForLens, CountsLike
<1>3. ASSUME NEW r \in Rel, NEW b \in Block, NEW y \in Page, Overwrites(m, r, b, y)
      PROVE  Counts(m, x, n)
  <2>1. /\ b < NBlocks(r) /\ b \in Nat /\ Counts(file, r, NBlocks(r))
        /\ Rewritten(file, m, r, SegOf(b), Put(file[r][SegOf(b)].data, PosOf(b), y))
    BY <1>0, <1>3, BlockSeg, NBlocksIs DEF Overwrites
  <2>2. CASE x = r
    <3>1. PICK l : l = NBlocks(r)
      OBVIOUS
    <3>2. Counts(m, r, l)
      BY <1>0, <2>1, <3>1, Overwritten
    <3>3. l = n
      BY <2>1, <2>2, <3>1, CountsOnce
    <3> QED BY <2>2, <3>2, <3>3
  <2>3. CASE x # r
    BY <1>2, <2>1, <2>3, OthersSame
  <2> QED BY <2>2, <2>3
<1>4. ASSUME NEW r \in Rel, NEW i \in 0 .. MaxBlocks, Cuts(m, r, i), ~ Extending(r)
      PROVE  Counts(m, x, n)
  <2>1. x # r
    BY <1>4
  <2> QED BY <1>2, <1>4, <2>1, OthersSame DEF Cuts
<1>5. ASSUME NEW r \in Rel, Starts(m, r)
      PROVE  Counts(m, x, n)
  <2>1. x # r
    BY <1>5 DEF Starts, Exists
  <2>2. \A j \in Seg : m[x][j] = file[x][j]
    BY <1>5, <2>1 DEF Starts, FilePut
  <2> QED BY <1>2, <2>2 DEF SameFor
<1>6. ASSUME NEW r \in Rel, Removes(m, r), ~ Extending(r)
      PROVE  Counts(m, x, n)
  <2>1. m[x] = file[x]
    BY <1>6 DEF Removes
  <2> QED BY <1>2, <2>1 DEF SameFor
<1> QED BY <1>1, <1>3, <1>4, <1>5, <1>6 DEF Quiet

\* The step leaves the extension of q as it is.
Spared(q) ==
  /\ ext'[q] = ext[q]
  /\ fdOf'[q][ext[q].rel] = fdOf[q][ext[q].rel]
  /\ Len(vec'[q][fdOf[q][ext[q].rel]].segs) = Len(vec[q][fdOf[q][ext[q].rel]].segs)
  /\ Counts(file', ext[q].rel, ext[q].n)

LEMMA SparedAmid ==
  ASSUME NEW q, Amid(file, vec[q], fdOf[q], ext[q]), Spared(q)
  PROVE  Amid(file', vec'[q], fdOf'[q], ext'[q])
<1>1. PICK x, e, f, h, c, d : /\ x = ext[q] /\ e = fdOf[q][x.rel] /\ f = fdOf[q]
                              /\ h = fdOf'[q] /\ c = vec[q] /\ d = vec'[q]
  OBVIOUS
<1>2. /\ x \in [rel : Rel, n : Block, pos : -1 .. RelsegSize - 1]
      /\ f[x.rel] # 0 /\ SegOf(x.n) + 1 <= Len(c[f[x.rel]].segs)
      /\ (x.pos = -1 \/ x.pos = PosOf(x.n))
  BY <1>1 DEF Amid
<1>3. /\ h[x.rel] = f[x.rel] /\ Len(d[f[x.rel]].segs) = Len(c[f[x.rel]].segs)
      /\ Counts(file', x.rel, x.n) /\ ext'[q] = x
  BY <1>1 DEF Spared
<1>4. SegOf(x.n) + 1 <= Len(d[h[x.rel]].segs) /\ h[x.rel] # 0
  BY <1>2, <1>3
<1>5. Amid(file', d, h, x)
  BY <1>2, <1>3, <1>4 DEF Amid
<1> QED BY <1>1, <1>3, <1>5

LEMMA NotIdle ==
  ASSUME Midway, NEW q \in Proc
  PROVE  /\ Idle(q) => ext[q] = NoExt
         /\ ~ Idle(q) => Amid(file, vec[q], fdOf[q], ext[q])
<1>1. Amid(file, vec[q], fdOf[q], ext[q]) => ext[q].rel \in Rel
  BY DEF Amid
<1>2. NoExt.rel = Absent
  BY DEF NoExt
<1> QED BY <1>1, <1>2, MdAssumption DEF Midway, Idle

\* From what happens to the extensions of p and of the others.
LEMMA MidwayBy ==
  ASSUME Inv, Midway, NEW p \in Proc, DOMAIN ext' = Proc, Apart(ext'),
         \A q \in Proc : q # p => ext'[q] = ext[q],
         \A q \in Proc : q # p /\ ~ Idle(q) => Spared(q),
         ext'[p] = NoExt \/ Amid(file', vec'[p], fdOf'[p], ext'[p])
  PROVE  Midway'
<1>1. ASSUME NEW q \in Proc
      PROVE  ext'[q] = NoExt \/ Amid(file', vec'[q], fdOf'[q], ext'[q])
  <2>1. CASE q = p
    BY <2>1
  <2>2. CASE q # p /\ Idle(q)
    BY <2>2, NotIdle
  <2>3. CASE q # p /\ ~ Idle(q)
    <3>1. Amid(file, vec[q], fdOf[q], ext[q]) /\ Spared(q)
      BY <2>3, NotIdle
    <3> QED BY <3>1, SparedAmid
  <2> QED BY <2>1, <2>2, <2>3
<1> QED BY <1>1 DEF Midway

\* A step of p leaves what the other processes have.
Framed(p) == \A q \in Proc : q # p => vec'[q] = vec[q] /\ fdOf'[q] = fdOf[q]

LEMMA FramedBy ==
  ASSUME Inv, NEW p \in Proc, NEW t, NEW W, BecomesWith(p, t, W),
         fdOf' = fdOf \/ \E r, e : fdOf' = [fdOf EXCEPT ![p][r] = e]
  PROVE  Framed(p)
<1>1. DOMAIN vec = Proc /\ DOMAIN fdOf = Proc /\ vec' = [vec EXCEPT ![p] = t.c]
  BY DEF Inv, BecomesWith
<1>2. \A q \in Proc : q # p => vec'[q] = vec[q]
  BY <1>1
<1>3. \A q \in Proc : q # p => fdOf'[q] = fdOf[q]
  <2>1. CASE fdOf' = fdOf
    BY <2>1
  <2>2. ASSUME NEW r, NEW e, fdOf' = [fdOf EXCEPT ![p][r] = e]
        PROVE  \A q \in Proc : q # p => fdOf'[q] = fdOf[q]
    <3>1. PICK g : g = [fdOf[p] EXCEPT ![r] = e]
      OBVIOUS
    <3>2. fdOf' = [fdOf EXCEPT ![p] = g]
      BY <2>2, <3>1
    <3> QED BY <1>1, <3>2
  <2> QED BY <2>1, <2>2
<1> QED BY <1>2, <1>3 DEF Framed

LEMMA CallFrames ==
  ASSUME Inv, NEW p \in Proc, Call(p)
  PROVE  Framed(p) \/ \E r \in Rel : Unlink(p, r)
<1>1. ASSUME NEW s, Ends(p, s) PROVE Framed(p)
  <2>1. BecomesWith(p, s, [wrote EXCEPT ![p] = {}]) /\ fdOf' = fdOf
    BY <1>1 DEF Ends
  <2> QED BY <2>1, FramedBy
<1>2. Commit(p) \/ Abort(p) => Framed(p)
  BY <1>1 DEF Commit, Abort
<1>3. ASSUME NEW r \in Rel, CreateFails(p, r) PROVE Framed(p)
  BY <1>3 DEF CreateFails, Framed
<1>4. ASSUME NEW r, NEW s, NEW e, Becomes(p, s), fdOf' = [fdOf EXCEPT ![p][r] = e]
      PROVE  Framed(p)
  BY <1>4, FramedBy DEF Becomes
<1>5. ASSUME NEW r \in Rel, Create(p, r) \/ Open(p, r) \/ Close(p, r)
      PROVE  Framed(p)
  BY <1>4, <1>5 DEF Create, Open, Close
<1>6. ASSUME NEW s, Becomes(p, s), fdOf' = fdOf PROVE Framed(p)
  BY <1>6, FramedBy DEF Becomes
<1>7. ASSUME NEW r \in Rel, Count(p, r) PROVE Framed(p)
  BY <1>6, <1>7 DEF Count
<1>8. ASSUME NEW r \in Rel, NEW n \in 0 .. MaxBlocks, Truncate(p, r, n)
      PROVE  Framed(p)
  BY <1>6, <1>8 DEF Truncate
<1>9. ASSUME NEW r \in Rel, NEW b \in Block, Read(p, r, b) PROVE Framed(p)
  BY <1>4, <1>9 DEF Read, Enter
<1>10. ASSUME NEW r \in Rel, NEW b \in Block, NEW x \in Page, BlindWrite(p, r, b, x)
       PROVE  Framed(p)
  BY <1>10, FramedBy DEF BlindWrite
<1>11. ASSUME NEW r, NEW b, NEW x, NEW s, NEW full, Written(p, r, b, x, s, full)
       PROVE  Framed(p)
  <2>1. PICK W : W = IF full THEN WroteBy(p, r, b) ELSE wrote
    OBVIOUS
  <2>2. BecomesWith(p, s, W) /\ fdOf' = [fdOf EXCEPT ![p][r] = EntryOf(p, r)]
    BY <1>11, <2>1 DEF Written, Enter
  <2> QED BY <2>2, FramedBy
<1>12. ASSUME NEW r \in Rel, NEW b \in Block, NEW x \in Page, NEW full,
              Write(p, r, b, x, full) \/ Flush(p, r, b, x, full)
       PROVE  Framed(p)
  BY <1>11, <1>12 DEF Write, Flush
<1> QED BY <1>2, <1>3, <1>5, <1>7, <1>8, <1>9, <1>10, <1>12 DEF Call

LEMMA FramedSpares ==
  ASSUME Inv, Midway, NEW p \in Proc, Framed(p), NEW q \in Proc, q # p, ~ Idle(q),
         ext'[q] = ext[q], Counts(file', ext[q].rel, ext[q].n)
  PROVE  Spared(q)
BY DEF Framed, Spared

LEMMA UnlinkSpares ==
  ASSUME Inv, Midway, NEW p \in Proc, NEW r \in Rel, Unlink(p, r), NEW q \in Proc,
         ~ Idle(q), ext'[q] = ext[q], Counts(file', ext[q].rel, ext[q].n)
  PROVE  Spared(q)
<1>1. /\ vec' = [z \in Proc |-> Forgotten(vec[z], r)] /\ ~ Extending(r)
      /\ fdOf' = [z \in Proc |-> [fdOf[z] EXCEPT ![r] = 0]]
  BY DEF Unlink
<1>2. PICK x, e : x = ext[q].rel /\ e = fdOf[q][x]
  OBVIOUS
<1>3. x \in Rel /\ In(State(q), e, 0) /\ State(q).c[e].rel = x /\ State(q).c = vec[q]
  <2>1. x \in Rel /\ IsOpen(q, x)
    BY <1>2, AmidIn
  <2> QED BY <1>2, <2>1, OpenIn, StateSound
<1>4. x # r
  BY <1>1, <1>2 DEF Extending
<1>5. e \in 1 .. Len(vec[q]) /\ vec[q][e].rel = x
  BY <1>3 DEF In
<1>6. vec[q] \in Seq(Entry) /\ fdOf[q] \in [Rel -> 0 .. Len(vec[q])]
  BY DEF Inv, Vector, Indexed
<1>7. e \in DOMAIN vec[q]
  BY <1>5, <1>6
<1>8. vec'[q] = Forgotten(vec[q], r)
  BY <1>1
<1>9. vec'[q][e] = vec[q][e]
  BY <1>4, <1>5, <1>7, <1>8 DEF Forgotten
<1>10. fdOf'[q] = [fdOf[q] EXCEPT ![r] = 0]
  BY <1>1
<1>11. fdOf'[q][x] = e
  BY <1>2, <1>3, <1>4, <1>6, <1>10
<1> QED BY <1>2, <1>9, <1>11 DEF Spared

\* A call other than mdextend.
LEMMA CallMidway ==
  ASSUME Inv, Midway, NEW p \in Proc, Call(p)
  PROVE  Midway'
<1>1. Idle(p) /\ ext' = ext
  BY DEF Call
<1>2. Files(file') /\ Quiet(call', out', file')
  BY CallKeeps DEF Carries, Pledge, Inv
<1>3. ASSUME NEW q \in Proc, ~ Idle(q)
      PROVE  Counts(file', ext[q].rel, ext[q].n)
  <2>1. PICK x, n : x = ext[q].rel /\ n = ext[q].n
    OBVIOUS
  <2>2. x \in Rel /\ Exists(x) /\ Counts(file, x, n)
    BY <1>3, <2>1, AmidIn
  <2>3. Extending(x)
    BY <2>1 DEF Extending
  <2>4. Counts(file', x, n)
    BY <1>2, <2>2, <2>3, QuietCounts
  <2> QED BY <2>1, <2>4
<1>4. ASSUME NEW q \in Proc, q # p, ~ Idle(q) PROVE Spared(q)
  <2>1. ext'[q] = ext[q] /\ Counts(file', ext[q].rel, ext[q].n)
    BY <1>1, <1>3, <1>4
  <2> QED BY <1>4, <2>1, CallFrames, FramedSpares, UnlinkSpares
<1>5. ext'[p] = NoExt /\ DOMAIN ext' = Proc /\ Apart(ext')
  BY <1>1, NotIdle DEF Midway
<1>6. \A q \in Proc : q # p => ext'[q] = ext[q]
  BY <1>1
<1> QED BY <1>4, <1>5, <1>6, MidwayBy

LEMMA CountMidway ==
  ASSUME ExtendLock, Inv, Midway, NEW p \in Proc, NEW r \in Rel, ExtendCount(p, r)
  PROVE  Midway'
<1>1. PICK n, e : n = NBlocks(r) /\ e = fdOf[p][r]
  OBVIOUS
<1>2. PICK y : y = [rel |-> r, n |-> n, pos |-> -1]
  OBVIOUS
<1>3. /\ SamePages(file, file') /\ fdOf' = fdOf
      /\ \A q \in Proc : q # p => vec'[q] = vec[q]
      /\ ext' = [ext EXCEPT ![p] = y] /\ e # 0
      /\ SegOf(n) + 1 <= Len(vec'[p][e].segs) /\ n \in Block
  BY <1>1, <1>2, CountsAhead
<1>4. ~ Extending(r)
  BY DEF ExtendCount
<1>5. DOMAIN ext = Proc /\ Apart(ext)
  BY DEF Midway
<1>6. DOMAIN ext' = Proc /\ ext'[p] = y /\ \A q \in Proc : q # p => ext'[q] = ext[q]
  BY <1>3, <1>5
<1>7. Apart(ext')
  <2> SUFFICES ASSUME NEW a \in Proc, NEW b \in Proc, a # b, ext'[a].rel = ext'[b].rel
               PROVE  ext'[a].rel = Absent
    BY DEF Apart
  <2>1. y.rel = r
    BY <1>2
  <2>2. \A q \in Proc : ext[q].rel # r
    BY <1>4 DEF Extending
  <2>3. a # p /\ b # p
    BY <1>6, <2>1, <2>2
  <2> QED BY <1>5, <1>6, <2>3 DEF Apart
<1>8. ASSUME NEW q \in Proc, q # p, ~ Idle(q) PROVE Spared(q)
  <2>1. PICK x, z : x = ext[q].rel /\ z = ext[q].n
    OBVIOUS
  <2>2. x \in Rel /\ Counts(file, x, z)
    BY <1>8, <2>1, AmidIn
  <2>3. Counts(file', x, z)
    BY <1>3, <2>2, CountsSame
  <2>4. Framed(p)
    BY <1>3 DEF Framed
  <2> QED BY <1>6, <1>8, <2>1, <2>3, <2>4, FramedSpares
<1>9. Amid(file', vec'[p], fdOf'[p], y)
  <2>1. y.rel = r /\ y.n = n /\ y.pos = -1
    BY <1>2
  <2>2. -1 \in -1 .. RelsegSize - 1
    BY SizeFacts
  <2>3. y \in [rel : Rel, n : Block, pos : -1 .. RelsegSize - 1]
    BY <1>2, <1>3, <2>2
  <2>4. Counts(file, r, n)
    BY <1>1, NBlocksIs DEF Inv
  <2>5. Counts(file', r, n)
    BY <1>3, <2>4, CountsSame
  <2>6. fdOf'[p][r] = e
    BY <1>1, <1>3
  <2> QED BY <1>3, <2>1, <2>3, <2>5, <2>6 DEF Amid
<1> QED BY <1>6, <1>7, <1>8, <1>9, MidwayBy

\* An extension that ends, while the others go on.
LEMMA EndMidway ==
  ASSUME Inv, Midway, NEW p \in Proc, ext' = [ext EXCEPT ![p] = NoExt], Framed(p),
         \A q \in Proc : q # p /\ ~ Idle(q) => Counts(file', ext[q].rel, ext[q].n)
  PROVE  Midway'
<1>1. DOMAIN ext = Proc /\ Apart(ext)
  BY DEF Midway
<1>2. DOMAIN ext' = Proc /\ ext'[p] = NoExt
      /\ \A q \in Proc : q # p => ext'[q] = ext[q]
  BY <1>1
<1>3. Apart(ext')
  <2> SUFFICES ASSUME NEW a \in Proc, NEW b \in Proc, a # b, ext'[a].rel = ext'[b].rel
               PROVE  ext'[a].rel = Absent
    BY DEF Apart
  <2>1. NoExt.rel = Absent
    BY DEF NoExt
  <2>2. CASE a = p \/ b = p
    BY <1>2, <2>1, <2>2
  <2>3. CASE a # p /\ b # p
    BY <1>1, <1>2, <2>3 DEF Apart
  <2> QED BY <2>2, <2>3
<1>4. ASSUME NEW q \in Proc, q # p, ~ Idle(q) PROVE Spared(q)
  BY <1>2, <1>4, FramedSpares
<1> QED BY <1>2, <1>3, <1>4, MidwayBy

LEMMA SeekFailsMidway ==
  ASSUME Inv, Midway, NEW p \in Proc, SeekFails(p)
  PROVE  Midway'
<1>1. file' = file /\ vec' = vec /\ fdOf' = fdOf /\ ext' = [ext EXCEPT ![p] = NoExt]
  BY DEF SeekFails
<1>2. Framed(p)
  BY <1>1 DEF Framed
<1>3. ASSUME NEW q \in Proc, q # p, ~ Idle(q)
      PROVE  Counts(file', ext[q].rel, ext[q].n)
  BY <1>1, <1>3, AmidIn
<1> QED BY <1>1, <1>2, <1>3, EndMidway

LEMMA WriteMidway ==
  ASSUME Inv, Midway, NEW p \in Proc, NEW full \in Taken("extend"),
         ExtendWrite(p, full)
  PROVE  Midway'
<1>1. PICK r : r = ext[p].rel
  OBVIOUS
<1>2. /\ fdOf' = fdOf /\ r \in Rel /\ \A q \in Proc : q # p => vec'[q] = vec[q]
      /\ \A z \in Rel : z # r => SameFor(file, file', z)
  BY <1>1, ExtendWriteKeeps
<1>3. ext' = [ext EXCEPT ![p] = NoExt]
  BY DEF ExtendWrite
<1>4. Framed(p)
  BY <1>2 DEF Framed
<1>5. ASSUME NEW q \in Proc, q # p, ~ Idle(q)
      PROVE  Counts(file', ext[q].rel, ext[q].n)
  <2>1. PICK x, z : x = ext[q].rel /\ z = ext[q].n
    OBVIOUS
  <2>2. x \in Rel /\ Counts(file, x, z)
    BY <1>5, <2>1, AmidIn
  <2>3. x # r
    <3>1. Apart(ext) /\ x # Absent
      BY <1>5, <2>1 DEF Midway, Idle
    <3> QED BY <1>1, <1>5, <2>1, <3>1 DEF Apart
  <2>4. SameFor(file, file', x)
    BY <1>2, <2>2, <2>3
  <2>5. Counts(file', x, z)
    BY <2>2, <2>4, SameForLens, CountsLike
  <2> QED BY <2>1, <2>5
<1> QED BY <1>3, <1>4, <1>5, EndMidway

LEMMA SeekMidway ==
  ASSUME Inv, Midway, NEW p \in Proc, ExtendSeek(p)
  PROVE  Midway'
<1>1. PICK x, i : x = ext[p] /\ i = SegLen(file, ext[p].rel, SegOf(ext[p].n))
  OBVIOUS
<1>2. PICK y : y = [x EXCEPT !.pos = i]
  OBVIOUS
<1>3. /\ file' = file /\ vec' = vec /\ fdOf' = fdOf /\ ~ Idle(p)
      /\ ext' = [ext EXCEPT ![p].pos = i]
  BY <1>1 DEF ExtendSeek, SegOf
<1>4. DOMAIN ext = Proc /\ Apart(ext)
  BY DEF Midway
<1>5. ext' = [ext EXCEPT ![p] = y]
  BY <1>1, <1>2, <1>3
<1>6. DOMAIN ext' = Proc /\ ext'[p] = y /\ \A q \in Proc : q # p => ext'[q] = ext[q]
  BY <1>4, <1>5
<1>7. /\ x = [rel |-> x.rel, n |-> x.n, pos |-> x.pos]
      /\ x.rel \in Rel /\ x.n \in Block /\ i = PosOf(x.n) /\ i \in Nat /\ i < RelsegSize
  BY <1>1, <1>3, AmidIn
<1>8. y = [rel |-> x.rel, n |-> x.n, pos |-> i]
  BY <1>2, <1>7
<1>9. y.rel = x.rel /\ y.n = x.n /\ y.pos = i
  BY <1>8
<1>10. y \in [rel : Rel, n : Block, pos : -1 .. RelsegSize - 1]
  <2>1. i \in -1 .. RelsegSize - 1
    BY <1>7, SizeFacts
  <2> QED BY <1>7, <1>8, <2>1
<1>11. Amid(file', vec'[p], fdOf'[p], y)
  <2>1. Amid(file, vec[p], fdOf[p], x)
    BY <1>1, <1>3, NotIdle
  <2>2. Amid(file, vec[p], fdOf[p], y)
    BY <1>7, <1>9, <1>10, <2>1 DEF Amid
  <2> QED BY <1>3, <2>2
<1>12. Apart(ext')
  <2>1. \A q \in Proc : ext'[q].rel = ext[q].rel
    BY <1>1, <1>6, <1>9
  <2> QED BY <1>4, <2>1 DEF Apart
<1>13. ASSUME NEW q \in Proc, q # p, ~ Idle(q) PROVE Spared(q)
  <2>1. Counts(file', ext[q].rel, ext[q].n)
    BY <1>3, <1>13, AmidIn
  <2>2. Framed(p)
    BY <1>3 DEF Framed
  <2> QED BY <1>6, <1>13, <2>1, <2>2, FramedSpares
<1> QED BY <1>6, <1>11, <1>12, <1>13, MidwayBy

LEMMA EvictMidway ==
  ASSUME Inv, Midway, NEW p \in Proc, NEW e \in DOMAIN vec[p],
         NEW j \in 0 .. Len(vec[p][e].segs) - 1, Evict(p, e, j)
  PROVE  Midway'
<1>1. PICK s, t : s = State(p) /\ t = FileSync(State(p), e, j)
  OBVIOUS
<1>2. Sound(s) /\ s.k = file /\ s.c = vec[p] /\ t = FileSync(s, e, j)
  BY <1>1, StateSound
<1>3. In(s, e, j)
  <2>1. vec[p] \in Seq(Entry)
    BY DEF Inv, Vector
  <2>2. e \in 1 .. Len(s.c) /\ j \in 0 .. Len(s.c[e].segs) - 1
    BY <1>2, <2>1
  <2> QED BY <1>2, <2>2, SegmentIn
<1>4. SamePages(s.k, t.k) /\ Shaped(s.c, t.c)
  BY <1>2, <1>3, SyncDoes
<1>5. BecomesWith(p, t, wrote) /\ fdOf' = fdOf /\ ext' = ext
  BY <1>1 DEF Evict, Becomes
<1>6. Framed(p)
  BY <1>5, FramedBy
<1>7. /\ file' = t.k /\ vec' = [vec EXCEPT ![p] = t.c] /\ DOMAIN vec = Proc
  BY <1>5 DEF BecomesWith, Inv
<1>8. vec'[p] = t.c /\ SamePages(file, file')
  BY <1>2, <1>4, <1>7
<1>9. ASSUME NEW q \in Proc, ~ Idle(q) PROVE Spared(q)
  <2>1. PICK x, n, a : x = ext[q].rel /\ n = ext[q].n /\ a = fdOf[q][x]
    OBVIOUS
  <2>2. /\ x \in Rel /\ Counts(file, x, n) /\ In(State(q), a, SegOf(n))
    BY <1>9, <2>1, AmidIn
  <2>3. Counts(file', x, n)
    BY <1>8, <2>2, CountsSame
  <2>4. CASE q # p
    BY <1>5, <1>6, <1>9, <2>1, <2>3, <2>4, FramedSpares
  <2>5. CASE q = p
    <3>1. a \in 1 .. Len(s.c)
      BY <1>1, <2>2, <2>5 DEF In
    <3>2. Len(t.c[a].segs) = Len(s.c[a].segs)
      BY <1>4, <3>1 DEF Shaped
    <3>3. Len(vec'[q][a].segs) = Len(vec[q][a].segs)
      BY <1>2, <1>8, <2>5, <3>2
    <3> QED BY <1>5, <2>1, <2>3, <3>3 DEF Spared
  <2> QED BY <2>4, <2>5
<1>10. ext'[p] = NoExt \/ Amid(file', vec'[p], fdOf'[p], ext'[p])
  <2>1. CASE Idle(p)
    BY <1>5, <2>1, NotIdle
  <2>2. CASE ~ Idle(p)
    BY <1>9, <2>2, NotIdle, SparedAmid
  <2> QED BY <2>1, <2>2
<1>11. DOMAIN ext' = Proc /\ Apart(ext') /\ \A q \in Proc : q # p => ext'[q] = ext[q]
  BY <1>5 DEF Midway
<1> QED BY <1>9, <1>10, <1>11, MidwayBy

LEMMA NextMidway ==
  ASSUME ExtendLock, Inv, Midway, Next
  PROVE  Midway'
<1>1. PICK p \in Proc : Steps(p)
  BY NextSteps
<1>2. Call(p) => Midway'
  BY CallMidway
<1>3. ASSUME NEW r \in Rel, ExtendCount(p, r) PROVE Midway'
  BY <1>3, CountMidway
<1>4. ExtendSeek(p) \/ SeekFails(p) => Midway'
  BY SeekMidway, SeekFailsMidway
<1>5. ASSUME NEW full \in Taken("extend"), ExtendWrite(p, full) PROVE Midway'
  BY <1>5, WriteMidway
<1>6. ASSUME NEW e \in DOMAIN vec[p], NEW j \in 0 .. Len(vec[p][e].segs) - 1,
             Evict(p, e, j)
      PROVE  Midway'
  BY <1>6, EvictMidway
<1> QED BY <1>1, <1>2, <1>3, <1>4, <1>5, <1>6 DEF Steps

-----------------------------------------------------------------------------
(* The invariant.                                                          *)

LEMMA InitInv == Init => Inv /\ Midway /\ Debts
<1> SUFFICES ASSUME Init PROVE Inv /\ Midway /\ Debts
  OBVIOUS
<1>1. /\ file = [r \in Rel |-> [j \in Seg |-> Absent]]
      /\ vec = [p \in Proc |-> <<>>]
      /\ fdOf = [p \in Proc |-> [r \in Rel |-> 0]]
      /\ wrote = [p \in Proc |-> {}]
      /\ ext = [p \in Proc |-> NoExt]
  BY DEF Init
<1>2. \A r \in Rel, j \in Seg : file[r][j] = Absent
  BY <1>1
<1>3. file \in Store
  BY <1>1 DEF Store
<1>4. Files(file)
  BY <1>2, <1>3, SegFacts DEF Files, Gapless
<1>5. ASSUME NEW p \in Proc PROVE Vector(file, vec[p]) /\ Indexed(vec[p], fdOf[p])
  <2>1. vec[p] = <<>> /\ fdOf[p] = [r \in Rel |-> 0]
    BY <1>1
  <2>2. vec[p] \in Seq(Entry) /\ Len(vec[p]) = 0
    BY <2>1
  <2>3. Vector(file, vec[p])
    BY <2>2 DEF Vector
  <2>4. Indexed(vec[p], fdOf[p])
    BY <2>1, <2>2 DEF Indexed
  <2> QED BY <2>3, <2>4
<1>6. Inv
  BY <1>1, <1>4, <1>5 DEF Inv
<1>7. Debts
  BY <1>1 DEF Debts, Owed
<1>8. Midway
  <2>1. \A p \in Proc : ext[p] = NoExt
    BY <1>1
  <2>2. NoExt.rel = Absent
    BY DEF NoExt
  <2> QED BY <1>1, <2>1, <2>2 DEF Midway, Apart
<1> QED BY <1>6, <1>7, <1>8

LEMMA StayKeeps ==
  ASSUME Inv, Midway, UNCHANGED vars
  PROVE  Inv' /\ Midway' /\ (Debts => Debts')
<1>1. /\ file' = file /\ vec' = vec /\ fdOf' = fdOf /\ wrote' = wrote
      /\ ext' = ext
  BY DEF vars
<1>2. Inv'
  BY <1>1 DEF Inv
<1>3. Debts => Debts'
  BY <1>1 DEF Debts
<1>4. Midway'
  BY <1>1 DEF Midway
<1> QED BY <1>2, <1>3, <1>4

LEMMA AlwaysInv ==
  ASSUME ExtendLock
  PROVE  Spec => [](Inv /\ Midway)
<1>1. Inv /\ Midway /\ [Next]_vars => Inv' /\ Midway'
  BY NextKeeps, NextMidway, StayKeeps DEF Moves, Pledge
<1> QED BY <1>1, InitInv, PTL DEF Spec

LEMMA AlwaysDebts ==
  ASSUME ExtendLock, "flush" \notin Faulty
  PROVE  Spec => [](Inv /\ Midway /\ Debts)
<1>0. ~ FlushFails
  BY DEF FlushFails
<1>1. Inv /\ Midway /\ Debts /\ [Next]_vars => Inv' /\ Midway' /\ Debts'
  BY <1>0, NextKeeps, NextMidway, StayKeeps DEF Moves, Pledge
<1> QED BY <1>1, InitInv, PTL DEF Spec

-----------------------------------------------------------------------------
(* What the invariant says.                                                *)

LEMMA InvTypes ==
  ASSUME Inv, Midway
  PROVE  TypeOK
<1>1. \A r \in Rel : \A j \in Seg : file[r][j] \in File \cup {Absent}
  BY DEF Inv, Files, Store
<1>2. ASSUME NEW p \in Proc, NEW e \in DOMAIN vec[p]
      PROVE  /\ vec[p][e].rel \in Rel \cup {Absent}
             /\ Len(vec[p][e].segs) \in 0 .. MaxSeg + 1
             /\ \A j \in DOMAIN vec[p][e].segs :
                  vec[p][e].segs[j] \in [dirty : BOOLEAN, fdirty : BOOLEAN,
                                         lst : 0 .. RelsegSize]
  <2>1. vec[p] \in Seq(Entry) /\ \A x \in 1 .. Len(vec[p]) : Hooked(file, vec[p][x])
    BY DEF Inv, Vector
  <2>2. PICK v : v = vec[p][e]
    OBVIOUS
  <2>3. Hooked(file, v)
    BY <2>1, <2>2
  <2>4. v \in Entry /\ v.rel \in Rel \cup {Absent} /\ v.segs \in Seq(Flags)
    BY <2>3, EntryFacts DEF Hooked
  <2>5. Len(v.segs) \in 0 .. MaxSeg + 1
    <3>1. CASE v.rel = Absent
      BY <2>3, <3>1, EmptyFacts, SegFacts DEF Hooked
    <3>2. CASE v.rel # Absent
      BY <2>3, <3>2, SegFacts DEF Hooked, Chained
    <3> QED BY <3>1, <3>2
  <2>6. ASSUME NEW j \in DOMAIN v.segs
        PROVE  v.segs[j] \in [dirty : BOOLEAN, fdirty : BOOLEAN, lst : 0 .. RelsegSize]
    <3>1. v.segs[j] \in Flags
      BY <2>4
    <3> QED BY <3>1 DEF Flags
  <2> QED BY <2>2, <2>4, <2>5, <2>6
<1>3. \A p \in Proc : fdOf[p] \in [Rel -> 0 .. Len(vec[p])]
  BY DEF Inv, Indexed
<1>4. ASSUME NEW p \in Proc
      PROVE  ext[p] \in [rel : Rel \cup {Absent}, n : Block, pos : -1 .. RelsegSize - 1]
  <2>1. CASE ext[p] = NoExt
    <3>1. 0 \in Block /\ -1 \in -1 .. RelsegSize - 1
      BY SizeFacts DEF Block
    <3> QED BY <2>1, <3>1 DEF NoExt
  <2>2. CASE Amid(file, vec[p], fdOf[p], ext[p])
    BY <2>2 DEF Amid
  <2> QED BY <2>1, <2>2 DEF Midway
<1> QED BY <1>1, <1>2, <1>3, <1>4 DEF TypeOK

LEMMA InvFull ==
  ASSUME Inv, Midway
  PROVE  SegmentsFull
<1>1. ASSUME NEW r \in Rel, NEW j \in Seg \ {0}, file[r][j] # Absent
      PROVE  file[r][j - 1] # Absent /\ SegLen(file, r, j - 1) = RelsegSize
  <2>1. Gapless(file, r)
    BY DEF Inv, Files
  <2> QED BY <1>1, <2>1 DEF Gapless, IsFull
<1> QED BY <1>1, InvTypes DEF SegmentsFull

LEMMA PageAt ==
  ASSUME NEW r, NEW b \in Nat, NBlocks(r) \in Nat, b < NBlocks(r)
  PROVE  Pages(r)[b + 1] = file[r][SegOf(b)].data[PosOf(b) + 1]
<1>1. PICK n : n = NBlocks(r)
  OBVIOUS
<1>2. Pages(r) = [i \in 1 .. n |-> file[r][SegOf(i - 1)].data[PosOf(i - 1) + 1]]
  BY <1>1, Zenon DEF Pages, SegOf, PosOf
<1>3. b + 1 \in 1 .. n /\ (b + 1) - 1 = b
  BY <1>1
<1> QED BY <1>2, <1>3

LEMMA ReadsRight ==
  ASSUME Inv, NEW p \in Proc, NEW r \in Rel, IsOpen(p, r), NEW e, e = fdOf[p][r],
         NEW b \in Nat, b < NBlocks(r)
  PROVE  mdread(mdfd_getseg(State(p), e, b), e, b) = Pages(r)[b + 1]
<1>1. PICK s, n : s = State(p) /\ n = NBlocks(r)
  OBVIOUS
<1>2. PICK t : t = mdfd_getseg(s, e, b)
  OBVIOUS
<1>3. Sound(s) /\ In(s, e, 0) /\ s.c[e].rel = r /\ s.k = file
  BY <1>1, StateSound, OpenIn
<1>4. Files(file) /\ Counts(file, r, n)
  BY <1>1, NBlocksIs DEF Inv
<1>5. n \in Nat
  BY <1>4, EndsFacts DEF Counts
<1>6. /\ SegOf(b) \in Seg /\ file[r][SegOf(b)] # Absent
      /\ PosOf(b) < SegLen(file, r, SegOf(b)) /\ FullTo(file, r, SegOf(b))
  BY <1>1, <1>4, BlockIn
<1>7. Looked(s, t)
  BY <1>2, <1>3, <1>6, GetsAll
<1>8. t.c[e].rel = r
  BY <1>3, <1>7, LookedIn
<1>9. t.k[r][SegOf(b)] = file[r][SegOf(b)]
  BY <1>3, <1>6, <1>7 DEF Looked, Opened
<1>10. PICK d : d = file[r][SegOf(b)].data
  OBVIOUS
<1>11. PosOf(b) < Len(d)
  BY <1>6, <1>10 DEF SegLen
<1>12. d = t.k[t.c[e].rel][SegOf(b)].data
  BY <1>8, <1>9, <1>10
<1>13. mdread(t, e, b) = d[PosOf(b) + 1]
  BY <1>11, <1>12, Zenon DEF mdread, SegOf, PosOf
<1>14. Pages(r)[b + 1] = d[PosOf(b) + 1]
  BY <1>1, <1>5, <1>10, PageAt
<1> QED BY <1>1, <1>2, <1>13, <1>14

LEMMA InvAnswers ==
  ASSUME Inv
  PROVE  AnswersRight
<1> SUFFICES ASSUME NEW p \in Proc, NEW r \in Rel, IsOpen(p, r)
             PROVE  /\ mdnblocks(State(p), fdOf[p][r]).n = NBlocks(r)
                    /\ \A b \in 0 .. NBlocks(r) - 1 :
                         mdread(mdfd_getseg(State(p), fdOf[p][r], b), fdOf[p][r], b)
                           = Pages(r)[b + 1]
  BY DEF AnswersRight
<1>1. PICK s, e, n : s = State(p) /\ e = fdOf[p][r] /\ n = NBlocks(r)
  OBVIOUS
<1>2. Sound(s) /\ In(s, e, 0) /\ s.c[e].rel = r /\ s.k = file
  BY <1>1, StateSound, OpenIn
<1>3. Counts(s.k, r, n)
  BY <1>1, <1>2, NBlocksIs DEF Inv
<1>4. mdnblocks(s, e).n = n /\ n \in Nat
  BY <1>2, <1>3, CountFacts
<1>5. ASSUME NEW b \in 0 .. n - 1
      PROVE  mdread(mdfd_getseg(State(p), e, b), e, b) = Pages(r)[b + 1]
  <2>1. b \in Nat /\ b < NBlocks(r)
    BY <1>1, <1>4
  <2> QED BY <1>1, <2>1, ReadsRight
<1> QED BY <1>1, <1>4, <1>5

LEMMA InvForces ==
  ASSUME Inv, Debts
  PROVE  CommitForces
<1> SUFFICES ASSUME NEW p \in Proc, NEW w \in wrote[p]
             PROVE  ~ Unforced(mdcommit(State(p)).k, w)
  BY DEF CommitForces
<1>1. PICK s : s = State(p)
  OBVIOUS
<1>2. PICK t : t = Sweep(s, TRUE)
  OBVIOUS
<1>3. Sound(s) /\ s.k = file /\ s.c = vec[p]
  BY <1>1, StateSound
<1>4. mdcommit(State(p)) = t
  BY <1>1, <1>2 DEF mdcommit
<1>5. Sound(t) /\ Shaped(s.c, t.c)
  BY <1>2, <1>3, SweepsAll
<1>6. Settled(s, t)
  BY <1>2, <1>3, SweepsAll
<1>7. \A x, y : In(t, x, y) => ~ Of(t, x, y).dirty
  BY <1>2, <1>3, SweepsAll
<1>8. /\ w \in Rel \X Block
      /\ \E e \in 1 .. Len(vec[p]) : Marked(vec[p], e, w[1], SegOf(w[2]))
  BY DEF Debts, Owed
<1>9. PICK e \in 1 .. Len(vec[p]) : Marked(vec[p], e, w[1], SegOf(w[2]))
  BY <1>8
<1>10. PICK r, b : r = w[1] /\ b = w[2]
  OBVIOUS
<1>11. r \in Rel /\ b \in Block /\ w = <<r, b>>
  BY <1>8, <1>10
<1>12. b \in Nat /\ SegOf(b) \in Seg
  BY <1>11, BlockSeg
<1>13. e \in 1 .. Len(s.c) /\ Marked(s.c, e, r, SegOf(b))
  BY <1>3, <1>9, <1>10
<1>14. Due(t, e, r, SegOf(b))
  BY <1>6, <1>11, <1>12, <1>13 DEF Settled, Due
<1>15. ~ Marked(t.c, e, r, SegOf(b))
  <2>1. e \in 1 .. Len(t.c)
    BY <1>5, <1>13 DEF Shaped
  <2>2. Marked(t.c, e, r, SegOf(b)) =>
          In(t, e, SegOf(b)) /\ Of(t, e, SegOf(b)).dirty
    BY <1>5, <1>11, <1>12, <2>1, MarkedIn
  <2> QED BY <1>7, <2>2
<1>16. Forced(t.k, r, SegOf(b))
  BY <1>14, <1>15 DEF Due
<1>17. ~ Unforced(t.k, <<r, b>>)
  BY <1>12, <1>16, ForcedBlock
<1> QED BY <1>4, <1>11, <1>17

-----------------------------------------------------------------------------
(* The theorems.                                                           *)

\* A relation has no gap, provided that two processes never extend it at the
\* same time: every segment before an existing one is exactly full, whatever
\* the counts, seeks and writes of mdextend, mdtruncate, mdcreate and the
\* opening of segments by mdnblocks and _mdfd_getseg did in between, for every
\* number of processes, relations and blocks and every segment size
\* (md.c:208-214, md.c:511-531).
THEOREM NoGap ==
  ASSUME ExtendLock
  PROVE  Spec => []SegmentsFull
<1>1. Inv /\ Midway => SegmentsFull
  BY InvFull
<1> QED BY <1>1, AlwaysInv, PTL

\* While a relation is extended by one process at a time, mdnblocks counts
\* right for every process that has it open, and mdread finds each of its
\* blocks: a segment that a process once saw full is full whenever it is asked
\* again, since mdtruncate spares every relation that has a full segment
\* (md.c:511, md.c:544).
THEOREM CountsAndReads ==
  ASSUME ExtendLock
  PROVE  Spec => []AnswersRight
<1>1. Inv => AnswersRight
  BY InvAnswers
<1> QED BY <1>1, AlwaysInv, PTL

\* When no write of mdflush fails, and a relation is extended by one process
\* at a time, mdcommit leaves on disk every block the transaction wrote: a
\* block that is not on disk is in a segment that an entry of the writer has
\* marked dirty, and neither an eviction nor a close loses the mark before the
\* file is forced (md.c:572-589).
THEOREM CommitsForced ==
  ASSUME ExtendLock, "flush" \notin Faulty
  PROVE  Spec => []CommitForces
<1>1. Inv /\ Debts => CommitForces
  BY InvForces
<1>2. Spec => [](Inv /\ Midway /\ Debts)
  BY AlwaysDebts
<1> QED BY <1>1, <1>2, PTL

-----------------------------------------------------------------------------
(* The refinement.                                                         *)

\* What Relations sees of the files.
PageView == [r \in Rel |-> IF Exists(r) THEN Pages(r) ELSE Absent]

LEMMA PagesAre ==
  ASSUME NEW r, NEW n, n = NBlocks(r)
  PROVE  Pages(r) = Paged(file, r, n)
BY Zenon DEF Pages, Paged, SegOf, PosOf

LEMMA ViewNow == Inv => Viewed(file, PageView)
<1> SUFFICES ASSUME Inv PROVE Viewed(file, PageView)
  OBVIOUS
<1>1. PICK f : f = PageView
  OBVIOUS
<1>2. f = [r \in Rel |-> IF Exists(r) THEN Pages(r) ELSE Absent]
  BY <1>1 DEF PageView
<1>3. f = [r \in Rel |-> f[r]]
  BY <1>2
<1>4. ASSUME NEW r \in Rel PROVE Held(file, f, r)
  <2>1. CASE file[r][0] = Absent
    BY <1>2, <2>1 DEF Held, Exists
  <2>2. CASE file[r][0] # Absent
    <3>1. f[r] = Pages(r)
      BY <1>2, <2>2 DEF Exists
    <3>2. PICK n : n = NBlocks(r)
      OBVIOUS
    <3>3. Files(file) /\ Counts(file, r, n)
      BY <3>2, NBlocksIs DEF Inv
    <3>4. n \in Nat
      BY <3>3, CountsNat
    <3>5. f[r] = Paged(file, r, n)
      BY <3>1, <3>2, PagesAre
    <3>6. Array(file, r, f[r])
      BY <3>3, <3>4, <3>5 DEF Array
    <3> QED BY <2>2, <3>6 DEF Held
  <2> QED BY <2>1, <2>2
<1>5. Viewed(file, f)
  BY <1>3, <1>4 DEF Viewed
<1> QED BY <1>1, <1>5

LEMMA ViewNext == Inv' => Viewed(file', PageView')
<1>1. Inv' => Viewed(file, PageView)'
  BY ViewNow, PTL
<1> QED BY <1>1

LEMMA InitMaps == Init => R!Init
<1> SUFFICES ASSUME Init PROVE R!Init
  OBVIOUS
<1>1. ASSUME NEW r \in Rel PROVE ~ Exists(r)
  BY SegFacts DEF Init, Exists
<1>2. call = <<"other">> /\ out = Ok
  BY DEF Init
<1> QED BY <1>1, <1>2 DEF R!Init

\* A call that changes no page.
LEMMA AnswerMaps ==
  ASSUME Inv, Answered(call', out'), PageView' = PageView
  PROVE  R!Next
<1>1. CASE call' = <<"other">> /\ out' = Ok
  <2>1. R!Other
    BY <1>1 DEF R!Other, PageView
  <2> QED BY <2>1 DEF R!Next
<1>2. ASSUME NEW r \in Rel, Failed(call', out', r) PROVE R!Next
  <2>1. R!Fails(r)
    BY <1>2 DEF R!Fails, Failed, PageView, Block
  <2> QED BY <2>1 DEF R!Next
<1>3. ASSUME NEW r \in Rel, Exists(r), Found(call', out', r) PROVE R!Next
  <2>1. PICK f, a, n : f = PageView /\ a = f[r] /\ n = NBlocks(r)
    OBVIOUS
  <2>2. Viewed(file, f) /\ Files(file) /\ Counts(file, r, n) /\ file[r][0] # Absent
    BY <1>3, <2>1, ViewNow, NBlocksIs DEF Inv, Exists
  <2>3. /\ n \in Nat /\ a \in Seq(Pg) /\ Len(a) = n /\ a # Absent
        /\ \A b \in Nat : b < n => a[b + 1] = file[r][SegOf(b)].data[PosOf(b) + 1]
    BY <2>1, <2>2, HeldPages
  <2>4. f = [z \in Rel |-> f[z]]
    BY <2>2 DEF Viewed
  <2>5. [f EXCEPT ![r] = a] = f
    BY <2>1, <2>4
  <2>6. PageView[r] = a /\ PageView' = [PageView EXCEPT ![r] = a] /\ PageView' = PageView
    BY <2>1, <2>5
  <2>7. CASE call' = <<"open", r>> /\ out' = Ok
    <3>1. R!Open(r)
      BY <2>3, <2>6, <2>7 DEF R!Open, R!Exists, PageView
    <3> QED BY <3>1 DEF R!Next
  <2>8. CASE call' = <<"create", r>> /\ out' = Ok /\ NBlocks(r) = 0
    <3>1. a = <<>>
      BY <2>1, <2>3, <2>8
    <3>2. R!Create(r)
      BY <2>6, <2>8, <3>1 DEF R!Create, R!Exists, PageView
    <3> QED BY <3>2 DEF R!Next
  <2>9. CASE call' = <<"count", r>> /\ out' = NBlocks(r)
    <3>1. PageView[r] # Absent /\ out' = Len(PageView[r])
      BY <2>1, <2>3, <2>6, <2>9
    <3>2. R!Count(r)
      BY <2>6, <2>9, <3>1 DEF R!Count, R!Exists, PageView
    <3> QED BY <3>2 DEF R!Next
  <2>10. ASSUME NEW i \in 0 .. MaxBlocks, call' = <<"truncate", r, i>>,
                i <= NBlocks(r), out' = NBlocks(r)
         PROVE  R!Next
    <3>1. SubSeq(a, 1, n) = a
      BY <2>3
    <3>2. /\ PageView[r] # Absent /\ i <= Len(PageView[r]) /\ out' = Len(PageView[r])
          /\ PageView' = [PageView EXCEPT ![r] = SubSeq(PageView[r], 1, out')]
      BY <2>1, <2>3, <2>6, <2>10, <3>1
    <3>3. R!Truncate(r, i)
      BY <2>10, <3>2 DEF R!Truncate, R!Exists, PageView
    <3> QED BY <3>3 DEF R!Next
  <2>11. ASSUME NEW b \in Block, call' = <<"read", r, b>>, PageFound(r, b, out')
         PROVE  R!Next
    <3>1. b \in Nat /\ b \in 0 .. MaxBlocks - 1
      BY BlockSeg DEF Block
    <3>2. /\ PageView[r] # Absent /\ b <= Len(PageView[r])
          /\ out' = IF b < Len(PageView[r]) THEN PageView[r][b + 1] ELSE Zero
      <4>1. CASE b < n
        <5>1. out' = a[b + 1]
          BY <2>1, <2>3, <2>11, <3>1, <4>1 DEF PageFound
        <5> QED BY <2>3, <2>6, <3>1, <4>1, <5>1
      <4>2. CASE ~(b < n)
        <5>1. b = n /\ out' = Zero
          BY <2>1, <2>11, <4>2 DEF PageFound
        <5> QED BY <2>3, <2>6, <3>1, <4>2, <5>1
      <4> QED BY <4>1, <4>2
    <3>3. R!Read(r, b)
      BY <2>6, <2>11, <3>2 DEF R!Read, R!Exists, PageView
    <3> QED BY <3>1, <3>3 DEF R!Next
  <2> QED BY <1>3, <2>7, <2>8, <2>9, <2>10, <2>11 DEF Found
<1> QED BY <1>1, <1>2, <1>3 DEF Answered

LEMMA StepMaps ==
  ASSUME Inv, Midway, Inv', Next
  PROVE  R!Next
<1>1. PICK f, g, k, m : f = PageView /\ g = PageView' /\ k = file /\ m = file'
  OBVIOUS
<1>2. Viewed(k, f) /\ Viewed(m, g)
  BY <1>1, ViewNow, ViewNext
<1>3. Files(k) /\ Files(m)
  BY <1>1 DEF Inv
<1>4. Quiet(call', out', m) \/ Grown(call', out', m)
  BY <1>1, NextKeeps DEF Moves
<1>5. ASSUME SamePages(file, m), Answered(call', out') PROVE R!Next
  <2>1. Viewed(m, f)
    BY <1>1, <1>2, <1>3, <1>5, SameViewed
  <2>2. f = g
    BY <1>2, <2>1, ViewedOnce
  <2> QED BY <1>1, <1>5, <2>2, AnswerMaps
<1>6. ASSUME NEW r \in Rel, NEW b \in Block, NEW x \in Page, Overwrites(m, r, b, x),
             call' = <<"write", r, b, x>>, out' = Ok
      PROVE  R!Write(r, b, x)
  <2>1. PICK n : n = NBlocks(r)
    OBVIOUS
  <2>2. k[r][0] # Absent /\ b < n /\ b \in Nat
    BY <1>1, <1>6, <2>1, BlockSeg DEF Overwrites, Exists
  <2>3. Rewritten(k, m, r, SegOf(b), Put(k[r][SegOf(b)].data, PosOf(b), x))
    BY <1>1, <1>6 DEF Overwrites
  <2>4. Counts(k, r, n)
    BY <1>1, <1>3, <2>1, NBlocksIs
  <2>5. PICK h : h = [f EXCEPT ![r] = [f[r] EXCEPT ![b + 1] = x]]
    OBVIOUS
  <2>6. Viewed(m, h) /\ f[r] # Absent /\ b < Len(f[r])
    BY <1>2, <1>3, <2>2, <2>3, <2>4, <2>5, OverwriteViewed
  <2>7. g = h
    BY <1>2, <2>6, ViewedOnce
  <2>8. PageView' = [PageView EXCEPT ![r][b + 1] = x]
    BY <1>1, <2>5, <2>7
  <2>9. PageView[r] # Absent /\ b < Len(PageView[r])
    BY <1>1, <2>6
  <2> QED BY <1>6, <2>8, <2>9 DEF R!Write, R!Exists, PageView
<1>7. ASSUME NEW r \in Rel, NEW n \in Block, Lengthens(m, r, n),
             call' = <<"extend", r>>, out' = Ok
      PROVE  R!Extend(r)
  <2>1. PICK d : d = Append(k[r][SegOf(n)].data, Zero)
    OBVIOUS
  <2>2. /\ k[r][0] # Absent /\ Counts(k, r, n) /\ k[r][SegOf(n)] # Absent
        /\ Rewritten(k, m, r, SegOf(n), d)
    BY <1>1, <1>7, <2>1 DEF Lengthens, Exists
  <2>3. k \in Store /\ SamePages(k, k) /\ EndsAt(k, r, SegOf(n), n)
    BY <1>3, <2>2, GrowsSame, EndsSeg DEF Files
  <2>5. PICK h : h = [f EXCEPT ![r] = Append(f[r], Zero)]
    OBVIOUS
  <2>6. Viewed(m, h) /\ f[r] # Absent
    BY <1>2, <1>3, <2>1, <2>2, <2>3, <2>5, LengthenViewed
  <2>7. g = h
    BY <1>2, <2>6, ViewedOnce
  <2>8. PageView' = [PageView EXCEPT ![r] = Append(PageView[r], Zero)]
    BY <1>1, <2>5, <2>7
  <2>9. PageView[r] # Absent
    BY <1>1, <2>6
  <2> QED BY <1>7, <2>8, <2>9 DEF R!Extend, R!Exists, PageView
<1>8. ASSUME NEW r \in Rel, NEW i \in 0 .. MaxBlocks, Cuts(m, r, i),
             call' = <<"truncate", r, i>>, out' = i
      PROVE  R!Truncate(r, i)
  <2>1. PICK n : n = NBlocks(r)
    OBVIOUS
  <2>2. /\ k[r][0] # Absent /\ SegOf(n) = 0 /\ i <= Len(k[r][0].data)
        /\ Rewritten(k, m, r, 0, SubSeq(k[r][0].data, 1, i)) /\ i \in Nat
    BY <1>1, <1>8, <2>1, SizeFacts DEF Cuts, Exists
  <2>4. Counts(k, r, n)
    BY <1>1, <1>3, <2>1, NBlocksIs
  <2>5. PICK h : h = [f EXCEPT ![r] = SubSeq(f[r], 1, i)]
    OBVIOUS
  <2>6. Viewed(m, h) /\ f[r] # Absent /\ i <= Len(f[r])
    BY <1>2, <1>3, <2>2, <2>4, <2>5, CutViewed
  <2>7. g = h
    BY <1>2, <2>6, ViewedOnce
  <2>8. PageView' = [PageView EXCEPT ![r] = SubSeq(PageView[r], 1, i)]
    BY <1>1, <2>5, <2>7
  <2>9. PageView[r] # Absent /\ i <= Len(PageView[r])
    BY <1>1, <2>6
  <2>10. PageView' = [PageView EXCEPT ![r] = SubSeq(PageView[r], 1, out')]
    BY <1>8, <2>8
  <2> QED BY <1>8, <2>9, <2>10 DEF R!Truncate, R!Exists, PageView
<1>9. ASSUME NEW r \in Rel, Starts(m, r), out' = Ok,
             call' = <<"create", r>> \/ call' = <<"open", r>>
      PROVE  R!Create(r) \/ R!Open(r)
  <2>1. k[r][0] = Absent /\ FilePut(k, m, r, 0, Empty)
    BY <1>1, <1>9 DEF Starts
  <2>2. PICK h : h = [f EXCEPT ![r] = <<>>]
    OBVIOUS
  <2>3. Viewed(m, h) /\ f[r] = Absent
    BY <1>2, <1>3, <2>1, <2>2, StartViewed
  <2>4. g = h
    BY <1>2, <2>3, ViewedOnce
  <2>5. PageView' = [PageView EXCEPT ![r] = <<>>] /\ PageView[r] = Absent
    BY <1>1, <2>2, <2>3, <2>4
  <2>6. CASE call' = <<"create", r>>
    BY <1>9, <2>5, <2>6 DEF R!Create, R!Exists, PageView
  <2>7. CASE call' = <<"open", r>>
    BY <1>9, <2>5, <2>7 DEF R!Open, R!Exists, PageView
  <2> QED BY <1>9, <2>6, <2>7
<1>10. ASSUME NEW r \in Rel, Removes(m, r), call' = <<"unlink", r>>, out' = Ok
       PROVE  R!Unlink(r)
  <2>1. k[r][0] # Absent /\ m[r][0] = Absent /\ OtherRels(k, m, r)
    BY <1>1, <1>10 DEF Removes, Exists, OtherRels
  <2>2. PICK h : h = [f EXCEPT ![r] = Absent]
    OBVIOUS
  <2>3. Viewed(m, h) /\ f[r] # Absent
    BY <1>2, <1>3, <2>1, <2>2, RemoveViewed
  <2>4. g = h
    BY <1>2, <2>3, ViewedOnce
  <2>5. PageView' = [PageView EXCEPT ![r] = Absent] /\ PageView[r] # Absent
    BY <1>1, <2>2, <2>3, <2>4
  <2> QED BY <1>10, <2>5 DEF R!Unlink, R!Exists, PageView
<1>11. ASSUME NEW r \in Rel,
              R!Create(r) \/ R!Open(r) \/ R!Unlink(r) \/ R!Extend(r)
       PROVE  R!Next
  BY <1>11 DEF R!Next
<1>12. ASSUME NEW r \in Rel, NEW b \in Block, NEW x \in Page, R!Write(r, b, x)
       PROVE  R!Next
  <2>1. b \in 0 .. MaxBlocks - 1
    BY DEF Block
  <2> QED BY <1>12, <2>1 DEF R!Next
<1>13. ASSUME NEW r \in Rel, NEW i \in 0 .. MaxBlocks, R!Truncate(r, i) PROVE R!Next
  BY <1>13 DEF R!Next
<1>14. CASE Grown(call', out', m)
  BY <1>7, <1>11, <1>14 DEF Grown
<1>15. CASE Quiet(call', out', m)
  BY <1>5, <1>6, <1>8, <1>9, <1>10, <1>11, <1>12, <1>13, <1>15 DEF Quiet
<1> QED BY <1>4, <1>14, <1>15

\* To the buffer manager a relation in segments is one array of pages, for
\* every number of processes, relations and blocks and every segment size, as
\* long as one process at a time extends it: a write changes the block it
\* names and no other, a read returns the page last written there, an
\* extension appends one block, a count and a truncation answer how many there
\* are, and a call that fails changes nothing, whatever chain and counts the
\* process that makes it has (md.c:689-720).
THEOREM ArraysOfPages ==
  ASSUME ExtendLock
  PROVE  Spec => LikeArrays
<1>1. Inv /\ Midway /\ Inv' /\ [Next]_vars => [R!Next]_(R!vars)
  <2>1. UNCHANGED vars => UNCHANGED R!vars
    BY DEF vars, R!vars, Exists, Pages, NBlocks
  <2> QED BY <2>1, StepMaps
<1> QED BY <1>1, InitMaps, AlwaysInv, PTL DEF Spec, LikeArrays, R!Spec
=============================================================================
