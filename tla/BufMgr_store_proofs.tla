------------------------- MODULE BufMgr_store_proofs -------------------------
(***************************************************************************)
(* Proofs about the pages that go through the buffer pool of BufMgr, when  *)
(* no I/O fails: no change to a page is lost, and to its users the pool is *)
(* the plain array of pages of BlockStore.  The steps are taken kind by    *)
(* kind, as in BufMgr_data_proofs.                                         *)
(***************************************************************************)
EXTENDS BufMgr_data_proofs

-----------------------------------------------------------------------------
(* Changed pages.  D is what the buffers hold and K what the file holds.   *)

Holding == {"modified", "flush", "syncwrite", "replace"}

Rd(P, B, b) == \E p \in Proc : B[p] = b /\ P[p] = "read"

Keeps(P, B, b) == \E p \in Proc : B[p] = b /\ P[p] \in Holding

\* The page in b is the file's, or marked to be written with nobody having
\* written it since, or in the hands of a backend that will mark or write it.
Kept(S, P, B, D, K, b) ==
  \/ "DELETED" \in Fl(S, b) \/ Rd(P, B, b)
  \/ D[b] = K[S.tag[b]]
  \/ Dirtied \subseteq Fl(S, b)
  \/ Keeps(P, B, b)

DirtyVictims(S, P, B) == \A p \in Proc : P[p] = "replace" => "DIRTY" \in Fl(S, B[p])

Unlost(S, P, B, D, K) ==
  (\A b \in Buffer : Kept(S, P, B, D, K, b)) /\ DirtyVictims(S, P, B)

LEMMA UnlostStep ==
  ASSUME NEW S, NEW T, NEW P, NEW B, NEW D, NEW K, Unlost(S, P, B, D, K),
         Places(S, P, B), NEW p \in Proc, NEW c, NEW l, NEW b,
         Edit(S, T, p, c), P[p] # "read", P[p] \in Holding => B[p] = c,
         c \in Buffer =>
           Kept(T, [P EXCEPT ![p] = l], [B EXCEPT ![p] = b], D, K, c),
         l = "replace" => "DIRTY" \in Fl(T, b),
         \A r \in Proc \ {p} : P[r] = "replace" /\ B[r] = c => "DIRTY" \in Fl(T, c)
  PROVE  Unlost(T, [P EXCEPT ![p] = l], [B EXCEPT ![p] = b], D, K)
<1>1. PICK Q : Q = [P EXCEPT ![p] = l]
  OBVIOUS
<1>2. PICK C : C = [B EXCEPT ![p] = b]
  OBVIOUS
<1>3. P \in [Proc -> PC] /\ B \in [Proc -> Buffer \cup {NoBuffer}]
  BY DEF Places
<1>4. /\ Q[p] = l /\ C[p] = b
      /\ \A q \in Proc \ {p} : Q[q] = P[q] /\ C[q] = B[q]
  BY <1>1, <1>2, <1>3
<1>5. ASSUME NEW x \in Buffer PROVE Kept(T, Q, C, D, K, x)
  <2>1. CASE x = c
    BY <1>1, <1>2, <2>1
  <2>2. CASE x # c
    <3>1. Fl(T, x) = Fl(S, x) /\ T.tag[x] = S.tag[x]
      BY <2>2 DEF Edit
    <3>2. Rd(P, B, x) => Rd(Q, C, x)
      BY <1>4 DEF Rd
    <3>3. Keeps(P, B, x) => Keeps(Q, C, x)
      BY <1>4, <2>2 DEF Keeps
    <3>4. Kept(S, P, B, D, K, x)
      BY DEF Unlost
    <3> QED BY <3>1, <3>2, <3>3, <3>4 DEF Kept
  <2> QED BY <2>1, <2>2
<1>6. ASSUME NEW r \in Proc, Q[r] = "replace" PROVE "DIRTY" \in Fl(T, C[r])
  <2>1. CASE r = p
    BY <1>4, <1>6, <2>1
  <2>2. CASE r # p
    <3>1. P[r] = "replace" /\ C[r] = B[r] /\ "DIRTY" \in Fl(S, B[r])
      BY <1>4, <1>6, <2>2 DEF Unlost, DirtyVictims
    <3>2. B[r] \in Buffer
      BY <3>1 DEF Places, WithBuffer, PC
    <3>3. CASE B[r] = c
      BY <2>2, <3>1, <3>3
    <3>4. CASE B[r] # c
      BY <3>1, <3>2, <3>4 DEF Edit
    <3> QED BY <3>3, <3>4
  <2> QED BY <2>1, <2>2
<1> QED BY <1>1, <1>2, <1>5, <1>6 DEF Unlost, DirtyVictims

\* A step that takes no one's page away and no mark off.
LEMMA KeptSame ==
  ASSUME NEW S, NEW T, NEW P, NEW B, NEW D, NEW K, Places(S, P, B),
         NEW p \in Proc, NEW c, NEW l, NEW b, Kept(S, P, B, D, K, c),
         T.tag[c] = S.tag[c], P[p] # "read", P[p] \notin Holding,
         "DELETED" \in Fl(S, c) => "DELETED" \in Fl(T, c),
         Dirtied \subseteq Fl(S, c) => Dirtied \subseteq Fl(T, c)
  PROVE  Kept(T, [P EXCEPT ![p] = l], [B EXCEPT ![p] = b], D, K, c)
<1>1. PICK Q : Q = [P EXCEPT ![p] = l]
  OBVIOUS
<1>2. PICK C : C = [B EXCEPT ![p] = b]
  OBVIOUS
<1>3. P \in [Proc -> PC] /\ B \in [Proc -> Buffer \cup {NoBuffer}]
  BY DEF Places
<1>4. \A q \in Proc \ {p} : Q[q] = P[q] /\ C[q] = B[q]
  BY <1>1, <1>2, <1>3
<1>5. Rd(P, B, c) => Rd(Q, C, c)
  BY <1>4 DEF Rd
<1>6. Keeps(P, B, c) => Keeps(Q, C, c)
  BY <1>4 DEF Keeps
<1>7. Kept(T, Q, C, D, K, c)
  BY <1>5, <1>6 DEF Kept
<1> QED BY <1>1, <1>2, <1>7

\* A step after which p reads into c, or will mark or write it.
LEMMA KeptMine ==
  ASSUME NEW T, NEW P, NEW B, NEW D, NEW K, P \in [Proc -> PC],
         B \in [Proc -> Buffer \cup {NoBuffer}], NEW p \in Proc, NEW c,
         NEW l, l \in Holding \cup {"read"}
  PROVE  Kept(T, [P EXCEPT ![p] = l], [B EXCEPT ![p] = c], D, K, c)
<1>1. PICK Q : Q = [P EXCEPT ![p] = l]
  OBVIOUS
<1>2. PICK C : C = [B EXCEPT ![p] = c]
  OBVIOUS
<1>3. Q[p] = l /\ C[p] = c
  BY <1>1, <1>2
<1>4. Rd(Q, C, c) \/ Keeps(Q, C, c)
  BY <1>3 DEF Rd, Keeps
<1>5. Kept(T, Q, C, D, K, c)
  BY <1>4 DEF Kept
<1> QED BY <1>1, <1>2, <1>5

LEMMA UnlostKind ==
  ASSUME Faults = {}, "drop" \notin Calls, NEW S, NEW T, NEW P, NEW B, NEW D, NEW K,
         Cached(S, P, B), Unlost(S, P, B, D, K), NEW p \in Proc, NEW l, NEW b,
         Kind(S, T, P, B, p, l, b)
  PROVE  Unlost(T, [P EXCEPT ![p] = l], [B EXCEPT ![p] = b], D, K)
<1>1. Owned(S, P, B) /\ Faultless(S, P, B) /\ Live(S) /\ Places(S, P, B)
      /\ Owning = IOSteps /\ "replace" \in Owning
      /\ P \in [Proc -> PC] /\ B \in [Proc -> Buffer \cup {NoBuffer}]
  BY DEF Cached, Owned, Owning, IOSteps, WithVictim, Places
<1>2. CASE Rests(S, T, P, p, l)
  <2>1. Edit(S, T, p, NoBuffer) /\ P[p] # "read" /\ P[p] \notin Holding /\ l # "replace"
    BY <1>2 DEF Rests, Resting, Holding
  <2>2. \A r \in Proc : P[r] = "replace" => B[r] # NoBuffer
    BY <1>1, StepSets, SlotFacts DEF Places
  <2> QED BY <1>1, <2>1, <2>2, SlotFacts, UnlostStep
<1>3. CASE Wakes(S, T, P, B, p, l, b)
  <2>1. Edit(S, T, p, NoBuffer) /\ P[p] # "read" /\ P[p] \notin Holding /\ l # "replace"
    BY <1>3 DEF Wakes, Waiting, Edit, Holding
  <2>2. \A r \in Proc : P[r] = "replace" => B[r] # NoBuffer
    BY <1>1, StepSets, SlotFacts DEF Places
  <2> QED BY <1>1, <2>1, <2>2, SlotFacts, UnlostStep
<1>4. CASE Pins(S, T, P, p, l, b)
  <2>1. PICK x \in Buffer :
          /\ P[p] \in Resting /\ Edit(S, T, p, x) /\ T.tag[x] = S.tag[x]
          /\ l # "idle" => b = x
          /\ \/ l \in Waiting \cup {"idle", "extend"} /\ Fl(T, x) = Fl(S, x)
             \/ l = "syncwrite" /\ Fl(T, x) = Fl(S, x) \ {"JUST_DIRTIED"}
    BY <1>4 DEF Pins
  <2>2. P[p] # "read" /\ P[p] \notin Holding /\ l # "replace"
    BY <2>1 DEF Resting, Holding, Waiting
  <2>3. Kept(S, P, B, D, K, x)
    BY DEF Unlost
  <2>4. Kept(T, [P EXCEPT ![p] = l], [B EXCEPT ![p] = b], D, K, x)
    <3>1. CASE Fl(T, x) = Fl(S, x)
      BY <1>1, <2>1, <2>2, <2>3, <3>1, KeptSame
    <3>2. CASE l = "syncwrite"
      <4>1. b = x /\ l \in Holding \cup {"read"}
        BY <2>1, <3>2 DEF Holding
      <4> QED BY <1>1, <4>1, KeptMine
    <3> QED BY <2>1, <3>1, <3>2
  <2>5. \A r \in Proc \ {p} : P[r] = "replace" /\ B[r] = x => "DIRTY" \in Fl(T, x)
    BY <2>1 DEF Unlost, DirtyVictims
  <2> QED BY <1>1, <2>1, <2>2, <2>4, <2>5, UnlostStep
<1>5. CASE Takes(S, T, P, p, l, b)
  <2>1. /\ P[p] \in Resting /\ b \in Buffer /\ Edit(S, T, p, b)
        /\ \A q \in Proc : ~Pinned(S, q, b)
        /\ l \in {"replace", "read"}
        /\ l = "replace" => "DIRTY" \in Fl(T, b)
    BY <1>5 DEF Takes, Pinned, Fl
  <2>2. P[p] # "read" /\ P[p] \notin Holding /\ l \in Holding \cup {"read"}
    BY <2>1 DEF Resting, Holding
  <2>3. Kept(T, [P EXCEPT ![p] = l], [B EXCEPT ![p] = b], D, K, b)
    BY <1>1, <2>2, KeptMine
  <2>4. \A r \in Proc : P[r] = "replace" => B[r] # b
    BY <1>1, <2>1, StepSets DEF Places
  <2> QED BY <1>1, <2>1, <2>2, <2>3, <2>4, UnlostStep
<1>6. CASE Renames(S, T, P, B, p, l, b)
  <2>1. P[p] = "replaced" /\ l = "read" /\ b = B[p] /\ Edit(S, T, p, b)
    BY <1>6 DEF Renames
  <2>2. /\ P[p] # "read" /\ P[p] \notin Holding /\ l \in Holding \cup {"read"}
        /\ l # "replace" /\ P[p] \in WithBuffer /\ P[p] \notin Waiting
    BY <2>1 DEF Holding, WithBuffer, PC, Waiting
  <2>3. Kept(T, [P EXCEPT ![p] = l], [B EXCEPT ![p] = b], D, K, b)
    BY <1>1, <2>2, KeptMine
  <2>4. b \in Buffer /\ Pinned(S, p, b)
    BY <1>1, <2>1, <2>2 DEF Places
  <2>5. \A r \in Proc \ {p} : P[r] = "replace" => B[r] # b
    BY <1>1, <2>2, <2>4, NoOther
  <2> QED BY <1>1, <2>1, <2>2, <2>3, <2>5, UnlostStep
<1>7. CASE Settles(S, T, P, B, p, l, b)
  <2>1. PICK c : c = B[p]
    OBVIOUS
  <2>2. /\ Edit(S, T, p, c) /\ P[p] \in WithBuffer /\ P[p] \notin Waiting
        /\ P[p] # "read" /\ l # "replace" /\ T.tag[c] = S.tag[c]
        /\ P[p] \in {"readdone", "replaced", "modified", "flushed"}
    BY <1>1, <1>7, <2>1 DEF Settles, Faultless, WithBuffer, PC, Waiting
  <2>3. c \in Buffer /\ Pinned(S, p, c)
    BY <1>1, <2>1, <2>2 DEF Places
  <2>4. \A r \in Proc \ {p} : P[r] = "replace" => B[r] # c
    BY <1>1, <2>2, <2>3, NoOther
  <2>5. Kept(S, P, B, D, K, c)
    BY <2>3 DEF Unlost
  <2>6. Kept(T, [P EXCEPT ![p] = l], [B EXCEPT ![p] = b], D, K, c)
    <3>1. CASE P[p] = "modified" /\ l = "idle"
      <4>1. Fl(T, c) = Fl(S, c) \cup Dirtied
        BY <1>7, <2>1, <3>1 DEF Settles
      <4>2. Dirtied \subseteq Fl(T, c)
        BY <4>1
      <4> QED BY <4>2 DEF Kept
    <3>2. CASE P[p] = "modified" /\ l = "flush"
      <4>1. b = c /\ l \in Holding \cup {"read"}
        BY <1>7, <2>1, <3>2 DEF Settles, Holding
      <4> QED BY <1>1, <4>1, KeptMine
    <3>3. CASE P[p] \in {"readdone", "replaced", "flushed"}
      <4>1. P[p] \notin Holding
        BY <3>3 DEF Holding
      <4>2. P[p] = "replaced" => "JUST_DIRTIED" \notin Fl(S, c)
        BY <1>1, <2>1, StepSets DEF Owned, Owns, WithVictim
      <4>3. \/ Fl(T, c) = Fl(S, c) \ {"IO_ERROR", "IO_IN_PROGRESS"}
            \/ /\ P[p] = "replaced"
               /\ Fl(T, c) = Fl(S, c) \ {"DIRTY", "IO_IN_PROGRESS"}
            \/ Fl(T, c) = Fl(S, c) \ (IF "JUST_DIRTIED" \in S.flags[c]
                                      THEN {} ELSE {"DIRTY"})
        BY <1>7, <2>1, <3>3 DEF Settles
      <4>4. /\ "DELETED" \in Fl(S, c) => "DELETED" \in Fl(T, c)
            /\ Dirtied \subseteq Fl(S, c) => Dirtied \subseteq Fl(T, c)
        BY <4>2, <4>3 DEF Dirtied, Fl
      <4> QED BY <1>1, <2>2, <2>5, <4>1, <4>4, KeptSame
    <3> QED BY <1>7, <2>2, <3>1, <3>2, <3>3 DEF Settles
  <2> QED BY <1>1, <2>1, <2>2, <2>4, <2>6, UnlostStep
<1>8. CASE Forgets(S, T, P, p, l)
  BY <1>8 DEF Forgets
<1> QED BY <1>2, <1>3, <1>4, <1>5, <1>6, <1>7, <1>8 DEF Kind

-----------------------------------------------------------------------------
(* Callers take turns extending: the block one asks for is the next one.   *)

OneExtends ==
  /\ \A p \in Proc : pc[p] = "extend" => ext[p]
  /\ \A p, q \in Proc : ext[p] /\ ext[q] => p = q
  /\ \A p \in Proc : ext[p] /\ pc[p] # "readdone" => want[p] = nblocks

\* How a step may leave a request for P_NEW.
ExtGoto(p, l, t, e) ==
  /\ \E b : Goto(p, l, b, t, e)
  /\ l = "extend" => e
  /\ nblocks' = nblocks \/ ext[p]
  /\ \/ ~e
     \/ /\ e /\ ext[p] /\ t = want[p] /\ pc[p] # "readdone"
        /\ nblocks' = nblocks \/ l = "readdone"
     \/ e /\ (\A q \in Proc : ~ext[q]) /\ t = nblocks /\ nblocks' = nblocks

ExtStep(p) ==
  UNCHANGED <<pc, want, ext, nblocks>> \/ \E l, t, e : ExtGoto(p, l, t, e)

LEMMA OneExtendsStep ==
  ASSUME IInv, OneExtends, NEW p \in Proc, ExtStep(p)
  PROVE  OneExtends'
<1>0. pc \in [Proc -> PC] /\ want \in [Proc -> Block \cup {NoBlock}]
      /\ ext \in [Proc -> BOOLEAN]
  BY DEF IInv, TypeOK
<1>1. CASE UNCHANGED <<pc, want, ext, nblocks>>
  BY <1>1 DEF OneExtends
<1>2. ASSUME NEW l, NEW t, NEW e, ExtGoto(p, l, t, e) PROVE OneExtends'
  <2>1. /\ pc' = [pc EXCEPT ![p] = l] /\ want' = [want EXCEPT ![p] = t]
        /\ ext' = [ext EXCEPT ![p] = e]
    BY <1>2 DEF ExtGoto, Goto
  <2>2. /\ pc'[p] = l /\ want'[p] = t /\ ext'[p] = e
        /\ \A q \in Proc \ {p} : pc'[q] = pc[q] /\ want'[q] = want[q] /\ ext'[q] = ext[q]
    BY <1>0, <2>1
  <2>3. \A q \in Proc : pc'[q] = "extend" => ext'[q]
    BY <1>2, <2>2 DEF ExtGoto, OneExtends
  <2>4. \A q, r \in Proc : ext'[q] /\ ext'[r] => q = r
    BY <1>2, <2>2 DEF ExtGoto, OneExtends
  <2>5. \A q \in Proc : ext'[q] /\ pc'[q] # "readdone" => want'[q] = nblocks'
    BY <1>2, <2>2 DEF ExtGoto, OneExtends
  <2> QED BY <2>3, <2>4, <2>5 DEF OneExtends
<1> QED BY <1>1, <1>2 DEF ExtStep

LEMMA AllocGoto ==
  ASSUME NEW S, NEW p, NEW t, NEW e, BufferAlloc(S, p, t, e)
  PROVE  \/ Return(p)
         \/ \E l, b : Goto(p, l, b, t, e) /\ (l = "extend" => e)
<1>1. CASE Hit(S, p, t, e)
  <2>1. CASE "IO_IN_PROGRESS" \in S.flags[S.table[t]]
    <3>1. Goto(p, "waitio", S.table[t], t, e)
      BY <1>1, <2>1 DEF Hit
    <3> QED BY <3>1
  <2>2. CASE "IO_IN_PROGRESS" \notin S.flags[S.table[t]]
    <3>1. (e /\ Goto(p, "extend", S.table[t], t, e)) \/ Return(p)
      BY <1>1, <2>2 DEF Hit, Found
    <3> QED BY <3>1
  <2> QED BY <2>1, <2>2
<1>2. CASE Miss(S, p, t, e)
  <2>1. CASE TakeDirty(S, p, t, e)
    <3>1. Goto(p, "replace", S.freeNext[FreeList], t, e)
      BY <2>1 DEF TakeDirty
    <3> QED BY <3>1
  <2>2. CASE TakeClean(S, p, t, e)
    <3>1. Goto(p, "read", S.freeNext[FreeList], t, e)
      BY <2>2 DEF TakeClean
    <3> QED BY <3>1
  <2>3. CASE Exhausted(S, p)
    BY <2>3 DEF Exhausted
  <2> QED BY <1>2, <2>1, <2>2, <2>3 DEF Miss
<1> QED BY <1>1, <1>2 DEF BufferAlloc

LEMMA ReturnExt ==
  ASSUME NEW p, Return(p), nblocks' = nblocks \/ ext[p]
  PROVE  ExtStep(p)
<1>1. ExtGoto(p, "idle", NoBlock, FALSE)
  BY DEF Return, ExtGoto
<1> QED BY <1>1 DEF ExtStep

LEMMA StepExt ==
  ASSUME IInv, NEW p \in Proc, NEW l, Step(p, l), pc[p] # "readdone",
         l # "extend", nblocks' = nblocks \/ (ext[p] /\ l = "readdone")
  PROVE  ExtStep(p)
<1>1. ext[p] \in BOOLEAN
  BY DEF IInv, TypeOK
<1>2. ExtGoto(p, l, want[p], ext[p])
  <2>1. \E b : Goto(p, l, b, want[p], ext[p])
    BY DEF Step
  <2> QED BY <1>1, <2>1 DEF ExtGoto
<1> QED BY <1>2 DEF ExtStep

\* A request for block t, or for the next one.
LEMMA AllocExt ==
  ASSUME NEW S, NEW p \in Proc, NEW t, NEW e \in BOOLEAN, BufferAlloc(S, p, t, e),
         nblocks' = nblocks,
         e => \/ ext[p] /\ t = want[p] /\ pc[p] # "readdone"
              \/ (\A q \in Proc : ~ext[q]) /\ t = nblocks
  PROVE  ExtStep(p)
<1>1. CASE Return(p)
  BY <1>1, ReturnExt
<1>2. ASSUME NEW l, NEW b, Goto(p, l, b, t, e), l = "extend" => e
      PROVE  ExtStep(p)
  <2>1. ExtGoto(p, l, t, e)
    BY <1>2 DEF ExtGoto
  <2> QED BY <2>1 DEF ExtStep
<1> QED BY <1>1, <1>2, AllocGoto

LEMMA CallExt ==
  ASSUME IInv, ExtendLock, NEW p \in Proc, Call(p)
  PROVE  ExtStep(p)
<1>0. FALSE \in BOOLEAN
  BY Zenon
<1>1. ASSUME NEW t, ReadBuffer(p, t) PROVE ExtStep(p)
  BY <1>0, <1>1, AllocExt DEF ReadBuffer
<1>2. CASE ReadBufferNew(p)
  <2>1. ExtGoto(p, "alloc", nblocks, TRUE)
    BY <1>2 DEF ReadBufferNew, MayExtend, ExtGoto
  <2> QED BY <2>1 DEF ExtStep
<1>3. CASE BufferSync(p)
  <2>1. nblocks' = nblocks /\ SyncScan(pool, p, 0)
    BY <1>3 DEF BufferSync
  <2>2. \/ Return(p)
        \/ \E b : Goto(p, "syncwait", b, NoBlock, FALSE)
        \/ \E b : Goto(p, "syncwrite", b, NoBlock, FALSE)
    BY <2>1 DEF SyncScan
  <2>3. \/ Return(p) \/ ExtGoto(p, "syncwait", NoBlock, FALSE)
        \/ ExtGoto(p, "syncwrite", NoBlock, FALSE)
    BY <2>1, <2>2 DEF ExtGoto
  <2> QED BY <2>1, <2>3, ReturnExt DEF ExtStep
<1>4. CASE BufferRefCountReset(p) \/ BufferRefCountRestore(p) \/ DropBuffers(p)
  BY <1>4 DEF BufferRefCountReset, BufferRefCountRestore, DropBuffers, ExtStep
<1>5. CASE ResetBufferPool(p)
  <2>1. ExtGoto(p, "reset", NoBlock, FALSE)
    BY <1>5 DEF ResetBufferPool, ExtGoto
  <2> QED BY <2>1 DEF ExtStep
<1>6. ASSUME NEW b, NEW t, RelationGetBufferWithBuffer(p, b, t) PROVE ExtStep(p)
  BY <1>0, <1>6, AllocExt DEF RelationGetBufferWithBuffer
<1>7. ASSUME NEW b, NEW t, NEW e \in BOOLEAN, ReleaseAndReadBuffer(p, b, t, e)
      PROVE  ExtStep(p)
  <2>1. /\ \E S : BufferAlloc(S, p, t, e)
        /\ nblocks' = nblocks
        /\ e => (\A q \in Proc : ~ext[q]) /\ t = nblocks
    BY <1>7 DEF ReleaseAndReadBuffer, MayExtend
  <2> QED BY <2>1, AllocExt
<1>8. ASSUME NEW b, NEW t, NEW e \in BOOLEAN, UnpinAndReadBuffer(p, b, t, e)
      PROVE  ExtStep(p)
  <2>1. ExtGoto(p, "alloc", t, e)
    BY <1>8 DEF UnpinAndReadBuffer, MayExtend, ExtGoto
  <2> QED BY <2>1 DEF ExtStep
<1>9. ASSUME NEW b, IncrBufferRefCount(p, b) \/ Release(p, b) PROVE ExtStep(p)
  BY <1>9 DEF IncrBufferRefCount, Release, ExtStep
<1>10. ASSUME NEW b, NEW v, Modify(p, b, v) PROVE ExtStep(p)
  <2>1. ExtGoto(p, "modified", NoBlock, FALSE)
    BY <1>10 DEF Modify, ExtGoto
  <2> QED BY <2>1 DEF ExtStep
<1> QED BY <1>1, <1>2, <1>3, <1>4, <1>5, <1>6, <1>7, <1>8, <1>9, <1>10 DEF Call

LEMMA ProgressExt ==
  ASSUME IInv, OneExtends, NEW p \in Proc, Progress(p)
  PROVE  ExtStep(p)
<1>0. ext[p] \in BOOLEAN
  BY DEF IInv, TypeOK
<1>1. CASE Alloc(p) \/ ReplacedPinned(p) \/ ReplaceFailed(p)
  <2>1. /\ \E S : BufferAlloc(S, p, want[p], ext[p])
        /\ nblocks' = nblocks /\ pc[p] # "readdone"
    BY <1>1 DEF Alloc, ReplacedPinned, ReplaceFailed
  <2> QED BY <1>0, <2>1, AllocExt
<1>2. CASE ReplacedRaced(p)
  <2>1. /\ \E S : BufferAlloc(S, p, want[p], ext[p])
        /\ nblocks' = nblocks /\ pc[p] # "readdone"
    BY <1>2 DEF ReplacedRaced, BufferAlloc
  <2> QED BY <1>0, <2>1, AllocExt
<1>3. CASE Waited(p)
  <2>1. nblocks' = nblocks /\ pc[p] = "waited"
    BY <1>3 DEF Waited
  <2>2. Step(p, "read") \/ Return(p) \/ (ext[p] /\ \E b : Goto(p, "extend", b, want[p], ext[p]))
    BY <1>3 DEF Waited, Found
  <2>3. CASE Step(p, "read")
    BY <2>1, <2>3, StepExt
  <2>4. CASE Return(p)
    BY <2>1, <2>4, ReturnExt
  <2>5. CASE ext[p] /\ \E b : Goto(p, "extend", b, want[p], ext[p])
    <3>1. ExtGoto(p, "extend", want[p], ext[p])
      BY <2>1, <2>5 DEF ExtGoto
    <3> QED BY <3>1 DEF ExtStep
  <2> QED BY <2>2, <2>3, <2>4, <2>5
<1>4. CASE WaitIO(p)
  <2>1. nblocks' = nblocks /\ pc[p] # "readdone"
        /\ (Step(p, "waited") \/ Step(p, "syncwaited"))
    BY <1>4 DEF WaitIO
  <2> QED BY <2>1, StepExt
<1>5. CASE ReadBlock(p) \/ ReadBlockFails(p) \/ ExtendBlock(p) \/ ExtendBlockFails(p)
  <2>1. /\ pc[p] = "read"
        /\ \/ nblocks' = nblocks /\ (Step(p, "readdone") \/ Step(p, "readfail"))
           \/ ext[p] /\ Step(p, "readdone")
    BY <1>5 DEF ReadBlock, ReadBlockFails, ExtendBlock, ExtendBlockFails
  <2> QED BY <2>1, StepExt
<1>6. CASE \/ ReadDone(p) \/ ReadFailed(p) \/ ExtendFoundFails(p) \/ SyncWrite(p)
           \/ WriteBuffer(p) \/ WriteNoReleaseBuffer(p)
           \/ FlushedRelease(p) \/ FlushedNoRelease(p)
  <2>1. Return(p) /\ nblocks' = nblocks
    BY <1>6 DEF ReadDone, ReadFailed, ExtendFoundFails, SyncWrite, WriteBuffer,
                WriteNoReleaseBuffer, FlushedRelease, FlushedNoRelease
  <2> QED BY <2>1, ReturnExt
<1>7. CASE ExtendFound(p)
  <2>1. Return(p) /\ ext[p]
    BY <1>7 DEF ExtendFound, OneExtends
  <2> QED BY <2>1, ReturnExt
<1>8. CASE WriteBlock(p) \/ WriteBlockFails(p)
  <2>1. /\ nblocks' = nblocks /\ pc[p] \in {"replace", "flush"}
        /\ \/ Step(p, "replaced") \/ Step(p, "flushed") \/ Step(p, "replfail")
           \/ Return(p)
    BY <1>8 DEF WriteBlock, WriteBlockFails
  <2> QED BY <2>1, StepExt, ReturnExt
<1>9. CASE ReplacedMine(p) \/ FlushBuffer(p)
  <2>1. /\ nblocks' = nblocks /\ pc[p] # "readdone"
        /\ Step(p, "read") \/ Step(p, "flush")
    BY <1>9 DEF ReplacedMine, FlushBuffer
  <2> QED BY <2>1, StepExt
<1>10. CASE SyncWaited(p)
  <2>1. nblocks' = nblocks /\ \E S, i : SyncScan(S, p, i)
    BY <1>10 DEF SyncWaited
  <2>2. \/ Return(p)
        \/ \E b : Goto(p, "syncwait", b, NoBlock, FALSE)
        \/ \E b : Goto(p, "syncwrite", b, NoBlock, FALSE)
    BY <2>1 DEF SyncScan
  <2>3. \/ Return(p) \/ ExtGoto(p, "syncwait", NoBlock, FALSE)
        \/ ExtGoto(p, "syncwrite", NoBlock, FALSE)
    BY <2>1, <2>2 DEF ExtGoto
  <2> QED BY <2>1, <2>3, ReturnExt DEF ExtStep
<1>11. CASE ResetRelease(p)
  <2>1. nblocks' = nblocks /\ (Return(p) \/ UNCHANGED <<pc, buf, want, ext>>)
    BY <1>11 DEF ResetRelease
  <2> QED BY <2>1, ReturnExt DEF ExtStep
<1> QED BY <1>1, <1>2, <1>3, <1>4, <1>5, <1>6, <1>7, <1>8, <1>9, <1>10, <1>11
        DEF Progress

-----------------------------------------------------------------------------
(* What an I/O does to the pages, and what a caller's change does.         *)

Changes(p, l, x, v) ==
  /\ pc[p] = "idle" /\ l = "modified" /\ pool.tag[x] \in 0 .. nblocks - 1
  /\ data' = [data EXCEPT ![x] = v] /\ disk' = disk /\ nblocks' = nblocks

Loads(p, l, x) ==
  /\ pc[p] = "read" /\ l = "readdone" /\ buf[p] = x
  /\ data' = [data EXCEPT ![x] = disk[pool.tag[x]]]
  /\ disk' = disk /\ nblocks' = nblocks

Grows(p, l, x) ==
  /\ \/ pc[p] = "read" /\ l = "readdone"
     \/ pc[p] = "extend" /\ l = "idle"
  /\ buf[p] = x /\ pool.tag[x] = nblocks
  /\ data' = [data EXCEPT ![x] = Zero]
  /\ disk' = [disk EXCEPT ![nblocks] = Zero] /\ nblocks' = nblocks + 1

Stores(p, l, x) ==
  /\ pc[p] \in {"replace", "flush", "syncwrite"}
  /\ l \in {"replaced", "flushed", "idle"} /\ buf[p] = x
  /\ disk' = [disk EXCEPT ![pool.tag[x]] = data[x]]
  /\ data' = data /\ nblocks' = nblocks

Touches(p, l, b, x) ==
  /\ pool' = pool /\ Goes(p, l, b)
  /\ \/ b = x /\ \E v \in Data : Changes(p, l, x, v)
     \/ Loads(p, l, x) \/ Grows(p, l, x) \/ Stores(p, l, x)

LEMMA IOTouches ==
  ASSUME Faults = {}, IInv, OneExtends, NEW p \in Proc, IOAction(p)
  PROVE  \E l \in PC, b \in Buffer \cup {NoBuffer}, x \in Buffer :
           Touches(p, l, b, x) /\ pool.priv[p][x] > 0
<1>0. /\ At(pool, p, pc[p], buf[p], want[p]) /\ buf[p] \in Buffer \cup {NoBuffer}
      /\ pool.priv[p] \in [Buffer -> Nat] /\ lost[p] \in [Buffer -> Nat]
  BY InvFacts DEF TypeOK
<1>1. ASSUME NEW x \in Buffer, NEW v \in Data, Modify(p, x, v)
      PROVE  Touches(p, "modified", x, x) /\ pool.priv[p][x] > 0 /\ "modified" \in PC
  <2>1. pool.priv[p][x] > 0
    BY <1>0, <1>1 DEF Modify, Held
  <2>2. Goes(p, "modified", x) /\ Changes(p, "modified", x, v) /\ pool' = pool
    BY <1>1 DEF Modify, Goes, Goto, Changes
  <2> QED BY <2>1, <2>2 DEF Touches, PC
<1>2. CASE pc[p] # "idle"
  <2>0. pc[p] \in {"read", "extend", "replace", "flush", "syncwrite"}
    BY <1>2 DEF IOAction, Modify, ReadBlock, ReadBlockFails, ExtendBlock,
                ExtendBlockFails, ExtendFound, ExtendFoundFails, WriteBlock,
                WriteBlockFails, SyncWrite
  <2>1. PICK x : x = buf[p]
    OBVIOUS
  <2>2. /\ x \in Buffer /\ pool.priv[p][x] > 0
        /\ pc[p] \in {"read", "extend"} => pool.tag[x] = want[p]
    BY <1>0, <2>0, <2>1 DEF At, WithBuffer, PC, Named
  <2>3. CASE ReadBlock(p)
    <3>1. Goes(p, "readdone", x) /\ Loads(p, "readdone", x) /\ pool' = pool
      BY <2>0, <2>1, <2>2, <2>3 DEF ReadBlock, Goes, Step, Goto, Loads
    <3>2. Touches(p, "readdone", x, x) /\ "readdone" \in PC
      BY <3>1 DEF Touches, PC
    <3> QED BY <2>2, <3>2
  <2>4. CASE ExtendBlock(p)
    <3>1. Goes(p, "readdone", x) /\ Grows(p, "readdone", x) /\ pool' = pool
      BY <2>0, <2>1, <2>2, <2>4
         DEF ExtendBlock, AppendBlock, Written, Goes, Step, Goto, Grows, OneExtends
    <3>2. Touches(p, "readdone", x, x) /\ "readdone" \in PC
      BY <3>1 DEF Touches, PC
    <3> QED BY <2>2, <3>2
  <2>5. CASE ExtendFound(p)
    <3>1. Goes(p, "idle", NoBuffer) /\ Grows(p, "idle", x) /\ pool' = pool
      BY <2>0, <2>1, <2>2, <2>5
         DEF ExtendFound, AppendBlock, Written, Goes, Return, Goto, Grows, OneExtends
    <3>2. Touches(p, "idle", NoBuffer, x) /\ "idle" \in PC
      BY <3>1 DEF Touches, PC
    <3> QED BY <2>2, <3>2
  <2>6. CASE WriteBlock(p)
    <3>1. PICK l \in {"replaced", "flushed"} : Step(p, l)
      BY <2>6 DEF WriteBlock
    <3>2. Goes(p, l, x) /\ Stores(p, l, x) /\ pool' = pool
      BY <2>1, <2>2, <2>6, <3>1 DEF WriteBlock, Written, Goes, Step, Goto, Stores
    <3>3. Touches(p, l, x, x) /\ l \in PC
      BY <3>1, <3>2 DEF Touches, PC
    <3> QED BY <2>2, <3>3
  <2>7. CASE SyncWrite(p)
    <3>1. Goes(p, "idle", NoBuffer) /\ Stores(p, "idle", x) /\ pool' = pool
      BY <2>1, <2>2, <2>7 DEF SyncWrite, Written, Goes, Return, Goto, Stores
    <3>2. Touches(p, "idle", NoBuffer, x) /\ "idle" \in PC
      BY <3>1 DEF Touches, PC
    <3> QED BY <2>2, <3>2
  <2>8. CASE \/ ReadBlockFails(p) \/ ExtendBlockFails(p) \/ ExtendFoundFails(p)
             \/ WriteBlockFails(p)
    BY <2>8 DEF ReadBlockFails, ExtendBlockFails, ExtendFoundFails, WriteBlockFails
  <2>9. \A b, v : ~Modify(p, b, v)
    BY <1>2 DEF Modify
  <2> QED BY <2>3, <2>4, <2>5, <2>6, <2>7, <2>8, <2>9, Zenon DEF IOAction
<1>3. CASE pc[p] = "idle"
  <2>1. \E x \in Buffer, v \in Data : Modify(p, x, v)
    BY <1>3 DEF IOAction, ReadBlock, ReadBlockFails, ExtendBlock,
                ExtendBlockFails, ExtendFound, ExtendFoundFails, WriteBlock,
                WriteBlockFails, SyncWrite
  <2> QED BY <1>1, <2>1
<1> QED BY <1>2, <1>3

\* A page in hand is not read into, and the others have other names.
LEMMA InHand ==
  ASSUME Faults = {}, LiveInv, NEW p \in Proc, NEW x \in Buffer, pool.priv[p][x] > 0
  PROVE  /\ "DELETED" \notin Fl(pool, x) /\ pool.tag[x] \in Block
         /\ pool.table[pool.tag[x]] = x
         /\ \A y \in Buffer \ {x} : "DELETED" \notin Fl(pool, y) =>
              pool.tag[y] \in Block /\ pool.tag[y] # pool.tag[x]
         /\ pc[p] \notin Waiting => \A r \in Proc \ {p} : ~(buf[r] = x /\ pc[r] = "read")
<1>1. Good(pool) /\ Live(pool) /\ Owned(pool, pc, buf) /\ TableExact(pool)
  BY InvFacts DEF LiveInv, IOInv, IOState, Good
<1>2. Pinned(pool, p, x)
  BY <1>1, PrivPinned
<1>3. "DELETED" \notin pool.flags[x]
  BY <1>1, <1>2 DEF Live, Fl
<1>4. pool.tag[x] \in Block /\ pool.table[pool.tag[x]] = x
  BY <1>1, <1>3 DEF TableExact
<1>5. \A y \in Buffer \ {x} : "DELETED" \notin Fl(pool, y) =>
        pool.tag[y] \in Block /\ pool.tag[y] # pool.tag[x]
  BY <1>1, <1>4 DEF TableExact, Fl
<1>6. pc[p] \notin Waiting => \A r \in Proc \ {p} : ~(buf[r] = x /\ pc[r] = "read")
  BY <1>1, <1>2, NoOther DEF Owning, IOSteps
<1> QED BY <1>3, <1>4, <1>5, <1>6 DEF Fl

LEMMA UnlostIO ==
  ASSUME Faults = {}, LiveInv, Unlost(pool, pc, buf, data, disk), NEW p \in Proc,
         NEW l \in PC, NEW b \in Buffer \cup {NoBuffer}, NEW x \in Buffer,
         Touches(p, l, b, x), pool.priv[p][x] > 0
  PROVE  Unlost(pool', pc', buf', data', disk')
<1>0. /\ pc \in [Proc -> PC] /\ buf \in [Proc -> Buffer \cup {NoBuffer}]
      /\ data \in [Buffer -> Data] /\ disk \in [Block -> Data]
  BY DEF LiveInv, IOInv, IInv, TypeOK
<1>1. /\ pool.tag[x] \in Block
      /\ \A y \in Buffer \ {x} : "DELETED" \notin Fl(pool, y) =>
           pool.tag[y] \in Block /\ pool.tag[y] # pool.tag[x]
  BY InHand
<1>2. /\ pool' = pool /\ pc'[p] = l /\ buf'[p] = b
      /\ \A q \in Proc \ {p} : pc'[q] = pc[q] /\ buf'[q] = buf[q]
  BY <1>0 DEF Touches, Goes
<1>3. /\ pc[p] \in Holding \cup {"read"} => buf[p] = x
      /\ l # "replace"
  BY DEF Touches, Changes, Loads, Grows, Stores, Holding
<1>4. \A y \in Buffer \ {x} : data'[y] = data[y]
  BY <1>0 DEF Touches, Changes, Loads, Grows, Stores
<1>5. \A t \in Block \ {pool.tag[x]} : disk'[t] = disk[t]
  BY <1>0, <1>1 DEF Touches, Changes, Loads, Grows, Stores
<1>6. ASSUME NEW y \in Buffer \ {x} PROVE Kept(pool, pc', buf', data', disk', y)
  <2>1. Kept(pool, pc, buf, data, disk, y)
    BY DEF Unlost
  <2>2. Rd(pc, buf, y) => Rd(pc', buf', y)
    BY <1>2, <1>3 DEF Rd
  <2>3. Keeps(pc, buf, y) => Keeps(pc', buf', y)
    BY <1>2, <1>3 DEF Keeps
  <2>4. "DELETED" \notin Fl(pool, y) => disk'[pool.tag[y]] = disk[pool.tag[y]]
    BY <1>1, <1>5
  <2> QED BY <1>4, <2>1, <2>2, <2>3, <2>4 DEF Kept
<1>7. Kept(pool, pc', buf', data', disk', x)
  <2>1. CASE \E v \in Data : Changes(p, l, x, v) /\ b = x
    <3>1. Keeps(pc', buf', x)
      BY <1>2, <2>1 DEF Changes, Keeps, Holding
    <3> QED BY <3>1 DEF Kept
  <2>2. CASE Loads(p, l, x) \/ Grows(p, l, x) \/ Stores(p, l, x)
    <3>1. data'[x] = disk'[pool.tag[x]]
      BY <1>0, <1>1, <2>2 DEF Loads, Grows, Stores
    <3> QED BY <3>1 DEF Kept
  <2> QED BY <2>1, <2>2 DEF Touches
<1>8. DirtyVictims(pool, pc', buf')
  BY <1>2, <1>3 DEF Unlost, DirtyVictims
<1> QED BY <1>2, <1>6, <1>7, <1>8 DEF Unlost

-----------------------------------------------------------------------------
(* No change is lost.                                                      *)

\* One step of p, from where it is known that no change is lost.
LEMMA UnlostNext ==
  ASSUME Faults = {}, "drop" \notin Calls, LiveInv, OneExtends,
         Unlost(pool, pc, buf, data, disk), NEW p \in Proc, Decomposed(p)
  PROVE  Unlost(pool', pc', buf', data', disk')
<1>0. /\ Cached(pool, pc, buf) /\ IInv
      /\ pc \in [Proc -> PC] /\ buf \in [Proc -> Buffer \cup {NoBuffer}]
  BY DEF LiveInv, IOInv, IOState, Cached, IInv, TypeOK
<1>1. CASE UNCHANGED <<pool, pc, buf, data, disk, nblocks>>
  BY <1>1
<1>2. CASE data' = data /\ disk' = disk /\ GoesOn(pool, pc, buf, p)
  <2>1. PICK l, b : Kind(pool, pool', pc, buf, p, l, b) /\ Goes(p, l, b)
    BY <1>2 DEF GoesOn
  <2> QED BY <1>0, <1>2, <2>1, UnlostKind DEF Goes
<1>3. ASSUME data' = data, disk' = disk,
             NEW T, NEW m, Kind(pool, T, pc, buf, p, m, NoBuffer),
             GoesOn(T, [pc EXCEPT ![p] = m], [buf EXCEPT ![p] = NoBuffer], p)
      PROVE  Unlost(pool', pc', buf', data', disk')
  <2>1. PICK Q : Q = [pc EXCEPT ![p] = m]
    OBVIOUS
  <2>2. PICK C : C = [buf EXCEPT ![p] = NoBuffer]
    OBVIOUS
  <2>3. PICK l, b : Kind(T, pool', Q, C, p, l, b) /\ Goes(p, l, b)
    BY <1>3, <2>1, <2>2 DEF GoesOn
  <2>4. Cached(T, Q, C) /\ Unlost(T, Q, C, data, disk)
    BY <1>0, <1>3, <2>1, <2>2, CachedKind, UnlostKind
  <2>5. Unlost(pool', [Q EXCEPT ![p] = l], [C EXCEPT ![p] = b], data, disk)
    BY <2>3, <2>4, UnlostKind
  <2>6. [Q EXCEPT ![p] = l] = pc' /\ [C EXCEPT ![p] = b] = buf'
    BY <1>0, <2>1, <2>2, <2>3, TwoSteps, TwoBuffers DEF Goes
  <2> QED BY <1>3, <2>5, <2>6
<1>4. CASE IOAction(p)
  BY <1>0, <1>4, IOTouches, UnlostIO
<1> QED BY <1>1, <1>2, <1>3, <1>4, Zenon DEF Decomposed

StoreInv == LiveInv /\ OneExtends /\ Unlost(pool, pc, buf, data, disk)

LEMMA StoreInit == Init => StoreInv
<1> SUFFICES ASSUME Init PROVE StoreInv
  OBVIOUS
<1>1. LiveInv
  BY LiveInit
<1>2. \A p \in Proc : pc[p] = "idle" /\ ~ext[p]
  BY DEF Init
<1>3. \A b \in Buffer : "DELETED" \in Fl(pool, b)
  BY DEF Init, InitPool, Fl
<1> QED BY <1>1, <1>2, <1>3 DEF StoreInv, OneExtends, Unlost, Kept, DirtyVictims

LEMMA StoreNext ==
  ASSUME Faults = {}, ExtendLock, "drop" \notin Calls
  PROVE  StoreInv /\ [Next]_vars => StoreInv'
<1> SUFFICES ASSUME StoreInv, [Next]_vars PROVE StoreInv'
  OBVIOUS
<1>1. LiveInv'
  BY LiveInvNext DEF StoreInv
<1>2. CASE UNCHANGED vars
  BY <1>1, <1>2 DEF vars, StoreInv, OneExtends
<1>3. ASSUME NEW p \in Proc, Call(p) \/ Progress(p) PROVE StoreInv'
  <2>1. IInv /\ LiveInv /\ OneExtends /\ Unlost(pool, pc, buf, data, disk)
    BY DEF StoreInv, LiveInv, IOInv
  <2>2. Decomposed(p)
    BY <1>3, <2>1, Decompose
  <2>3. Unlost(pool', pc', buf', data', disk')
    BY <2>1, <2>2, UnlostNext
  <2>4. OneExtends'
    BY <1>3, <2>1, CallExt, ProgressExt, OneExtendsStep
  <2> QED BY <1>1, <2>3, <2>4 DEF StoreInv
<1> QED BY <1>2, <1>3 DEF Next

THEOREM StoreInvariance ==
  Faults = {} /\ ExtendLock /\ "drop" \notin Calls => (Spec => []StoreInv)
<1> SUFFICES ASSUME Faults = {}, ExtendLock, "drop" \notin Calls
             PROVE  Spec => []StoreInv
  OBVIOUS
<1>1. StoreInv /\ [Next]_vars => StoreInv'
  BY StoreNext
<1> QED BY <1>1, StoreInit, PTL DEF Spec

\* While no I/O fails, callers take turns extending, and the database is not
\* being destroyed, a cached page that differs from the file is marked dirty,
\* or a backend that has it pinned is about to mark or write it: a buffer that
\* BufferAlloc takes over without writing it holds nothing new.  BM_DIRTY is
\* cleared only when BM_JUST_DIRTIED shows that no one changed the page since.
THEOREM NothingIsLost ==
  Faults = {} /\ ExtendLock /\ "drop" \notin Calls => (Spec => []NothingLost)
<1> SUFFICES ASSUME Faults = {}, ExtendLock, "drop" \notin Calls
             PROVE  Spec => []NothingLost
  OBVIOUS
<1>1. ASSUME StoreInv PROVE NothingLost
  <2>1. Unlost(pool, pc, buf, data, disk)
    BY <1>1 DEF StoreInv
  <2> SUFFICES ASSUME NEW b \in Buffer, "DELETED" \notin pool.flags[b], ~Reading(b)
               PROVE  Saved(b) \/ "DIRTY" \in pool.flags[b] \/ Pending(b)
    BY DEF NothingLost
  <2>2. Saved(b) \/ Dirtied \subseteq Fl(pool, b) \/ Keeps(pc, buf, b)
    BY <2>1 DEF Unlost, Kept, Fl, Reading, Rd, Saved
  <2>3. ASSUME Keeps(pc, buf, b) PROVE "DIRTY" \in pool.flags[b] \/ Pending(b)
    <3>1. PICK p \in Proc : buf[p] = b /\ pc[p] \in Holding
      BY <2>3 DEF Keeps
    <3>2. CASE pc[p] = "replace"
      BY <2>1, <3>1, <3>2 DEF Unlost, DirtyVictims, Fl
    <3>3. CASE pc[p] # "replace"
      BY <3>1, <3>3 DEF Holding, Pending
    <3> QED BY <3>2, <3>3
  <2> QED BY <2>2, <2>3 DEF Dirtied, Fl
<1> QED BY <1>1, StoreInvariance, PTL

-----------------------------------------------------------------------------
(* The pool is transparent.                                                *)

\* View and Editing, where P, B and S say where the backends and pages are.
ViewOf(S, P, B, D, K) ==
  [t \in Block |-> IF S.table[t] # NoBuffer /\ ~Rd(P, B, S.table[t])
                   THEN D[S.table[t]] ELSE K[t]]

EditsOf(S, P, B) ==
  [p \in Proc |-> IF P[p] = "modified" THEN S.tag[B[p]] ELSE NoBlock]

\* p starts to read into b under a new name; what b held is in the file.
Fresh(S, T, P, B, D, K, p, b) ==
  /\ b \in Buffer /\ Edit(S, T, p, b) /\ T.tag[b] \in Block
  /\ S.table[T.tag[b]] = NoBuffer /\ "DELETED" \notin Fl(T, b)
  /\ ~Rd(P, B, b) /\ (\A q \in Proc \ {p} : ~Pinned(S, q, b))
  /\ "DELETED" \in Fl(S, b) \/ D[b] = K[S.tag[b]]

\* No buffer gets another name, and none leaves or enters the table.
Still(S, T) ==
  \A x \in Buffer : /\ T.tag[x] = S.tag[x]
                    /\ "DELETED" \in Fl(T, x) <=> "DELETED" \in Fl(S, x)

LEMMA NamesKind ==
  ASSUME Faults = {}, NEW S, NEW T, NEW P, NEW B, NEW D, NEW K,
         Cached(S, P, B), Unlost(S, P, B, D, K), NEW p \in Proc, NEW l, NEW b,
         Kind(S, T, P, B, p, l, b)
  PROVE  /\ P[p] # "read" /\ l # "modified"
         /\ \/ l # "read" /\ Still(S, T)
            \/ l = "read" /\ Fresh(S, T, P, B, D, K, p, b)
<1>1. Owned(S, P, B) /\ Faultless(S, P, B) /\ Live(S) /\ Places(S, P, B)
      /\ "read" \in Owning
  BY DEF Cached, Owned, Owning, IOSteps
<1>2. CASE Rests(S, T, P, p, l)
  <2>1. \A x \in Buffer : x # NoBuffer
    BY SlotFacts
  <2> QED BY <1>2, <2>1 DEF Rests, Resting, Edit, Still
<1>3. CASE Wakes(S, T, P, B, p, l, b)
  <2>1. P[p] \in Waiting \cup {"waited"} /\ b = B[p] /\ T = S
    BY <1>3 DEF Wakes
  <2>2. B[p] \in Buffer
    BY <1>1, <2>1, StepSets DEF Places, WithBuffer, PC
  <2>3. "IO_ERROR" \notin S.flags[B[p]]
    BY <1>1, <2>2 DEF Faultless, Fl
  <2> QED BY <1>3, <2>1, <2>3 DEF Wakes, Waiting, Still
<1>4. CASE Pins(S, T, P, p, l, b)
  <2>1. PICK x \in Buffer :
          /\ P[p] \in Resting /\ Edit(S, T, p, x) /\ T.tag[x] = S.tag[x]
          /\ l \in Waiting \cup {"idle", "extend", "syncwrite"}
          /\ Fl(T, x) = Fl(S, x) \/ Fl(T, x) = Fl(S, x) \ {"JUST_DIRTIED"}
    BY <1>4 DEF Pins
  <2>2. P[p] # "read" /\ l # "modified" /\ l # "read"
    BY <2>1 DEF Resting, Waiting
  <2> QED BY <2>1, <2>2 DEF Edit, Still
<1>5. CASE Takes(S, T, P, p, l, b)
  <2>1. /\ P[p] \in Resting /\ b \in Buffer /\ Edit(S, T, p, b)
        /\ \A q \in Proc : ~Pinned(S, q, b)
        /\ l \in {"replace", "read"}
    BY <1>5 DEF Takes, Pinned
  <2>2. P[p] # "read" /\ l # "modified"
    BY <2>1 DEF Resting
  <2>3. CASE l = "replace"
    <3>1. /\ T.tag[b] = S.tag[b]
          /\ Fl(T, b) = (Fl(S, b) \cup {"IO_IN_PROGRESS"}) \ {"JUST_DIRTIED"}
      BY <1>5, <2>3 DEF Takes
    <3> QED BY <2>1, <2>2, <2>3, <3>1 DEF Edit, Still
  <2>4. CASE l = "read"
    <3>1. /\ "DIRTY" \notin S.flags[b]
          /\ S.table[T.tag[b]] = NoBuffer /\ T.tag[b] \in Block
          /\ "DELETED" \notin Fl(T, b)
      BY <1>5, <2>4 DEF Takes
    <3>2. \A q \in Proc : P[q] \in WithBuffer => B[q] # b
      BY <1>1, <2>1 DEF Places
    <3>3. ~Rd(P, B, b) /\ ~Keeps(P, B, b)
      BY <3>2 DEF Rd, Keeps, Holding, WithBuffer, PC
    <3>4. "DELETED" \in Fl(S, b) \/ D[b] = K[S.tag[b]]
      BY <2>1, <3>1, <3>3 DEF Unlost, Kept, Dirtied, Fl
    <3> QED BY <2>1, <2>2, <2>4, <3>1, <3>3, <3>4 DEF Fresh
  <2> QED BY <2>1, <2>3, <2>4
<1>6. CASE Renames(S, T, P, B, p, l, b)
  <2>1. /\ P[p] = "replaced" /\ l = "read" /\ b = B[p] /\ Edit(S, T, p, b)
        /\ \A q \in Proc \ {p} : ~Pinned(S, q, b)
        /\ S.table[T.tag[b]] = NoBuffer /\ T.tag[b] \in Block
        /\ "DELETED" \notin Fl(T, b)
    BY <1>6 DEF Renames, Pinned
  <2>2. b \in Buffer
    BY <1>1, <2>1 DEF Places, WithBuffer, PC
  <2>3. \A q \in Proc \ {p} : P[q] \in WithBuffer => B[q] # b
    BY <1>1, <2>1 DEF Places
  <2>4. ~Rd(P, B, b) /\ ~Keeps(P, B, b)
    BY <2>1, <2>3 DEF Rd, Keeps, Holding, WithBuffer, PC
  <2>5. "JUST_DIRTIED" \notin Fl(S, b)
    BY <1>1, <2>1, StepSets DEF Owned, Owns, WithVictim
  <2>6. "DELETED" \in Fl(S, b) \/ D[b] = K[S.tag[b]]
    BY <2>2, <2>4, <2>5 DEF Unlost, Kept, Dirtied
  <2> QED BY <2>1, <2>2, <2>4, <2>6 DEF Fresh
<1>7. CASE Settles(S, T, P, B, p, l, b)
  <2>1. PICK c : c = B[p]
    OBVIOUS
  <2>2. /\ Edit(S, T, p, c) /\ T.tag[c] = S.tag[c]
        /\ P[p] \in {"readdone", "replaced", "modified", "flushed"}
        /\ l \notin {"read", "modified"}
    BY <1>1, <1>7, <2>1 DEF Settles, Faultless
  <2>3. "DELETED" \in Fl(T, c) <=> "DELETED" \in Fl(S, c)
    BY <1>7, <2>1, <2>2 DEF Settles, Dirtied
  <2> QED BY <2>2, <2>3 DEF Edit, Still
<1>8. CASE Forgets(S, T, P, p, l)
  BY <1>8 DEF Forgets, Still
<1> QED BY <1>2, <1>3, <1>4, <1>5, <1>6, <1>7, <1>8 DEF Kind

LEMMA StillTable ==
  ASSUME NEW S, NEW T, Good(S), Good(T), Still(S, T), NEW t \in Block
  PROVE  T.table[t] = S.table[t]
<1>1. TableExact(S) /\ TableExact(T)
      /\ S.table[t] \in Buffer \cup {NoBuffer} /\ T.table[t] \in Buffer \cup {NoBuffer}
  BY DEF Good, Pool
<1>2. CASE S.table[t] # NoBuffer
  BY <1>1, <1>2 DEF TableExact, Still, Fl
<1>3. CASE T.table[t] # NoBuffer
  BY <1>1, <1>3 DEF TableExact, Still, Fl
<1> QED BY <1>2, <1>3

\* The users see the same pages before and after.
SamePages(S, T, P, Q, B, C, D, K) == ViewOf(T, Q, C, D, K) = ViewOf(S, P, B, D, K)

\* p is done with a change, and no one else is.
DoneBy(S, T, P, Q, B, C, p) ==
  EditsOf(T, Q, C) = [EditsOf(S, P, B) EXCEPT ![p] = NoBlock]

Seen(S, T, P, Q, B, C, D, K, p) ==
  SamePages(S, T, P, Q, B, C, D, K) /\ DoneBy(S, T, P, Q, B, C, p)

LEMMA ViewKind ==
  ASSUME Faults = {}, NEW S, NEW T, NEW P, NEW B, NEW D, NEW K, Good(S),
         Cached(S, P, B), Unlost(S, P, B, D, K), NEW p \in Proc, NEW l, NEW b,
         Kind(S, T, P, B, p, l, b), NEW Q, NEW C,
         Q = [P EXCEPT ![p] = l], C = [B EXCEPT ![p] = b]
  PROVE  SamePages(S, T, P, Q, B, C, D, K)
<1>1. P \in [Proc -> PC] /\ B \in [Proc -> Buffer \cup {NoBuffer}] /\ Good(T)
  BY DEF Cached, Owned, Places, Kind
<1>2. /\ Q[p] = l /\ C[p] = b
      /\ \A q \in Proc \ {p} : Q[q] = P[q] /\ C[q] = B[q]
  BY <1>1
<1>3. /\ P[p] # "read"
      /\ \/ l # "read" /\ Still(S, T)
         \/ l = "read" /\ Fresh(S, T, P, B, D, K, p, b)
  BY NamesKind
<1>4. \A x : l # "read" \/ x # b => (Rd(Q, C, x) <=> Rd(P, B, x))
  BY <1>2, <1>3 DEF Rd
<1>5. CASE l # "read" /\ Still(S, T)
  <2>1. \A t \in Block : T.table[t] = S.table[t]
    BY <1>1, <1>5, StillTable
  <2> QED BY <1>4, <1>5, <2>1 DEF ViewOf, SamePages
<1>6. CASE l = "read" /\ Fresh(S, T, P, B, D, K, p, b)
  <2>1. TableExact(S) /\ TableExact(T)
    BY <1>1 DEF Good
  <2>2. \A t \in Block : S.table[t] \in Buffer \cup {NoBuffer}
                         /\ T.table[t] \in Buffer \cup {NoBuffer}
    BY <1>1 DEF Good, Pool
  <2>3. \A x \in Buffer \ {b} : T.tag[x] = S.tag[x] /\ Fl(T, x) = Fl(S, x)
    BY <1>6 DEF Fresh, Edit
  <2>4. Rd(Q, C, b) /\ ~Rd(P, B, b)
    BY <1>2, <1>6 DEF Rd, Fresh
  <2>5. T.table[T.tag[b]] = b
    BY <1>6, <2>1 DEF Fresh, TableExact, Fl
  <2>6. ASSUME NEW t \in Block
        PROVE  (IF T.table[t] # NoBuffer /\ ~Rd(Q, C, T.table[t])
                THEN D[T.table[t]] ELSE K[t])
             = (IF S.table[t] # NoBuffer /\ ~Rd(P, B, S.table[t])
                THEN D[S.table[t]] ELSE K[t])
    <3>1. CASE t = T.tag[b]
      BY <1>6, <2>4, <2>5, <3>1 DEF Fresh
    <3>2. CASE t # T.tag[b] /\ S.table[t] \in Buffer \ {b}
      <4>1. PICK y : y = S.table[t]
        OBVIOUS
      <4>2. y \in Buffer \ {b} /\ S.tag[y] = t /\ "DELETED" \notin Fl(S, y)
        BY <2>1, <3>2, <4>1, SlotFacts DEF TableExact, Fl
      <4>3. T.table[t] = y
        BY <2>1, <2>3, <4>2 DEF TableExact, Fl
      <4> QED BY <1>4, <4>1, <4>2, <4>3
    <3>3. CASE t # T.tag[b] /\ S.table[t] \notin Buffer \ {b}
      <4>1. T.table[t] = NoBuffer
        <5> SUFFICES ASSUME T.table[t] # NoBuffer PROVE FALSE
          OBVIOUS
        <5>1. PICK y : y = T.table[t]
          OBVIOUS
        <5>2. y \in Buffer \ {b} /\ T.tag[y] = t /\ "DELETED" \notin Fl(T, y)
          BY <2>1, <2>2, <3>3, <5>1 DEF TableExact, Fl
        <5>3. S.table[t] = y
          BY <2>1, <2>3, <5>2 DEF TableExact, Fl
        <5> QED BY <3>3, <5>2, <5>3
      <4>2. S.table[t] = b => D[b] = K[t]
        <5> HAVE S.table[t] = b
        <5>1. b \in Buffer /\ b # NoBuffer
          BY <1>6, SlotFacts DEF Fresh
        <5>2. S.tag[b] = t /\ "DELETED" \notin Fl(S, b)
          BY <2>1, <5>1 DEF TableExact, Fl
        <5> QED BY <1>6, <5>2 DEF Fresh
      <4>3. S.table[t] \in {NoBuffer, b}
        BY <2>2, <3>3
      <4> QED BY <2>4, <4>1, <4>2, <4>3
    <3> QED BY <3>1, <3>2, <3>3
  <2> QED BY <2>6 DEF ViewOf, SamePages
<1> QED BY <1>3, <1>5, <1>6

LEMMA EditsKind ==
  ASSUME Faults = {}, NEW S, NEW T, NEW P, NEW B, NEW D, NEW K,
         Cached(S, P, B), Unlost(S, P, B, D, K), NEW p \in Proc, NEW l, NEW b,
         Kind(S, T, P, B, p, l, b), NEW Q, NEW C,
         Q = [P EXCEPT ![p] = l], C = [B EXCEPT ![p] = b]
  PROVE  DoneBy(S, T, P, Q, B, C, p)
<1>1. P \in [Proc -> PC] /\ B \in [Proc -> Buffer \cup {NoBuffer}] /\ Places(S, P, B)
  BY DEF Cached, Owned, Places
<1>2. /\ Q[p] = l /\ C[p] = b
      /\ \A q \in Proc \ {p} : Q[q] = P[q] /\ C[q] = B[q]
  BY <1>1
<1>3. /\ l # "modified"
      /\ Still(S, T) \/ Fresh(S, T, P, B, D, K, p, b)
  BY NamesKind
<1>4. ASSUME NEW q \in Proc \ {p}, P[q] = "modified" PROVE T.tag[B[q]] = S.tag[B[q]]
  <2>1. B[q] \in Buffer /\ Pinned(S, q, B[q])
    BY <1>1, <1>4 DEF Places, WithBuffer, PC
  <2> QED BY <1>3, <2>1 DEF Still, Fresh, Edit
<1>5. ASSUME NEW q \in Proc
      PROVE  (IF Q[q] = "modified" THEN T.tag[C[q]] ELSE NoBlock)
               = [EditsOf(S, P, B) EXCEPT ![p] = NoBlock][q]
  <2>1. CASE q = p
    BY <1>2, <1>3, <2>1 DEF EditsOf
  <2>2. CASE q # p
    BY <1>2, <1>4, <2>2 DEF EditsOf
  <2> QED BY <2>1, <2>2
<1> QED BY <1>5 DEF EditsOf, DoneBy

LEMMA SeenKind ==
  ASSUME Faults = {}, NEW S, NEW T, NEW P, NEW B, NEW D, NEW K, Good(S),
         Cached(S, P, B), Unlost(S, P, B, D, K), NEW p \in Proc, NEW l, NEW b,
         Kind(S, T, P, B, p, l, b), NEW Q, NEW C,
         Q = [P EXCEPT ![p] = l], C = [B EXCEPT ![p] = b]
  PROVE  Seen(S, T, P, Q, B, C, D, K, p)
BY ViewKind, EditsKind DEF Seen

\* What the step of p is to the users of the pool: nothing, or the report of
\* a change p made.
Shows(p) ==
  /\ View' = View /\ nblocks' = nblocks
  /\ Editing' = [Editing EXCEPT ![p] = NoBlock]

LEMMA ShowsMaps ==
  ASSUME NEW p \in Proc, Shows(p)
  PROVE  [Abstract!Next]_<<View, nblocks, Editing>>
<1>1. Editing = [q \in Proc |-> Editing[q]]
  BY DEF Editing
<1>2. CASE Editing[p] = NoBlock
  <2>1. Editing' = Editing
    BY <1>1, <1>2 DEF Shows
  <2> QED BY <2>1 DEF Shows
<1>3. CASE Editing[p] # NoBlock
  <2>1. Abstract!Report(p)
    BY <1>3 DEF Shows, Abstract!Report
  <2> QED BY <2>1 DEF Abstract!Next
<1> QED BY <1>2, <1>3

LEMMA ViewIs ==
  /\ View = ViewOf(pool, pc, buf, data, disk) /\ Editing = EditsOf(pool, pc, buf)
  /\ View' = ViewOf(pool', pc', buf', data', disk')
  /\ Editing' = EditsOf(pool', pc', buf')
BY DEF View, ViewOf, Reading, Rd, Editing, EditsOf

LEMMA KindsMap ==
  ASSUME Faults = {}, "drop" \notin Calls, StoreInv, NEW p \in Proc,
         UNCHANGED <<data, disk, nblocks>>,
         \/ GoesOn(pool, pc, buf, p)
         \/ \E T, m : /\ Kind(pool, T, pc, buf, p, m, NoBuffer)
                      /\ GoesOn(T, [pc EXCEPT ![p] = m],
                                [buf EXCEPT ![p] = NoBuffer], p)
  PROVE  [Abstract!Next]_<<View, nblocks, Editing>>
<1>0. Cached(pool, pc, buf) /\ Good(pool) /\ Unlost(pool, pc, buf, data, disk)
  BY InvFacts DEF StoreInv, LiveInv, IOInv, IOState, Cached
<1>3. pc \in [Proc -> PC] /\ buf \in [Proc -> Buffer \cup {NoBuffer}]
  BY DEF StoreInv, LiveInv, IOInv, IInv, TypeOK
<1>1. CASE GoesOn(pool, pc, buf, p)
  <2>1. PICK l, b : Kind(pool, pool', pc, buf, p, l, b) /\ Goes(p, l, b)
    BY <1>1 DEF GoesOn
  <2>2. Seen(pool, pool', pc, pc', buf, buf', data, disk, p)
    BY <1>0, <2>1, SeenKind DEF Goes
  <2>4. Shows(p)
    BY <2>2, ViewIs DEF Seen, SamePages, DoneBy, Shows
  <2> QED BY <2>4, ShowsMaps
<1>2. ASSUME NEW T, NEW m, Kind(pool, T, pc, buf, p, m, NoBuffer),
             GoesOn(T, [pc EXCEPT ![p] = m], [buf EXCEPT ![p] = NoBuffer], p)
      PROVE  [Abstract!Next]_<<View, nblocks, Editing>>
  <2>1. PICK Q : Q = [pc EXCEPT ![p] = m]
    OBVIOUS
  <2>2. PICK C : C = [buf EXCEPT ![p] = NoBuffer]
    OBVIOUS
  <2>3. PICK l, b : Kind(T, pool', Q, C, p, l, b) /\ Goes(p, l, b)
    BY <1>2, <2>1, <2>2 DEF GoesOn
  <2>4. Cached(T, Q, C) /\ Unlost(T, Q, C, data, disk) /\ Good(T)
    BY <1>0, <1>2, <2>1, <2>2, CachedKind, UnlostKind DEF Kind
  <2>5. Seen(pool, T, pc, Q, buf, C, data, disk, p)
    BY <1>0, <1>2, <2>1, <2>2, SeenKind
  <2>6. [Q EXCEPT ![p] = l] = pc' /\ [C EXCEPT ![p] = b] = buf'
    BY <1>3, <2>1, <2>2, <2>3, TwoSteps, TwoBuffers DEF Goes
  <2>7. Seen(T, pool', Q, pc', C, buf', data, disk, p)
    BY <2>3, <2>4, <2>6, SeenKind
  <2>8. View' = View
    BY <2>5, <2>7, ViewIs DEF Seen, SamePages, DoneBy
  <2>9. Editing' = [[Editing EXCEPT ![p] = NoBlock] EXCEPT ![p] = NoBlock]
    BY <2>5, <2>7, ViewIs DEF Seen, SamePages, DoneBy
  <2>10. Shows(p)
    BY <2>8, <2>9 DEF Shows, Editing
  <2> QED BY <2>10, ShowsMaps
<1> QED BY <1>1, <1>2

LEMMA IOMaps ==
  ASSUME Faults = {}, StoreInv, NEW p \in Proc, NEW l \in PC,
         NEW b \in Buffer \cup {NoBuffer}, NEW x \in Buffer,
         Touches(p, l, b, x), pool.priv[p][x] > 0
  PROVE  [Abstract!Next]_<<View, nblocks, Editing>>
<1>0. /\ pc \in [Proc -> PC] /\ buf \in [Proc -> Buffer \cup {NoBuffer}]
      /\ data \in [Buffer -> Data] /\ disk \in [Block -> Data]
      /\ pool \in Pool /\ TableExact(pool) /\ LiveInv
  BY DEF StoreInv, LiveInv, IOInv, IInv, TypeOK, PoolInv
<1>1. /\ pool' = pool /\ pc'[p] = l /\ buf'[p] = b
      /\ \A q \in Proc \ {p} : pc'[q] = pc[q] /\ buf'[q] = buf[q]
  BY <1>0 DEF Touches, Goes
<1>2. PICK s : s = pool.tag[x]
  OBVIOUS
<1>3. pc[p] \notin Waiting /\ l # "read" /\ pc[p] # "modified"
      /\ (pc[p] = "read" => buf[p] = x)
  BY DEF Touches, Changes, Loads, Grows, Stores, Waiting
<1>4. /\ s \in Block /\ pool.table[s] = x
      /\ \A r \in Proc \ {p} : ~(buf[r] = x /\ pc[r] = "read")
  BY <1>0, <1>2, <1>3, InHand
<1>5. /\ ~Rd(pc', buf', x)
      /\ Rd(pc, buf, x) <=> pc[p] = "read"
      /\ \A y : y # x => (Rd(pc', buf', y) <=> Rd(pc, buf, y))
  BY <1>1, <1>3, <1>4 DEF Rd
<1>6. /\ \A y \in Buffer \ {x} : data'[y] = data[y]
      /\ \A t \in Block \ {s} : disk'[t] = disk[t]
  BY <1>0, <1>2, <1>4 DEF Touches, Changes, Loads, Grows, Stores
<1>7. ASSUME NEW t \in Block \ {s} PROVE View'[t] = View[t]
  <2>1. pool.table[t] # x /\ pool.table[t] \in Buffer \cup {NoBuffer}
    BY <1>0, <1>2, SlotFacts DEF TableExact, Pool
  <2> QED BY <1>1, <1>5, <1>6, <2>1, ViewIs DEF ViewOf
<1>8. View'[s] = data'[x] /\ View[s] = (IF pc[p] = "read" THEN disk[s] ELSE data[x])
  BY <1>1, <1>4, <1>5, SlotFacts, ViewIs DEF ViewOf
<1>9. View = [t \in Block |-> View[t]] /\ View' = [t \in Block |-> View'[t]]
  BY ViewIs DEF ViewOf
<1>10. \A v : View'[s] = v => View' = [View EXCEPT ![s] = v]
  BY <1>4, <1>7, <1>9
<1>11. Editing = [q \in Proc |-> Editing[q]] /\ Editing' = [q \in Proc |-> Editing'[q]]
       /\ Editing[p] = NoBlock
  BY <1>3 DEF Editing
<1>12. \A q \in Proc \ {p} : Editing'[q] = Editing[q]
  BY <1>1 DEF Editing
<1>13. l # "modified" => Editing' = Editing
  <2>1. l # "modified" => Editing'[p] = NoBlock
    BY <1>1 DEF Editing
  <2> QED BY <1>11, <1>12, <2>1
<1>14. ASSUME NEW v \in Data, b = x, Changes(p, l, x, v)
       PROVE  Abstract!Next
  <2>1. View' = [View EXCEPT ![s] = v]
    BY <1>0, <1>8, <1>10, <1>14 DEF Changes
  <2>2. Editing'[p] = s
    BY <1>1, <1>2, <1>14 DEF Editing, Changes
  <2>3. Editing' = [Editing EXCEPT ![p] = s]
    BY <1>11, <1>12, <2>2
  <2>4. s < nblocks /\ nblocks' = nblocks
    <3>1. nblocks \in Nat
      BY DEF StoreInv, LiveInv, IOInv, IInv, TypeOK
    <3> QED BY <1>2, <1>14, <3>1 DEF Changes
  <2>5. Abstract!Change(p, s, v)
    BY <1>11, <2>1, <2>3, <2>4 DEF Abstract!Change
  <2>6. s \in Abstract!Block
    BY <1>4 DEF Abstract!Block, Block
  <2> QED BY <2>5, <2>6 DEF Abstract!Next
<1>15. CASE Loads(p, l, x)
  <2>1. View'[s] = View[s] /\ l # "modified" /\ nblocks' = nblocks
    BY <1>0, <1>2, <1>8, <1>15 DEF Loads
  <2>2. View' = View
    BY <1>7, <1>9, <2>1
  <2> QED BY <1>13, <2>1, <2>2
<1>16. CASE Grows(p, l, x)
  <2>1. s = nblocks /\ View'[s] = Zero /\ l # "modified" /\ nblocks' = nblocks + 1
    BY <1>0, <1>2, <1>8, <1>16 DEF Grows
  <2>2. nblocks < MaxBlock
    BY <1>4, <2>1, ConstantsAssumption DEF Block
  <2>3. Abstract!Extend
    BY <1>10, <1>13, <2>1, <2>2 DEF Abstract!Extend
  <2> QED BY <2>3 DEF Abstract!Next
<1>17. CASE Stores(p, l, x)
  <2>1. View'[s] = View[s] /\ l # "modified" /\ nblocks' = nblocks
    BY <1>0, <1>2, <1>8, <1>17 DEF Stores
  <2>2. View' = View
    BY <1>7, <1>9, <2>1
  <2> QED BY <1>13, <2>1, <2>2
<1> QED BY <1>14, <1>15, <1>16, <1>17 DEF Touches

LEMMA InitMaps == Init => Abstract!Init
<1> SUFFICES ASSUME Init PROVE Abstract!Init
  OBVIOUS
<1>1. View = [t \in Block |-> Zero]
  BY DEF Init, InitPool, View
<1>2. Editing = [p \in Proc |-> NoBlock]
  BY DEF Init, Editing
<1> QED BY <1>1, <1>2 DEF Abstract!Init, Abstract!Block, Block, Init

LEMMA NextMaps ==
  ASSUME Faults = {}, "drop" \notin Calls
  PROVE  StoreInv /\ [Next]_vars => [Abstract!Next]_<<View, nblocks, Editing>>
<1> SUFFICES ASSUME StoreInv, [Next]_vars
             PROVE  [Abstract!Next]_<<View, nblocks, Editing>>
  OBVIOUS
<1>1. CASE UNCHANGED vars
  BY <1>1 DEF vars, View, Editing, Reading
<1>2. ASSUME NEW p \in Proc, Call(p) \/ Progress(p)
      PROVE  [Abstract!Next]_<<View, nblocks, Editing>>
  <2>1. IInv /\ OneExtends
    BY DEF StoreInv, LiveInv, IOInv
  <2>2. Decomposed(p)
    BY <1>2, <2>1, Decompose
  <2>3. CASE UNCHANGED <<pool, pc, buf, data, disk, nblocks>>
    BY <2>3 DEF View, Editing, Reading
  <2>4. CASE IOAction(p)
    BY <2>1, <2>4, IOTouches, IOMaps
  <2> QED BY <2>2, <2>3, <2>4, KindsMap, Zenon DEF Decomposed
<1> QED BY <1>1, <1>2 DEF Next

\* To the backends the pool is the plain array of pages of BlockStore, while no
\* I/O fails, callers take turns extending, and the database is not being
\* destroyed: caching, eviction, write-back, races for a block and for a victim
\* show in no page, and a page changes only where its user changes it
\* (ReadBuffer, BufferAlloc, WriteBuffer, FlushBuffer, BufferSync).
THEOREM PoolIsTransparent ==
  Faults = {} /\ ExtendLock /\ "drop" \notin Calls => (Spec => Transparent)
<1> SUFFICES ASSUME Faults = {}, ExtendLock, "drop" \notin Calls
             PROVE  Spec => Transparent
  OBVIOUS
<1>1. StoreInv /\ [Next]_vars => [Abstract!Next]_<<View, nblocks, Editing>>
  BY NextMaps
<1>2. Spec => []StoreInv
  BY StoreInvariance
<1> QED BY <1>1, <1>2, InitMaps, PTL DEF Spec, Transparent, Abstract!Spec
=============================================================================
