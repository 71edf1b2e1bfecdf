----------------------------- MODULE PageLayout -----------------------------
(***************************************************************************)
(* The layout of a disk page (include/storage/bufpage.h,                   *)
(* backend/storage/page/bufpage.c): line pointers grow up from the header, *)
(* items grow down from the special space.                                 *)
(*                                                                         *)
(* Sizes are counted in line pointers: sizeof(ItemIdData) is 1, and so     *)
(* sizeof(double) is 2 and the header without pd_linp is 2.  A page is     *)
(*   linp     the line pointers below pd_lower, each [off, len, used],     *)
(*   upper    pd_upper,                                                    *)
(*   special  pd_special,                                                  *)
(*   data     what is stored at each offset.                               *)
(* A unit of an item is <<item, k>>.  Space that no used line pointer      *)
(* leads to holds Junk: PageInit does not clear a page, and nothing clears *)
(* what an item leaves behind.                                             *)
(***************************************************************************)
EXTENDS Integers, Sequences, SequencesExt

CONSTANTS
  PageSize,      \* BLCKSZ
  SpecialSize,   \* size of the special space asked for
  Junk           \* an unspecified unit

ASSUME PageAssumption ==
  /\ PageSize \in Nat /\ SpecialSize \in Nat
  /\ PageSize % 2 = 0
  /\ SpecialSize + 2 < PageSize

HeaderSize == 2
InvalidOffsetNumber == 0

DOUBLEALIGN(n) == ((n + 1) \div 2) * 2

\* The item of x whose size is n.
Image(x, n) == [k \in 1 .. n |-> <<x, k>>]

Lower(pg) == HeaderSize + Len(pg.linp)
PageGetMaxOffsetNumber(pg) == Len(pg.linp)
Allocated(lp) == lp.used \/ lp.len # 0
PageGetItem(pg, i) == SubSeq(pg.data, pg.linp[i].off + 1,
                             pg.linp[i].off + pg.linp[i].len)

\* What is stored at offset a is data[a + 1].
Store(data, a, c) ==
  [i \in DOMAIN data |->
     IF a < i /\ i <= a + Len(c) THEN c[i - a] ELSE data[i]]

memmove(data, to, from, n) ==
  Store(data, to, SubSeq(data, from + 1, from + n))

Wiped(pg) ==
  [pg EXCEPT !.data = [i \in DOMAIN pg.data |->
     IF \E l \in DOMAIN pg.linp :
          /\ pg.linp[l].used
          /\ pg.linp[l].off < i /\ i <= pg.linp[l].off + pg.linp[l].len
     THEN pg.data[i] ELSE Junk]]

-----------------------------------------------------------------------------
PageInit(specialSize) ==
  LET end == PageSize - DOUBLEALIGN(specialSize)
  IN  [linp |-> <<>>, upper |-> end, special |-> end,
       data |-> [i \in 1 .. PageSize |-> Junk]]

\* Mutant: the line pointer of the next item is forgotten.
PageGetFreeSpace_Mutant(pg) ==
  LET space == pg.upper - Lower(pg)
  IN  IF space < 1 THEN 0 ELSE space

PageGetFreeSpace(pg) ==
  LET space == pg.upper - Lower(pg)
  IN  IF space < 1 THEN 0 ELSE space - 1

-----------------------------------------------------------------------------
(* PageAddItem(pg, shuffle, x, n, at, above): the item of x of size n at   *)
(* offset number at, or anywhere if that is InvalidOffsetNumber; above are *)
(* the line pointers that memory from pd_lower on happens to look like.    *)
(* The result is the page and the offset number returned.                  *)

\* The first line pointer that is unused and deallocated, or a new one.
Recyclable(pg) ==
  Min({i \in DOMAIN pg.linp : ~ Allocated(pg.linp[i])}
      \cup {Len(pg.linp) + 1})

\* What the shuffle leaves of the line pointers below pd_lower.
Shuffled(linp, at) ==
  [i \in DOMAIN linp |-> IF i <= at THEN linp[i] ELSE linp[i - 1]]

\* Offset numbers that an addition beyond the next one skips keep what they
\* look like, now below pd_lower.
PageAddItem(pg, shuffle, x, n, at, above) ==
  LET limit == Len(pg.linp) + 1
      i == IF at = InvalidOffsetNumber THEN Recyclable(pg) ELSE at
      shuffled == at # InvalidOffsetNumber /\ shuffle
      taken == /\ at # InvalidOffsetNumber /\ ~ shuffle
               /\ Allocated((pg.linp \o above)[at])
      lower == IF i > limit THEN HeaderSize + i
               ELSE Lower(pg) + (IF i = limit \/ shuffled THEN 1 ELSE 0)
      upper == pg.upper - DOUBLEALIGN(n)
      lp == [off |-> upper, len |-> n, used |-> TRUE]
      skipped == SubSeq(above, 1, i - limit)
  IN  IF taken \/ lower > upper
      THEN [page |-> IF shuffled
                     THEN Wiped([pg EXCEPT !.linp = Shuffled(@, at)])
                     ELSE pg,
            ret |-> InvalidOffsetNumber]
      ELSE [page |-> [pg EXCEPT !.linp = IF i >= limit
                                         THEN Append(@ \o skipped, lp)
                                         ELSE IF shuffled THEN InsertAt(@, i, lp)
                                         ELSE ReplaceAt(@, i, lp),
                                !.upper = upper,
                                !.data = Store(@, upper, Image(x, n))],
            ret |-> i]

-----------------------------------------------------------------------------
(* PageRepairFragmentation.                                                *)

\* The next item goes below the ones already moved.
MoveUp(pg, l) ==
  LET upper == pg.upper - DOUBLEALIGN(pg.linp[l].len)
  IN  [pg EXCEPT !.data = memmove(@, upper, pg.linp[l].off, pg.linp[l].len),
                 !.linp[l].off = upper,
                 !.upper = upper]

\* A line pointer without an item; its lp_off, which nothing reads, is 0.
Deallocated == [off |-> 0, len |-> 0, used |-> FALSE]

\* Mutant: itemidcompare sorts in the other direction.
PageRepairFragmentation_Mutant(pg) ==
  LET used == {l \in DOMAIN pg.linp : pg.linp[l].used}
      order == SetToSortSeq(used,
                 LAMBDA l, m : pg.linp[l].off < pg.linp[m].off)
      start == [pg EXCEPT !.upper = pg.special,
                          !.linp = [l \in DOMAIN @ |->
                             IF l \in used THEN @[l] ELSE Deallocated]]
  IN  Wiped(FoldLeft(MoveUp, start, order))

PageRepairFragmentation(pg) ==
  LET used == {l \in DOMAIN pg.linp : pg.linp[l].used}
      order == SetToSortSeq(used,
                 LAMBDA l, m : pg.linp[l].off > pg.linp[m].off)
      start == [pg EXCEPT !.upper = pg.special,
                          !.linp = [l \in DOMAIN @ |->
                             IF l \in used THEN @[l] ELSE Deallocated]]
  IN  Wiped(FoldLeft(MoveUp, start, order))

-----------------------------------------------------------------------------
(* PageIndexTupleDelete.                                                   *)

\* (lp_off of a line pointer without an item, which the loop moves too, is
\* read by nothing and kept at 0.)
PageIndexTupleDeleteAdjustLinePointers(linp, location, size) ==
  [l \in DOMAIN linp |->
     IF Allocated(linp[l]) /\ linp[l].off <= location
     THEN [linp[l] EXCEPT !.off = @ + size] ELSE linp[l]]

\* Mutant: the size of the deleted item is not aligned.
PageIndexTupleDelete_Mutant(pg, offnum) ==
  LET size == pg.linp[offnum].len
      locn == pg.linp[offnum].off
  IN  Wiped([pg EXCEPT
               !.linp = PageIndexTupleDeleteAdjustLinePointers(
                          RemoveAt(@, offnum), locn, size),
               !.data = memmove(@, pg.upper + size, pg.upper, locn - pg.upper),
               !.upper = @ + size])

PageIndexTupleDelete(pg, offnum) ==
  LET size == DOUBLEALIGN(pg.linp[offnum].len)
      locn == pg.linp[offnum].off
  IN  Wiped([pg EXCEPT
               !.linp = PageIndexTupleDeleteAdjustLinePointers(
                          RemoveAt(@, offnum), locn, size),
               !.data = memmove(@, pg.upper + size, pg.upper, locn - pg.upper),
               !.upper = @ + size])
=============================================================================
