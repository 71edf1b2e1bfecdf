-------------------------------- MODULE Page --------------------------------
(***************************************************************************)
(* One page and the calls of bufpage.c on it, in any order.                *)
(*                                                                         *)
(* Two calls leave line pointers that lead to no item of their own: an     *)
(* insertion that moves them and then finds no room, and an addition that  *)
(* skips offset numbers.  Of a page spoilt so nothing is asked until it is *)
(* initialised again: what the other calls do to it depends on what the    *)
(* stray pointers look like.                                               *)
(***************************************************************************)
EXTENDS PageLayout

CONSTANTS
  Item,         \* what may be stored
  MaxSize,      \* bound: size of an item
  MaxSkip,      \* bound: offset numbers a caller skips with a position
  Dead, Free    \* slots without a used item

ASSUME SkipAssumption == MaxSkip \in Nat

VARIABLES
  page,
  shuffle,  \* PageManagerShuffle
  spoilt,   \* whether a line pointer may lead nowhere
  call      \* the last call: its name, the offset number and the item it was
            \* given, and the offset number it returned

vars == <<page, shuffle, spoilt, call>>

Size == 1 .. MaxSize

Init ==
  /\ page = PageInit(SpecialSize)
  /\ shuffle = TRUE
  /\ spoilt = FALSE
  /\ call = [op |-> "init", at |-> 0, item |-> <<>>, ret |-> 0]

\* What memory from pd_lower on may look like to PageAddItem, which looks there
\* only for an offset number i that is not in use.
Unset == [l \in 1 .. MaxSkip + 1 |-> Deallocated]
Memory(i) ==
  IF i \in DOMAIN page.linp THEN {Unset}
  ELSE [1 .. MaxSkip + 1 -> {Deallocated} \cup
          [off : {0, page.special - 2}, len : {2}, used : {TRUE}]]

\* "It is assumed that there is room on the page to shuffle the ItemId's down
\* by one."
Room == Lower(page) < page.upper

\* PageAddItem with an item and an offset number leaves page and answer in r.
Added(op, x, n, i, r) ==
  /\ ~ spoilt
  /\ page' = r.page
  /\ spoilt' = IF r.ret = InvalidOffsetNumber THEN page' # page
               ELSE r.ret > PageGetMaxOffsetNumber(page) + 1
  /\ call' = [op |-> op, at |-> i, item |-> Image(x, n), ret |-> r.ret]
  /\ UNCHANGED shuffle

Add(x, n) ==
  Added("add", x, n, 0,
        PageAddItem(page, shuffle, x, n, InvalidOffsetNumber, Unset))

\* Insert in shuffle mode, overwrite in the other.
AddAt(x, n, i) ==
  /\ i <= PageGetMaxOffsetNumber(page) + 1 + MaxSkip
  /\ shuffle => Room
  /\ \E above \in Memory(i) :
       Added(IF shuffle THEN "insert" ELSE "overwrite", x, n, i,
             PageAddItem(page, shuffle, x, n, i, above))

\* A call about offset number i that always succeeds.
Does(op, i) == call' = [op |-> op, at |-> i, item |-> <<>>, ret |-> i]

PageManagerModeSet(mode) ==
  /\ shuffle' = (mode = "shuffle")
  /\ Does("mode", 0)
  /\ UNCHANGED <<page, spoilt>>

\* PageInit of a page that was in use.
Reinit ==
  /\ page' = PageInit(SpecialSize)
  /\ spoilt' = FALSE
  /\ Does("init", 0)
  /\ UNCHANGED shuffle

\* An access method clears LP_USED.
Kill(i) ==
  /\ ~ spoilt /\ page.linp[i].used
  /\ page' = Wiped([page EXCEPT !.linp[i].used = FALSE])
  /\ Does("kill", i)
  /\ UNCHANGED <<shuffle, spoilt>>

Repair ==
  /\ ~ spoilt
  /\ page' = PageRepairFragmentation(page)
  /\ Does("repair", 0)
  /\ UNCHANGED <<shuffle, spoilt>>

Delete(i) ==
  /\ ~ spoilt /\ Allocated(page.linp[i])
  /\ page' = PageIndexTupleDelete(page, i)
  /\ Does("delete", i)
  /\ UNCHANGED <<shuffle, spoilt>>

Next ==
  \/ \E mode \in {"shuffle", "overwrite"} : PageManagerModeSet(mode)
  \/ Repair \/ Reinit
  \/ \E i \in DOMAIN page.linp : Kill(i) \/ Delete(i)
  \/ \E x \in Item, n \in Size :
       Add(x, n) \/ \E i \in 1 .. PageSize : AddAt(x, n, i)

Spec == Init /\ [][Next]_vars

-----------------------------------------------------------------------------
(* Properties.                                                             *)

Unit == {Junk} \cup Item \X Size

TypeOK ==
  /\ {shuffle, spoilt} \subseteq BOOLEAN
  /\ \A l \in DOMAIN page.linp :
       page.linp[l] \in [off : 0 .. page.special - 1, len : 0 .. MaxSize,
                         used : BOOLEAN]
  /\ page.data \in [1 .. PageSize -> Unit]
  /\ page.upper \in HeaderSize .. page.special

Held == {l \in DOMAIN page.linp : Allocated(page.linp[l])}
Space(lp) == lp.off + 1 .. lp.off + DOUBLEALIGN(lp.len)

\* The items, used and dead, tile the space from pd_upper to the special
\* space: none overlaps another, a line pointer or the special space, and no
\* space is lost between them, after any sequence of additions, failing ones
\* too, deletions and compactions, so that pd_upper - pd_lower is all the free
\* space there is.  (A page that is spoilt is not tiled: bufpage.c:178, 201.)
Tiled ==
  /\ TypeOK
  /\ Lower(page) <= page.upper
  /\ ~ spoilt =>
       /\ UNION {Space(page.linp[l]) : l \in Held}
            = page.upper + 1 .. page.special
       /\ \A l, m \in Held :
            l # m => Space(page.linp[l]) \cap Space(page.linp[m]) = {}

\* A page whose PageGetFreeSpace is at least the aligned size of an item takes
\* the item, wherever it goes, if it is not to overwrite one: the check its
\* callers make before they insert (main.c:113) is enough.
RoomTaken ==
  \A x \in Item, n \in Size :
    DOUBLEALIGN(n) <= PageGetFreeSpace(page) =>
      \A i \in 0 .. PageGetMaxOffsetNumber(page) :
        (i = 0 \/ shuffle) =>
          PageAddItem(page, shuffle, x, n, i, Unset).ret
            # InvalidOffsetNumber

S == INSTANCE Slots WITH
       MaxAt <- PageSize, Content <- {Image(x, n) : x \in Item, n \in Size},
       slots <- [l \in DOMAIN page.linp |->
                   IF page.linp[l].used THEN PageGetItem(page, l)
                   ELSE IF page.linp[l].len # 0 THEN Dead ELSE Free]

\* A page is a list of slots: whatever is moved to close a gap or to make
\* room, every item that is used keeps its content and its place in the list;
\* PageAddItem puts the item it was given at the offset number it returns, and
\* without one (no room, or a line pointer in use) changes nothing, with one
\* exception: an insertion that has room for a line pointer, all that
\* PageAddItem asks (bufpage.c:147-149), and none for the item doubles the slot
\* at its position and loses the last (178-183, then 212-213).  An addition past
\* the next offset number leaves anything in those it skips (201-202).
LikeSlots == S!Spec
=============================================================================
