----------------------------- MODULE BlockStore -----------------------------
(***************************************************************************)
(* What a relation looks like to the backends that use it through the      *)
(* buffer manager: an array of pages.  A page changes only when a backend  *)
(* sets out to change it, and the array grows by one zero page at a time.  *)
(* Caching, eviction and write-back are invisible.                         *)
(***************************************************************************)
EXTENDS Integers

CONSTANTS Proc,        \* the backends
          MaxBlock,    \* bound on the length of the relation
          InitBlocks,  \* length at the start
          NoBlock,     \* no block
          Data, Zero   \* page contents, and the zero page

VARIABLES store,       \* the page of every block, zero beyond the end
          nblocks,     \* the length
          editing      \* the block each backend is in the middle of changing

Block == 0 .. MaxBlock - 1

Init == /\ store = [t \in Block |-> Zero]
        /\ nblocks = InitBlocks
        /\ editing = [p \in Proc |-> NoBlock]

\* A backend puts v in page t, and reports the change later: Report.
Change(p, t, v) == /\ editing[p] = NoBlock /\ t < nblocks
                   /\ store' = [store EXCEPT ![t] = v]
                   /\ editing' = [editing EXCEPT ![p] = t]
                   /\ UNCHANGED nblocks

Report(p) == /\ editing[p] # NoBlock
             /\ editing' = [editing EXCEPT ![p] = NoBlock]
             /\ UNCHANGED <<store, nblocks>>

Extend == /\ nblocks < MaxBlock
          /\ store' = [store EXCEPT ![nblocks] = Zero]
          /\ nblocks' = nblocks + 1
          /\ UNCHANGED editing

Next == \/ Extend
        \/ \E p \in Proc : \/ Report(p)
                            \/ \E t \in Block, v \in Data : Change(p, t, v)

Spec == Init /\ [][Next]_<<store, nblocks, editing>>
=============================================================================
