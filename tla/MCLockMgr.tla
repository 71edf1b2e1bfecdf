----------------------------- MODULE MCLockMgr -----------------------------
(* LockMgr on small instances, with the types of the multi-level table.    *)
EXTENDS LockMgr, MultiLevel, TLC

ReadWrite == {READ_LOCK, WRITE_LOCK}
WriteOnly == {WRITE_LOCK}
Intents   == {READ_LOCK, WRITE_LOCK, WRITE_INTENT}

Symmetry == Permutations(Proc) \cup Permutations(Tag)
=============================================================================
