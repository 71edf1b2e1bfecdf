------------------------------ MODULE MCBufMgr ------------------------------
(* BufMgr on small instances.                                              *)
EXTENDS BufMgr, TLC

Symmetry == Permutations(Proc)
=============================================================================
