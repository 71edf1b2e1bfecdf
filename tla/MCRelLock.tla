------------------------------ MODULE MCRelLock ------------------------------
(* RelLock on small instances.                                             *)
EXTENDS RelLock, TLC

Symmetry == Permutations(Proc) \cup Permutations(Tuple)
=============================================================================
