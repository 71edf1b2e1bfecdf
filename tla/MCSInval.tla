------------------------------ MODULE MCSInval ------------------------------
(* SInval on small instances.                                              *)
EXTENDS SInval, TLC

Symmetry == Permutations(Backend) \cup Permutations(Msg)
=============================================================================
