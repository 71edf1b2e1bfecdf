-------------------------------- MODULE MCMd --------------------------------
(* Md on small instances.                                                  *)
EXTENDS Md, TLC

Symmetry == Permutations(Proc)

\* No action reads call or out, and Relations constrains their next values
\* only: states that differ in them need not be told apart.
View == <<file, vec, fdOf, wrote, ext>>
=============================================================================
