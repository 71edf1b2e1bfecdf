-------------------------------- MODULE MCWah --------------------------------
(* Wah on small instances.                                                 *)
EXTENDS Wah

\* No action reads call, and Bits constrains its next value only: states that
\* differ in it need not be told apart.
View == bmp
=============================================================================
