------------------------------- MODULE MCVfd --------------------------------
(* Vfd on small instances.                                                 *)
EXTENDS Vfd

\* No action reads call or out, and Files constrains their next values only:
\* states that differ in them need not be told apart.
View == <<vfd, file, held>>
=============================================================================
