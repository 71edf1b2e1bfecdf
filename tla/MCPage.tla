------------------------------- MODULE MCPage -------------------------------
(* Page on small instances.                                                *)
EXTENDS Page

\* No action reads call, and Slots constrains its next value only: states that
\* differ in it need not be told apart.
View == <<page, shuffle, spoilt>>
=============================================================================
