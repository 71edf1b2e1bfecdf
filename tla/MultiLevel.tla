----------------------------- MODULE MultiLevel -----------------------------
(***************************************************************************)
(* The types of the multi-level lock table (backend/storage/lmgr/multi.c,  *)
(* include/storage/multilev.h) and which of them conflict.                 *)
(***************************************************************************)
EXTENDS Naturals

WRITE_LOCK == 1
READ_LOCK == 2
WRITE_INTENT == 3
READ_INTENT == 4
EXTEND_LOCK == 5

LockTypes == 1 .. 5

MultiConflicts ==
  [k \in LockTypes |->
     CASE k = WRITE_LOCK   -> {WRITE_LOCK, WRITE_INTENT, READ_LOCK, READ_INTENT}
       [] k = READ_LOCK    -> {WRITE_LOCK, WRITE_INTENT}
       [] k = WRITE_INTENT -> {READ_LOCK, WRITE_LOCK}
       [] k = READ_INTENT  -> {WRITE_LOCK}
       [] k = EXTEND_LOCK  -> {EXTEND_LOCK}]

\* Writers first.
MultiPrios == [k \in LockTypes |-> IF k \in {WRITE_LOCK, WRITE_INTENT} THEN 2 ELSE 1]
=============================================================================
