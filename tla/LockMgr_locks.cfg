CONSTANTS
  Proc = {p1, p2, p3}
  NoProc = nobody
  Tag = {t1, t2}
  NoTag = notag
  LockT <- LockTypes
  ConflictTab <- MultiConflicts
  Prio <- MultiPrios
  Asked <- Intents
  MaxHold = 2
  MaxTimeout = 1
SPECIFICATION Spec
SYMMETRY Symmetry
CHECK_DEADLOCK FALSE
INVARIANT TypeOK
INVARIANT NoConflict
INVARIANT CountsAgree
INVARIANT SleepersKnown
INVARIANT FirstIsBlocked
