CONSTANTS
  Proc = {p1, p2, p3}
  NoProc = nobody
  Tag = {t1}
  NoTag = notag
  LockT <- LockTypes
  ConflictTab <- MultiConflicts
  Prio <- MultiPrios
  Asked <- WriteOnly
  MaxHold = 2
  MaxTimeout = 0
SPECIFICATION FairSpec
PROPERTY WaitersServed
