CONSTANTS
  Proc = {p1, p2}
  Block = {b1}
  Tuple = {t1, t2}
  Rel = rel
  TupleLevelLockLimit = 1
  AtOpen = TRUE
  MaxHold = 2
SPECIFICATION Spec
SYMMETRY Symmetry
CHECK_DEADLOCK FALSE
INVARIANT LevelsExclude
INVARIANT ReadsLocked
