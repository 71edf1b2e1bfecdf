CONSTANTS
  Proc = {p1, p2}
  Rel = {r1}
  Page = {x1}
  Zero = zero
  Absent = absent
  Ok = ok
  Fail = fail
  ExtendLock = TRUE
  Faulty = {"extend", "write"}
  RelsegSize = 2
  MaxBlocks = 3
  MaxOpen = 2
SPECIFICATION Spec
SYMMETRY Symmetry
VIEW View
INVARIANT SegmentsFull
INVARIANT AnswersRight
INVARIANT CommitForces
PROPERTY LikeArrays
