CONSTANTS
  Proc = {p1}
  Name = {n1}
  Page = {x1}
  Zero = zero
  Absent = absent
  Ok = ok
  Fail = fail
  Eof = eof
  PgNofile = 2
  OsMax = 2
  MaxVfd = 4
  MaxLen = 1
  MaxFreeFd = 2
CHECK_DEADLOCK FALSE
SPECIFICATION Spec
VIEW View
INVARIANT RingWhole
INVARIANT SlotsOwned
INVARIANT DescriptorsBounded
INVARIANT WritesTracked
PROPERTY LikeOpenFiles
