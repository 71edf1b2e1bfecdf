CONSTANTS
  Proc = {p1, p2}
  NoProc = nobody
  NBuffers = 2
  MaxBlock = 3
  InitBlocks = 2
  Data = {z, a}
  Zero = z
  Faults = {}
  Calls = {"read", "new", "with", "swap", "incr", "release", "write", "flush", "sync", "reset"}
  ExtendLock = TRUE
  MaxHeld = 2
  MaxPin = 2
SPECIFICATION Spec
SYMMETRY Symmetry
CHECK_DEADLOCK FALSE
INVARIANT IOExclusive
INVARIANT OneCopy
INVARIANT NothingLost
PROPERTY Transparent
