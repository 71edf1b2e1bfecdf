CONSTANTS
  Proc = {p1, p2, p3}
  NoProc = nobody
  NBuffers = 2
  MaxBlock = 3
  InitBlocks = 3
  Data = {z}
  Zero = z
  Faults = {"write"}
  Calls = {"read", "write", "sync"}
  ExtendLock = FALSE
  MaxHeld = 3
  MaxPin = 1
SPECIFICATION FairSpec
CHECK_DEADLOCK FALSE
INVARIANT KeptOnlyWhenFull
PROPERTY WaitersWake
