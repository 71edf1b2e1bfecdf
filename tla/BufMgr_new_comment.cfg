CONSTANTS
  Proc = {p1, p2}
  NoProc = nobody
  NBuffers = 2
  MaxBlock = 3
  InitBlocks = 1
  Data = {z, a}
  Zero = z
  Faults = {}
  Calls = {"new", "release", "write"}
  ExtendLock = FALSE
  MaxHeld = 2
  MaxPin = 2
SPECIFICATION Spec
INVARIANT NewBlockIsNew
