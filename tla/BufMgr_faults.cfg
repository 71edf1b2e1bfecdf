CONSTANTS
  Proc = {p1, p2}
  NoProc = nobody
  NBuffers = 2
  MaxBlock = 3
  InitBlocks = 1
  Data = {z}
  Zero = z
  Faults = {"read", "write"}
  Calls = {"read", "new", "swap", "incr", "release", "write", "flush", "level", "reset", "drop"}
  ExtendLock = FALSE
  MaxHeld = 2
  MaxPin = 2
SPECIFICATION Spec
SYMMETRY Symmetry
INVARIANT TypeOK
INVARIANT PoolInv
INVARIANT FreeListWhole
INVARIANT RequestKept
INVARIANT VictimUnchanged
