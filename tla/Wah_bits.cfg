CONSTANTS
  MAXBITS = 3
  MaxBits = 10
  MaxRuns = 2
SPECIFICATION Spec
VIEW View
INVARIANT CountsAgree
INVARIANT Canonical
INVARIANT CombinesRight
PROPERTY LikeBits
