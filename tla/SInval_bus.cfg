CONSTANTS
  Backend = {b1, b2, b3, b4}
  NoTag = notag
  Msg = {m1, m2}
  MaxBackendId = 3
  MaxMessages = 2
  Reset = reset
  MaxCrash = 1
SPECIFICATION Spec
SYMMETRY Symmetry
INVARIANT TypeOK
INVARIANT SlotOwned
INVARIANT ChainsWhole
PROPERTY Delivers
