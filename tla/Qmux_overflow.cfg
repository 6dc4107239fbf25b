SPECIFICATION Spec
CONSTANTS
  Cids = {1, 2}
  Budget = 2
  MaxTxn = 4
  MaxQueue = 2
INVARIANT AtFrameBoundary
