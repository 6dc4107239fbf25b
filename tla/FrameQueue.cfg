SPECIFICATION Spec
CONSTANTS
  Capacity = 15
  HdrLen = 4
  FrameLens = {1, 2, 11}
  MaxFrames = 6
INVARIANTS
  TypeOK
  WithinCapacity
  Accounted
  NoGaps
  Contiguous
