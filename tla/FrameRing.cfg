SPECIFICATION Spec
CONSTANTS
  RingCap = 16
  Base = 2
  FrameLens = {1, 2, 11}
  DrainCaps = {6, 15}
  MaxFrames = 4
INVARIANTS
  TypeOK
  RingHoldsFrames
PROPERTIES
  DrainsOldestWhole
  ImplementsFrameQueue
