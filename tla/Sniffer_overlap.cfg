SPECIFICATION Spec
CONSTANTS
  Capacity = 15
  FrameLens = {1, 4}
  MaxFrames = 4
  Workers = {w1, w2, w3}
  Controllers = {c1, c2}
  NoThread = none
  DrainCap = 16
  SaveCap = 8
  MaxBatch = 2
INVARIANT OneWorker
