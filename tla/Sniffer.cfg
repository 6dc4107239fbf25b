SPECIFICATION FairSpec
CONSTANTS
  Capacity = 15
  FrameLens = {1, 4}
  MaxFrames = 4
  Workers = {w1, w2}
  Controllers = {c1}
  NoThread = none
  DrainCap = 16
  SaveCap = 8
  MaxBatch = 2
INVARIANTS
  TypeOK
  OneWorker
  RunningTellsWorker
  TotalIsAccepted
PROPERTIES
  ResetWhenQuiet
  
  StopReturns
