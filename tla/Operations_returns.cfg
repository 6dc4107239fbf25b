SPECIFICATION OperationsFairSpec
CONSTANTS
  Parts = {"walk", "view", "session"}
  Frames <- MCFrames
  Radix = 256
  Parsers = {"diag", "qrtr", "qmux", "alloc"}
  W = 4
  B = 2
  Lte = {4, 5}
  Nr = {8}
  Paths = {"diag"}
  CallKinds = {"put"}
  Errnos = {5}
  MaxCalls = 0
  MaxLogs = 0
  Gated = {"start"}
  Free = {"open"}
  MayThrow = TRUE
  MaxFrames = 1
  MaxOther = 0
  MaxDeaths = 0
  MaxTaps = 3
PROPERTIES
  EveryWalkReturns
  ButtonsReturn
  GetsConnected
CHECK_DEADLOCK FALSE
