SPECIFICATION OperationsSpec
CONSTANTS
  Parts = {"walk", "bands", "calls", "view", "session"}
  Frames <- MCFrames
  Radix = 256
  Parsers = {"diag", "qrtr", "qmux", "alloc"}
  W = 4
  B = 2
  Lte = {4, 5}
  Nr = {8}
  Paths = {"diag", "qmux", "qrtr", "efs"}
  CallKinds = {"setBand", "put", "get", "unlink"}
  Errnos = {5, 7}
  MaxCalls = 2
  MaxLogs = 1
  Gated = {"start", "stop", "save"}
  Free = {}
  MayThrow = TRUE
  MaxFrames = 1
  MaxOther = 1
  MaxDeaths = 2
  MaxTaps = 3
INVARIANTS
  OperationsTypeOK
  InBounds
  FindsResult
  
  FsResultIsModems
  
  BusyClears
  SessionFollowsProcess
CHECK_DEADLOCK FALSE
